----------------------- MODULE ProducerWindowProofs -----------------------
(***************************************************************************)
(* The producer window is respected for every number of threads and        *)
(* producers, every window and every message size.                         *)
(*                                                                         *)
(* The bound on the outstanding bytes follows from two facts: the window   *)
(* counts at least what is outstanding, save the one message that its      *)
(* sender has still to charge (NeverUndercharged); and it never counts     *)
(* more than one message beyond the limit (UsageBounded).  Both hold       *)
(* because sendMutex is held from oneway to increaseUsage (MutexHeld), so  *)
(* that no two threads are between the test and the increase.              *)
(***************************************************************************)
EXTENDS ProducerWindow, TLAPS

\* Places of send between taking and releasing sendMutex.
Inside == {"send", "charge", "increase", "response"}

MutexHeld == \A t \in Threads : pc[t] \in Inside => sendMutex = t

UsageBounded == \A p \in Producers : usage[p] <= Limit - 1 + MaxSize

SpaceWhenIncreasing ==
    \A t \in Threads : pc[t] = "increase" => ~Full(message[t].producer)

BrokerMessages ==
    unacked \subseteq [id : Nat, producer : Producers, size : Sizes]

IInv ==
    /\ TypeOK
    /\ BrokerMessages
    /\ MutexHeld
    /\ UsageBounded
    /\ SpaceWhenIncreasing
    /\ NeverUndercharged

\* What decreaseUsage returns: a count that is not larger and that covers
\* what remains outstanding if it covered what was outstanding before.
LEMMA DecreasedProperties ==
    ASSUME NEW used \in Nat, NEW bytes \in Nat, NEW d \in Nat, NEW o \in Int,
           o <= used + d
    PROVE  /\ Decreased(used, bytes) \in Nat
           /\ Decreased(used, bytes) <= used
           /\ o - bytes <= Decreased(used, bytes) + d
BY DEF Decreased

\* The initial states satisfy the invariant.
LEMMA InitIInv == Init => IInv
<1> SUFFICES ASSUME Init PROVE IInv
    OBVIOUS
<1> USE WindowAssumption
<1>1. TypeOK
    BY DEF Init, TypeOK, Sizes, PC
<1>2. BrokerMessages /\ MutexHeld /\ SpaceWhenIncreasing
    BY DEF Init, BrokerMessages, MutexHeld, SpaceWhenIncreasing, Inside
<1>3. UsageBounded /\ NeverUndercharged
    BY DEF Init, UsageBounded, NeverUndercharged, Uncharged
<1> QED
    BY <1>1, <1>2, <1>3 DEF IInv

\* Every step preserves the invariant.
LEMMA NextIInv == IInv /\ [Next]_vars => IInv'
<1> SUFFICES ASSUME IInv, [Next]_vars PROVE IInv'
    OBVIOUS
<1> USE WindowAssumption
<1>a. TypeOK /\ BrokerMessages
    BY DEF IInv
<1>b. MutexHeld /\ UsageBounded /\ SpaceWhenIncreasing /\ NeverUndercharged
    BY DEF IInv
<1>1. ASSUME NEW t \in Threads, NEW p \in Producers, NEW size \in Sizes,
             NEW r \in BOOLEAN, Send(t, p, size, r)
      PROVE  IInv'
  <2> USE <1>1 DEF Send, Goto
  <2>1. TypeOK'
      BY <1>a DEF TypeOK, PC, windowVars, brokerVars
  <2>2. BrokerMessages' /\ MutexHeld' /\ UsageBounded'
      BY <1>a, <1>b DEF TypeOK, BrokerMessages, MutexHeld, UsageBounded, Inside,
                        windowVars, brokerVars
  <2>3. SpaceWhenIncreasing'
      BY <1>a, <1>b DEF TypeOK, SpaceWhenIncreasing, Full, windowVars
  <2>4. NeverUndercharged'
      BY <1>a, <1>b DEF TypeOK, NeverUndercharged, Uncharged, windowVars, brokerVars
  <2> QED BY <2>1, <2>2, <2>3, <2>4 DEF IInv
<1>2. ASSUME NEW t \in Threads, WaitForSpace(t) PROVE IInv'
  <2> USE <1>2 DEF WaitForSpace, Goto
  <2>1. TypeOK'
      BY <1>a DEF TypeOK, PC, windowVars, callVars, brokerVars
  <2>2. BrokerMessages' /\ MutexHeld' /\ UsageBounded'
      BY <1>a, <1>b DEF TypeOK, BrokerMessages, MutexHeld, UsageBounded, Inside,
                        windowVars, brokerVars
  <2>3. SpaceWhenIncreasing'
      BY <1>a, <1>b DEF TypeOK, SpaceWhenIncreasing, Full, windowVars, callVars
  <2>4. NeverUndercharged'
      BY <1>a, <1>b DEF TypeOK, NeverUndercharged, Uncharged, windowVars,
                        callVars, brokerVars
  <2> QED BY <2>1, <2>2, <2>3, <2>4 DEF IInv
<1>3. ASSUME NEW t \in Threads, LockSend(t) PROVE IInv'
  <2> USE <1>3 DEF LockSend, Goto
  <2>1. TypeOK'
      BY <1>a DEF TypeOK, PC, windowVars, callVars, brokerVars
  <2>2. BrokerMessages' /\ MutexHeld' /\ UsageBounded'
      BY <1>a, <1>b DEF TypeOK, BrokerMessages, MutexHeld, UsageBounded, Inside,
                        windowVars, brokerVars
  <2>3. SpaceWhenIncreasing'
      BY <1>a, <1>b DEF TypeOK, SpaceWhenIncreasing, Full, windowVars, callVars
  <2>4. NeverUndercharged'
      BY <1>a, <1>b DEF TypeOK, NeverUndercharged, Uncharged, windowVars,
                        callVars, brokerVars
  <2> QED BY <2>1, <2>2, <2>3, <2>4 DEF IInv
<1>4. ASSUME NEW t \in Threads, SendOneway(t) PROVE IInv'
  <2> DEFINE m == message[t]
  <2> USE <1>4 DEF SendOneway, Goto
  <2>0. /\ m \in [id : Nat, producer : Producers, size : Sizes]
        /\ m.size \in Nat
        /\ sendMutex = t
      BY <1>a, <1>b DEF TypeOK, Sizes, MutexHeld, Inside
  <2>1. TypeOK'
      BY <1>a, <2>0 DEF TypeOK, PC, windowVars, callVars
  <2>2. BrokerMessages' /\ MutexHeld' /\ UsageBounded'
      BY <1>a, <1>b, <2>0 DEF TypeOK, BrokerMessages, MutexHeld, UsageBounded,
                        Inside, windowVars
  <2>3. SpaceWhenIncreasing'
      BY <1>a, <1>b DEF TypeOK, SpaceWhenIncreasing, Full, windowVars, callVars
  <2>4. NeverUndercharged'
    <3> SUFFICES ASSUME NEW p \in Producers
                 PROVE  outstanding'[p] <= usage'[p] + Uncharged(p)'
        BY DEF NeverUndercharged
    <3>1. outstanding[p] <= usage[p] + 0
        BY <1>a, <1>b, <2>0 DEF NeverUndercharged, Uncharged
    <3>2. usage' = usage /\ usage[p] \in Nat /\ outstanding[p] \in Int
        BY <1>a DEF windowVars, TypeOK
    <3>3. CASE p = m.producer
      <4>1. Uncharged(p)' = m.size
          BY <1>a, <2>0, <3>3 DEF Uncharged, TypeOK, callVars
      <4>2. outstanding'[p] = outstanding[p] + m.size
          BY <1>a, <2>0, <3>3 DEF TypeOK
      <4> QED BY <4>1, <4>2, <3>1, <3>2, <2>0
    <3>4. CASE p # m.producer
      <4>1. Uncharged(p)' = 0
          BY <1>a, <2>0, <3>4 DEF Uncharged, TypeOK, callVars
      <4>2. outstanding'[p] = outstanding[p]
          BY <1>a, <2>0, <3>4 DEF TypeOK
      <4> QED BY <4>1, <4>2, <3>1, <3>2, <2>0
    <3> QED BY <3>3, <3>4
  <2> QED BY <2>1, <2>2, <2>3, <2>4 DEF IInv
<1>5. ASSUME NEW t \in Threads, SendRequest(t) PROVE IInv'
  <2> USE <1>5 DEF SendRequest, Goto
  <2>1. TypeOK'
      BY <1>a DEF TypeOK, PC, windowVars, callVars
  <2>2. BrokerMessages' /\ MutexHeld' /\ UsageBounded'
      BY <1>a, <1>b DEF TypeOK, BrokerMessages, MutexHeld, UsageBounded, Inside,
                        windowVars
  <2>3. SpaceWhenIncreasing'
      BY <1>a, <1>b DEF TypeOK, SpaceWhenIncreasing, Full, windowVars, callVars
  <2>4. NeverUndercharged'
      BY <1>a, <1>b DEF TypeOK, NeverUndercharged, Uncharged, windowVars, callVars
  <2> QED BY <2>1, <2>2, <2>3, <2>4 DEF IInv
<1>6. ASSUME NEW t \in Threads, SendThrows(t) \/ RequestDone(t) PROVE IInv'
  <2>0. /\ pc[t] \in {"send", "response"}
        /\ sendMutex' = Nobody
        /\ pc' = [pc EXCEPT ![t] = "idle"]
        /\ UNCHANGED <<windowVars, callVars, brokerVars, sends, losses>>
      BY <1>6 DEF SendThrows, RequestDone, ReturnFromSend, Goto
  <2>a. sendMutex = t
      BY <1>b, <2>0 DEF MutexHeld, Inside
  <2>1. TypeOK'
      BY <1>a, <2>0 DEF TypeOK, PC, windowVars, callVars, brokerVars
  <2>2. BrokerMessages' /\ MutexHeld' /\ UsageBounded'
      BY <1>a, <1>b, <2>0, <2>a DEF TypeOK, BrokerMessages, MutexHeld,
                        UsageBounded, Inside, windowVars, brokerVars
  <2>3. SpaceWhenIncreasing'
      BY <1>a, <1>b, <2>0 DEF TypeOK, SpaceWhenIncreasing, Full, windowVars, callVars
  <2>4. NeverUndercharged'
      BY <1>a, <1>b, <2>0, <2>a DEF TypeOK, NeverUndercharged, Uncharged,
                        windowVars, brokerVars
  <2> QED BY <2>1, <2>2, <2>3, <2>4 DEF IInv
<1>7. ASSUME NEW t \in Threads, ChargeWaits(t) PROVE IInv'
  <2> USE <1>7 DEF ChargeWaits, Goto
  <2>1. TypeOK'
      BY <1>a DEF TypeOK, PC, windowVars, callVars, brokerVars
  <2>2. BrokerMessages' /\ MutexHeld' /\ UsageBounded'
      BY <1>a, <1>b DEF TypeOK, BrokerMessages, MutexHeld, UsageBounded, Inside,
                        windowVars, brokerVars
  <2>3. SpaceWhenIncreasing'
      BY <1>a, <1>b DEF TypeOK, SpaceWhenIncreasing, HasSpace, Full, windowVars,
                        callVars
  <2>4. NeverUndercharged'
      BY <1>a, <1>b DEF TypeOK, NeverUndercharged, Uncharged, windowVars,
                        callVars, brokerVars
  <2> QED BY <2>1, <2>2, <2>3, <2>4 DEF IInv
<1>8. ASSUME NEW t \in Threads, IncreaseUsage(t) PROVE IInv'
  <2> DEFINE q == message[t].producer
             n == message[t].size
  <2>0. /\ pc[t] = "increase"
        /\ usage' = [usage EXCEPT ![q] = @ + n]
        /\ sendMutex' = Nobody
        /\ pc' = [pc EXCEPT ![t] = "idle"]
        /\ UNCHANGED <<closed, callVars, brokerVars, sends, losses>>
      BY <1>8 DEF IncreaseUsage, IncreaseUsageBy, ReturnFromSend, Goto
  <2>a. sendMutex = t
      BY <1>b, <2>0 DEF MutexHeld, Inside
  <2>b. q \in Producers /\ n \in 1..MaxSize /\ usage[q] \in Nat /\ usage[q] < Limit
      BY <1>a, <1>b, <2>0 DEF TypeOK, Sizes, SpaceWhenIncreasing, Full
  <2> HIDE DEF q, n
  <2>1. TypeOK'
      BY <1>a, <2>0, <2>b DEF TypeOK, PC, callVars, brokerVars
  <2>2. BrokerMessages' /\ MutexHeld'
      BY <1>a, <1>b, <2>0, <2>a DEF TypeOK, BrokerMessages, MutexHeld, Inside,
                        brokerVars
  <2>3. UsageBounded'
      BY <1>a, <1>b, <2>0, <2>b DEF TypeOK, UsageBounded
  <2>4. SpaceWhenIncreasing'
    <3>1. \A u \in Threads : pc'[u] # "increase"
        BY <1>a, <1>b, <2>0, <2>a DEF TypeOK, MutexHeld, Inside
    <3> QED BY <3>1 DEF SpaceWhenIncreasing
  <2>5. NeverUndercharged'
    <3> SUFFICES ASSUME NEW p \in Producers
                 PROVE  outstanding'[p] <= usage'[p] + Uncharged(p)'
        BY DEF NeverUndercharged
    <3>1. outstanding' = outstanding /\ outstanding[p] \in Int /\ usage[p] \in Nat
        BY <1>a, <2>0 DEF TypeOK, brokerVars
    <3>2. Uncharged(p)' = 0
        BY <2>0 DEF Uncharged
    <3>3. outstanding[p] <= usage[p] + Uncharged(p)
        BY <1>b DEF NeverUndercharged
    <3>4. CASE p = q
      <4>1. usage'[p] = usage[p] + n
          BY <1>a, <2>0, <2>b, <3>4 DEF TypeOK
      <4>2. Uncharged(p) = n
          BY <1>a, <2>0, <2>a, <3>4, WindowAssumption DEF Uncharged, q, n
      <4> QED BY <4>1, <4>2, <3>1, <3>2, <3>3, <2>b
    <3>5. CASE p # q
      <4>1. usage'[p] = usage[p]
          BY <1>a, <2>0, <2>b, <3>5 DEF TypeOK
      <4>2. Uncharged(p) = 0
          BY <1>a, <2>0, <2>a, <3>5 DEF Uncharged, q
      <4> QED BY <4>1, <4>2, <3>1, <3>2, <3>3
    <3> QED BY <3>4, <3>5
  <2> QED BY <2>1, <2>2, <2>3, <2>4, <2>5 DEF IInv
<1>9. ASSUME NEW p \in Producers, Close(p) PROVE IInv'
  <2> USE <1>9 DEF Close
  <2>1. TypeOK'
      BY <1>a DEF TypeOK, PC, callVars, brokerVars
  <2>2. BrokerMessages' /\ MutexHeld' /\ UsageBounded'
      BY <1>b, <1>a DEF BrokerMessages, MutexHeld, UsageBounded, brokerVars
  <2>3. SpaceWhenIncreasing' /\ NeverUndercharged'
      BY <1>b DEF SpaceWhenIncreasing, Full, NeverUndercharged, Uncharged,
                  callVars, brokerVars
  <2> QED BY <2>1, <2>2, <2>3 DEF IInv
<1>10. ASSUME NEW m \in unacked, ProducerAck(m) PROVE IInv'
  <2> DEFINE q == m.producer
  <2>0. /\ unacked' = unacked \ {m}
        /\ outstanding' = [outstanding EXCEPT ![q] = @ - m.size]
        /\ usage' = IF closed[q] THEN usage
                    ELSE [usage EXCEPT ![q] = Decreased(@, m.size)]
        /\ UNCHANGED <<closed, sendMutex, pc, callVars, unanswered, sends, losses>>
      BY <1>10 DEF ProducerAck
  <2>a. q \in Producers /\ m.size \in Nat
      BY <1>a DEF BrokerMessages, Sizes
  <2> HIDE DEF q
  <2>b. ASSUME NEW p \in Producers
        PROVE  /\ usage'[p] \in Nat
               /\ outstanding'[p] \in Int
               /\ usage'[p] <= usage[p]
               /\ outstanding'[p] <= usage'[p] + Uncharged(p)
    <3>1. /\ usage[p] \in Nat
          /\ outstanding[p] \in Int
          /\ Uncharged(p) \in Nat
          /\ outstanding[p] <= usage[p] + Uncharged(p)
        BY <1>a, <1>b DEF TypeOK, NeverUndercharged, Uncharged, Sizes
    <3>2. CASE p = q
      <4>1. outstanding'[p] = outstanding[p] - m.size
          BY <1>a, <2>0, <2>a, <3>2 DEF TypeOK
      <4>2. usage'[p] = IF closed[q] THEN usage[p] ELSE Decreased(usage[p], m.size)
          BY <1>a, <2>0, <2>a, <3>2 DEF TypeOK
      <4>3. /\ Decreased(usage[p], m.size) \in Nat
            /\ Decreased(usage[p], m.size) <= usage[p]
            /\ outstanding[p] - m.size <= Decreased(usage[p], m.size) + Uncharged(p)
          BY <3>1, <2>a, DecreasedProperties
      <4> QED BY <4>1, <4>2, <4>3, <3>1, <2>a
    <3>3. CASE p # q
      <4>1. outstanding'[p] = outstanding[p] /\ usage'[p] = usage[p]
          BY <1>a, <2>0, <2>a, <3>3 DEF TypeOK
      <4> QED BY <4>1, <3>1
    <3> QED BY <3>2, <3>3
  <2>1. TypeOK'
    <3>1. usage' = [p \in Producers |-> usage'[p]]
        BY <1>a, <2>0 DEF TypeOK
    <3>2. outstanding' = [p \in Producers |-> outstanding'[p]]
        BY <1>a, <2>0 DEF TypeOK
    <3>3. usage' \in [Producers -> Nat] /\ outstanding' \in [Producers -> Int]
        BY <2>b, <3>1, <3>2
    <3> QED BY <1>a, <2>0, <3>3 DEF TypeOK, callVars
  <2>2. BrokerMessages' /\ MutexHeld'
      BY <1>a, <1>b, <2>0 DEF BrokerMessages, MutexHeld
  <2>3. UsageBounded'
      BY <1>a, <1>b, <2>b DEF UsageBounded, TypeOK
  <2>4. SpaceWhenIncreasing'
    <3> SUFFICES ASSUME NEW t \in Threads, pc[t] = "increase"
                 PROVE  usage'[message[t].producer] < Limit
        BY <2>0, <2>1 DEF SpaceWhenIncreasing, Full, callVars, TypeOK
    <3>1. message[t].producer \in Producers /\ usage[message[t].producer] < Limit
        BY <1>a, <1>b DEF TypeOK, SpaceWhenIncreasing, Full
    <3> QED BY <3>1, <2>b, <1>a DEF TypeOK
  <2>5. NeverUndercharged'
    <3>1. \A p \in Producers : Uncharged(p)' = Uncharged(p)
        BY <2>0 DEF Uncharged, callVars
    <3> QED BY <2>b, <3>1 DEF NeverUndercharged
  <2> QED BY <2>1, <2>2, <2>3, <2>4, <2>5 DEF IInv
<1>11. ASSUME NEW m \in unanswered, Respond(m) PROVE IInv'
  <2> USE <1>11 DEF Respond
  <2>1. TypeOK'
      BY <1>a DEF TypeOK, PC, windowVars, callVars
  <2>2. BrokerMessages' /\ MutexHeld' /\ UsageBounded'
      BY <1>b, <1>a DEF BrokerMessages, MutexHeld, UsageBounded, windowVars
  <2>3. SpaceWhenIncreasing' /\ NeverUndercharged'
      BY <1>b DEF SpaceWhenIncreasing, Full, NeverUndercharged, Uncharged,
                  windowVars, callVars
  <2> QED BY <2>1, <2>2, <2>3 DEF IInv
<1>12. CASE LoseConnection
  <2> USE <1>12 DEF LoseConnection
  <2>1. TypeOK'
      BY <1>a DEF TypeOK, PC, windowVars, callVars
  <2>2. BrokerMessages' /\ MutexHeld' /\ UsageBounded'
      BY <1>b DEF BrokerMessages, MutexHeld, UsageBounded, windowVars
  <2>3. SpaceWhenIncreasing'
      BY <1>b DEF SpaceWhenIncreasing, Full, windowVars, callVars
  <2>4. NeverUndercharged'
      BY <1>a DEF TypeOK, NeverUndercharged, Uncharged, windowVars, callVars, Sizes
  <2> QED BY <2>1, <2>2, <2>3, <2>4 DEF IInv
<1>13. CASE UNCHANGED vars
  <2> USE <1>13 DEF vars, windowVars, callVars, brokerVars
  <2>1. TypeOK'
      BY <1>a DEF TypeOK
  <2>2. BrokerMessages' /\ MutexHeld' /\ UsageBounded'
      BY <1>a, <1>b DEF BrokerMessages, MutexHeld, UsageBounded
  <2>3. SpaceWhenIncreasing' /\ NeverUndercharged'
      BY <1>b DEF SpaceWhenIncreasing, Full, NeverUndercharged, Uncharged
  <2> QED BY <2>1, <2>2, <2>3 DEF IInv
<1>14. BrokerStep => (\E m \in unacked : ProducerAck(m)) \/ (\E m \in unanswered : Respond(m))
    BY DEF BrokerStep, ProducerAck, Respond
<1> QED
    BY <1>1, <1>2, <1>3, <1>4, <1>5, <1>6, <1>7, <1>8, <1>9, <1>10, <1>11,
       <1>12, <1>13, <1>14 DEF Next, ThreadStep

\* The invariant bounds what is outstanding.
LEMMA IInvBounds == IInv => WindowRespected
<1> SUFFICES ASSUME IInv, NEW p \in Producers
             PROVE  outstanding[p] <= Limit - 1 + 2 * MaxSize
    BY DEF WindowRespected
<1>1. /\ usage[p] \in Nat
      /\ outstanding[p] \in Int
      /\ Uncharged(p) \in 0..MaxSize
      /\ outstanding[p] <= usage[p] + Uncharged(p)
      /\ usage[p] <= Limit - 1 + MaxSize
    BY WindowAssumption
       DEF IInv, TypeOK, NeverUndercharged, UsageBounded, Uncharged, Sizes
<1> QED BY <1>1, WindowAssumption

\* The inductive invariant holds in every reachable state of the window.
THEOREM WindowInvariant == Spec => []IInv
BY InitIInv, NextIInv, PTL DEF Spec

\* The variables keep their types; the usage of a window never drops below
\* zero, whatever the order of charges and acknowledgements.
THEOREM WindowTypeCorrect == Spec => []TypeOK
<1>1. IInv => TypeOK
    BY DEF IInv
<1> QED BY <1>1, WindowInvariant, PTL

\* The usage of a window covers what the broker has to acknowledge, save the
\* message whose sender is between oneway and increaseUsage.
THEOREM WindowCharged == Spec => []NeverUndercharged
<1>1. IInv => NeverUndercharged
    BY DEF IInv
<1> QED BY <1>1, WindowInvariant, PTL

\* The bytes of a producer that the broker has not acknowledged exceed the
\* window by less than two messages, whatever the number of sending threads.
THEOREM WindowBound == Spec => []WindowRespected
BY IInvBounds, WindowInvariant, PTL
=============================================================================
