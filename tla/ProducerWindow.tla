--------------------------- MODULE ProducerWindow ---------------------------
(***************************************************************************)
(* The producer window: ActiveMQProducerKernel::send, the window part of   *)
(* ActiveMQSessionKernel::send, MemoryUsage, and the handling of the       *)
(* ProducerAck in ActiveMQConnection::onCommand.                           *)
(*                                                                         *)
(* The producers of one session are used by several application threads.   *)
(* Each producer has a MemoryUsage of its own; the session's sendMutex is  *)
(* shared by all of them.  A message is its producer and its size in       *)
(* bytes.  The broker acknowledges, one by one and in any order, the       *)
(* messages that were sent without asking for a response.                  *)
(*                                                                         *)
(* A message that is lost with its connection is never acknowledged.  The  *)
(* replay of transacted messages after a failover belongs to the state     *)
(* tracker and is left out here.                                           *)
(***************************************************************************)
EXTENDS Integers

CONSTANTS
    \* Application threads and the producers of the session.
    Threads, Producers,
    \* sendMutex is free.
    Nobody,
    \* producerWindowSize, and the size of the largest message, in bytes.
    Limit, MaxSize,
    \* Bounds on the sends and on the lost connections.
    MaxSends, MaxLosses,
    \* Whether producers are closed.
    MayClose

ASSUME WindowAssumption ==
    /\ Limit \in Nat \ {0}
    /\ MaxSize \in Nat \ {0}
    /\ MaxSends \in Nat
    /\ MaxLosses \in Nat
    /\ MayClose \in BOOLEAN
    /\ Nobody \notin Threads

Sizes == 1..MaxSize
Messages == [id : 1..MaxSends, producer : Producers, size : Sizes]

VARIABLES
    \* MemoryUsage::usage and ActiveMQProducerKernel::closed of each producer.
    usage, closed,
    \* The session's sendMutex.
    sendMutex,
    \* Where each thread is in its call of send, the message it sends and
    \* whether it waits for a response to it.
    pc, message, sync,
    \* Messages the broker has to acknowledge, and those it has to respond to.
    unacked, unanswered,
    \* The bytes of each producer in unacked, for the properties.
    outstanding,
    \* The bounds.
    sends, losses

windowVars == <<usage, closed>>
callVars == <<message, sync>>
brokerVars == <<unacked, unanswered, outstanding>>
vars == <<windowVars, sendMutex, pc, callVars, brokerVars, sends, losses>>

PC == {"idle", "window", "lock", "send", "charge", "increase", "response"}

Init ==
    /\ usage = [p \in Producers |-> 0]
    /\ closed = [p \in Producers |-> FALSE]
    /\ sendMutex = Nobody
    /\ pc = [t \in Threads |-> "idle"]
    \* Any value: a thread sets it when it calls send.
    /\ message \in [Threads -> [id : {1}, producer : Producers, size : {1}]]
    /\ sync = [t \in Threads |-> FALSE]
    /\ unacked = {}
    /\ unanswered = {}
    /\ outstanding = [p \in Producers |-> 0]
    /\ sends = 0
    /\ losses = 0

Goto(t, where) == pc' = [pc EXCEPT ![t] = where]

\* Mutant: a window that is exactly full still has room.
FullIfExceeded(p) == usage[p] > Limit

\* MemoryUsage::isFull
Full(p) == usage[p] >= Limit

HasSpace(p) == ~Full(p)

-----------------------------------------------------------------------------
(* ActiveMQProducerKernel::send and ActiveMQSessionKernel::send.           *)

\* The application calls send on a producer that is not closed; the kinds of
\* send that need a response are those with a callback or a timeout, and
\* persistent messages outside a transaction.
Send(t, p, size, response) ==
    /\ pc[t] = "idle"
    /\ sends < MaxSends
    /\ ~closed[p]
    /\ sends' = sends + 1
    /\ message' = [message EXCEPT
           ![t] = [id |-> sends + 1, producer |-> p, size |-> size]]
    /\ sync' = [sync EXCEPT ![t] = response]
    /\ Goto(t, "window")
    /\ UNCHANGED <<windowVars, sendMutex, brokerVars, losses>>

\* waitForSpace() of the producer, before the session is called.
WaitForSpace(t) ==
    /\ pc[t] = "window"
    /\ HasSpace(message[t].producer)
    /\ Goto(t, "lock")
    /\ UNCHANGED <<windowVars, sendMutex, callVars, brokerVars, sends, losses>>

\* synchronized(&sendMutex)
LockSend(t) ==
    /\ pc[t] = "lock"
    /\ sendMutex = Nobody
    /\ sendMutex' = t
    /\ Goto(t, "send")
    /\ UNCHANGED <<windowVars, callVars, brokerVars, sends, losses>>

\* connection->oneway(message): the broker may acknowledge it from now on,
\* although the window has not been charged for it.
SendOneway(t) ==
    LET m == message[t] IN
    /\ pc[t] = "send"
    /\ ~sync[t]
    /\ unacked' = unacked \cup {m}
    /\ outstanding' = [outstanding EXCEPT ![m.producer] = @ + m.size]
    /\ Goto(t, "charge")
    /\ UNCHANGED <<windowVars, sendMutex, callVars, unanswered, sends, losses>>

\* connection->syncRequest, or asyncRequest without a callback: the mutex is
\* held until the response arrives; the window is not charged.
SendRequest(t) ==
    /\ pc[t] = "send"
    /\ sync[t]
    /\ unanswered' = unanswered \cup {message[t]}
    /\ Goto(t, "response")
    /\ UNCHANGED <<windowVars, sendMutex, callVars, unacked, outstanding,
                   sends, losses>>

ReturnFromSend(t) ==
    /\ sendMutex' = Nobody
    /\ Goto(t, "idle")

\* The transport throws and nothing was sent; or asyncRequest has a callback,
\* which will get the response.  The window is not charged.
SendThrows(t) ==
    /\ pc[t] = "send"
    /\ ReturnFromSend(t)
    /\ UNCHANGED <<windowVars, callVars, brokerVars, sends, losses>>

\* The response of a request arrived, or its connection was lost.
RequestDone(t) ==
    /\ pc[t] = "response"
    /\ message[t] \notin unanswered
    /\ ReturnFromSend(t)
    /\ UNCHANGED <<windowVars, callVars, brokerVars, sends, losses>>

\* enqueueUsage(size): waitForSpace with sendMutex held ...
ChargeWaits(t) ==
    /\ pc[t] = "charge"
    /\ HasSpace(message[t].producer)
    /\ Goto(t, "increase")
    /\ UNCHANGED <<windowVars, sendMutex, callVars, brokerVars, sends, losses>>

IncreaseUsageBy(t, bytes) ==
    /\ pc[t] = "increase"
    /\ usage' = [usage EXCEPT ![message[t].producer] = @ + bytes]
    /\ ReturnFromSend(t)
    /\ UNCHANGED <<closed, callVars, brokerVars, sends, losses>>

\* Mutant: a message counts as one byte.
IncreaseUsageByOne(t) == IncreaseUsageBy(t, 1)

\* ... and increaseUsage, under the window's mutex a second time.
IncreaseUsage(t) == IncreaseUsageBy(t, message[t].size)

\* ActiveMQProducerKernel::close: the session and the connection forget the
\* producer; threads inside send go on, and nothing wakes those that wait.
Close(p) ==
    /\ MayClose
    /\ ~closed[p]
    /\ closed' = [closed EXCEPT ![p] = TRUE]
    /\ UNCHANGED <<usage, sendMutex, pc, callVars, brokerVars, sends, losses>>

-----------------------------------------------------------------------------
(* The broker and the reading thread of the connection.                    *)

\* Mutant: an acknowledgement that comes before its charge wraps the usage.
DecreasedUnchecked(used, bytes) == used - bytes

\* MemoryUsage::decreaseUsage never goes below zero.
Decreased(used, bytes) == IF bytes > used THEN 0 ELSE used - bytes

\* A ProducerAck arrives.  onCommand finds no producer once it was closed.
ProducerAck(m) ==
    /\ m \in unacked
    /\ unacked' = unacked \ {m}
    /\ outstanding' = [outstanding EXCEPT ![m.producer] = @ - m.size]
    /\ usage' = IF closed[m.producer]
                THEN usage
                ELSE [usage EXCEPT ![m.producer] = Decreased(@, m.size)]
    /\ UNCHANGED <<closed, sendMutex, pc, callVars, unanswered, sends, losses>>

Respond(m) ==
    /\ m \in unanswered
    /\ unanswered' = unanswered \ {m}
    /\ UNCHANGED <<windowVars, sendMutex, pc, callVars, unacked, outstanding,
                   sends, losses>>

\* The connection is lost with everything that was on its way.  The windows
\* keep their charge.
LoseConnection ==
    /\ losses < MaxLosses
    /\ losses' = losses + 1
    /\ unacked' = {}
    /\ unanswered' = {}
    /\ outstanding' = [p \in Producers |-> 0]
    /\ UNCHANGED <<windowVars, sendMutex, pc, callVars, sends>>

-----------------------------------------------------------------------------
ThreadStep(t) ==
    \/ WaitForSpace(t)
    \/ LockSend(t)
    \/ SendOneway(t)
    \/ SendRequest(t)
    \/ SendThrows(t)
    \/ RequestDone(t)
    \/ ChargeWaits(t)
    \/ IncreaseUsage(t)

BrokerStep == \E m \in unacked \cup unanswered : ProducerAck(m) \/ Respond(m)

Next ==
    \/ \E t \in Threads, p \in Producers, size \in Sizes, r \in BOOLEAN :
           Send(t, p, size, r)
    \/ \E t \in Threads : ThreadStep(t)
    \/ \E p \in Producers : Close(p)
    \/ BrokerStep
    \/ LoseConnection

Spec == Init /\ [][Next]_vars

-----------------------------------------------------------------------------
(* Properties.                                                             *)

TypeOK ==
    /\ usage \in [Producers -> Nat]
    /\ closed \in [Producers -> BOOLEAN]
    /\ sendMutex \in Threads \cup {Nobody}
    /\ pc \in [Threads -> PC]
    /\ message \in [Threads -> [id : Nat, producer : Producers, size : Sizes]]
    /\ sync \in [Threads -> BOOLEAN]
    /\ outstanding \in [Producers -> Int]
    /\ sends \in Nat
    /\ losses \in Nat

\* Bytes of producer p that were sent and that increaseUsage has still to add.
Uncharged(p) ==
    IF /\ sendMutex # Nobody
       /\ pc[sendMutex] \in {"charge", "increase"}
       /\ message[sendMutex].producer = p
    THEN message[sendMutex].size
    ELSE 0

\* The window never counts less than what the broker has to acknowledge:
\* whatever the order of acknowledgements and charges, losses and closes, a
\* sender is not let through by an account that is too low.
NeverUndercharged ==
    \A p \in Producers : outstanding[p] <= usage[p] + Uncharged(p)

\* However many threads share a producer, the bytes that the broker has not
\* acknowledged exceed the window by less than two messages: one that was let
\* through when a byte was free and one that was sent before it is charged.
WindowRespected ==
    \A p \in Producers : outstanding[p] <= Limit - 1 + 2 * MaxSize
=============================================================================
