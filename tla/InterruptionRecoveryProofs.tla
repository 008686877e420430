---------------------- MODULE InterruptionRecoveryProofs ----------------------
(***************************************************************************)
(* The safety of interruption processing for every set of consumers and    *)
(* any number of lost connections and messages.                            *)
(*                                                                         *)
(* OnlyCurrentMessages is strengthened to FreshInv, which also speaks of   *)
(* the consumers that a failure still being handled has marked.  It rests  *)
(* on the lock of the channel: from the second test of the flag to its     *)
(* decrement nobody else can put a message in (LockInv).                   *)
(***************************************************************************)
EXTENDS InterruptionRecovery, TLAPS

Messages == [id : Nat, epoch : Nat]
Entries == [id : Nat, epoch : Nat, late : BOOLEAN]
Deliveries == [consumer : Consumers, message : Messages]

Places == {"idle", "clear", "lock", "locked", "unmark", "signal", "controls",
           "wait", "deliver", "enqueue"}

StateTypes ==
    /\ up \in BOOLEAN
    /\ epoch \in Nat
    /\ failing \in {"no", "reset", "count"}
    /\ uncounted \subseteq Consumers
    /\ recovering \subseteq Consumers
    /\ clearRequired \in [Consumers -> Nat]
    /\ dispatched \in Nat

ChannelTypes ==
    /\ queue \in [Consumers -> Seq(Entries)]
    /\ tasks \in Seq(Consumers)
    /\ sessionQueue \in Seq(Deliveries)

ThreadTypes ==
    /\ pc \in [Threads -> Places]
    /\ lock \in [Consumers -> Threads \cup {Nobody}]
    /\ consumer \in [Threads -> Consumers]
    /\ message \in [Threads -> Messages]
    /\ return \in [Threads -> {"idle", "wait", "unmark"}]
    /\ controls \in [Threads -> SUBSET Consumers]

TypeOK == StateTypes /\ ChannelTypes /\ ThreadTypes

\* Thread t has emptied the channel of its consumer and not yet released it.
Emptied(t) == \/ pc[t] = "unmark"
              \/ pc[t] \in {"signal", "controls"} /\ return[t] = "unmark"

\* Who clears holds the lock, until the consumer needs no clear or it is done.
LockInv ==
    \A t \in Threads :
        /\ pc[t] = "locked" => lock[consumer[t]] = t
        /\ Emptied(t) => /\ lock[consumer[t]] = t
                         /\ queue[consumer[t]] = <<>>
                         /\ clearRequired[consumer[t]] > 0

\* The consumer that is marked is one still to count.
MarkedInv == /\ marked \subseteq uncounted
             /\ failing # "count" => marked = {}

\* The failure being handled has already required the clear of c.
Counted(c) == \/ failing = "no"
              \/ failing = "count" /\ (c \in uncounted => c \in marked)

\* Once a consumer has no clear to do, none of the messages in its channel is
\* of a lost connection, save the late ones.
FreshInv ==
    \A c \in Consumers :
        (clearRequired[c] = 0 /\ Counted(c)) =>
            \A m \in Range(queue[c]) : m.late \/ Current(m)

\* Controls are sent by threads in signalInterruptionProcessingComplete, and a
\* consumer restored without its prefetch is in recoveringPullConsumers.
ControlInv ==
    /\ \A t \in Threads : controls[t] # {} => pc[t] = "controls"
    /\ up => Consumers \subseteq prefetched \cup recovering

IInv == /\ TypeOK
        /\ LockInv
        /\ MarkedInv
        /\ FreshInv
        /\ ControlInv
        /\ CompleteMeansPrefetched

\* A channel keeps its type when an entry is appended.
LEMMA AppendTyped ==
    ASSUME NEW C, NEW S, NEW q \in [C -> Seq(S)], NEW c \in C, NEW e \in S
    PROVE  [q EXCEPT ![c] = Append(@, e)] \in [C -> Seq(S)]
<1>1. Append(q[c], e) \in Seq(S)
    OBVIOUS
<1> QED
    BY <1>1

\* Append adds one message.
LEMMA RangeAppend ==
    ASSUME NEW S, NEW s \in Seq(S), NEW e, NEW m \in Range(Append(s, e))
    PROVE  m \in Range(s) \/ m = e
BY DEF Range

\* Tail adds none.
LEMMA RangeTail ==
    ASSUME NEW S, NEW s \in Seq(S), s # <<>>, NEW m \in Range(Tail(s))
    PROVE  m \in Range(s)
BY DEF Range

\* An empty channel has none.
LEMMA RangeEmpty == Range(<<>>) = {}
BY DEF Range

\* The initial states satisfy the invariant.
LEMMA InitIInv == Init => IInv
<1> SUFFICES ASSUME Init PROVE IInv
    OBVIOUS
<1>1. AnyConsumer \in Consumers
    BY RecoveryAssumption DEF AnyConsumer
<1>2. TypeOK
  <2>1. StateTypes /\ ChannelTypes
      BY RecoveryAssumption DEF Init, StateTypes, ChannelTypes
  <2>2. NoMessage \in Messages
      BY DEF NoMessage, Messages
  <2>3. ThreadTypes
      BY <1>1, <2>2, RecoveryAssumption DEF Init, ThreadTypes, Places
  <2> QED
      BY <2>1, <2>3 DEF TypeOK
<1>3. LockInv /\ MarkedInv /\ FreshInv
    BY <1>2, RangeEmpty DEF Init, TypeOK, ThreadTypes, LockInv, MarkedInv,
                            FreshInv, Emptied
<1>4. ControlInv /\ CompleteMeansPrefetched
    BY DEF Init, ControlInv, CompleteMeansPrefetched
<1> QED
    BY <1>2, <1>3, <1>4 DEF IInv

\* Every step preserves the invariant.
LEMMA NextIInv == IInv /\ [Next]_vars => IInv'
<1> SUFFICES ASSUME IInv, [Next]_vars PROVE IInv'
    OBVIOUS
<1>a. /\ TypeOK /\ LockInv /\ MarkedInv /\ FreshInv /\ ControlInv
      /\ CompleteMeansPrefetched
    BY DEF IInv
<1>1. ASSUME Fail
      PROVE  IInv'
  <2>1. StateTypes'
      BY <1>a, <1>1, Zenon DEF Fail, MutexFree, TypeOK, StateTypes,
                               consumerVars
  <2>2. MarkedInv'
      BY <1>a, <1>1 DEF Fail, MutexFree, TypeOK, StateTypes, MarkedInv,
                        consumerVars
  <2>3. FreshInv'
      BY <1>a, <1>1 DEF Fail, MutexFree, TypeOK, StateTypes, MarkedInv,
                        FreshInv, Counted, Current, consumerVars
  <2>4. ControlInv'
      BY <1>a, <1>1 DEF Fail, MutexFree, TypeOK, ThreadTypes, ControlInv,
                        consumerVars, threadVars
  <2>5. CompleteMeansPrefetched'
      BY <1>a, <1>1 DEF Fail, MutexFree, TypeOK, ThreadTypes, ControlInv,
                        CompleteMeansPrefetched, consumerVars, threadVars
  <2>6. ChannelTypes' /\ ThreadTypes' /\ LockInv'
      BY <1>a, <1>1 DEF Fail, MutexFree, TypeOK, ChannelTypes, ThreadTypes,
                        LockInv, Emptied, taskVars, consumerVars, threadVars
  <2> QED
      BY <2>1, <2>2, <2>3, <2>4, <2>5, <2>6 DEF IInv, TypeOK
<1>2. ASSUME ResetCounter
      PROVE  IInv'
  <2>1. StateTypes'
      BY <1>a, <1>2 DEF ResetCounter, TypeOK, StateTypes, connectionVars,
                        trackerVars, consumerVars
  <2>2. ChannelTypes'
      BY <1>a, <1>2 DEF ResetCounter, TypeOK, ChannelTypes, consumerVars
  <2>3. MarkedInv'
      BY <1>a, <1>2 DEF ResetCounter, TypeOK, StateTypes, MarkedInv,
                        connectionVars, trackerVars, consumerVars
  <2>4. FreshInv'
      BY <1>a, <1>2 DEF ResetCounter, TypeOK, StateTypes, MarkedInv, FreshInv,
                        Counted, Current, connectionVars, trackerVars,
                        consumerVars
  <2>5. ThreadTypes' /\ LockInv' /\ ControlInv' /\ CompleteMeansPrefetched'
      BY <1>a, <1>2 DEF ResetCounter, TypeOK, ThreadTypes, LockInv, Emptied,
                        ControlInv, CompleteMeansPrefetched, connectionVars,
                        trackerVars, consumerVars, threadVars
  <2> QED
      BY <2>1, <2>2, <2>3, <2>4, <2>5 DEF IInv, TypeOK
<1>3. ASSUME NEW c \in Consumers, RequireClear(c)
      PROVE  IInv'
  <2>1. StateTypes'
      BY <1>a, <1>3 DEF RequireClear, TypeOK, StateTypes, connectionVars,
                        trackerVars
  <2>2. LockInv'
      BY <1>a, <1>3 DEF RequireClear, TypeOK, StateTypes, ChannelTypes,
                        ThreadTypes, LockInv, Emptied, connectionVars,
                        trackerVars, taskVars, threadVars
  <2>3. MarkedInv'
      BY <1>a, <1>3 DEF RequireClear, TypeOK, StateTypes, MarkedInv,
                        connectionVars, trackerVars
  <2>4. FreshInv'
      BY <1>a, <1>3 DEF RequireClear, TypeOK, StateTypes, MarkedInv, FreshInv,
                        Counted, Current, connectionVars, trackerVars
  <2>5. /\ ChannelTypes' /\ ThreadTypes' /\ ControlInv'
        /\ CompleteMeansPrefetched'
      BY <1>a, <1>3 DEF RequireClear, TypeOK, ChannelTypes, ThreadTypes,
                        ControlInv, CompleteMeansPrefetched, connectionVars,
                        trackerVars, taskVars, threadVars
  <2> QED
      BY <2>1, <2>2, <2>3, <2>4, <2>5 DEF IInv, TypeOK
<1>4. ASSUME NEW c \in Consumers, CountConsumer(c)
      PROVE  IInv'
  <2>1. StateTypes'
      BY <1>a, <1>4 DEF CountConsumer, CountConsumerWith, TypeOK, StateTypes,
                        connectionVars, trackerVars, consumerVars
  <2>2. ChannelTypes'
      BY <1>a, <1>4 DEF CountConsumer, CountConsumerWith, TypeOK,
                        ChannelTypes, consumerVars
  <2>3. MarkedInv'
      BY <1>a, <1>4 DEF CountConsumer, CountConsumerWith, TypeOK, StateTypes,
                        MarkedInv, connectionVars, trackerVars, consumerVars
  <2>4. FreshInv'
      BY <1>a, <1>4 DEF CountConsumer, CountConsumerWith, TypeOK, StateTypes,
                        MarkedInv, FreshInv, Counted, Current, connectionVars,
                        trackerVars, consumerVars
  <2>5. ThreadTypes' /\ LockInv' /\ ControlInv' /\ CompleteMeansPrefetched'
      BY <1>a, <1>4 DEF CountConsumer, CountConsumerWith, TypeOK, ThreadTypes,
                        LockInv, Emptied, ControlInv, CompleteMeansPrefetched,
                        connectionVars, trackerVars, consumerVars, threadVars
  <2> QED
      BY <2>1, <2>2, <2>3, <2>4, <2>5 DEF IInv, TypeOK
<1>5. ASSUME FailureHandled
      PROVE  IInv'
  <2>1. StateTypes'
      BY <1>a, <1>5 DEF FailureHandled, TypeOK, StateTypes, connectionVars,
                        trackerVars, consumerVars
  <2>2. MarkedInv'
      BY <1>a, <1>5 DEF FailureHandled, TypeOK, StateTypes, MarkedInv,
                        connectionVars, trackerVars, consumerVars
  <2>3. FreshInv'
      BY <1>a, <1>5 DEF FailureHandled, TypeOK, StateTypes, MarkedInv,
                        FreshInv, Counted, Current, connectionVars,
                        trackerVars, consumerVars
  <2>4. /\ ChannelTypes' /\ ThreadTypes' /\ LockInv' /\ ControlInv'
        /\ CompleteMeansPrefetched'
      BY <1>a, <1>5 DEF FailureHandled, TypeOK, ChannelTypes, ThreadTypes,
                        LockInv, Emptied, ControlInv, CompleteMeansPrefetched,
                        connectionVars, trackerVars, taskVars, consumerVars,
                        threadVars
  <2> QED
      BY <2>1, <2>2, <2>3, <2>4 DEF IInv, TypeOK
<1>6. ASSUME Reconnect
      PROVE  IInv'
  <2>1. StateTypes'
      BY <1>a, <1>6 DEF Reconnect, MutexFree, TypeOK, StateTypes, failureVars,
                        consumerVars
  <2>2. FreshInv'
      BY <1>a, <1>6 DEF Reconnect, MutexFree, TypeOK, StateTypes, MarkedInv,
                        FreshInv, Counted, Current, failureVars, consumerVars
  <2>3. ControlInv'
      BY <1>a, <1>6 DEF Reconnect, MutexFree, TypeOK, ThreadTypes, ControlInv,
                        consumerVars, threadVars
  <2>4. CompleteMeansPrefetched'
      BY <1>a, <1>6 DEF Reconnect, MutexFree, TypeOK, ThreadTypes, ControlInv,
                        CompleteMeansPrefetched, consumerVars, threadVars
  <2>5. ChannelTypes' /\ ThreadTypes' /\ LockInv' /\ MarkedInv'
      BY <1>a, <1>6 DEF Reconnect, MutexFree, TypeOK, ChannelTypes,
                        ThreadTypes, LockInv, Emptied, MarkedInv, failureVars,
                        taskVars, consumerVars, threadVars
  <2> QED
      BY <2>1, <2>2, <2>3, <2>4, <2>5 DEF IInv, TypeOK
<1>7. ASSUME RunTask
      PROVE  IInv'
  <2>1. ChannelTypes'
      BY <1>a, <1>7 DEF RunTask, Goto, TypeOK, ChannelTypes, consumerVars
  <2>2. Timer \in Threads /\ Head(tasks) \in Consumers
      BY <1>a, <1>7 DEF RunTask, Goto, TypeOK, ChannelTypes, Threads,
                        consumerVars
  <2>3. ThreadTypes'
      BY <1>a, <2>2, <1>7 DEF RunTask, Goto, TypeOK, ThreadTypes, Places,
                              consumerVars
  <2>4. LockInv'
      BY <1>a, <1>7 DEF RunTask, Goto, TypeOK, ThreadTypes, LockInv, Emptied,
                        consumerVars
  <2>5. ControlInv'
      BY <1>a, <1>7 DEF RunTask, Goto, TypeOK, ThreadTypes, ControlInv,
                        connectionVars, trackerVars, consumerVars
  <2>6. StateTypes' /\ MarkedInv' /\ FreshInv' /\ CompleteMeansPrefetched'
      BY <1>a, <1>7 DEF RunTask, Goto, TypeOK, StateTypes, MarkedInv,
                        FreshInv, Counted, Current, CompleteMeansPrefetched,
                        connectionVars, failureVars, trackerVars, consumerVars
  <2> QED
      BY <2>1, <2>3, <2>4, <2>5, <2>6 DEF IInv, TypeOK
<1>8. ASSUME TakeMessage
      PROVE  IInv'
  <2>1. ChannelTypes'
      BY <1>a, <1>8 DEF TakeMessage, Goto, TypeOK, ChannelTypes, consumerVars
  <2>2. /\ Executor \in Threads
        /\ Head(sessionQueue) \in Deliveries
      BY <1>a, <1>8 DEF TakeMessage, Goto, TypeOK, ChannelTypes, Threads,
                        consumerVars
  <2>3. ThreadTypes'
      BY <1>a, <2>2, <1>8 DEF TakeMessage, Goto, TypeOK, ThreadTypes, Places,
                              Deliveries, consumerVars
  <2>4. LockInv'
      BY <1>a, <1>8 DEF TakeMessage, Goto, TypeOK, ThreadTypes, LockInv,
                        Emptied, consumerVars
  <2>5. ControlInv'
      BY <1>a, <1>8 DEF TakeMessage, Goto, TypeOK, ThreadTypes, ControlInv,
                        connectionVars, trackerVars, consumerVars
  <2>6. StateTypes' /\ MarkedInv' /\ FreshInv' /\ CompleteMeansPrefetched'
      BY <1>a, <1>8 DEF TakeMessage, Goto, TypeOK, StateTypes, MarkedInv,
                        FreshInv, Counted, Current, CompleteMeansPrefetched,
                        connectionVars, failureVars, trackerVars, consumerVars
  <2> QED
      BY <2>1, <2>3, <2>4, <2>5, <2>6 DEF IInv, TypeOK
<1>9. ASSUME NEW t \in Threads, TestClear(t)
      PROVE  IInv'
  <2>1. ThreadTypes'
      BY <1>a, <1>9 DEF TestClear, Goto, AfterClear, TypeOK, ThreadTypes,
                        Places, consumerVars
  <2>2. LockInv'
      BY <1>a, <1>9 DEF TestClear, Goto, AfterClear, TypeOK, ThreadTypes,
                        LockInv, Emptied, consumerVars
  <2>3. ControlInv'
      BY <1>a, <1>9 DEF TestClear, Goto, AfterClear, TypeOK, ThreadTypes,
                        ControlInv, connectionVars, trackerVars, consumerVars
  <2>4. /\ StateTypes' /\ ChannelTypes' /\ MarkedInv' /\ FreshInv'
        /\ CompleteMeansPrefetched'
      BY <1>a, <1>9 DEF TestClear, Goto, AfterClear, TypeOK, StateTypes,
                        ChannelTypes, MarkedInv, FreshInv, Counted, Current,
                        CompleteMeansPrefetched, connectionVars, failureVars,
                        trackerVars, taskVars, consumerVars
  <2> QED
      BY <2>1, <2>2, <2>3, <2>4 DEF IInv, TypeOK
<1>10. ASSUME NEW t \in Threads, LockToClear(t)
      PROVE  IInv'
  <2>1. ThreadTypes'
      BY <1>a, <1>10 DEF LockToClear, Goto, TypeOK, ThreadTypes, Places
  <2>2. LockInv'
      BY RecoveryAssumption, <1>a, <1>10 DEF LockToClear, Goto, TypeOK,
                                             ThreadTypes, LockInv, Emptied
  <2>3. ControlInv'
      BY <1>a, <1>10 DEF LockToClear, Goto, TypeOK, ThreadTypes, ControlInv,
                         connectionVars, trackerVars
  <2>4. /\ StateTypes' /\ ChannelTypes' /\ MarkedInv' /\ FreshInv'
        /\ CompleteMeansPrefetched'
      BY <1>a, <1>10 DEF LockToClear, Goto, TypeOK, StateTypes, ChannelTypes,
                         MarkedInv, FreshInv, Counted, Current,
                         CompleteMeansPrefetched, connectionVars, failureVars,
                         trackerVars, taskVars
  <2> QED
      BY <2>1, <2>2, <2>3, <2>4 DEF IInv, TypeOK
<1>11. ASSUME NEW t \in Threads, ClearedMeanwhile(t)
      PROVE  IInv'
  <2>1. ThreadTypes'
      BY <1>a, <1>11 DEF ClearedMeanwhile, Goto, AfterClear, TypeOK,
                         ThreadTypes, Places
  <2>2. LockInv'
      BY <1>a, <1>11 DEF ClearedMeanwhile, Goto, AfterClear, TypeOK,
                         ThreadTypes, LockInv, Emptied
  <2>3. ControlInv'
      BY <1>a, <1>11 DEF ClearedMeanwhile, Goto, AfterClear, TypeOK,
                         ThreadTypes, ControlInv, connectionVars, trackerVars
  <2>4. /\ StateTypes' /\ ChannelTypes' /\ MarkedInv' /\ FreshInv'
        /\ CompleteMeansPrefetched'
      BY <1>a, <1>11 DEF ClearedMeanwhile, Goto, AfterClear, TypeOK,
                         StateTypes, ChannelTypes, MarkedInv, FreshInv,
                         Counted, Current, CompleteMeansPrefetched,
                         connectionVars, failureVars, trackerVars, taskVars
  <2> QED
      BY <2>1, <2>2, <2>3, <2>4 DEF IInv, TypeOK
<1>12. ASSUME NEW t \in Threads, RemoveAll(t)
      PROVE  IInv'
  <2>1. ChannelTypes'
      BY <1>a, <1>12 DEF RemoveAll, Goto, ClearQueue, StillRequired, TypeOK,
                         ChannelTypes, ThreadTypes, taskVars
  <2>2. ThreadTypes'
      BY <1>a, <1>12 DEF RemoveAll, Goto, ClearQueue, StillRequired, TypeOK,
                         ThreadTypes, Places
  <2>3. LockInv'
      BY <1>a, <1>12 DEF RemoveAll, Goto, ClearQueue, StillRequired, TypeOK,
                         StateTypes, ChannelTypes, ThreadTypes, LockInv,
                         Emptied, connectionVars, failureVars, trackerVars,
                         taskVars
  <2>4. FreshInv'
      BY <1>a, <1>12 DEF RemoveAll, Goto, ClearQueue, StillRequired, TypeOK,
                         StateTypes, ChannelTypes, ThreadTypes, MarkedInv,
                         FreshInv, Counted, Current, connectionVars,
                         failureVars, trackerVars, taskVars
  <2>5. ControlInv'
      BY <1>a, <1>12 DEF RemoveAll, Goto, ClearQueue, StillRequired, TypeOK,
                         ThreadTypes, ControlInv, connectionVars, trackerVars
  <2>6. StateTypes' /\ MarkedInv' /\ CompleteMeansPrefetched'
      BY <1>a, <1>12 DEF RemoveAll, Goto, ClearQueue, StillRequired, TypeOK,
                         StateTypes, MarkedInv, CompleteMeansPrefetched,
                         connectionVars, failureVars, trackerVars
  <2> QED
      BY <2>1, <2>2, <2>3, <2>4, <2>5, <2>6 DEF IInv, TypeOK
<1>13. ASSUME NEW t \in Threads, Unmark(t)
      PROVE  IInv'
  <2> DEFINE c == consumer[t]
  <2>0. /\ c \in Consumers
        /\ lock[c] = t /\ queue[c] = <<>> /\ clearRequired[c] > 0
      BY <1>a, <1>13 DEF Unmark, Goto, AfterClear, TypeOK, ThreadTypes,
                         LockInv, Emptied
  <2>1. StateTypes'
      BY <1>a, <2>0, <1>13 DEF Unmark, Goto, AfterClear, TypeOK, StateTypes,
                               connectionVars, failureVars, trackerVars
  <2>2. ThreadTypes'
      BY <1>a, <1>13 DEF Unmark, Goto, AfterClear, TypeOK, ThreadTypes, Places
  <2>3. LockInv'
      BY <1>a, <1>13 DEF Unmark, Goto, AfterClear, TypeOK, StateTypes,
                         ChannelTypes, ThreadTypes, LockInv, Emptied,
                         connectionVars, failureVars, trackerVars, taskVars
  <2>4. FreshInv'
    <3> SUFFICES ASSUME NEW d \in Consumers,
                        (clearRequired[d] = 0 /\ Counted(d))',
                        NEW m \in Range(queue[d])
                 PROVE  m.late \/ Current(m)
        BY <1>13 DEF Unmark, Goto, AfterClear, FreshInv, Current,
                     connectionVars, failureVars
    <3>1. d # c
        BY <2>0, RangeEmpty
    <3>2. clearRequired[d] = 0 /\ Counted(d)
        BY <1>a, <3>1, <1>13 DEF Unmark, Goto, AfterClear, TypeOK, StateTypes,
                                 Counted, connectionVars, failureVars,
                                 trackerVars
    <3> QED
        BY <1>a, <3>2, <1>13 DEF Unmark, Goto, AfterClear, FreshInv,
                                 connectionVars, failureVars
  <2>5. ControlInv'
      BY <1>a, <1>13 DEF Unmark, Goto, AfterClear, TypeOK, ThreadTypes,
                         ControlInv, connectionVars, trackerVars
  <2>6. ChannelTypes' /\ MarkedInv' /\ CompleteMeansPrefetched'
      BY <1>a, <1>13 DEF Unmark, Goto, AfterClear, TypeOK, ChannelTypes,
                         MarkedInv, CompleteMeansPrefetched, connectionVars,
                         failureVars, trackerVars, taskVars
  <2> QED
      BY <2>1, <2>2, <2>3, <2>4, <2>5, <2>6 DEF IInv, TypeOK
<1>14. ASSUME NEW t \in Threads, Signal(t)
      PROVE  IInv'
  <2>1. ThreadTypes'
      BY <1>a, <1>14 DEF Signal, Goto, SignalWith, TypeOK, StateTypes,
                         ThreadTypes, Places, consumerVars
  <2>2. LockInv'
      BY <1>a, <1>14 DEF Signal, Goto, SignalWith, MutexFree, TypeOK,
                         ThreadTypes, LockInv, Emptied, consumerVars
  <2>3. ControlInv'
      BY <1>a, <1>14 DEF Signal, Goto, SignalWith, MutexFree, TypeOK,
                         ThreadTypes, ControlInv, connectionVars, consumerVars
  <2>4. CompleteMeansPrefetched'
      BY <1>a, <1>14 DEF Signal, Goto, SignalWith, MutexFree, TypeOK,
                         ThreadTypes, ControlInv, CompleteMeansPrefetched,
                         connectionVars, consumerVars
  <2>5. StateTypes' /\ ChannelTypes' /\ MarkedInv' /\ FreshInv'
      BY <1>a, <1>14 DEF Signal, Goto, SignalWith, MutexFree, TypeOK,
                         StateTypes, ChannelTypes, MarkedInv, FreshInv,
                         Counted, Current, connectionVars, failureVars,
                         taskVars, consumerVars
  <2> QED
      BY <2>1, <2>2, <2>3, <2>4, <2>5 DEF IInv, TypeOK
<1>15. ASSUME NEW t \in Threads, NEW c \in Consumers, SendControl(t, c)
      PROVE  IInv'
  <2>1. ThreadTypes'
      BY <1>a, <1>15 DEF SendControl, MutexFree, TypeOK, ThreadTypes, Places,
                         consumerVars
  <2>2. ControlInv'
      BY <1>a, <1>15 DEF SendControl, MutexFree, TypeOK, ThreadTypes,
                         ControlInv, connectionVars, consumerVars
  <2>3. CompleteMeansPrefetched'
      BY <1>a, <1>15 DEF SendControl, MutexFree, TypeOK, ThreadTypes,
                         ControlInv, CompleteMeansPrefetched, connectionVars,
                         consumerVars
  <2>4. StateTypes' /\ ChannelTypes' /\ LockInv' /\ MarkedInv' /\ FreshInv'
      BY <1>a, <1>15 DEF SendControl, MutexFree, TypeOK, StateTypes,
                         ChannelTypes, LockInv, Emptied, MarkedInv, FreshInv,
                         Counted, Current, connectionVars, failureVars,
                         taskVars, consumerVars
  <2> QED
      BY <2>1, <2>2, <2>3, <2>4 DEF IInv, TypeOK
<1>16. ASSUME NEW t \in Threads, Signalled(t)
      PROVE  IInv'
  <2>1. ThreadTypes'
      BY <1>a, <1>16 DEF Signalled, Goto, TypeOK, ThreadTypes, Places,
                         consumerVars
  <2>2. LockInv'
      BY <1>a, <1>16 DEF Signalled, Goto, TypeOK, ThreadTypes, LockInv,
                         Emptied, consumerVars
  <2>3. ControlInv'
      BY <1>a, <1>16 DEF Signalled, Goto, TypeOK, ThreadTypes, ControlInv,
                         connectionVars, trackerVars, consumerVars
  <2>4. /\ StateTypes' /\ ChannelTypes' /\ MarkedInv' /\ FreshInv'
        /\ CompleteMeansPrefetched'
      BY <1>a, <1>16 DEF Signalled, Goto, TypeOK, StateTypes, ChannelTypes,
                         MarkedInv, FreshInv, Counted, Current,
                         CompleteMeansPrefetched, connectionVars, failureVars,
                         trackerVars, taskVars, consumerVars
  <2> QED
      BY <2>1, <2>2, <2>3, <2>4 DEF IInv, TypeOK
<1>17. ASSUME NEW c \in Consumers, Dispatch(c)
      PROVE  IInv'
  <2>1. StateTypes'
      BY <1>a, <1>17 DEF Dispatch, Goto, TypeOK, StateTypes, connectionVars,
                         failureVars, trackerVars, consumerVars
  <2>2. [id |-> dispatched + 1, epoch |-> epoch] \in Messages
      BY <1>a DEF TypeOK, StateTypes, Messages
  <2>3. ThreadTypes'
      BY <1>a, <2>2, <1>17, Zenon DEF Dispatch, Goto, TypeOK, ThreadTypes,
                                      Places,
                               consumerVars
  <2>4. LockInv'
      BY <1>a, <1>17 DEF Dispatch, Goto, TypeOK, ThreadTypes, LockInv,
                         Emptied, consumerVars
  <2>5. ControlInv'
      BY <1>a, <1>17 DEF Dispatch, Goto, TypeOK, ThreadTypes, ControlInv,
                         connectionVars, trackerVars, consumerVars
  <2>6. ChannelTypes' /\ MarkedInv' /\ FreshInv' /\ CompleteMeansPrefetched'
      BY <1>a, <1>17 DEF Dispatch, Goto, TypeOK, ChannelTypes, MarkedInv,
                         FreshInv, Counted, Current, CompleteMeansPrefetched,
                         connectionVars, failureVars, trackerVars, taskVars,
                         consumerVars
  <2> QED
      BY <2>1, <2>3, <2>4, <2>5, <2>6 DEF IInv, TypeOK
<1>18. ASSUME NEW t \in Threads, WaitForProcessing(t)
      PROVE  IInv'
  <2>1. ThreadTypes'
      BY <1>a, <1>18 DEF WaitForProcessing, Goto, TypeOK, ThreadTypes, Places,
                         consumerVars
  <2>2. LockInv'
    <3> SUFFICES ASSUME NEW u \in Threads PROVE LockInv!(u)'
        BY <1>18 DEF WaitForProcessing, Goto, LockInv, consumerVars
    <3>1. ~Emptied(t)' /\ pc'[t] # "locked"
        BY <1>a, <1>18 DEF WaitForProcessing, Goto, TypeOK, ThreadTypes,
                           Emptied, consumerVars
    <3>2. ASSUME u # t PROVE pc'[u] = pc[u] /\ return'[u] = return[u]
        BY <1>a, <3>2, <1>18 DEF WaitForProcessing, Goto, TypeOK, ThreadTypes,
                                 consumerVars
    <3> QED
        BY <1>a, <3>1, <3>2, <1>18 DEF WaitForProcessing, Goto, LockInv,
                                       Emptied, consumerVars
  <2>3. ControlInv'
      BY <1>a, <1>18 DEF WaitForProcessing, Goto, TypeOK, ThreadTypes,
                         ControlInv, connectionVars, trackerVars, consumerVars
  <2>4. /\ StateTypes' /\ ChannelTypes' /\ MarkedInv' /\ FreshInv'
        /\ CompleteMeansPrefetched'
      BY <1>a, <1>18 DEF WaitForProcessing, Goto, TypeOK, StateTypes,
                         ChannelTypes, MarkedInv, FreshInv, Counted, Current,
                         CompleteMeansPrefetched, connectionVars, failureVars,
                         trackerVars, taskVars, consumerVars
  <2> QED
      BY <2>1, <2>2, <2>3, <2>4 DEF IInv, TypeOK
<1>19. ASSUME NEW t \in Threads, Deliver(t)
      PROVE  IInv'
  <2>0. [consumer |-> consumer[t], message |-> message[t]] \in Deliveries
      BY <1>a DEF TypeOK, ThreadTypes, Deliveries
  <2>1. ChannelTypes'
      BY <1>a, <2>0, <1>19 DEF Deliver, TypeOK, ChannelTypes, consumerVars
  <2>2. ThreadTypes'
      BY <1>a, <1>19 DEF Deliver, Goto, TypeOK, ThreadTypes, Places,
                         consumerVars
  <2>3. LockInv'
      BY <1>a, <1>19 DEF Deliver, Goto, TypeOK, ThreadTypes, LockInv, Emptied,
                         consumerVars
  <2>4. ControlInv'
      BY <1>a, <1>19 DEF Deliver, Goto, TypeOK, ThreadTypes, ControlInv,
                         connectionVars, trackerVars, consumerVars
  <2>5. StateTypes' /\ MarkedInv' /\ FreshInv' /\ CompleteMeansPrefetched'
      BY <1>a, <1>19 DEF Deliver, TypeOK, StateTypes, MarkedInv,
                         FreshInv, Counted, Current, CompleteMeansPrefetched,
                         connectionVars, failureVars, trackerVars,
                         consumerVars
  <2> QED
      BY <2>1, <2>2, <2>3, <2>4, <2>5 DEF IInv, TypeOK
<1>20. ASSUME NEW t \in Threads, Enqueue(t)
      PROVE  IInv'
  <2> DEFINE c == consumer[t]
             e == [id |-> message[t].id, epoch |-> message[t].epoch,
                   late |-> ~Current(message[t])]
  <2>0. c \in Consumers /\ e \in Entries /\ (e.late \/ Current(e))
    <3>1. c \in Consumers /\ message[t] \in Messages
        BY <1>a DEF TypeOK, ThreadTypes
    <3>2. e \in Entries
        BY <3>1 DEF Messages, Entries, Current
    <3> QED
        BY <3>1, <3>2, Zenon DEF Current
  <2> HIDE DEF e
  <2>1. /\ pc[t] = "enqueue" /\ lock[c] = Nobody
        /\ queue' = [queue EXCEPT ![c] = Append(@, e)]
        /\ pc' = [pc EXCEPT ![t] = "idle"]
        /\ UNCHANGED <<up, epoch, failing, uncounted, marked, complete,
                       recovering, prefetched, clearRequired, lock, tasks,
                       sessionQueue, consumer, message, return, controls,
                       dispatched>>
      BY <1>20, Zenon DEF Enqueue, Goto, e, connectionVars, failureVars,
                          trackerVars,
                   taskVars
  <2>2. ChannelTypes'
    <3>1. queue' \in [Consumers -> Seq(Entries)]
        BY <1>a, <2>0, <2>1, AppendTyped DEF TypeOK, ChannelTypes
    <3> QED
        BY <1>a, <2>1, <3>1, Zenon DEF TypeOK, ChannelTypes
  <2>3. ThreadTypes'
      BY <1>a, <2>1 DEF TypeOK, ThreadTypes, Places
  <2>4. LockInv'
    <3> SUFFICES ASSUME NEW u \in Threads PROVE LockInv!(u)'
        BY DEF LockInv
    <3>1. pc'[t] = "idle" /\ (u # t => pc'[u] = pc[u])
        BY <1>a, <2>1 DEF TypeOK, ThreadTypes
    <3>2. consumer[u] # c => queue'[consumer[u]] = queue[consumer[u]]
        BY <1>a, <2>1 DEF TypeOK, ChannelTypes
    <3>3. consumer[u] = c => pc[u] # "locked" /\ ~Emptied(u)
        BY <1>a, <2>1, RecoveryAssumption DEF LockInv
    <3> QED
        BY <1>a, <2>1, <3>1, <3>2, <3>3 DEF LockInv, Emptied
  <2>5. FreshInv'
    <3> SUFFICES ASSUME NEW d \in Consumers,
                        clearRequired[d] = 0 /\ Counted(d),
                        NEW m \in Range(queue'[d])
                 PROVE  m.late \/ Current(m)
        BY <2>1 DEF FreshInv, Counted, Current
    <3>1. \A n \in Range(queue[d]) : n.late \/ Current(n)
        BY <1>a DEF FreshInv
    <3>2. CASE d = c
      <4>1. queue[c] \in Seq(Entries) /\ queue'[c] = Append(queue[c], e)
          BY <1>a, <2>0, <2>1 DEF TypeOK, ChannelTypes
      <4>2. m \in Range(queue[c]) \/ m = e
          BY <3>2, <4>1, RangeAppend
      <4> QED
          BY <2>0, <3>1, <3>2, <4>2, Zenon
    <3>3. CASE d # c
        BY <1>a, <2>1, <3>1, <3>3 DEF TypeOK, ChannelTypes
    <3> QED
        BY <3>2, <3>3
  <2>6. ControlInv'
      BY <1>a, <2>1 DEF TypeOK, ThreadTypes, ControlInv
  <2>7. StateTypes' /\ MarkedInv' /\ CompleteMeansPrefetched'
      BY <1>a, <2>1 DEF TypeOK, StateTypes, MarkedInv, CompleteMeansPrefetched
  <2> QED
      BY <2>2, <2>3, <2>4, <2>5, <2>6, <2>7 DEF IInv, TypeOK
<1>21. ASSUME NEW c \in Consumers, Receive(c)
      PROVE  IInv'
  <2>1. ChannelTypes'
      BY <1>a, <1>21 DEF Receive, TypeOK, ChannelTypes, taskVars
  <2>2. LockInv'
      BY <1>a, <1>21, SMTT(30) DEF Receive, TypeOK, StateTypes, ChannelTypes,
                         ThreadTypes, LockInv, Emptied, connectionVars,
                         failureVars, trackerVars, taskVars, threadVars
  <2>3. FreshInv'
    <3> SUFFICES ASSUME NEW d \in Consumers,
                        clearRequired[d] = 0 /\ Counted(d),
                        NEW m \in Range(queue'[d])
                 PROVE  m.late \/ Current(m)
        BY <1>21 DEF Receive, FreshInv, Counted, Current, connectionVars,
                     failureVars
    <3>1. \A n \in Range(queue[d]) : n.late \/ Current(n)
        BY <1>a DEF FreshInv
    <3>2. CASE d = c
      <4>1. queue[c] \in Seq(Entries) /\ queue'[c] = Tail(queue[c])
          BY <1>a, <1>21 DEF Receive, TypeOK, ChannelTypes, taskVars
      <4>2. m \in Range(queue[c])
          BY <1>21, <3>2, <4>1, RangeTail DEF Receive
      <4> QED
          BY <3>1, <3>2, <4>2
    <3>3. CASE d # c
        BY <1>a, <1>21, <3>1, <3>3 DEF Receive, TypeOK, ChannelTypes
    <3> QED
        BY <3>2, <3>3, Zenon
  <2>4. /\ StateTypes' /\ ThreadTypes' /\ MarkedInv' /\ ControlInv'
        /\ CompleteMeansPrefetched'
      BY <1>a, <1>21 DEF Receive, TypeOK, StateTypes, ThreadTypes, MarkedInv,
                         ControlInv, CompleteMeansPrefetched, connectionVars,
                         failureVars, trackerVars, threadVars
  <2> QED
      BY <2>1, <2>2, <2>3, <2>4 DEF IInv, TypeOK
<1>22. CASE UNCHANGED vars
  <2>1. TypeOK' /\ LockInv' /\ MarkedInv'
      BY <1>a, <1>22 DEF vars, TypeOK, StateTypes, ChannelTypes, ThreadTypes,
                         LockInv, Emptied, MarkedInv, connectionVars,
                         failureVars, trackerVars, taskVars, consumerVars,
                         threadVars
  <2>2. FreshInv' /\ ControlInv' /\ CompleteMeansPrefetched'
      BY <1>a, <1>22 DEF vars, FreshInv, Counted, Current, ControlInv,
                         CompleteMeansPrefetched, connectionVars, failureVars,
                         trackerVars, consumerVars, threadVars
  <2> QED
      BY <2>1, <2>2 DEF IInv
<1> QED
    BY <1>1, <1>2, <1>3, <1>4, <1>5, <1>6, <1>7, <1>8, <1>9, <1>10, <1>11,
           <1>12, <1>13, <1>14, <1>15, <1>16, <1>17, <1>18, <1>19, <1>20,
           <1>21, <1>22 DEF Next, FailureStep, ThreadStep

\* The invariant holds in every reachable state.
THEOREM Invariant == Spec => []IInv
BY InitIInv, NextIInv, PTL DEF Spec

\* No message of a lost connection stays in a consumer's channel once
\* clearMessagesInProgress has nothing to do for it, save those a thread had
\* in its hands, for any number of consumers and interruptions.
THEOREM NoStaleMessages == Spec => []OnlyCurrentMessages
<1>1. IInv => OnlyCurrentMessages
    BY DEF IInv, FreshInv, Counted, Current, OnlyCurrentMessages
<1> QED
    BY <1>1, Invariant, PTL

\* Once the tracker takes interruption processing for complete, no consumer
\* is left with the prefetch of zero it was restored with: it has its
\* prefetch or a ConsumerControl for it is about to be sent.
THEOREM NoConsumerStalls == Spec => []CompleteMeansPrefetched
<1>1. IInv => CompleteMeansPrefetched
    BY DEF IInv
<1> QED
    BY <1>1, Invariant, PTL
=============================================================================
