------------------------ MODULE InterruptionRecovery ------------------------
(***************************************************************************)
(* What the client does between the loss of a connection and the first     *)
(* messages of the next one, so that no message of the lost connection is  *)
(* taken for one of the new: FailoverTransport::handleTransportFailure     *)
(* tells ActiveMQConnection::transportInterrupted, which counts the        *)
(* consumers in transportInterruptionProcessingComplete and has a          *)
(* ClearConsumerTask scheduled for each.  Until the count is back at zero  *)
(* the ConnectionStateTracker restores consumers with a prefetch of zero,  *)
(* so that the broker sends them nothing; then a ConsumerControl gives     *)
(* each its prefetch back.                                                 *)
(*                                                                         *)
(* Threads: the one that met the failure, which holds reconnectMutex while *)
(* it tells the connection (failing); the reconnect task; the thread of    *)
(* the Scheduler, which runs the tasks in order (Timer); the reading       *)
(* thread of each connection, which puts a message into the channel of the *)
(* session; the session's thread (Executor), which moves it to the channel *)
(* of its consumer; the application.  The reader of a lost connection and  *)
(* the executor finish with the message they have in their hands.  All     *)
(* consumers are in one session, which dispatches asynchronously.          *)
(***************************************************************************)
EXTENDS Integers, Sequences, Functions

CONSTANTS
    \* Consumers of the connection, created with a prefetch above zero.
    Consumers,
    \* Bounds on the lost connections and on the messages dispatched.
    MaxLosses, MaxMessages,
    \* Nobody holds a lock.
    Nobody

Epochs == 1..(MaxLosses + 1)
Timer == 0
Executor == -1
\* The timer and the executor clear; each connection has a reader.
Threads == {Executor, Timer} \cup Epochs

ASSUME RecoveryAssumption ==
    /\ Consumers # {}
    /\ MaxLosses \in Nat
    /\ MaxMessages \in Nat
    /\ Nobody \notin Threads

VARIABLES
    \* Whether connection number epoch is up.
    up, epoch,
    \* The consumers that transportInterrupted has still to count, the one
    \* whose clear it has required and not yet counted, and how far it is.
    failing, uncounted, marked,
    \* transportInterruptionProcessingComplete of the connection.
    counter,
    \* connectionInterruptProcessingComplete and recoveringPullConsumers of
    \* the tracked ConnectionState.
    complete, recovering,
    \* Of each consumer: whether the broker restored it with its prefetch,
    \* inProgressClearRequiredFlag, the unconsumedMessages and their mutex.
    prefetched, clearRequired, queue, lock,
    \* ClearConsumerTasks of the scheduler, and the channel of the session.
    tasks, sessionQueue,
    \* Of each thread: its place, consumer and message, where it returns to
    \* from signalInterruptionProcessingComplete, and the controls to send.
    pc, consumer, message, return, controls,
    \* Messages dispatched.
    dispatched

connectionVars == <<up, epoch>>
failureVars == <<failing, uncounted, marked>>
trackerVars == <<complete, recovering, prefetched>>
taskVars == <<tasks, sessionQueue>>
consumerVars == <<clearRequired, queue, lock>>
threadVars == <<pc, consumer, message, return, controls>>
vars == <<connectionVars, failureVars, counter, trackerVars, consumerVars,
          taskVars, threadVars, dispatched>>

NoMessage == [id |-> 0, epoch |-> 0]
AnyConsumer == CHOOSE c \in Consumers : TRUE

Init ==
    /\ up = TRUE
    /\ epoch = 1
    /\ failing = "no"
    /\ uncounted = {}
    /\ marked = {}
    /\ counter = 0
    /\ complete = TRUE
    /\ recovering = {}
    /\ prefetched = Consumers
    /\ clearRequired = [c \in Consumers |-> 0]
    /\ queue = [c \in Consumers |-> <<>>]
    /\ lock = [c \in Consumers |-> Nobody]
    /\ tasks = <<>>
    /\ sessionQueue = <<>>
    /\ pc = [t \in Threads |-> "idle"]
    /\ consumer = [t \in Threads |-> AnyConsumer]
    /\ message = [t \in Threads |-> NoMessage]
    /\ return = [t \in Threads |-> "idle"]
    /\ controls = [t \in Threads |-> {}]
    /\ dispatched = 0

Goto(t, where) == pc' = [pc EXCEPT ![t] = where]

\* reconnectMutex is free unless a failure is being handled.
MutexFree == failing = "no"

-----------------------------------------------------------------------------
(* handleTransportFailure, transportInterrupted.                           *)

\* The connection is taken out of use and the tracker told.
Fail ==
    /\ up
    /\ MutexFree
    /\ epoch <= MaxLosses
    /\ up' = FALSE
    /\ complete' = FALSE
    /\ failing' = "reset"
    /\ UNCHANGED <<epoch, uncounted, marked, counter, recovering, prefetched,
                   consumerVars, taskVars, threadVars, dispatched>>

\* transportInterruptionProcessingComplete->set(0), and the session's channel
\* is emptied.
ResetCounter ==
    /\ failing = "reset"
    /\ counter' = 0
    /\ uncounted' = Consumers
    /\ sessionQueue' = <<>>
    /\ failing' = "count"
    /\ UNCHANGED <<connectionVars, marked, trackerVars, consumerVars, tasks,
                   threadVars, dispatched>>

\* inProgressClearRequired of the next consumer.
RequireClear(c) ==
    /\ failing = "count"
    /\ marked = {}
    /\ c \in uncounted
    /\ clearRequired' = [clearRequired EXCEPT ![c] = @ + 1]
    /\ marked' = {c}
    /\ UNCHANGED <<connectionVars, failing, uncounted, counter, trackerVars,
                   queue, lock, taskVars, threadVars, dispatched>>

CountConsumerWith(c, scheduled) ==
    /\ c \in marked
    /\ counter' = counter + 1
    /\ tasks' = scheduled
    /\ uncounted' = uncounted \ {c}
    /\ marked' = {}
    /\ UNCHANGED <<connectionVars, failing, trackerVars, consumerVars,
                   sessionQueue, threadVars, dispatched>>

\* Mutant: no task is scheduled; the next dispatch would clear.
CountOnly(c) == CountConsumerWith(c, tasks)

\* incrementAndGet, executeAfterDelay(ClearConsumerTask, 0)
CountConsumer(c) == CountConsumerWith(c, Append(tasks, c))

FailureHandled ==
    /\ failing = "count"
    /\ uncounted = {}
    /\ failing' = "no"
    /\ UNCHANGED <<connectionVars, uncounted, marked, counter, trackerVars,
                   consumerVars, taskVars, threadVars, dispatched>>

\* doRestoreConsumers on a new connection.
Reconnect ==
    /\ ~up
    /\ MutexFree
    /\ up' = TRUE
    /\ epoch' = epoch + 1
    /\ IF complete
       THEN prefetched' = Consumers /\ UNCHANGED recovering
       ELSE prefetched' = {} /\ recovering' = Consumers
    /\ UNCHANGED <<failureVars, counter, complete, consumerVars, taskVars,
                   threadVars, dispatched>>

-----------------------------------------------------------------------------
(* The clear: ActiveMQConsumerKernel::clearMessagesInProgress, run by the  *)
(* timer and at the start of every dispatch.                               *)

\* Where the thread goes on when the clear is done.
AfterClear(t) == IF t = Timer THEN "idle" ELSE "enqueue"

RunTask ==
    /\ pc[Timer] = "idle"
    /\ tasks # <<>>
    /\ consumer' = [consumer EXCEPT ![Timer] = Head(tasks)]
    /\ tasks' = Tail(tasks)
    /\ Goto(Timer, "clear")
    /\ UNCHANGED <<connectionVars, failureVars, counter, trackerVars,
                   consumerVars, sessionQueue, message, return, controls,
                   dispatched>>

\* ActiveMQSessionExecutor::iterate takes the next message and dispatches it.
TakeMessage ==
    /\ pc[Executor] = "idle"
    /\ sessionQueue # <<>>
    /\ consumer' = [consumer EXCEPT ![Executor] = Head(sessionQueue).consumer]
    /\ message' = [message EXCEPT ![Executor] = Head(sessionQueue).message]
    /\ sessionQueue' = Tail(sessionQueue)
    /\ Goto(Executor, "clear")
    /\ UNCHANGED <<connectionVars, failureVars, counter, trackerVars,
                   consumerVars, tasks, return, controls, dispatched>>

\* The first test of the flag, without the lock.
TestClear(t) ==
    /\ pc[t] = "clear"
    /\ Goto(t, IF clearRequired[consumer[t]] > 0 THEN "lock" ELSE AfterClear(t))
    /\ UNCHANGED <<connectionVars, failureVars, counter, trackerVars,
                   consumerVars, taskVars, consumer, message, return, controls,
                   dispatched>>

LockToClear(t) ==
    /\ pc[t] = "lock"
    /\ lock[consumer[t]] = Nobody
    /\ lock' = [lock EXCEPT ![consumer[t]] = t]
    /\ Goto(t, "locked")
    /\ UNCHANGED <<connectionVars, failureVars, counter, trackerVars,
                   clearRequired, queue, taskVars, consumer, message, return,
                   controls, dispatched>>

\* The second test of the flag, with the lock.
StillRequired(t) == clearRequired[consumer[t]] > 0

ClearedMeanwhile(t) ==
    /\ pc[t] = "locked"
    /\ ~StillRequired(t)
    /\ lock' = [lock EXCEPT ![consumer[t]] = Nobody]
    /\ Goto(t, AfterClear(t))
    /\ UNCHANGED <<connectionVars, failureVars, counter, trackerVars,
                   clearRequired, queue, taskVars, consumer, message, return,
                   controls, dispatched>>

Current(m) == up /\ m.epoch = epoch

ClearQueue(t, kept) ==
    LET c == consumer[t] IN
    /\ pc[t] = "locked"
    /\ StillRequired(t)
    /\ queue' = [queue EXCEPT ![c] = kept]
    /\ counter' = counter - 1
    /\ return' = [return EXCEPT ![t] = "unmark"]
    /\ Goto(t, IF counter' = 0 THEN "signal" ELSE "unmark")
    /\ UNCHANGED <<connectionVars, failureVars, trackerVars, clearRequired,
                   lock, taskVars, consumer, message, controls, dispatched>>

\* Mutant: the last message is left in the channel.
RemoveAllButOne(t) ==
    LET q == queue[consumer[t]] IN
    ClearQueue(t, IF Len(q) = 0 THEN <<>> ELSE <<q[Len(q)]>>)

\* removeAll, then setTransportInterruptionProcessingComplete.
RemoveAll(t) == ClearQueue(t, <<>>)

\* inProgressClearRequiredFlag.decrementAndGet, and the lock is released.
Unmark(t) ==
    /\ pc[t] = "unmark"
    /\ clearRequired' = [clearRequired EXCEPT ![consumer[t]] = @ - 1]
    /\ lock' = [lock EXCEPT ![consumer[t]] = Nobody]
    /\ Goto(t, AfterClear(t))
    /\ UNCHANGED <<connectionVars, failureVars, counter, trackerVars, queue,
                   taskVars, consumer, message, return, controls, dispatched>>

-----------------------------------------------------------------------------
(* signalInterruptionProcessingComplete.                                   *)

SignalWith(t, stalled) ==
    /\ pc[t] = "signal"
    /\ MutexFree
    /\ complete' = TRUE
    /\ controls' = [controls EXCEPT ![t] = stalled]
    /\ Goto(t, "controls")
    /\ UNCHANGED <<connectionVars, failureVars, counter, recovering, prefetched,
                   consumerVars, taskVars, consumer, message, return,
                   dispatched>>

\* Mutant: no ConsumerControl is sent.
SignalOnly(t) == SignalWith(t, {})

\* connectionInterruptProcessingComplete: the flag, and a copy of the map.
Signal(t) == SignalWith(t, recovering)

\* oneway of a ConsumerControl: it waits for a connection.
SendControl(t, c) ==
    /\ pc[t] = "controls"
    /\ c \in controls[t]
    /\ MutexFree
    /\ up
    /\ prefetched' = prefetched \cup {c}
    /\ controls' = [controls EXCEPT ![t] = @ \ {c}]
    /\ UNCHANGED <<connectionVars, failureVars, counter, complete, recovering,
                   consumerVars, taskVars, pc, consumer, message, return,
                   dispatched>>

\* transportInterruptionProcessingComplete->set(0)
Signalled(t) ==
    /\ pc[t] = "controls"
    /\ controls[t] = {}
    /\ counter' = 0
    /\ Goto(t, return[t])
    /\ UNCHANGED <<connectionVars, failureVars, trackerVars, consumerVars,
                   taskVars, consumer, message, return, controls, dispatched>>

-----------------------------------------------------------------------------
(* The readers: ActiveMQConnection::onCommand of a MessageDispatch.        *)

\* The broker sends a message to a consumer that has its prefetch.
Dispatch(c) ==
    LET t == epoch IN
    /\ up
    /\ pc[t] = "idle"
    /\ c \in prefetched
    /\ dispatched < MaxMessages
    /\ dispatched' = dispatched + 1
    /\ consumer' = [consumer EXCEPT ![t] = c]
    /\ message' = [message EXCEPT ![t] =
                       [id |-> dispatched + 1, epoch |-> epoch]]
    /\ Goto(t, "wait")
    /\ UNCHANGED <<connectionVars, failureVars, counter, trackerVars,
                   consumerVars, taskVars, return, controls>>

\* waitForTransportInterruptionProcessingToComplete: it does not wait, it
\* declares the processing complete.
WaitForProcessing(t) ==
    /\ pc[t] = "wait"
    /\ IF counter > 0
       THEN Goto(t, "signal") /\ return' = [return EXCEPT ![t] = "wait"]
       ELSE Goto(t, "deliver") /\ UNCHANGED return
    /\ UNCHANGED <<connectionVars, failureVars, counter, trackerVars,
                   consumerVars, taskVars, consumer, message, controls,
                   dispatched>>

\* ActiveMQSessionExecutor::execute: the message is put into the session's
\* channel.
Deliver(t) ==
    /\ pc[t] = "deliver"
    /\ sessionQueue' =
           Append(sessionQueue,
                  [consumer |-> consumer[t], message |-> message[t]])
    /\ Goto(t, "idle")
    /\ UNCHANGED <<connectionVars, failureVars, counter, trackerVars,
                   consumerVars, tasks, consumer, message, return, controls,
                   dispatched>>

\* ActiveMQConsumerKernel::dispatch puts it into the consumer's channel.
Enqueue(t) ==
    LET c == consumer[t] IN
    /\ pc[t] = "enqueue"
    /\ lock[c] = Nobody
    /\ queue' = [queue EXCEPT ![c] =
           Append(@, [id |-> message[t].id, epoch |-> message[t].epoch,
                      late |-> ~Current(message[t])])]
    /\ Goto(t, "idle")
    /\ UNCHANGED <<connectionVars, failureVars, counter, trackerVars,
                   clearRequired, lock, taskVars, consumer, message, return,
                   controls, dispatched>>

\* The application takes a message.
Receive(c) ==
    /\ queue[c] # <<>>
    /\ lock[c] = Nobody
    /\ queue' = [queue EXCEPT ![c] = Tail(@)]
    /\ UNCHANGED <<connectionVars, failureVars, counter, trackerVars,
                   clearRequired, lock, taskVars, threadVars, dispatched>>

-----------------------------------------------------------------------------
FailureStep ==
    \/ ResetCounter
    \/ \E c \in Consumers : RequireClear(c) \/ CountConsumer(c)
    \/ FailureHandled

ThreadStep(t) ==
    \/ TestClear(t)
    \/ LockToClear(t)
    \/ ClearedMeanwhile(t)
    \/ RemoveAll(t)
    \/ Unmark(t)
    \/ Signal(t)
    \/ \E c \in Consumers : SendControl(t, c)
    \/ Signalled(t)
    \/ WaitForProcessing(t)
    \/ Deliver(t)
    \/ Enqueue(t)

Next ==
    \/ Fail
    \/ FailureStep
    \/ Reconnect
    \/ RunTask
    \/ TakeMessage
    \/ \E t \in Threads : ThreadStep(t)
    \/ \E c \in Consumers : Dispatch(c) \/ Receive(c)

Spec == Init /\ [][Next]_vars

\* The threads that clear run, and the reconnect task finds a broker.  The
\* broker need not send anything, the readers of the connections need not run
\* and the application need not receive.
FairSpec ==
    /\ Spec
    /\ WF_vars(FailureStep)
    /\ WF_vars(Reconnect)
    /\ WF_vars(RunTask \/ ThreadStep(Timer))
    /\ WF_vars(TakeMessage \/ ThreadStep(Executor))

-----------------------------------------------------------------------------
(* Properties.                                                             *)

\* Once a consumer has no clear to do, the messages in its channel are those
\* of the latest connection: none of a lost one is handed to the application
\* as if it were new.  The exception are messages that a thread had in its
\* hands when the connection was lost.
OnlyCurrentMessages ==
    \A c \in Consumers :
        (clearRequired[c] = 0 /\ failing = "no") =>
            \A m \in Range(queue[c]) : m.epoch = epoch \/ m.late

\* While the tracker takes the processing for complete, every consumer of the
\* connection has its prefetch, or a thread is about to give it back.
CompleteMeansPrefetched ==
    (complete /\ up) =>
        \A c \in Consumers : \/ c \in prefetched
                             \/ \E t \in Threads : c \in controls[t]

\* A clear that is required is done, whatever thread waits for which lock or
\* for the next connection: interruptions do not block the consumers for good.
ClearsAreDone ==
    \A c \in Consumers : clearRequired[c] > 0 ~> clearRequired[c] = 0
=============================================================================
