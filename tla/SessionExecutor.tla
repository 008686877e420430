-------------------------- MODULE SessionExecutor --------------------------
(***************************************************************************)
(* ActiveMQSessionExecutor, the DedicatedTaskRunners it creates, and what  *)
(* ActiveMQSessionKernel and ActiveMQConsumerKernel do on their thread:    *)
(* how the messages of a session's consumers are brought one after another *)
(* to the listeners, while the session is stopped and started.             *)
(*                                                                         *)
(* Threads: the connection's, which puts a message into the channel of the *)
(* session; the Scheduler's, which starts a consumer again after the delay *)
(* of a redelivery; the application's; and the runners, of which each      *)
(* start of the session may need a new one.  The channel of the session    *)
(* (queue) and those of the consumers (held) are FifoMessageDispatch-      *)
(* Channels.  All consumers have a listener.                               *)
(*                                                                         *)
(* A thread's call of wakeup, stop or start is a sequence of steps of that *)
(* thread; ret[t] says where it goes on after wakeup.                      *)
(***************************************************************************)
EXTENDS Integers, Sequences, FiniteSets

CONSTANTS
    \* The consumers are 1..NConsumers, in the order of the session's list.
    NConsumers,
    \* Messages 1..MaxMessages go to the consumers in turn.
    MaxMessages,
    \* Bounds on the stops of the session, and on the rollbacks.
    MaxStops, MaxRollbacks,
    \* Whether a listener sets another consumer's listener, which stops and
    \* starts the session; and the consumers that may be closed.
    Restarts, Closable

ASSUME ExecutorAssumption ==
    /\ NConsumers \in Nat \ {0}
    /\ MaxMessages \in Nat
    /\ MaxStops \in Nat
    /\ MaxRollbacks \in Nat
    /\ Restarts \in BOOLEAN
    /\ Closable \subseteq 1..NConsumers

Consumers == 1..NConsumers
Messages == 1..MaxMessages
ConsumerOf(m) == ((m - 1) % NConsumers) + 1

\* Each start of the session creates at most one runner.
Runners == 1..(MaxStops + 1)
Nobody == 0
Connection == -1
Scheduler == -2
Application == -3
Threads == {Connection, Scheduler, Application} \cup Runners

VARIABLES
    \* Messages that have come; the session's channel and whether it runs.
    sent, queue, running,
    \* taskRunner (0 for NULL), and the number of runners created.
    taskRunner, created,
    \* pending and shutDown of each runner.
    pending, shutDown,
    \* Where each thread is; after wakeup; the runner it wakes up or shuts
    \* down; the consumer it is at.
    pc, ret, target, index,
    \* The message in the hands of each runner, and whether that runner has
    \* it from iterateConsumers and not from the channel of the session.
    message, fromConsumer,
    \* unconsumedMessages of each consumer, whether that channel runs, and
    \* whether it is closed.
    held, open, closed,
    \* Who holds the lock of that channel, and listenerMutex.
    channelLock, listenerMutex,
    \* Consumers for which a StartConsumerTask is scheduled.
    tasks,
    \* What the listeners have had; stops and rollbacks so far; whether a
    \* listener has restarted the session.
    taken, stops, rollbacks, restarted

channelVars == <<sent, queue, running>>
runnerVars == <<taskRunner, created, pending, shutDown>>
handVars == <<message, fromConsumer>>
consumerVars == <<held, open, closed>>
lockVars == <<channelLock, listenerMutex>>
countVars == <<taken, stops, rollbacks, restarted>>
vars == <<channelVars, runnerVars, pc, ret, target, index, handVars,
          consumerVars, lockVars, tasks, countVars>>

Init ==
    /\ sent = 0
    /\ queue = <<>>
    /\ running = TRUE
    /\ taskRunner = Nobody
    /\ created = 0
    /\ pending = [r \in Runners |-> FALSE]
    /\ shutDown = [r \in Runners |-> FALSE]
    /\ pc = [t \in Threads |-> IF t \in Runners THEN "none" ELSE "idle"]
    /\ ret = [t \in Threads |-> "idle"]
    /\ target = [t \in Threads |-> Nobody]
    /\ index = [t \in Threads |-> 1]
    /\ message = [r \in Runners |-> 0]
    /\ fromConsumer = [r \in Runners |-> FALSE]
    /\ held = [c \in Consumers |-> <<>>]
    /\ open = [c \in Consumers |-> TRUE]
    /\ closed = [c \in Consumers |-> FALSE]
    /\ channelLock = [c \in Consumers |-> Nobody]
    /\ listenerMutex = [c \in Consumers |-> Nobody]
    /\ tasks = {}
    /\ taken = {}
    /\ stops = 0
    /\ rollbacks = 0
    /\ restarted = FALSE

Goto(t, where) == pc' = [pc EXCEPT ![t] = where]

\* Thread t calls wakeup and goes on at where.
CallWakeup(t, where) ==
    /\ Goto(t, "wakeup")
    /\ ret' = [ret EXCEPT ![t] = where]

-----------------------------------------------------------------------------
(* ActiveMQSessionExecutor::wakeup.                                        *)

WakeupRunner(t, r) ==
    /\ target' = [target EXCEPT ![t] = r]
    /\ Goto(t, "notify")

\* A runner that is created is started, which wakes it up.
Wakeup(t) ==
    /\ pc[t] = "wakeup"
    /\ IF taskRunner # Nobody
       THEN /\ WakeupRunner(t, taskRunner)
            /\ UNCHANGED runnerVars
       ELSE IF ~running
       THEN Goto(t, ret[t]) /\ UNCHANGED <<target, runnerVars>>
       ELSE /\ created' = created + 1
            /\ taskRunner' = created'
            /\ pending' = [pending EXCEPT ![created'] = TRUE]
            /\ pc' = [pc EXCEPT ![created'] = "loop", ![t] = "notify"]
            /\ target' = [target EXCEPT ![t] = created']
            /\ UNCHANGED shutDown
    /\ UNCHANGED <<channelVars, ret, index, handVars, consumerVars, lockVars,
                   tasks, countVars>>

\* DedicatedTaskRunner::wakeup, after the lock of the channel is free.
Notify(t) ==
    /\ pc[t] = "notify"
    /\ pending' = [pending EXCEPT
            ![target[t]] = pending[target[t]] \/ ~shutDown[target[t]]]
    /\ Goto(t, ret[t])
    /\ UNCHANGED <<channelVars, taskRunner, created, shutDown, ret, target,
                   index, handVars, consumerVars, lockVars, tasks, countVars>>

\* execute, on the thread of the connection.
Execute ==
    /\ pc[Connection] = "idle"
    /\ sent < MaxMessages
    /\ sent' = sent + 1
    /\ queue' = Append(queue, sent')
    /\ CallWakeup(Connection, "idle")
    /\ UNCHANGED <<running, runnerVars, target, index, handVars, consumerVars,
                   lockVars, tasks, countVars>>

\* StartConsumerTask: ActiveMQConsumerKernel::start unless it is closed.
StartConsumerTask(c) ==
    /\ c \in tasks
    /\ pc[Scheduler] = "idle"
    /\ channelLock[c] = Nobody
    /\ tasks' = tasks \ {c}
    /\ IF closed[c]
       THEN UNCHANGED <<open, pc, ret>>
       ELSE /\ open' = [open EXCEPT ![c] = TRUE]
            /\ CallWakeup(Scheduler, "idle")
    /\ UNCHANGED <<channelVars, runnerVars, target, index, handVars, held,
                   closed, lockVars, countVars>>

-----------------------------------------------------------------------------
(* DedicatedTaskRunner::run and ActiveMQSessionExecutor::iterate.          *)

\* A runner ends when it was shut down.
Loop(r) ==
    /\ pc[r] = "loop"
    /\ pending' = [pending EXCEPT ![r] = FALSE]
    /\ Goto(r, IF shutDown[r] THEN "done" ELSE "consumer")
    /\ index' = [index EXCEPT ![r] = 1]
    /\ UNCHANGED <<channelVars, taskRunner, created, shutDown, ret, target,
                   handVars, consumerVars, lockVars, tasks, countVars>>

\* iterate has returned false.
Wait(r) ==
    /\ pc[r] = "wait"
    /\ shutDown[r] \/ pending[r]
    /\ Goto(r, IF shutDown[r] THEN "done" ELSE "loop")
    /\ UNCHANGED <<channelVars, runnerVars, ret, target, index, handVars,
                   consumerVars, lockVars, tasks, countVars>>

\* iterateConsumers, with the read lock of consumerLock: iterate of each
\* consumer takes listenerMutex and looks into its channel.
LockListener(r) ==
    /\ pc[r] = "consumer"
    /\ listenerMutex[index[r]] = Nobody
    /\ listenerMutex' = [listenerMutex EXCEPT ![index[r]] = r]
    /\ Goto(r, "poll")
    /\ UNCHANGED <<channelVars, runnerVars, ret, target, index, handVars,
                   consumerVars, channelLock, tasks, countVars>>

Poll(r) ==
    LET c == index[r] IN
    /\ pc[r] = "poll"
    /\ channelLock[c] = Nobody
    /\ IF open[c] /\ ~closed[c] /\ held[c] # <<>>
       THEN /\ message' = [message EXCEPT ![r] = Head(held[c])]
            /\ fromConsumer' = [fromConsumer EXCEPT ![r] = TRUE]
            /\ held' = [held EXCEPT ![c] = Tail(held[c])]
            /\ Goto(r, "dispatch")
            /\ UNCHANGED <<index, listenerMutex>>
       ELSE /\ listenerMutex' = [listenerMutex EXCEPT ![c] = Nobody]
            /\ index' = [index EXCEPT ![r] = IF c < NConsumers THEN c + 1 ELSE 1]
            /\ Goto(r, IF c < NConsumers THEN "consumer" ELSE "dequeue")
            /\ UNCHANGED <<handVars, held>>
    /\ UNCHANGED <<channelVars, runnerVars, ret, target, open, closed,
                   channelLock, tasks, countVars>>

\* dequeueNoWait of the session's channel.
Dequeue(r) ==
    /\ pc[r] = "dequeue"
    /\ IF running /\ queue # <<>>
       THEN /\ message' = [message EXCEPT ![r] = Head(queue)]
            /\ queue' = Tail(queue)
            /\ Goto(r, "dispatch")
       ELSE Goto(r, "wait") /\ UNCHANGED <<message, queue>>
    /\ UNCHANGED <<sent, running, runnerVars, ret, target, index,
                   fromConsumer, consumerVars, lockVars, tasks, countVars>>

\* ActiveMQConsumerKernel::dispatch holds the lock of the consumer's channel,
\* and then listenerMutex, until the listener has returned.
Dispatch(r) ==
    LET c == ConsumerOf(message[r]) IN
    /\ pc[r] = "dispatch"
    /\ channelLock[c] = Nobody
    /\ channelLock' = [channelLock EXCEPT ![c] = r]
    /\ Goto(r, IF closed[c] THEN "after" ELSE "lock")
    /\ UNCHANGED <<channelVars, runnerVars, ret, target, index, handVars,
                   consumerVars, listenerMutex, tasks, countVars>>

\* A stopped consumer keeps the message.
CallListener(r) ==
    LET c == ConsumerOf(message[r]) IN
    /\ pc[r] = "lock"
    /\ listenerMutex[c] \in {Nobody, r}
    /\ listenerMutex' = [listenerMutex EXCEPT ![c] = r]
    /\ IF open[c]
       THEN Goto(r, "listening") /\ UNCHANGED held
       ELSE /\ held' = [held EXCEPT ![c] = Append(held[c], message[r])]
            /\ Goto(r, "after")
    /\ UNCHANGED <<channelVars, runnerVars, ret, target, index, handVars, open,
                   closed, channelLock, tasks, countVars>>

\* iterate returns whether there may be more to do.
AfterDispatch(r) ==
    LET Release(lock) == [c \in Consumers |->
                             IF lock[c] = r THEN Nobody ELSE lock[c]] IN
    /\ pc[r] = "after"
    /\ channelLock' = Release(channelLock)
    /\ listenerMutex' = Release(listenerMutex)
    /\ fromConsumer' = [fromConsumer EXCEPT ![r] = FALSE]
    /\ message' = [message EXCEPT ![r] = 0]
    /\ Goto(r, IF fromConsumer[r] \/ queue # <<>> THEN "loop" ELSE "wait")
    /\ UNCHANGED <<channelVars, runnerVars, ret, target, index, consumerVars,
                   tasks, countVars>>

-----------------------------------------------------------------------------
(* What a listener may do.                                                 *)

ListenerReturns(r) ==
    /\ pc[r] = "listening"
    /\ taken' = taken \cup {message[r]}
    /\ Goto(r, "after")
    /\ UNCHANGED <<channelVars, runnerVars, ret, target, index, handVars,
                   consumerVars, lockVars, tasks, stops, rollbacks, restarted>>

\* It throws: rollback stops the consumer for the delay of the redelivery and
\* gives what its channel has back to the session: redispatch, executeFirst.
ListenerThrows(r) ==
    LET c == ConsumerOf(message[r]) IN
    /\ pc[r] = "listening"
    /\ rollbacks < MaxRollbacks
    /\ rollbacks' = rollbacks + 1
    /\ open' = [open EXCEPT ![c] = FALSE]
    /\ tasks' = IF closed[c] THEN tasks ELSE tasks \cup {c}
    /\ queue' = <<message[r]>> \o held[c] \o queue
    /\ held' = [held EXCEPT ![c] = <<>>]
    /\ CallWakeup(r, "after")
    /\ UNCHANGED <<sent, running, runnerVars, target, index, handVars, closed,
                   lockVars, taken, stops, restarted>>

\* It calls setMessageListener of a consumer: session->stop(), start().
ListenerRestarts(r) ==
    /\ pc[r] = "listening"
    /\ Restarts
    /\ running
    /\ stops < MaxStops
    /\ stops' = stops + 1
    /\ restarted' = TRUE
    /\ Goto(r, "stopConsumers")
    /\ index' = [index EXCEPT ![r] = 1]
    /\ UNCHANGED <<channelVars, runnerVars, ret, target, handVars,
                   consumerVars, lockVars, tasks, taken, rollbacks>>

\* It closes its consumer: the channel, then removeConsumer, which needs the
\* write lock.
ListenerCloses(r) ==
    LET c == ConsumerOf(message[r]) IN
    /\ pc[r] = "listening"
    /\ c \in Closable
    /\ ~closed[c]
    /\ closed' = [closed EXCEPT ![c] = TRUE]
    /\ open' = [open EXCEPT ![c] = FALSE]
    /\ Goto(r, "remove")
    /\ UNCHANGED <<channelVars, runnerVars, ret, target, index, handVars, held,
                   lockVars, tasks, countVars>>

-----------------------------------------------------------------------------
(* ActiveMQSessionKernel::stop and start, by the application or a listener.*)

\* Where thread t goes on after stop, and after start.
AfterStop(t) == IF t = Application THEN "stopped" ELSE "startConsumers"
AfterStart(t) == IF t = Application THEN "idle" ELSE "listening"

NextIndex(t) ==
    index' = [index EXCEPT ![t] = IF @ < NConsumers THEN @ + 1 ELSE 1]
NextOf(t, loop, after) == IF index[t] < NConsumers THEN loop ELSE after

Stop ==
    /\ pc[Application] = "idle"
    /\ stops < MaxStops
    /\ stops' = stops + 1
    /\ Goto(Application, "stopConsumers")
    /\ index' = [index EXCEPT ![Application] = 1]
    /\ UNCHANGED <<channelVars, runnerVars, ret, target, handVars,
                   consumerVars, lockVars, tasks, taken, rollbacks, restarted>>

\* The lock of the consumer's channel is free when no listener is called.
StopConsumer(t) ==
    LET c == index[t] IN
    /\ pc[t] = "stopConsumers"
    /\ channelLock[c] \in {Nobody, t}
    /\ open' = [open EXCEPT ![c] = FALSE]
    /\ NextIndex(t)
    /\ Goto(t, NextOf(t, "stopConsumers", "stopExecutor"))
    /\ UNCHANGED <<channelVars, runnerVars, ret, target, handVars, held,
                   closed, lockVars, tasks, countVars>>

StopExecutorTaking(t, runner) ==
    /\ pc[t] = "stopExecutor"
    /\ running' = FALSE
    /\ taskRunner' = IF runner # Nobody THEN Nobody ELSE taskRunner
    /\ target' = [target EXCEPT ![t] = runner]
    /\ Goto(t, IF runner # Nobody THEN "shutdown" ELSE AfterStop(t))
    /\ UNCHANGED <<sent, queue, created, pending, shutDown, ret, index,
                   handVars, consumerVars, lockVars, tasks, countVars>>

\* Mutant: the channel is stopped, the runner goes on.
StopExecutorOnly(t) == StopExecutorTaking(t, Nobody)

\* ActiveMQSessionExecutor::stop takes the runner with the lock of the channel
\* and shuts it down without.
StopExecutor(t) ==
    StopExecutorTaking(t, IF running THEN taskRunner ELSE Nobody)

Shutdown(t) ==
    /\ pc[t] = "shutdown"
    /\ shutDown' = [shutDown EXCEPT ![target[t]] = TRUE]
    /\ pending' = [pending EXCEPT ![target[t]] = TRUE]
    /\ Goto(t, "join")
    /\ UNCHANGED <<channelVars, taskRunner, created, ret, target, index,
                   handVars, consumerVars, lockVars, tasks, countVars>>

JoinIf(t, ended) ==
    /\ pc[t] = "join"
    /\ ended
    /\ Goto(t, AfterStop(t))
    /\ UNCHANGED <<channelVars, runnerVars, ret, target, index, handVars,
                   consumerVars, lockVars, tasks, countVars>>

\* Mutant: the thread is not waited for.
JoinNobody(t) == JoinIf(t, TRUE)

\* The runner that shuts itself down does not wait.
Join(t) == JoinIf(t, target[t] = t \/ pc[target[t]] = "done")

Start ==
    /\ pc[Application] = "stopped"
    /\ Goto(Application, "startConsumers")
    /\ UNCHANGED <<channelVars, runnerVars, ret, target, index, handVars,
                   consumerVars, lockVars, tasks, countVars>>

\* ActiveMQConsumerKernel::start.
StartConsumer(t) ==
    LET c == index[t]
        next == NextOf(t, "startConsumers", "startExecutor") IN
    /\ pc[t] = "startConsumers"
    /\ channelLock[c] \in {Nobody, t}
    /\ NextIndex(t)
    /\ IF closed[c]
       THEN Goto(t, next) /\ UNCHANGED <<open, ret>>
       ELSE open' = [open EXCEPT ![c] = TRUE] /\ CallWakeup(t, next)
    /\ UNCHANGED <<channelVars, runnerVars, target, handVars, held, closed,
                   lockVars, tasks, countVars>>

\* ActiveMQSessionExecutor::start.
StartExecutor(t) ==
    /\ pc[t] = "startExecutor"
    /\ running' = TRUE
    /\ Goto(t, IF running THEN AfterStart(t) ELSE "check")
    /\ UNCHANGED <<sent, queue, runnerVars, ret, target, index, handVars,
                   consumerVars, lockVars, tasks, countVars>>

WakeupIf(t, unconsumed) ==
    /\ pc[t] = "check"
    /\ IF unconsumed
       THEN CallWakeup(t, AfterStart(t))
       ELSE Goto(t, AfterStart(t)) /\ UNCHANGED ret
    /\ UNCHANGED <<channelVars, runnerVars, target, index, handVars,
                   consumerVars, lockVars, tasks, countVars>>

\* Mutant: the messages that came while the session was stopped are left to
\* the next wakeup.
WakeupNobody(t) == WakeupIf(t, FALSE)

\* hasUncomsumedMessages of the session's channel.
WakeupIfUnconsumed(t) == WakeupIf(t, running /\ queue # <<>>)

-----------------------------------------------------------------------------
(* removeConsumer.                                                         *)

\* The threads that have the read lock of consumerLock.
Readers ==
    {t \in Threads :
        \/ pc[t] \in {"stopConsumers", "startConsumers", "consumer", "poll"}
        \/ pc[t] \in {"wakeup", "notify"} /\ ret[t] = "startConsumers"
        \/ t \in Runners /\ fromConsumer[t]}

\* The application closes a consumer.
Close(c) ==
    /\ pc[Application] \in {"idle", "stopped"}
    /\ c \in Closable
    /\ ~closed[c]
    /\ channelLock[c] = Nobody
    /\ closed' = [closed EXCEPT ![c] = TRUE]
    /\ open' = [open EXCEPT ![c] = FALSE]
    /\ Goto(Application, "remove")
    /\ ret' = [ret EXCEPT ![Application] = pc[Application]]
    /\ UNCHANGED <<channelVars, runnerVars, target, index, handVars, held,
                   lockVars, tasks, countVars>>

\* The write lock; then what the channel has is dropped.
RemoveConsumer(t) ==
    /\ pc[t] = "remove"
    /\ Readers = {}
    /\ held' = [c \in Consumers |-> IF closed[c] THEN <<>> ELSE held[c]]
    /\ Goto(t, IF t = Application THEN ret[t] ELSE "listening")
    /\ UNCHANGED <<channelVars, runnerVars, ret, target, index, handVars, open,
                   closed, lockVars, tasks, countVars>>

-----------------------------------------------------------------------------
RunnerStep(r) ==
    \/ Loop(r)
    \/ Wait(r)
    \/ LockListener(r)
    \/ Poll(r)
    \/ Dequeue(r)
    \/ Dispatch(r)
    \/ CallListener(r)
    \/ AfterDispatch(r)

\* A step of a call that thread t is in.
CallStep(t) ==
    \/ Wakeup(t)
    \/ Notify(t)
    \/ StopConsumer(t)
    \/ StopExecutor(t)
    \/ Shutdown(t)
    \/ Join(t)
    \/ StartConsumer(t)
    \/ StartExecutor(t)
    \/ WakeupIfUnconsumed(t)
    \/ RemoveConsumer(t)

ListenerStep(r) ==
    \/ ListenerReturns(r)
    \/ ListenerThrows(r)
    \/ ListenerRestarts(r)
    \/ ListenerCloses(r)

Next ==
    \/ \E r \in Runners : RunnerStep(r) \/ ListenerStep(r)
    \/ \E t \in Threads : CallStep(t)
    \/ \E c \in Consumers : StartConsumerTask(c) \/ Close(c)
    \/ Execute
    \/ Stop
    \/ Start

Spec == Init /\ [][Next]_vars

\* Threads take their steps, the timer fires, and listeners return; nobody
\* has to stop, start or close.
Fairness ==
    /\ \A t \in Threads \ Runners : WF_vars(CallStep(t))
    /\ \A r \in Runners :
          WF_vars(RunnerStep(r) \/ ListenerStep(r) \/ CallStep(r))
    /\ \A c \in Consumers : SF_vars(StartConsumerTask(c))

FairSpec == Spec /\ Fairness

-----------------------------------------------------------------------------
(* Properties.                                                             *)

\* The runners that call a listener, or are in what it calls.
InListener ==
    {r \in Runners : pc[r] \notin {"none", "loop", "consumer", "poll",
                        "dequeue", "dispatch", "lock", "after", "wait",
                        "done"}}

\* One listener of a session is called at a time, through all stops, starts
\* and redeliveries; unless a listener restarts the session, as it then runs
\* besides the runner that the start creates.
OneAtATime == restarted \/ Cardinality(InListener) <= 1

\* When stop has returned to the application no listener is called any more:
\* a message that is on its way stays in its consumer's channel.
StopIsQuiet ==
    (pc[Application] \in {"stopped", "startConsumers"} /\ ~restarted)
        => InListener = {}

\* A listener that closes its consumer waits for the write lock.  It may do so
\* for ever: when it was called by iterateConsumers it has the read lock
\* itself; and stop has the read lock while it waits for the listener.
ListenerLocked == \E r \in Runners : pc[r] = "remove"

\* No wakeup is lost: what is in the channel of a session that runs comes to
\* its consumer, whatever stops and starts there were before.
QueueDrains ==
    LET InQueue(m) == \E i \in DOMAIN queue : queue[i] = m IN
    \A m \in Messages :
        (InQueue(m) /\ running)
            ~> (~InQueue(m) \/ ~running \/ ListenerLocked \/ restarted)

\* Every message comes to its listener if the session goes on running.
MessagesReachListener ==
    \A m \in Messages :
        (m <= sent) ~> (m \in taken \/ ~running \/ closed[ConsumerOf(m)])
=============================================================================
