------------------------- MODULE InactivityMonitor -------------------------
(***************************************************************************)
(* The part of the transport chain that keeps a connection under watch:    *)
(* InactivityMonitor between OpenWireFormatNegotiator and IOTransport.     *)
(* Both ends send a WireFormatInfo; the negotiator holds commands back     *)
(* until it has the peer's, and the monitor starts its timers when it has  *)
(* seen both.  Then one timer has a KeepAliveInfo sent when nothing was    *)
(* written for a while, the other reports the channel as failed when       *)
(* nothing was read.                                                       *)
(*                                                                         *)
(* Threads: the sender, which starts the chain and with that sends the     *)
(* WireFormatInfo, and then sends commands; the reader of IOTransport; the *)
(* threads of the two Timers; that of asyncTasks, a CompositeTaskRunner,   *)
(* which sends the KeepAliveInfo and reports the failure; and one that     *)
(* closes.  The peer may die: nothing more comes from it, no error either, *)
(* and a write to it may block.                                            *)
(***************************************************************************)
EXTENDS Integers

CONSTANTS
    \* Bound on the commands that the application and the peer send.
    MaxCommands,
    \* Nobody holds a lock.
    Nobody

ASSUME MonitorAssumption == MaxCommands \in Nat

Writers == {"sender", "async"}
Threads == Writers \cup {"reader", "readTimer", "writeTimer", "closer"}

VARIABLES
    \* Where each thread is, and where it goes on after stopMonitorThreads.
    pc, ret,
    \* localWireFormatInfo and remoteWireFormatInfo are known.
    localInfo, remoteInfo,
    \* monitorStarted; whether the timers are cancelled; shutdown and the two
    \* tasks of asyncTasks, and the one that is first in its list.
    monitorStarted, cancelled, shutdown, readFailed, writeDue, firstTask,
    commandSent, commandReceived, failed, inRead, inWrite,
    \* Who holds inWriteMutex, and monitor.
    inWriteMutex, monitor,
    \* The latches wireInfoSentDownLatch and readyCountDownLatch are down.
    infoSent, ready,
    \* TransportFilter's started; the streams are open; the peer is alive.
    started, connected, alive,
    \* Commands sent by the application, and by the peer.
    sends, reads,
    \* Whether the listener was told of a failure.
    told

startVars == <<localInfo, remoteInfo, monitorStarted>>
taskVars == <<cancelled, shutdown, readFailed, writeDue, firstTask>>
flagVars == <<commandSent, commandReceived, failed, inRead, inWrite>>
lockVars == <<inWriteMutex, monitor>>
latchVars == <<infoSent, ready>>
linkVars == <<started, connected, alive>>
countVars == <<sends, reads, told>>
vars == <<pc, ret, startVars, taskVars, flagVars, lockVars, latchVars,
          linkVars, countVars>>

Init ==
    /\ pc = [t \in Threads |-> CASE t = "async" -> "none"
                                  [] t = "sender" -> "lock"
                                  [] OTHER -> "idle"]
    /\ ret = [t \in Threads |-> "idle"]
    /\ localInfo = FALSE
    /\ remoteInfo = FALSE
    /\ monitorStarted = FALSE
    /\ cancelled = FALSE
    /\ shutdown = FALSE
    /\ readFailed = FALSE
    /\ writeDue = FALSE
    /\ firstTask = "read"
    /\ commandSent = FALSE
    /\ commandReceived = TRUE
    /\ failed = FALSE
    /\ inRead = FALSE
    /\ inWrite = FALSE
    /\ inWriteMutex = Nobody
    /\ monitor = Nobody
    /\ infoSent = FALSE
    /\ ready = FALSE
    /\ started = TRUE
    /\ connected = TRUE
    /\ alive = TRUE
    /\ sends = 0
    /\ reads = 0
    /\ told = FALSE

Goto(t, where) == pc' = [pc EXCEPT ![t] = where]

\* Thread t calls the subroutine at where and goes on at after.
Call(t, where, after) ==
    /\ Goto(t, where)
    /\ ret' = [ret EXCEPT ![t] = after]

-----------------------------------------------------------------------------
(* startMonitorThreads, with monitor, once both infos are known.           *)

\* Thread t goes on at where; the thread of asyncTasks is started.
StartMonitorThreads(t, where) ==
    IF localInfo' /\ remoteInfo' /\ ~monitorStarted
    THEN /\ monitorStarted' = TRUE
         /\ pc' = [pc EXCEPT ![t] = where, !["async"] = "loop"]
    ELSE UNCHANGED monitorStarted /\ Goto(t, where)

-----------------------------------------------------------------------------
(* oneway of the monitor, and of the negotiator above it.                  *)

\* oneway of the negotiator waits until the latch is down; after
\* negotiationTimeout it throws, and nothing has changed.
Send ==
    /\ pc["sender"] = "idle"
    /\ sends + reads < MaxCommands
    /\ started
    /\ ready
    /\ sends' = sends + 1
    /\ Goto("sender", "lock")
    /\ UNCHANGED <<ret, startVars, taskVars, flagVars, lockVars, latchVars,
                   linkVars, reads, told>>

\* The first command of the sender is the WireFormatInfo: the negotiator's
\* afterNextIsStarted.
LockWrite(w) ==
    /\ pc[w] = "lock"
    /\ inWriteMutex = Nobody
    /\ inWriteMutex' = w
    /\ inWrite' = TRUE
    /\ Goto(w, IF failed THEN "refuse"
               ELSE IF w = "sender" /\ ~infoSent THEN "info" ELSE "write")
    /\ UNCHANGED <<ret, startVars, taskVars, commandSent, commandReceived,
                   failed, inRead, monitor, latchVars, linkVars, countVars>>

\* A WireFormatInfo is on its way out.
SetLocalInfo ==
    /\ pc["sender"] = "info"
    /\ monitor = Nobody
    /\ localInfo' = TRUE
    /\ UNCHANGED remoteInfo
    /\ StartMonitorThreads("sender", "write")
    /\ UNCHANGED <<ret, taskVars, flagVars, lockVars, latchVars, linkVars,
                   countVars>>

\* The write has ended: thread w goes on at where.  The latch is counted down
\* whatever became of the WireFormatInfo.
EndWrite(w, where) ==
    /\ commandSent' = TRUE
    /\ inWrite' = FALSE
    /\ inWriteMutex' = Nobody
    /\ infoSent' = (infoSent \/ w = "sender")
    /\ Goto(w, where)
    /\ UNCHANGED <<ret, startVars, taskVars, commandReceived, failed, inRead,
                   monitor, ready, linkVars, countVars>>

\* Where a writer goes on; the failure of a KeepAliveInfo is an exception.
AfterWrite(w) == IF w = "async" THEN "loop" ELSE "idle"
AfterFailedWrite(w) == IF w = "async" THEN "exception" ELSE AfterWrite(w)

WriteSucceeds(w) ==
    /\ pc[w] = "write"
    /\ connected
    /\ EndWrite(w, AfterWrite(w))

\* The channel has failed or the stream is closed.
WriteFails(w) ==
    /\ \/ pc[w] = "refuse"
       \/ pc[w] \in {"write", "blocked"} /\ ~connected
    /\ EndWrite(w, AfterFailedWrite(w))

\* The buffers to a dead peer are full.
WriteBlocks(w) ==
    /\ pc[w] = "write"
    /\ connected
    /\ ~alive
    /\ Goto(w, "blocked")
    /\ UNCHANGED <<ret, startVars, taskVars, flagVars, lockVars, latchVars,
                   linkVars, countVars>>

-----------------------------------------------------------------------------
(* The reader: onCommand of the monitor, and of the negotiator above it.   *)

\* The first command of the peer is its WireFormatInfo.
Read ==
    /\ pc["reader"] = "idle"
    /\ connected
    /\ alive
    /\ sends + reads < MaxCommands
    /\ reads' = reads + 1
    /\ commandReceived' = TRUE
    /\ Goto("reader", "enter")
    /\ UNCHANGED <<ret, startVars, taskVars, commandSent, failed, inRead,
                   inWrite, lockVars, latchVars, linkVars, sends, told>>

SetInRead ==
    /\ pc["reader"] = "enter"
    /\ inRead' = TRUE
    /\ Goto("reader", IF remoteInfo THEN "deliver" ELSE "info")
    /\ UNCHANGED <<ret, startVars, taskVars, commandSent, commandReceived,
                   failed, inWrite, lockVars, latchVars, linkVars, countVars>>

SetRemoteInfo ==
    /\ pc["reader"] = "info"
    /\ monitor = Nobody
    /\ remoteInfo' = TRUE
    /\ UNCHANGED localInfo
    /\ StartMonitorThreads("reader", "deliver")
    /\ UNCHANGED <<ret, taskVars, flagVars, lockVars, latchVars, linkVars,
                   countVars>>

\* The listener has had the command.  The first one, the WireFormatInfo,
\* lets the senders of the negotiator go: it waits for wireInfoSentDownLatch
\* before, but goes on all the same when that wait times out.
Deliver ==
    /\ pc["reader"] = "deliver"
    /\ inRead' = FALSE
    /\ ready' = (ready \/ started)
    /\ Goto("reader", "idle")
    /\ UNCHANGED <<ret, startVars, taskVars, commandSent, commandReceived,
                   failed, inWrite, lockVars, infoSent, linkVars, countVars>>

\* The read fails, or the loop of IOTransport::run sees that it was stopped.
ReadFails ==
    /\ pc["reader"] = "idle"
    /\ ~connected \/ ~started
    /\ Goto("reader", IF started THEN "exception" ELSE "done")
    /\ UNCHANGED <<ret, startVars, taskVars, flagVars, lockVars, latchVars,
                   linkVars, countVars>>

-----------------------------------------------------------------------------
(* onException of the monitor, and stopMonitorThreads.                     *)

Home(t) == IF t = "async" THEN "loop" ELSE "done"

OnException(t) ==
    /\ pc[t] = "exception"
    /\ failed' = TRUE
    /\ IF failed THEN Goto(t, Home(t)) /\ UNCHANGED ret
                 ELSE Call(t, "stop", "tell")
    /\ UNCHANGED <<startVars, taskVars, commandSent, commandReceived, inRead,
                   inWrite, lockVars, latchVars, linkVars, countVars>>

\* The negotiator lets the senders go.
Tell(t) ==
    /\ pc[t] = "tell"
    /\ told' = (told \/ started)
    /\ ready' = (ready \/ started)
    /\ Goto(t, Home(t))
    /\ UNCHANGED <<ret, startVars, taskVars, flagVars, lockVars, infoSent,
                   linkVars, sends, reads>>

\* monitorStarted.compareAndSet(true, false)
StopMonitorThreads(t) ==
    /\ pc[t] = "stop"
    /\ monitorStarted' = FALSE
    /\ Goto(t, IF monitorStarted THEN "cancel" ELSE ret[t])
    /\ UNCHANGED <<ret, localInfo, remoteInfo, taskVars, flagVars, lockVars,
                   latchVars, linkVars, countVars>>

CancelTimersAnd(shut, t) ==
    /\ pc[t] = "cancel"
    /\ monitor = Nobody
    /\ monitor' = t
    /\ cancelled' = TRUE
    /\ shutdown' = shut
    /\ Goto(t, "join")
    /\ UNCHANGED <<ret, startVars, readFailed, writeDue, firstTask, flagVars,
                   inWriteMutex, latchVars, linkVars, countVars>>

\* Mutant: asyncTasks is waited for, but was not told to end.
CancelTimersOnly(t) == CancelTimersAnd(FALSE, t)

\* The timers are cancelled, asyncTasks is shut down, with monitor.
CancelTimers(t) == CancelTimersAnd(TRUE, t)

\* The thread of asyncTasks does not wait for itself.
JoinAsync(t) ==
    /\ pc[t] = "join"
    /\ t = "async" \/ pc["async"] = "done"
    /\ monitor' = Nobody
    /\ Goto(t, ret[t])
    /\ UNCHANGED <<ret, startVars, taskVars, flagVars, inWriteMutex,
                   latchVars, linkVars, countVars>>

-----------------------------------------------------------------------------
(* The timers: readCheck and writeCheck.                                   *)

\* A task that was taken from the timer before it is cancelled still runs.
Scheduled == pc["async"] # "none" /\ ~cancelled

\* Nothing that another thread does between the test of inRead and that of
\* commandReceived makes a difference: the two are one step.
ReadCheck ==
    /\ pc["readTimer"] = "idle"
    /\ Scheduled
    /\ ~inRead
    /\ readFailed' = (readFailed \/ ~commandReceived)
    /\ Goto("readTimer", "reset")
    /\ UNCHANGED <<ret, startVars, cancelled, shutdown, writeDue, firstTask,
                   flagVars, lockVars, latchVars, linkVars, countVars>>

ReadCheckResetsTo(value) ==
    /\ pc["readTimer"] = "reset"
    /\ commandReceived' = value
    /\ Goto("readTimer", "idle")
    /\ UNCHANGED <<ret, startVars, taskVars, commandSent, failed, inRead,
                   inWrite, lockVars, latchVars, linkVars, countVars>>

\* Mutant: the flag is not reset, as if every check had heard of the peer.
ReadCheckKeeps == ReadCheckResetsTo(commandReceived)

ReadCheckResets == ReadCheckResetsTo(FALSE)

WriteCheck ==
    /\ pc["writeTimer"] = "idle"
    /\ Scheduled
    /\ ~inWrite
    /\ writeDue' = (writeDue \/ ~commandSent)
    /\ Goto("writeTimer", "reset")
    /\ UNCHANGED <<ret, startVars, cancelled, shutdown, readFailed, firstTask,
                   flagVars, lockVars, latchVars, linkVars, countVars>>

WriteCheckResets ==
    /\ pc["writeTimer"] = "reset"
    /\ commandSent' = FALSE
    /\ Goto("writeTimer", "idle")
    /\ UNCHANGED <<ret, startVars, taskVars, commandReceived, failed, inRead,
                   inWrite, lockVars, latchVars, linkVars, countVars>>

-----------------------------------------------------------------------------
(* asyncTasks: CompositeTaskRunner::run and iterate.                       *)

Pending(task) == IF task = "read" THEN readFailed ELSE writeDue

\* The first task of the list that is pending goes to its end.
NextTask(task) ==
    \/ task = firstTask /\ Pending(task)
    \/ task # firstTask /\ Pending(task) /\ ~Pending(firstTask)

\* AsyncSignalReadErrorkTask::iterate
SignalReadError ==
    /\ pc["async"] = "loop"
    /\ ~shutdown
    /\ NextTask("read")
    /\ firstTask' = "write"
    /\ readFailed' = FALSE
    /\ Goto("async", "exception")
    /\ UNCHANGED <<ret, startVars, cancelled, shutdown, writeDue, flagVars,
                   lockVars, latchVars, linkVars, countVars>>

\* AsyncWriteTask::iterate
WriteKeepAlive ==
    /\ pc["async"] = "loop"
    /\ ~shutdown
    /\ NextTask("write")
    /\ firstTask' = "read"
    /\ writeDue' = FALSE
    /\ Goto("async", IF monitorStarted THEN "lock" ELSE "loop")
    /\ UNCHANGED <<ret, startVars, cancelled, shutdown, readFailed, flagVars,
                   lockVars, latchVars, linkVars, countVars>>

EndAsync ==
    /\ pc["async"] = "loop"
    /\ shutdown
    /\ Goto("async", "done")
    /\ UNCHANGED <<ret, startVars, taskVars, flagVars, lockVars, latchVars,
                   linkVars, countVars>>

-----------------------------------------------------------------------------
(* close of the chain, from the negotiator down.                           *)

\* stop of the negotiator and of the monitor: beforeNextIsStopped.
Close ==
    /\ pc["closer"] = "idle"
    /\ infoSent
    /\ started' = FALSE
    /\ Call("closer", "stop", "stopped")
    /\ UNCHANGED <<startVars, taskVars, flagVars, lockVars, latchVars,
                   connected, alive, countVars>>

\* afterNextIsStopped of the negotiator lets the senders go; then
\* IOTransport::close closes the streams and waits for the reader.
CloseStreams ==
    /\ pc["closer"] = "stopped"
    /\ ready' = TRUE
    /\ connected' = FALSE
    /\ Goto("closer", "joinReader")
    /\ UNCHANGED <<ret, startVars, taskVars, flagVars, lockVars, infoSent,
                   started, alive, countVars>>

ThenStop(where) ==
    /\ pc["closer"] = "joinReader"
    /\ pc["reader"] = "done"
    /\ Call("closer", where, "closed")
    /\ UNCHANGED <<startVars, taskVars, flagVars, lockVars, latchVars,
                   linkVars, countVars>>

\* Mutant: the monitor was stopped before, and is not stopped again.
DoCloseNothing == ThenStop("closed")

\* doClose of the monitor stops it a second time.
DoClose == ThenStop("stop")

-----------------------------------------------------------------------------
(* Faults.                                                                 *)

\* The peer dies without a trace, or the connection is lost with an error.
Die ==
    /\ alive
    /\ connected
    /\ alive' = FALSE
    /\ UNCHANGED <<pc, ret, startVars, taskVars, flagVars, lockVars,
                   latchVars, started, connected, countVars>>

Lose ==
    /\ alive
    /\ connected
    /\ connected' = FALSE
    /\ UNCHANGED <<pc, ret, startVars, taskVars, flagVars, lockVars,
                   latchVars, started, alive, countVars>>

-----------------------------------------------------------------------------
WriteStep(w) ==
    \/ LockWrite(w)
    \/ WriteSucceeds(w)
    \/ WriteFails(w)
    \/ WriteBlocks(w)

StopStep(t) ==
    \/ OnException(t)
    \/ Tell(t)
    \/ StopMonitorThreads(t)
    \/ CancelTimers(t)
    \/ JoinAsync(t)

SenderStep == SetLocalInfo \/ WriteStep("sender")
ReaderStep ==
    \/ SetInRead
    \/ SetRemoteInfo
    \/ Deliver
    \/ ReadFails
    \/ StopStep("reader")
ReadTimerStep == ReadCheck \/ ReadCheckResets
WriteTimerStep == WriteCheck \/ WriteCheckResets
AsyncStep ==
    \/ SignalReadError
    \/ WriteKeepAlive
    \/ EndAsync
    \/ WriteStep("async")
    \/ StopStep("async")
CloserStep ==
    \/ CloseStreams
    \/ DoClose
    \/ StopStep("closer")

Next ==
    \/ Send
    \/ SenderStep
    \/ Read
    \/ ReaderStep
    \/ ReadTimerStep
    \/ WriteTimerStep
    \/ AsyncStep
    \/ Close
    \/ CloserStep
    \/ Die
    \/ Lose

Spec == Init /\ [][Next]_vars

\* Threads take their steps and the timers fire.  Nobody has to send, to read
\* or to close, and a write that blocks may do so for ever.
Fairness ==
    /\ WF_vars(SenderStep)
    /\ WF_vars(ReaderStep)
    /\ WF_vars(ReadTimerStep)
    /\ WF_vars(WriteTimerStep)
    /\ WF_vars(AsyncStep)
    /\ WF_vars(CloserStep)

FairSpec == Spec /\ Fairness

-----------------------------------------------------------------------------
(* Properties.                                                             *)

Blocked == \E w \in Writers : pc[w] = "blocked"

\* When close has returned the monitor is not started, though the peer's
\* WireFormatInfo may come, and start it, while close is under way.
ClosedNotStarted == pc["closer"] = "closed" => ~monitorStarted

\* The inactivity of a dead peer is reported, unless the chain is closed, or
\* a write to the peer blocks: the thread that reports also writes the
\* KeepAliveInfo, and waits behind the sender.
SilenceIsReported ==
    (Scheduled /\ ~alive) ~> (told \/ ~started \/ Blocked)

\* close returns, unless a write blocks: it waits for the thread that may
\* wait for the write before it closes the streams.
CloseReturns ==
    (pc["closer"] # "idle") ~> (pc["closer"] = "closed" \/ Blocked)
=============================================================================
