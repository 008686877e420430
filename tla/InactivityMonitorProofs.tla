---------------------- MODULE InactivityMonitorProofs ----------------------
(***************************************************************************)
(* close leaves no monitor running, for any number of commands.            *)
(*                                                                         *)
(* Two threads start the monitor: the sender, with the WireFormatInfo that *)
(* start has written before anyone can close, and the reader, with the     *)
(* peer's.  close stops the monitor, waits for the reader, and stops it    *)
(* again; so at the second stop (Again) neither of them can start it any   *)
(* more.                                                                   *)
(***************************************************************************)
EXTENDS InactivityMonitor, TLAPS

Places == {"none", "idle", "lock", "info", "write", "refuse", "blocked",
           "enter", "deliver", "exception", "tell", "stop", "cancel", "join",
           "reset", "loop", "done", "stopped", "joinReader", "closed"}

TypeOK ==
    /\ pc \in [Threads -> Places]
    /\ ret \in [Threads -> {"idle", "tell", "stopped", "closed"}]
    /\ pc["closer"] \in {"idle", "stop", "cancel", "join", "stopped",
                         "joinReader", "closed"}
    /\ ret["closer"] # "tell"

\* The closer is in stopMonitorThreads for the second time, or has returned.
Again ==
    \/ pc["closer"] \in {"stop", "cancel", "join"} /\ ret["closer"] = "closed"
    \/ pc["closer"] = "closed"

StartInv ==
    /\ pc["closer"] # "idle" => infoSent
    /\ pc["sender"] = "info" => ~infoSent
    /\ Again => pc["reader"] = "done"
    /\ (Again /\ pc["closer"] # "stop") => ~monitorStarted

IInv == TypeOK /\ StartInv

\* The initial states satisfy the invariant.
LEMMA InitIInv == Init => IInv
<1> SUFFICES ASSUME Init PROVE IInv
    OBVIOUS
<1>1. TypeOK
    BY DEF Init, TypeOK, Places, Threads, Writers
<1>2. StartInv
    BY DEF Init, StartInv, Again, Threads, Writers
<1> QED
    BY <1>1, <1>2 DEF IInv

\* A step of a thread other than the closer that starts no monitor, brings
\* neither the sender nor the reader to a WireFormatInfo and does not take
\* the reader out of its end.
LEMMA OtherStep ==
    ASSUME IInv, NEW t \in Threads \ {"closer"}, NEW where \in Places,
           Goto(t, where), ret' \in {ret, [ret EXCEPT ![t] = "tell"]},
           where = "info" => t # "sender" \/ ~infoSent',
           t = "reader" => pc[t] # "done",
           infoSent => infoSent',
           infoSent' => infoSent \/ t = "sender",
           monitorStarted' => monitorStarted
    PROVE  IInv'
<1>1. /\ pc' \in [Threads -> Places]
      /\ ret' \in [Threads -> {"idle", "tell", "stopped", "closed"}]
    BY DEF IInv, TypeOK, Goto
<1>2. /\ "closer" \in Threads /\ "reader" \in Threads /\ "sender" \in Threads
      /\ pc'["closer"] = pc["closer"] /\ ret'["closer"] = ret["closer"]
      /\ t # "reader" => pc'["reader"] = pc["reader"]
      /\ t # "sender" => pc'["sender"] = pc["sender"]
      /\ pc'[t] = where
    BY DEF IInv, TypeOK, Goto, Threads, Writers
<1>3. TypeOK'
    BY <1>1, <1>2 DEF IInv, TypeOK
<1>4. StartInv'
    BY <1>2 DEF IInv, StartInv, Again
<1> QED
    BY <1>3, <1>4 DEF IInv

\* A thread that stops the monitor after an exception.
LEMMA StopOther ==
    ASSUME IInv, NEW t \in Threads \ {"closer"}, StopStep(t) PROVE IInv'
<1>0. ret[t] \in Places /\ ret[t] # "info"
    BY DEF IInv, TypeOK, Places
<1>1. CASE OnException(t)
    BY <1>1, OtherStep DEF OnException, Call, Home, startVars, latchVars,
                           Places, Goto
<1>2. CASE Tell(t)
    BY <1>2, OtherStep DEF Tell, Home, startVars, Places
<1>3. CASE StopMonitorThreads(t)
    BY <1>0, <1>3, OtherStep DEF StopMonitorThreads, latchVars, Places
<1>4. CASE CancelTimers(t)
    BY <1>4, OtherStep DEF CancelTimers, CancelTimersAnd, startVars,
                           latchVars, Places
<1>5. CASE JoinAsync(t)
    BY <1>0, <1>5, OtherStep DEF JoinAsync, startVars, latchVars, Places
<1> QED
    BY <1>1, <1>2, <1>3, <1>4, <1>5 DEF StopStep

\* The closer stops the monitor.
LEMMA StopCloser == ASSUME IInv, StopStep("closer") PROVE IInv'
<1>0. /\ "closer" \in Threads /\ "reader" \in Threads /\ "sender" \in Threads
      /\ ret["closer"] \in {"idle", "stopped", "closed"}
    BY DEF IInv, TypeOK, Threads, Writers
<1>1. CASE StopMonitorThreads("closer")
    BY <1>0, <1>1 DEF StopMonitorThreads, IInv, TypeOK, StartInv, Again, Goto,
                      Places, latchVars
<1>2. CASE CancelTimers("closer")
    BY <1>0, <1>2 DEF CancelTimers, CancelTimersAnd, IInv, TypeOK, StartInv,
                      Again, Goto, Places, latchVars, startVars
<1>3. CASE JoinAsync("closer")
    BY <1>0, <1>3 DEF JoinAsync, IInv, TypeOK, StartInv, Again, Goto, Places,
                      latchVars, startVars
<1>4. ~OnException("closer") /\ ~Tell("closer")
    BY DEF OnException, Tell, IInv, TypeOK
<1> QED
    BY <1>1, <1>2, <1>3, <1>4 DEF StopStep

\* A thread that writes.
LEMMA WriterStep == ASSUME IInv, NEW w \in Writers, WriteStep(w) PROVE IInv'
<1>0. w \in Threads \ {"closer"} /\ w # "reader"
    BY DEF Threads, Writers
<1>1. CASE LockWrite(w)
  <2> DEFINE where ==
                 IF failed THEN "refuse"
                 ELSE IF w = "sender" /\ ~infoSent THEN "info" ELSE "write"
  <2>1. /\ where \in Places
        /\ where = "info" => w # "sender" \/ ~infoSent
      BY DEF Places
  <2>2. /\ Goto(w, where)
        /\ UNCHANGED <<ret, infoSent, monitorStarted>>
      BY <1>1 DEF LockWrite, startVars, latchVars
  <2> HIDE DEF where
  <2> QED
      BY <1>0, <2>1, <2>2, OtherStep
<1>2. ASSUME NEW where \in {"loop", "idle", "exception"}, EndWrite(w, where)
      PROVE  IInv'
  <2>1. /\ where \in Places /\ where # "info"
        /\ Goto(w, where)
        /\ UNCHANGED <<ret, monitorStarted>>
        /\ infoSent' = (infoSent \/ w = "sender")
      BY <1>2 DEF EndWrite, startVars, Places
  <2> QED
      BY <1>0, <2>1, OtherStep
<1>3. CASE WriteSucceeds(w) \/ WriteFails(w)
    BY <1>2, <1>3 DEF WriteSucceeds, WriteFails, AfterWrite, AfterFailedWrite
<1>4. CASE WriteBlocks(w)
    BY <1>0, <1>4, OtherStep DEF WriteBlocks, startVars, latchVars, Places
<1> QED
    BY <1>1, <1>3, <1>4 DEF WriteStep

\* The two steps that may start the monitor: no second stop is under way.
LEMMA StartStep ==
    ASSUME IInv, SetLocalInfo \/ SetRemoteInfo PROVE IInv'
<1>0. /\ "closer" \in Threads /\ "reader" \in Threads /\ "sender" \in Threads
      /\ "async" \in Threads
    BY DEF Threads, Writers
<1>1. ~Again
    BY DEF IInv, StartInv, Again, SetLocalInfo, SetRemoteInfo
<1>2. /\ pc'["closer"] = pc["closer"] /\ UNCHANGED <<ret, infoSent>>
      /\ pc'["sender"] # "info" \/ pc'["sender"] = pc["sender"]
      /\ pc' \in [Threads -> Places]
    BY <1>0 DEF IInv, TypeOK, SetLocalInfo, SetRemoteInfo,
                StartMonitorThreads,
                Goto, Places, latchVars
<1> QED
    BY <1>1, <1>2 DEF IInv, TypeOK, StartInv, Again

\* Every step preserves the invariant.
LEMMA NextIInv == IInv /\ [Next]_vars => IInv'
<1> SUFFICES ASSUME IInv, [Next]_vars PROVE IInv'
    OBVIOUS
<1>0. /\ "closer" \in Threads /\ Writers \subseteq Threads \ {"closer"}
      /\ "sender" \in Writers /\ "async" \in Writers
      /\ {"reader", "readTimer", "writeTimer"} \subseteq Threads \ {"closer"}
    BY DEF Threads, Writers
<1>1. CASE Send
  <2>1. "lock" \in Places /\ "sender" \in Threads \ {"closer"}
      BY <1>0 DEF Places
  <2>2. Goto("sender", "lock") /\ UNCHANGED <<ret, infoSent, monitorStarted>>
      BY <1>1 DEF Send, startVars, latchVars
  <2> QED
      BY <2>1, <2>2, OtherStep
<1>2. CASE SenderStep
  <2>1. CASE SetLocalInfo
      BY <2>1, StartStep
  <2>2. CASE WriteStep("sender")
      BY <1>0, <2>2, WriterStep
  <2> QED
      BY <1>2, <2>1, <2>2 DEF SenderStep
<1>3. CASE Read
    BY <1>0, <1>3, OtherStep DEF Read, startVars, latchVars, Places
<1>4. CASE SetInRead \/ Deliver \/ ReadFails
    BY <1>0, <1>4, OtherStep DEF SetInRead, Deliver, ReadFails, startVars,
                                 latchVars, Places
<1>5. CASE SetRemoteInfo \/ StopStep("reader")
    BY <1>0, <1>5, StartStep, StopOther
<1>6. CASE ReadTimerStep
    BY <1>0, <1>6, OtherStep DEF ReadTimerStep, ReadCheck, ReadCheckResets,
                                 ReadCheckResetsTo, startVars, latchVars,
                                 Places
<1>7. CASE WriteTimerStep
    BY <1>0, <1>7, OtherStep DEF WriteTimerStep, WriteCheck, WriteCheckResets,
                                 startVars, latchVars, Places
<1>8. CASE SignalReadError \/ WriteKeepAlive \/ EndAsync
    BY <1>0, <1>8, OtherStep DEF SignalReadError, WriteKeepAlive, EndAsync,
                                 startVars, latchVars, Places
<1>9. CASE WriteStep("async") \/ StopStep("async")
    BY <1>0, <1>9, WriterStep, StopOther
<1>10. CASE Close
    BY <1>0, <1>10 DEF Close, Call, Goto, IInv, TypeOK, StartInv, Again,
                       Places,
                       startVars, latchVars, Threads, Writers
<1>11. CASE CloseStreams
    BY <1>0, <1>11 DEF CloseStreams, Goto, IInv, TypeOK, StartInv, Again,
                       Places,
                       startVars, Threads, Writers
<1>12. CASE DoClose
    BY <1>0, <1>12 DEF DoClose, ThenStop, Call, Goto, IInv, TypeOK, StartInv,
                       Again, Places, startVars, latchVars, Threads, Writers
<1>13. CASE StopStep("closer")
    BY <1>13, StopCloser
<1>14. CASE Die \/ Lose \/ UNCHANGED vars
    BY <1>14 DEF Die, Lose, vars, IInv, TypeOK, StartInv, Again, startVars,
                 latchVars
<1> QED
    BY <1>1, <1>2, <1>3, <1>4, <1>5, <1>6, <1>7, <1>8, <1>9, <1>10, <1>11,
       <1>12, <1>13, <1>14 DEF Next, ReaderStep, AsyncStep, CloserStep

\* When InactivityMonitor's close has returned, the monitor is not started:
\* no timer goes on checking a connection that is closed, although the peer's
\* WireFormatInfo may start the monitor while close is under way.
THEOREM ClosedStaysStopped == Spec => []ClosedNotStarted
<1>1. IInv => ClosedNotStarted
    BY DEF IInv, StartInv, Again, ClosedNotStarted
<1> QED
    BY <1>1, InitIInv, NextIInv, PTL DEF Spec
=============================================================================
