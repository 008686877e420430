------------------------- MODULE FailoverTransport -------------------------
(***************************************************************************)
(* activemq::transport::failover::FailoverTransport with the parts it      *)
(* drives: the URIPools, the CloseTransportsTask, the CompositeTaskRunner  *)
(* that runs both tasks, and the FailoverTransportListener put on every    *)
(* wrapped transport.  Configuration: no backups and no priority backup    *)
(* (the defaults of FailoverTransportFactory).                             *)
(*                                                                         *)
(* Threads: one per command inside oneway; the reader of each wrapped      *)
(* transport, which delivers responses, ConnectionControls and its final   *)
(* exception; the task runner; one thread that closes the transport.       *)
(* Every section under reconnectMutex is one step, except the connection   *)
(* loop of iterate, which runs attempt by attempt with the mutex held, and *)
(* a sender that loops forever with it.  wait(100) in oneway is a poll.    *)
(*                                                                         *)
(* Transports are numbered in the order of their creation and URIs are     *)
(* numbers; 0 stands for NULL.  A pool is the set of its URIs: getURI      *)
(* takes any of them (randomize is the default).  Delays are left out:     *)
(* they only change when a step happens.                                   *)
(***************************************************************************)
EXTENDS Integers, FiniteSets

CONSTANTS
    \* The commands sent, and the kind of each (see Kinds).
    Commands, Kind,
    \* URIs in the configured list, and URIs in all: a broker may name more.
    NumConfigured, NumURIs,
    \* The configured limits, of which a behaviour has one: records with
    \* maxReconnectAttempts and startupMaxReconnectAttempts, -1 for
    \* INFINITE_WAIT.
    Limits,
    \* A timeout for messages is configured.
    HasTimeout,
    \* The ConnectionControls a broker may send: reconnectTo is a URI or 0, for
    \* none; brokers are the URIs of connectedBrokers; rebalance is a flag.
    Controls,
    \* Bounds: lost connections and failed writes; ConnectionControls received.
    MaxFaults, MaxControls

\* What oneway and the state tracker tell apart: a request that is not
\* tracked; MessageAck; an info whose effect the tracker restores; RemoveInfo;
\* MessagePull; a message without a response; ShutdownInfo.
Kinds == {"request", "ack", "info", "remove", "pull", "message", "shutdown"}

ASSUME FailoverAssumption ==
    /\ Kind \in [Commands -> Kinds]
    /\ NumConfigured \in Nat \ {0}
    /\ NumURIs \in Nat /\ NumConfigured <= NumURIs
    /\ Limits \subseteq [max : Nat \cup {-1}, startup : Nat \cup {-1}]
    /\ HasTimeout \in BOOLEAN
    /\ Controls \subseteq [reconnectTo : 0..NumURIs, brokers : SUBSET (1..NumURIs),
                           rebalance : BOOLEAN]
    /\ MaxFaults \in Nat /\ MaxControls \in Nat

URIs == 1..NumURIs
Configured == 1..NumConfigured

\* One control can ask for two reconnections: reconnectTo and rebalance.
MaxTransports == 1 + MaxFaults + 2 * MaxControls
Transports == 1..MaxTransports

VARIABLES
    \* The limits this transport was configured with.
    limits,
    \* FailoverTransportImpl: the connection ...
    connectedTransport, connectedTransportURI, connected, connectionFailure,
    \* ... its history and the request to break it ...
    firstConnection, connectFailures, doRebalance,
    \* ... the life cycle; closer: how far close() is (closed is set at once);
    \* toStop: the transport that close() took and will close.
    started, shutdown, closer, toStop,
    \* The URI pools; the priority URI of a pool is set by its first addURI.
    uris, updated, updatedPriority,
    \* requestMap; the commands the state tracker holds; commands answered.
    requestMap, tracked, answered,
    \* oneway of each command.
    sender,
    \* Wrapped transports: how many were created, what was written to each,
    \* which readers may still report, which await closing, which are closed.
    created, wire, readers, closeTask, disposed,
    \* Commands written more than once to one transport.
    resent,
    \* CompositeTaskRunner: place of its thread, first task of its list, the
    \* flags pending and shutdown.
    runner, head, pending, runnerShutdown,
    \* Locals of iterate: the pool it connects from and the URIs that failed.
    connectList, failures,
    \* The ConnectionControl being handled, and how many were received.
    control, controls,
    \* What the transport listener was told last.
    told,
    \* Connections lost and writes failed so far.
    faults

linkVars == <<connectedTransport, connectedTransportURI, connected>>
failVars == <<connectionFailure, told>>
attemptVars == <<firstConnection, connectFailures, doRebalance>>
closeVars == <<closer, toStop>>
poolVars == <<uris, updated, updatedPriority>>
requestVars == <<requestMap, tracked, answered>>
wireVars == <<created, wire, readers, disposed, resent>>
taskVars == <<runner, head, runnerShutdown>>
localVars == <<connectList, failures>>
controlVars == <<control, controls>>
vars == <<limits, linkVars, failVars, attemptVars, started, shutdown, closeVars,
          poolVars, requestVars, sender, wireVars, closeTask, taskVars,
          pending, localVars, controlVars, faults>>

NoControl == [step |-> "idle", brokers |-> {}, rebalance |-> FALSE, copy |-> {}]

Init ==
    /\ limits \in Limits
    /\ connectedTransport = 0 /\ connectedTransportURI = 0
    /\ connected = FALSE /\ connectionFailure = FALSE
    /\ firstConnection = TRUE /\ connectFailures = 0 /\ doRebalance = FALSE
    /\ started = FALSE /\ shutdown = FALSE
    /\ closer = "open" /\ toStop = 0
    /\ uris = Configured /\ updated = {} /\ updatedPriority = 0
    /\ requestMap = {} /\ tracked = {} /\ answered = {}
    /\ sender = [c \in Commands |-> "new"]
    /\ created = 0 /\ wire = [t \in Transports |-> {}] /\ readers = {}
    /\ closeTask = {} /\ disposed = {} /\ resent = {}
    /\ runner = "off" /\ head = "failover"
    /\ pending = TRUE /\ runnerShutdown = FALSE
    /\ connectList = "uris" /\ failures = {}
    /\ control = NoControl /\ controls = 0
    /\ told = "nothing" /\ faults = 0

-----------------------------------------------------------------------------
(* Predicates and helpers of FailoverTransportImpl. *)

closed == closer # "open"

\* calculateReconnectAttemptLimit, canReconnect, willReconnect.
ReconnectAttemptLimit ==
    IF firstConnection /\ limits.startup # -1 THEN limits.startup ELSE limits.max
CanReconnect == started /\ ReconnectAttemptLimit # 0
WillReconnect == firstConnection \/ ReconnectAttemptLimit # 0

\* isClosedOrFailed and, without backups, isConnectionStateValid.
ClosedOrFailed == closed \/ connectionFailure
ConnectionStateValid == connectedTransport # 0 /\ ~doRebalance

\* reconnectMutex can be locked.
MutexFree ==
    /\ runner # "connecting"
    /\ \A c \in Commands : sender[c] # "spinning"

\* CompositeTaskRunner::wakeup.
Wakeup == pending' = (pending \/ ~runnerShutdown)

\* handleTransportFailure: the connection is given to the close task and its
\* URI goes back to the pool; the listener hears of an interruption if there
\* will be another attempt and of a failure if not.  Nothing says which
\* transport has failed.
HandleTransportFailureWith(wakes) ==
    IF shutdown \/ connectedTransport = 0
    THEN UNCHANGED <<linkVars, failVars, poolVars, closeTask, pending>>
    ELSE /\ closeTask' = closeTask \cup {connectedTransport}
         /\ connectedTransport' = 0
         /\ connectedTransportURI' = 0
         /\ connected' = FALSE
         /\ uris' = uris \cup {connectedTransportURI}
         /\ UNCHANGED updatedPriority
         /\ \/ /\ CanReconnect
               /\ told' = "interrupted"
               /\ updated' = updated \ {connectedTransportURI}
               /\ IF wakes THEN Wakeup ELSE UNCHANGED pending
               /\ UNCHANGED connectionFailure
            \/ /\ ~CanReconnect
               /\ connectionFailure' = TRUE
               /\ told' = "failed"
               /\ UNCHANGED <<updated, pending>>

\* Mutant: the task runner is not woken.
HandleTransportFailureWithoutWakeup == HandleTransportFailureWith(FALSE)

HandleTransportFailure == HandleTransportFailureWith(TRUE)

\* reconnect(rebalance), under reconnectMutex.
Reconnect(rebalance) ==
    IF started
    THEN doRebalance' = (doRebalance \/ rebalance) /\ Wakeup
    ELSE UNCHANGED <<doRebalance, pending>>

-----------------------------------------------------------------------------
(* start, stop and close. *)

\* start: called once, before anything is sent.  The runner thread starts.
Start ==
    /\ runner = "off" /\ ~closed
    /\ started' = TRUE
    /\ runner' = "loop"
    /\ pending' = TRUE
    /\ UNCHANGED <<limits, linkVars, failVars, attemptVars, shutdown,
                   closeVars, poolVars, requestVars, sender, wireVars,
                   closeTask, head, runnerShutdown, localVars, controlVars,
                   faults>>

\* stop: its one caller is the connection, after the listener was told of a
\* failure (OnExceptionRunnable).
Stop ==
    /\ connectionFailure /\ started /\ MutexFree
    /\ started' = FALSE
    /\ UNCHANGED <<limits, linkVars, failVars, attemptVars, shutdown,
                   closeVars, poolVars, requestVars, sender, wireVars,
                   closeTask, taskVars, pending, localVars, controlVars, faults>>

\* close, the section under reconnectMutex; a later call returns at once.
Close ==
    /\ closer = "open" /\ runner # "off" /\ MutexFree
    /\ closer' = "closed"
    /\ started' = FALSE
    /\ connected' = FALSE
    /\ requestMap' = {}
    /\ toStop' = connectedTransport
    /\ connectedTransport' = 0
    /\ UNCHANGED <<limits, connectedTransportURI, failVars, attemptVars, shutdown,
                   poolVars, tracked, answered, sender, wireVars, closeTask,
                   taskVars, pending, localVars, controlVars, faults>>

\* close: taskRunner->shutdown ...
ShutdownRunner ==
    /\ closer = "closed"
    /\ closer' = "joining"
    /\ runnerShutdown' = TRUE
    /\ pending' = TRUE
    /\ UNCHANGED <<limits, linkVars, failVars, attemptVars, started, shutdown, toStop,
                   poolVars, requestVars, sender, wireVars, closeTask, runner,
                   head, localVars, controlVars, faults>>

\* ... which joins the runner thread, but for five minutes at most, and then
\* the transport that was in use is closed.
CloseStopped ==
    /\ closer = "joining"
    /\ closer' = "done"
    /\ disposed' = disposed \cup ({toStop} \ {0})
    /\ readers' = readers \ {toStop}
    /\ UNCHANGED <<limits, linkVars, failVars, attemptVars, started, shutdown, toStop,
                   poolVars, requestVars, sender, created, wire, resent,
                   closeTask, taskVars, pending, localVars, controlVars,
                   faults>>

-----------------------------------------------------------------------------
(* oneway *)

\* Kinds for which the peer sends a response; kinds for which track() returns
\* a marker; kinds kept in requestMap; kinds the state tracker restores.
Answerable == {"request", "ack", "info", "remove"}
Marked == {"info", "remove"}
Mapped == {"request", "ack"}
Restored == {"info", "pull"}

Becomes(c, s) == sender' = [sender EXCEPT ![c] = s]
CommandsIf(c, S) == IF Kind[c] \in S THEN {c} ELSE {}

\* Commands that are not sent while there is no connection.
Skipped(c) ==
    /\ sender[c] = "new"
    /\ connectedTransport = 0
    /\ Kind[c] \in {"shutdown", "remove", "ack", "pull"}

\* The thread of c holds reconnectMutex in oneway, at the top of its loop.
Holds(c) ==
    /\ sender[c] \in {"new", "waiting"}
    /\ runner # "off"
    /\ MutexFree

onewayVars == <<limits, linkVars, failVars, attemptVars, started, closeVars, poolVars,
                closeTask, taskVars, pending, localVars, controlVars>>

\* Not connected: a RemoveInfo or MessageAck is answered on the spot, a pull
\* gets an empty dispatch, a ShutdownInfo is dropped.
Skip(c) ==
    /\ Holds(c) /\ Skipped(c)
    /\ Becomes(c, "returned")
    /\ answered' = answered \cup CommandsIf(c, Answerable)
    /\ requestMap' = requestMap \ {c}
    /\ UNCHANGED <<onewayVars, shutdown, tracked, wireVars, faults>>

\* Nothing to wait for: closed, in which case oneway returns without an
\* error, or failed for good.
GiveUp(c) ==
    /\ Holds(c) /\ ~Skipped(c)
    /\ connectedTransport = 0
    /\ \/ closed /\ Becomes(c, "returned")
       \/ ~closed /\ (connectionFailure \/ ~WillReconnect) /\ Becomes(c, "threw")
    /\ UNCHANGED <<onewayVars, shutdown, requestVars, wireVars, faults>>

\* reconnectMutex.wait(100), until the timeout for messages ends it.
Await(c) ==
    /\ Holds(c) /\ ~Skipped(c)
    /\ connectedTransport = 0 /\ ~ClosedOrFailed /\ WillReconnect
    /\ \/ sender[c] = "new" /\ Becomes(c, "waiting")
       \/ /\ sender[c] = "waiting" /\ Kind[c] = "message" /\ HasTimeout
          /\ Becomes(c, "threw")
    /\ UNCHANGED <<onewayVars, shutdown, requestVars, wireVars, faults>>

\* The command is tracked or put into requestMap and written.
Send(c) ==
    /\ Holds(c) /\ connectedTransport # 0
    /\ tracked' = tracked \cup CommandsIf(c, Restored)
    /\ requestMap' = requestMap \cup CommandsIf(c, Mapped)
    /\ wire' = [wire EXCEPT ![connectedTransport] = @ \cup {c}]
    /\ resent' = resent \cup ({c} \cap wire[connectedTransport])
    /\ shutdown' = (shutdown \/ Kind[c] = "shutdown")
    /\ Becomes(c, "returned")
    /\ UNCHANGED <<onewayVars, answered, created, readers, disposed, faults>>

\* The write throws IOException.  A command without a marker leaves requestMap
\* and goes round the loop again if a reconnection is possible; after a
\* ShutdownInfo the failure is ignored, so the loop never ends.  Any other
\* command counts as sent.
SendFailsKeeping(c, kept) ==
    LET retried == Kind[c] \notin Marked /\ CanReconnect IN
    /\ Holds(c) /\ connectedTransport # 0
    /\ faults < MaxFaults /\ faults' = faults + 1
    /\ tracked' = tracked \cup CommandsIf(c, Restored)
    /\ requestMap' = requestMap \cup (IF retried THEN kept
                                      ELSE CommandsIf(c, Mapped))
    /\ HandleTransportFailure
    /\ Becomes(c, IF ~retried THEN "returned"
                  ELSE IF shutdown THEN "spinning"
                  ELSE IF connectionFailure THEN "threw" ELSE "waiting")
    /\ UNCHANGED <<limits, attemptVars, started, shutdown, closeVars, answered,
                   wireVars, taskVars, localVars, controlVars>>

\* Mutant: a command that will be retried stays in requestMap.
SendFailsStaysMapped(c) == SendFailsKeeping(c, CommandsIf(c, Mapped))

SendFails(c) == SendFailsKeeping(c, {})

-----------------------------------------------------------------------------
(* The reader thread of a wrapped transport and FailoverTransportListener. *)

\* onException: the reader reports, once, and ends.  The listener is never
\* replaced, so the reader of a transport that was given up reports as well.
ReaderFails(t) ==
    /\ t \in readers
    /\ shutdown \/ MutexFree
    /\ faults < MaxFaults /\ faults' = faults + 1
    /\ readers' = readers \ {t}
    /\ HandleTransportFailure
    /\ UNCHANGED <<limits, attemptVars, started, shutdown, closeVars, requestVars,
                   sender, created, wire, disposed, resent, taskVars,
                   localVars, controlVars>>

\* onCommand with a Response: processResponse, without reconnectMutex.
Respond(t, c) ==
    /\ t \in readers
    /\ c \in wire[t] \ answered /\ Kind[c] \in Answerable
    /\ requestMap' = requestMap \ {c}
    /\ answered' = answered \cup {c}
    /\ UNCHANGED <<onewayVars, shutdown, tracked, sender, wireVars, faults>>

controlFrame == <<limits, linkVars, failVars, firstConnection, connectFailures,
                  started, shutdown, closeVars, requestVars, sender, wireVars,
                  closeTask, taskVars, localVars, faults>>

\* handleConnectionControl: reconnectTo names a URI (0: none) ...
ReceiveControl(t) ==
    /\ t \in readers
    /\ control.step = "idle" /\ controls < MaxControls
    /\ controls' = controls + 1
    /\ \E cc \in Controls :
        /\ uris' = uris \cup ({cc.reconnectTo} \ {0})
        /\ control' =
             [step |-> IF cc.reconnectTo \in uris \cup {0} THEN "update"
                       ELSE "reconnect",
              brokers |-> cc.brokers, rebalance |-> cc.rebalance, copy |-> {}]
    /\ UNCHANGED <<controlFrame, doRebalance, updated, updatedPriority,
                   pending>>

\* ... and reconnect(true) follows if the pool did not hold it.
ControlReconnects ==
    /\ control.step = "reconnect" /\ MutexFree
    /\ Reconnect(TRUE)
    /\ control' = [control EXCEPT !.step = "update"]
    /\ UNCHANGED <<controlFrame, poolVars, controls>>

\* updateURIs, outside reconnectMutex: the pool is cleared ...
ControlClears ==
    /\ control.step = "update"
    /\ IF control.brokers = {}
       THEN control' = NoControl /\ UNCHANGED updated
       ELSE /\ control' = [control EXCEPT !.step = "fill", !.copy = updated]
            /\ updated' = {}
    /\ UNCHANGED <<controlFrame, doRebalance, uris, updatedPriority, pending,
                   controls>>

\* ... filled again in the order of a set of URIs ...
ControlFills ==
    /\ control.step = "fill" /\ control.brokers # {}
    /\ LET uri == CHOOSE u \in control.brokers :
                    \A v \in control.brokers : u <= v IN
       /\ updated' = updated \cup {uri}
       /\ updatedPriority' = IF updatedPriority = 0 THEN uri
                             ELSE updatedPriority
       /\ control' = [control EXCEPT !.brokers = @ \ {uri}]
    /\ UNCHANGED <<controlFrame, doRebalance, uris, pending, controls>>

\* ... and compared with its copy.  The lists are compared in order, which the
\* sets here leave out: equal sets of several URIs may count as different.
ControlCompares ==
    /\ control.step = "fill" /\ control.brokers = {}
    /\ \/ /\ control.copy # updated \/ Cardinality(updated) > 1
          /\ control' = [control EXCEPT !.step = "rebalance", !.copy = {}]
       \/ /\ control.copy = updated
          /\ control' = NoControl
    /\ UNCHANGED <<controlFrame, doRebalance, poolVars, pending, controls>>

ControlRebalances ==
    /\ control.step = "rebalance" /\ MutexFree
    /\ Reconnect(control.rebalance)
    /\ control' = NoControl
    /\ UNCHANGED <<controlFrame, poolVars, controls>>

-----------------------------------------------------------------------------
(* The task runner: CompositeTaskRunner::run and the two tasks. *)

runFrame == <<limits, started, shutdown, closeVars, sender, requestVars, controlVars,
              runnerShutdown>>

\* FailoverTransport::isPending, under reconnectMutex.
ReconnectPending ==
    /\ ~ConnectionStateValid /\ started /\ ~ClosedOrFailed
    /\ \/ firstConnection /\ connectFailures = 0
       \/ ReconnectAttemptLimit = -1
       \/ connectFailures <= ReconnectAttemptLimit

\* run: pending is reset and the tasks are looked at; a runner that found
\* nothing to do waits for wakeup or shutdown first.
RunnerLoops ==
    /\ runner = "loop" \/ (runner = "wait" /\ (pending \/ runnerShutdown))
    /\ pending' = FALSE
    /\ runner' = IF runnerShutdown THEN "dead" ELSE "first"
    /\ UNCHANGED <<runFrame, linkVars, failVars, attemptVars, poolVars,
                   wireVars, closeTask, head, localVars, faults>>

\* iterate: each task moves to the end of the list when it has been looked at;
\* the first pending one is run.
CheckTaskThen(next) ==
    /\ runner \in {"first", "second"}
    /\ head = "failover" => MutexFree
    /\ head' = next
    /\ runner' =
         IF head = "failover" /\ ReconnectPending THEN "iterate"
         ELSE IF head = "close" /\ closeTask # {} THEN "closing"
         ELSE IF runner = "first" THEN "second" ELSE "wait"
    /\ UNCHANGED <<runFrame, linkVars, failVars, attemptVars, poolVars,
                   wireVars, closeTask, pending, localVars, faults>>

\* Mutant: a task that was looked at stays at the head of the list.
CheckTaskAgain == CheckTaskThen(head)

CheckTask == CheckTaskThen(IF head = "failover" THEN "close" ELSE "failover")

\* CloseTransportsTask::iterate: closes until its queue is empty.  Closing
\* joins the reader, which reports no more.
CloseTransport(t) ==
    /\ runner = "closing" /\ t \in closeTask
    /\ closeTask' = closeTask \ {t}
    /\ disposed' = disposed \cup {t}
    /\ readers' = readers \ {t}
    /\ runner' = IF closeTask' = {} THEN "loop" ELSE "closing"
    /\ UNCHANGED <<runFrame, linkVars, failVars, attemptVars, poolVars,
                   created, wire, resent, head, pending, localVars, faults>>

\* getConnectList.
PreferredList == IF updated # {} THEN "updated" ELSE "uris"
Pool(list) == IF list = "updated" THEN updated ELSE uris
PriorityURI(list) == IF list = "updated" THEN updatedPriority ELSE 1

iterateFrame == <<runFrame, wireVars, head, firstConnection, connectFailures,
                  updated, updatedPriority, faults>>

\* iterate: nothing to do any more.
IterateReturns ==
    /\ runner = "iterate" /\ MutexFree
    /\ ConnectionStateValid \/ ClosedOrFailed
    /\ runner' = "loop"
    /\ UNCHANGED <<iterateFrame, linkVars, failVars, doRebalance, uris,
                   closeTask, pending, localVars>>

\* Mutant: closed is not looked at again.
MustConnectUnlessFailed == ~ConnectionStateValid /\ ~connectionFailure

\* iterate, with the mutex, asks once more whether there is anything to do.
MustConnect == ~ConnectionStateValid /\ ~ClosedOrFailed

\* iterate with a rebalance pending compares *connectedTransportURI with the
\* priority URI.  With no connection that is a NullPointerException, which
\* ends the runner thread.
IterateThrows ==
    /\ runner = "iterate" /\ MutexFree /\ MustConnect
    /\ Pool(PreferredList) # {} /\ doRebalance
    /\ connectedTransportURI = 0
    /\ runner' = "dead"
    /\ UNCHANGED <<iterateFrame, linkVars, failVars, doRebalance, uris,
                   closeTask, pending, localVars>>

\* iterate: already connected to the first URI of the list.
IterateKeeps ==
    /\ runner = "iterate" /\ MutexFree /\ MustConnect
    /\ Pool(PreferredList) # {} /\ doRebalance
    /\ connectedTransportURI = PriorityURI(PreferredList)
    /\ doRebalance' = FALSE
    /\ runner' = "loop"
    /\ UNCHANGED <<iterateFrame, linkVars, failVars, uris, closeTask, pending,
                   localVars>>

\* iterate: disconnect(), if there is a connection to break, and the loop of
\* attempts begins.
IterateBegins(event) ==
    /\ runner = "iterate" /\ MutexFree /\ MustConnect
    /\ Pool(PreferredList) # {}
    /\ \/ /\ ~doRebalance
          /\ UNCHANGED <<linkVars, failVars, uris, closeTask, doRebalance>>
       \/ /\ doRebalance
          /\ connectedTransportURI \notin {0, PriorityURI(PreferredList)}
          /\ doRebalance' = FALSE
          /\ closeTask' = closeTask \cup {connectedTransport}
          /\ connectedTransport' = 0
          /\ connectedTransportURI' = 0
          /\ uris' = uris \cup {connectedTransportURI}
          /\ told' = event
          /\ UNCHANGED <<connected, connectionFailure>>
    /\ connectList' = PreferredList
    /\ runner' = "connecting"
    /\ UNCHANGED <<iterateFrame, pending, failures>>

\* Mutant: disconnect() does not call transportInterrupted.
IterateDisconnectsSilently == IterateBegins(told)

IterateConnects == IterateBegins("interrupted")

\* Mutant: requestMap is not replayed.
ReplayTrackedOnly == IF started /\ ~firstConnection THEN tracked ELSE {}

\* What restoreTransport sends on a new transport: the state tracker's
\* commands and the requests without an answer.
Replay == IF started /\ ~firstConnection THEN tracked \cup requestMap ELSE {}

\* connectList loses uri and gets the URIs in back.
Takes(uri, back) ==
    LET taken(pool) == (pool \ {uri}) \cup back IN
    /\ uris' = IF connectList = "uris" THEN taken(uris) ELSE uris
    /\ updated' = IF connectList = "updated" THEN taken(updated) ELSE updated
    /\ UNCHANGED updatedPriority

attemptFrame == <<runFrame, head, doRebalance, disposed, resent>>

\* An attempt succeeds: the new transport is restored and put into use, the
\* senders are woken, the listener hears of it, and the URIs that failed
\* before go back.
ConnectReturning(uri, back) ==
    /\ runner = "connecting" /\ uri \in Pool(connectList)
    /\ created < MaxTransports
    /\ created' = created + 1
    /\ wire' = [wire EXCEPT ![created + 1] = Replay]
    /\ readers' = readers \cup {created + 1}
    /\ connectedTransport' = created + 1
    /\ connectedTransportURI' = uri
    /\ connected' = TRUE
    /\ connectFailures' = 0
    /\ firstConnection' = FALSE
    /\ told' = "resumed"
    /\ Takes(uri, back)
    /\ failures' = {}
    /\ connectList' = "uris"
    /\ runner' = "loop"
    /\ UNCHANGED <<attemptFrame, connectionFailure, closeTask, pending, faults>>

\* Mutant: the URIs that failed are not given back.
ConnectForgetsFailures(uri) == ConnectReturning(uri, {})

Connect(uri) == ConnectReturning(uri, failures)

\* An attempt fails with a transport at hand, in start or in restoreTransport;
\* its reader may already have an exception to report.
ConnectFailsClosing(uri, closing) ==
    /\ runner = "connecting" /\ uri \in Pool(connectList)
    /\ faults < MaxFaults /\ faults' = faults + 1
    /\ created < MaxTransports
    /\ created' = created + 1
    /\ \E written \in {{}, Replay} :
         wire' = [wire EXCEPT ![created + 1] = written]
    /\ readers' \in {readers, readers \cup {created + 1}}
    /\ connected' = FALSE
    /\ closeTask' = closeTask \cup closing
    /\ Wakeup
    /\ Takes(uri, {})
    /\ failures' = failures \cup {uri}
    /\ UNCHANGED <<attemptFrame, runner, connectedTransport,
                   connectedTransportURI, failVars, firstConnection,
                   connectFailures, connectList>>

\* Mutant: the transport is not handed to the close task.
ConnectFailsLeaking(uri) == ConnectFailsClosing(uri, {})

ConnectFails(uri) == ConnectFailsClosing(uri, {created + 1})

\* An attempt fails in createTransport.
CreateFails(uri) ==
    /\ runner = "connecting" /\ uri \in Pool(connectList)
    /\ Takes(uri, {})
    /\ failures' = failures \cup {uri}
    /\ UNCHANGED <<attemptFrame, runner, linkVars, failVars, firstConnection,
                   connectFailures, connectList, created, wire, readers,
                   closeTask, pending, faults>>

\* The end of iterate when no attempt has succeeded: the failures go back to
\* the list and count against the limit, if there is one.  The limit reached
\* without any exception at hand (the pool was emptied by updateURIs before
\* the first attempt), a NULL connectionFailure is dereferenced.
ExhaustedWithin(limit) ==
    LET starved == runner = "iterate"
        last == limit >= 0 /\ connectFailures + 1 >= limit
        null == ~starved /\ failures = {}
    IN
    /\ \/ runner = "connecting" /\ Pool(connectList) = {}
       \/ /\ runner = "iterate" /\ MutexFree /\ MustConnect
          /\ Pool(PreferredList) = {}
    /\ Takes(0, failures)
    /\ failures' = {}
    /\ connectList' = "uris"
    /\ connectFailures' = IF ReconnectAttemptLimit >= 0
                          THEN connectFailures + 1 ELSE connectFailures
    /\ \/ /\ last /\ ~null
          /\ connectionFailure' = TRUE /\ told' = "failed" /\ runner' = "loop"
       \/ last /\ null /\ runner' = "dead" /\ UNCHANGED failVars
       \/ ~last /\ runner' = "loop" /\ UNCHANGED failVars
    /\ UNCHANGED <<attemptFrame, linkVars, firstConnection, created, wire,
                   readers, closeTask, pending, faults>>

\* Mutant: one attempt too many.
ExhaustedOffByOne == ExhaustedWithin(ReconnectAttemptLimit + 1)

Exhausted == ExhaustedWithin(ReconnectAttemptLimit)

-----------------------------------------------------------------------------

SenderStep(c) ==
    Skip(c) \/ GiveUp(c) \/ Await(c) \/ Send(c) \/ SendFails(c)

ReaderStep(t) ==
    \/ ReaderFails(t)
    \/ \E c \in Commands : Respond(t, c)
    \/ ReceiveControl(t)

ControlStep ==
    \/ ControlReconnects \/ ControlClears \/ ControlFills
    \/ ControlCompares \/ ControlRebalances

CloseStep == Close \/ ShutdownRunner \/ CloseStopped

IterateStep ==
    \/ IterateReturns \/ IterateThrows \/ IterateKeeps \/ IterateConnects
    \/ Exhausted
    \/ \E u \in URIs : Connect(u) \/ ConnectFails(u) \/ CreateFails(u)

RunnerStep ==
    \/ RunnerLoops \/ CheckTask \/ IterateStep
    \/ \E t \in Transports : CloseTransport(t)

Next ==
    \/ Start \/ Stop \/ CloseStep
    \/ \E c \in Commands : SenderStep(c)
    \/ \E t \in Transports : ReaderStep(t)
    \/ ControlStep
    \/ RunnerStep

Spec == Init /\ [][Next]_vars

\* The runner and the senders run when they can; close(), once called, goes
\* on; ConnectionControls are handled.  Whether an attempt succeeds is up to
\* the brokers: strong fairness says that one does if there are attempts for
\* ever.  Nothing makes a reader fail, a response arrive or close be called.
Fairness ==
    /\ WF_vars(Start)
    /\ WF_vars(RunnerStep)
    /\ SF_vars(\E u \in URIs : Connect(u))
    /\ WF_vars(ControlStep)
    /\ \A c \in Commands : WF_vars(SenderStep(c))
    /\ WF_vars(ShutdownRunner \/ CloseStopped)

FairSpec == Spec /\ Fairness

-----------------------------------------------------------------------------
(* Properties *)

\* connectFailures never passes the limits: iterate gives up when it reaches
\* the one in force.
AttemptsWithinLimits ==
    /\ connectFailures \in Nat
    /\ \/ connectFailures <= 1
       \/ connectFailures <= limits.max \/ connectFailures <= limits.startup

\* Values of the variables.
TypeOK ==
    /\ limits \in Limits
    /\ connectedTransport \in 0..MaxTransports
    /\ connectedTransportURI \in 0..NumURIs
    /\ connected \in BOOLEAN /\ connectionFailure \in BOOLEAN
    /\ firstConnection \in BOOLEAN /\ doRebalance \in BOOLEAN
    /\ AttemptsWithinLimits
    /\ started \in BOOLEAN /\ shutdown \in BOOLEAN
    /\ closer \in {"open", "closed", "joining", "done"}
    /\ toStop \in 0..MaxTransports
    /\ uris \subseteq URIs /\ updated \subseteq URIs
    /\ updatedPriority \in 0..NumURIs
    /\ requestMap \subseteq Commands /\ tracked \subseteq Commands
    /\ answered \subseteq Commands /\ resent \subseteq Commands
    /\ sender \in [Commands ->
                     {"new", "waiting", "spinning", "returned", "threw"}]
    /\ created \in 0..MaxTransports
    /\ wire \in [Transports -> SUBSET Commands]
    /\ readers \subseteq Transports
    /\ closeTask \subseteq Transports /\ disposed \subseteq Transports
    /\ runner \in {"off", "loop", "first", "second", "wait", "closing",
                   "iterate", "connecting", "dead"}
    /\ head \in {"failover", "close"}
    /\ pending \in BOOLEAN /\ runnerShutdown \in BOOLEAN
    /\ connectList \in {"uris", "updated"} /\ failures \subseteq URIs
    /\ control \in [step : {"idle", "reconnect", "update", "fill",
                            "rebalance"},
                    brokers : SUBSET URIs, rebalance : BOOLEAN,
                    copy : SUBSET URIs]
    /\ controls \in 0..MaxControls
    /\ told \in {"nothing", "resumed", "interrupted", "failed"}
    /\ faults \in 0..MaxFaults

\* A request or an info that oneway accepted is answered, or is kept for the
\* next reconnection, and on a connection that is up it has been written:
\* failing over loses none (requestMap, stateTracker and restoreTransport).
AcceptedSurvivesFailover ==
    \A c \in Commands :
        (/\ Kind[c] \in {"request", "ack", "info"}
         /\ sender[c] = "returned" /\ ~closed)
        => \/ c \in answered
           \/ /\ c \in requestMap \cup tracked
              /\ (connectedTransport # 0 /\ started /\ ~shutdown)
                 => c \in wire[connectedTransport]

\* A request or an info is written at most once to any one transport: what
\* oneway retries is not also replayed by restoreTransport.
RequestsNotResent ==
    \A c \in resent : Kind[c] \notin {"request", "ack", "info", "remove"}

\* Between iterations the application believes it is connected exactly when it
\* is: transportInterrupted, transportResumed and onException tell it.
ListenerAgrees ==
    (MutexFree /\ ~closed) =>
        ((told = "resumed") <=> (connectedTransport # 0 /\ ~connectionFailure))

\* Every URI of the configured list can still be tried: it is in the pool, in
\* use, or among the failures of the iteration under way.
NoConfiguredURILost ==
    ~closed => Configured \subseteq uris \cup {connectedTransportURI} \cup
                             (IF connectList = "uris" THEN failures ELSE {})

\* Each wrapped transport ever created is in use, or handed to the close task
\* or to close(), or closed, and only one of these.
NoTransportLeaks ==
    /\ 1..created = ({connectedTransport, toStop} \ {0}) \cup closeTask \cup disposed
    /\ closeTask \cap disposed = {}
    /\ connectedTransport \notin closeTask \cup disposed

\* After close() or a final failure no new connection is put into use, even if
\* the runner had decided to reconnect before (isPending and iterate lock
\* reconnectMutex separately).
NoConnectionAfterEnd ==
    [][ClosedOrFailed => connectedTransport' \in {0, connectedTransport}]_vars

\* A sender that waits for a connection does not wait for ever.
SendersServed ==
    \A c \in Commands : sender[c] = "waiting" ~> sender[c] # "waiting"

\* Transports that were given up get closed by the close task, unless the whole
\* transport is closed or has failed by then (nothing wakes the runner after a
\* final failure).
TransportsGetClosed ==
    closeTask # {} ~> (closeTask = {} \/ ClosedOrFailed)

\* "Keep trying until the message is sent" (oneway): while a sender waits,
\* there is a runner that tries, until close().
KeepTrying ==
    (\E c \in Commands : sender[c] = "waiting") /\ ~closed => runner # "dead"

\* After the ShutdownInfo "let the close do the work" (handleTransportFailure):
\* close() can get reconnectMutex, again and again.
CloseCanWork == []<>(closed \/ MutexFree)
=============================================================================
