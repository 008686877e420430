---------------------- MODULE FailoverTransportProofs ----------------------
(***************************************************************************)
(* The safety of the connections of the failover transport, for any URIs,  *)
(* limits and ConnectionControls and any number of faults.                 *)
(***************************************************************************)
EXTENDS FailoverTransport, TLAPS

\* What the invariant is about.
connVars == <<limits, connectedTransport, connectedTransportURI,
              connectionFailure, told, firstConnection, connectFailures,
              closer, toStop, uris, created, disposed, closeTask, runner,
              connectList, failures>>

\* The loop of attempts runs without a connection and only while there is
\* something to connect for; a connection has its URI; close() takes it.
LinkInv ==
    /\ limits \in Limits
    /\ created \in 0..MaxTransports
    /\ runner = "connecting" => /\ ~closed /\ ~connectionFailure
                                /\ connectedTransport = 0
    /\ ~closed => /\ connectedTransport = 0 <=> connectedTransportURI = 0
                  /\ toStop = 0
    /\ closed => connectedTransport = 0
    /\ runner = "off" => firstConnection
    /\ firstConnection => connectedTransport = 0

\* The locals of iterate.
LocalInv == runner # "connecting" => failures = {} /\ connectList = "uris"

\* A runner that goes on has attempts left.
AttemptInv ==
    /\ AttemptsWithinLimits
    /\ (runner # "dead" /\ ~connectionFailure /\ connectFailures > 0)
         => connectFailures < ReconnectAttemptLimit

LeakInv == NoTransportLeaks /\ toStop \notin closeTask

\* The listener is right at every moment, not only between iterations.
ListenerInv ==
    ~closed =>
        ((told = "resumed") <=> (connectedTransport # 0 /\ ~connectionFailure))

IInv ==
    /\ LinkInv /\ LocalInv /\ AttemptInv
    /\ LeakInv /\ ListenerInv /\ NoConfiguredURILost

\* What a step may not do.
NoNewConnection ==
    ClosedOrFailed => connectedTransport' \in {0, connectedTransport}

\* The ranges of transports and URIs.
LEMMA Bounds ==
    /\ MaxTransports \in Nat /\ Transports = 1..MaxTransports
    /\ 0 \notin Transports /\ 0 \notin URIs /\ 0 \notin Configured
    /\ Limits \subseteq [max : Nat \cup {-1}, startup : Nat \cup {-1}]
BY FailoverAssumption DEF MaxTransports, Transports, URIs, Configured

\* The initial states satisfy the invariant.
LEMMA InitIInv == Init => IInv
<1> SUFFICES ASSUME Init PROVE IInv
    OBVIOUS
<1>1. LinkInv /\ LocalInv
    BY Bounds DEF Init, LinkInv, LocalInv, closed
<1>2. AttemptInv /\ LeakInv /\ ListenerInv /\ NoConfiguredURILost
    BY DEF Init, AttemptInv, AttemptsWithinLimits, LeakInv, NoTransportLeaks,
           ListenerInv, NoConfiguredURILost
<1> QED
    BY <1>1, <1>2 DEF IInv

\* A step that changes none of this preserves the invariant.
LEMMA Unchanged ==
    ASSUME IInv, UNCHANGED connVars
    PROVE  IInv' /\ NoNewConnection
BY DEF connVars, IInv, LinkInv, LocalInv, AttemptInv, LeakInv, ListenerInv,
       NoNewConnection, AttemptsWithinLimits, NoTransportLeaks,
       NoConfiguredURILost, ReconnectAttemptLimit, closed

\* So does one that moves the runner outside the loop of attempts.
LEMMA RunnerMoves ==
    ASSUME IInv, runner # "connecting", runner' \notin {"connecting", "off"},
           runner # "dead",
           UNCHANGED <<limits, connectedTransport, connectedTransportURI,
                       connectionFailure, told, firstConnection,
                       connectFailures, closer, toStop, uris, created,
                       disposed, closeTask, connectList, failures>>
    PROVE  IInv' /\ NoNewConnection
BY DEF IInv, LinkInv, LocalInv, AttemptInv, LeakInv, ListenerInv,
       NoNewConnection, AttemptsWithinLimits, NoTransportLeaks,
       NoConfiguredURILost, ReconnectAttemptLimit, closed

\* handleTransportFailure preserves the invariant, whoever calls it, with
\* reconnectMutex or after the ShutdownInfo.
LEMMA FailureIInv ==
    ASSUME IInv, HandleTransportFailure, shutdown \/ MutexFree,
           UNCHANGED <<limits, firstConnection, connectFailures, closer,
                       toStop, created, disposed, runner, connectList,
                       failures>>
    PROVE  IInv' /\ NoNewConnection
<1>1. CASE shutdown \/ connectedTransport = 0
    BY <1>1, Unchanged
       DEF HandleTransportFailure, HandleTransportFailureWith, connVars,
           linkVars, failVars, poolVars
<1>2. CASE ~shutdown /\ connectedTransport # 0
  <2>1. /\ closeTask' = closeTask \cup {connectedTransport}
        /\ connectedTransport' = 0 /\ connectedTransportURI' = 0
        /\ uris' = uris \cup {connectedTransportURI}
        /\ \/ told' = "interrupted" /\ UNCHANGED connectionFailure
           \/ told' = "failed" /\ connectionFailure'
      BY <1>2 DEF HandleTransportFailure, HandleTransportFailureWith
  <2>2. runner # "connecting" /\ ~closed
      BY <1>2 DEF MutexFree, IInv, LinkInv
  <2>3. LinkInv' /\ LocalInv'
      BY <2>1, <2>2 DEF IInv, LinkInv, LocalInv, closed
  <2>4. AttemptInv'
      BY <2>1 DEF IInv, AttemptInv, AttemptsWithinLimits,
                  ReconnectAttemptLimit
  <2>5. LeakInv'
    <3>1. toStop = 0 /\ 0 \notin closeTask \cup disposed
        BY <2>2 DEF IInv, LinkInv, LeakInv, NoTransportLeaks
    <3> QED
        BY <1>2, <2>1, <3>1 DEF IInv, LeakInv, NoTransportLeaks
  <2>6. ListenerInv' /\ NoConfiguredURILost'
      BY <2>1, <2>2 DEF IInv, ListenerInv, NoConfiguredURILost, LocalInv,
                        closed
  <2> QED
      BY <2>1, <2>3, <2>4, <2>5, <2>6 DEF IInv, NoNewConnection
<1> QED
    BY <1>1, <1>2

\* Starting, stopping and closing preserve the invariant.
LEMMA LifeIInv ==
    ASSUME IInv, Start \/ Stop \/ CloseStep
    PROVE  IInv' /\ NoNewConnection
<1>1. CASE Start
    BY <1>1, RunnerMoves
       DEF Start, attemptVars, closeVars, failVars, linkVars, localVars,
           poolVars, wireVars
<1>2. CASE Stop
    BY <1>2, Unchanged
       DEF Stop, attemptVars, closeVars, failVars, linkVars, localVars,
           poolVars, taskVars, wireVars, connVars
<1>3. CASE Close
  <2>1. UNCHANGED <<limits, connectedTransportURI, connectionFailure, told,
                    firstConnection, connectFailures, uris, created,
                    disposed, closeTask, runner, connectList, failures>>
      BY <1>3
         DEF Close, attemptVars, failVars, localVars, poolVars, taskVars,
             wireVars
  <2>2. /\ runner # "connecting" /\ ~closed /\ closed'
        /\ connectedTransport' = 0 /\ toStop' = connectedTransport
      BY <1>3 DEF Close, MutexFree, closed
  <2>3. LinkInv' /\ LocalInv' /\ ListenerInv' /\ NoConfiguredURILost'
      BY <2>1, <2>2 DEF IInv, LinkInv, LocalInv, ListenerInv,
                        NoConfiguredURILost
  <2>4. AttemptInv'
      BY <2>1 DEF IInv, AttemptInv, AttemptsWithinLimits,
                  ReconnectAttemptLimit
  <2>5. LeakInv'
    <3>1. toStop = 0 /\ 0 \notin closeTask \cup disposed
        BY <2>2 DEF IInv, LinkInv, LeakInv, NoTransportLeaks
    <3> QED
        BY <2>1, <2>2, <3>1 DEF IInv, LeakInv, NoTransportLeaks
  <2> QED
      BY <2>2, <2>3, <2>4, <2>5 DEF IInv, NoNewConnection
<1>4. ASSUME closed, closed', UNCHANGED <<limits, connectedTransport,
                  connectionFailure, firstConnection, connectFailures,
                  toStop, created, closeTask, runner, connectList, failures>>,
             \/ UNCHANGED disposed
             \/ disposed' = disposed \cup ({toStop} \ {0})
      PROVE  IInv' /\ NoNewConnection
  <2>1. LinkInv' /\ LocalInv' /\ ListenerInv' /\ NoConfiguredURILost'
      BY <1>4 DEF IInv, LinkInv, LocalInv, ListenerInv, NoConfiguredURILost
  <2>2. AttemptInv'
      BY <1>4 DEF IInv, AttemptInv, AttemptsWithinLimits,
                  ReconnectAttemptLimit
  <2>3. LeakInv'
    <3>1. connectedTransport = 0 /\ 0 \notin closeTask \cup disposed
        BY <1>4 DEF IInv, LinkInv, LeakInv, NoTransportLeaks
    <3> QED
        BY <1>4, <3>1 DEF IInv, LeakInv, NoTransportLeaks
  <2> QED
      BY <1>4, <2>1, <2>2, <2>3 DEF IInv, NoNewConnection
<1>5. CASE ShutdownRunner
  <2>1. UNCHANGED <<limits, connectedTransport, connectedTransportURI,
                    connectionFailure, told, firstConnection,
                    connectFailures, toStop, uris, created, disposed,
                    closeTask, runner, connectList, failures>>
      BY <1>5
         DEF ShutdownRunner, attemptVars, failVars, linkVars, localVars,
             poolVars, wireVars
  <2> QED
      BY <1>4, <1>5, <2>1 DEF ShutdownRunner, closed
<1>6. CASE CloseStopped
  <2>1. UNCHANGED <<limits, connectedTransport, connectedTransportURI,
                    connectionFailure, told, firstConnection,
                    connectFailures, toStop, uris, created, closeTask,
                    runner, connectList, failures>>
      BY <1>6
         DEF CloseStopped, attemptVars, failVars, linkVars, localVars,
             poolVars, taskVars
  <2> QED
      BY <1>4, <1>6, <2>1 DEF CloseStopped, closed
<1> QED
    BY <1>1, <1>2, <1>3, <1>5, <1>6 DEF CloseStep

\* oneway preserves the invariant.
LEMMA SenderIInv ==
    ASSUME IInv, NEW c \in Commands, SenderStep(c)
    PROVE  IInv' /\ NoNewConnection
<1>1. CASE Skip(c)
    BY <1>1, Unchanged
       DEF Skip, onewayVars, linkVars, failVars, attemptVars, closeVars,
           poolVars, taskVars, localVars, wireVars, connVars
<1>2. CASE GiveUp(c)
    BY <1>2, Unchanged
       DEF GiveUp, onewayVars, linkVars, failVars, attemptVars, closeVars,
           poolVars, taskVars, localVars, wireVars, connVars
<1>3. CASE Await(c)
    BY <1>3, Unchanged
       DEF Await, onewayVars, linkVars, failVars, attemptVars, closeVars,
           poolVars, taskVars, localVars, wireVars, connVars
<1>4. CASE Send(c)
    BY <1>4, Unchanged
       DEF Send, onewayVars, linkVars, failVars, attemptVars, closeVars,
           poolVars, taskVars, localVars, connVars
<1>5. CASE SendFails(c)
  <2>1. UNCHANGED <<limits, firstConnection, connectFailures, closer,
                    toStop, created, disposed, runner, connectList,
                    failures>>
      BY <1>5
         DEF SendFails, SendFailsKeeping, attemptVars, closeVars, localVars,
             taskVars, wireVars
  <2>2. HandleTransportFailure /\ MutexFree
      BY <1>5 DEF SendFails, SendFailsKeeping, Holds
  <2> QED
      BY <2>1, <2>2, FailureIInv
<1> QED
    BY <1>1, <1>2, <1>3, <1>4, <1>5 DEF SenderStep

\* The reader threads preserve the invariant.
LEMMA ReaderIInv ==
    ASSUME IInv, NEW t \in Transports, ReaderStep(t)
    PROVE  IInv' /\ NoNewConnection
<1>1. CASE ReaderFails(t)
  <2>1. UNCHANGED <<limits, firstConnection, connectFailures, closer,
                    toStop, created, disposed, runner, connectList,
                    failures>>
      BY <1>1 DEF ReaderFails, attemptVars, closeVars, localVars, taskVars
  <2>2. HandleTransportFailure /\ (shutdown \/ MutexFree)
      BY <1>1, Zenon DEF ReaderFails
  <2> QED
      BY <2>1, <2>2, FailureIInv
<1>2. ASSUME NEW c \in Commands, Respond(t, c) PROVE IInv' /\ NoNewConnection
  <2>1. UNCHANGED connVars
      BY <1>2
         DEF Respond, onewayVars, linkVars, failVars, attemptVars, closeVars,
             poolVars, taskVars, localVars, wireVars, connVars
  <2> QED
      BY <2>1, Unchanged
<1>3. CASE ReceiveControl(t)
  <2>1. UNCHANGED <<limits, connectedTransport, connectedTransportURI,
                    connectionFailure, told, firstConnection,
                    connectFailures, closer, toStop, created, disposed,
                    closeTask, runner, connectList, failures>>
      BY <1>3
         DEF ReceiveControl, controlFrame, linkVars, failVars, closeVars,
             wireVars, taskVars, localVars
  <2>2. uris \subseteq uris'
      BY <1>3 DEF ReceiveControl
  <2>3. NoConfiguredURILost'
      BY <2>1, <2>2 DEF IInv, NoConfiguredURILost, closed
  <2>4. LinkInv' /\ LocalInv' /\ AttemptInv'
      BY <2>1 DEF IInv, LinkInv, LocalInv, AttemptInv, AttemptsWithinLimits,
                  ReconnectAttemptLimit, closed
  <2>5. LeakInv' /\ ListenerInv' /\ NoNewConnection
      BY <2>1 DEF IInv, LeakInv, NoTransportLeaks, ListenerInv,
                  NoNewConnection, closed
  <2> QED
      BY <2>3, <2>4, <2>5 DEF IInv
<1> QED
    BY <1>1, <1>2, <1>3 DEF ReaderStep

\* Handling a ConnectionControl preserves the invariant.
LEMMA ControlIInv ==
    ASSUME IInv, ControlStep
    PROVE  IInv' /\ NoNewConnection
<1>1. CASE ControlReconnects
    BY <1>1, Unchanged
       DEF ControlReconnects, controlFrame, linkVars, failVars, closeVars,
           wireVars, taskVars, localVars, poolVars, connVars
<1>2. CASE ControlClears
    BY <1>2, Unchanged
       DEF ControlClears, controlFrame, linkVars, failVars, closeVars,
           wireVars, taskVars, localVars, connVars
<1>3. CASE ControlFills
    BY <1>3, Unchanged
       DEF ControlFills, controlFrame, linkVars, failVars, closeVars,
           wireVars, taskVars, localVars, connVars
<1>4. CASE ControlCompares
    BY <1>4, Unchanged
       DEF ControlCompares, controlFrame, linkVars, failVars, closeVars,
           wireVars, taskVars, localVars, poolVars, connVars
<1>5. CASE ControlRebalances
    BY <1>5, Unchanged
       DEF ControlRebalances, controlFrame, linkVars, failVars, closeVars,
           wireVars, taskVars, localVars, poolVars, connVars
<1> QED
    BY <1>1, <1>2, <1>3, <1>4, <1>5 DEF ControlStep

\* The task runner, the close task and iterate up to the loop of attempts
\* preserve the invariant.
LEMMA RunnerIInv ==
    ASSUME IInv,
           \/ RunnerLoops \/ CheckTask
           \/ \E t \in Transports : CloseTransport(t)
           \/ IterateReturns \/ IterateThrows \/ IterateKeeps
           \/ IterateConnects
    PROVE  IInv' /\ NoNewConnection
<1>1. CASE RunnerLoops
    BY <1>1, RunnerMoves
       DEF RunnerLoops, attemptVars, failVars, linkVars, localVars, poolVars,
           runFrame, closeVars, wireVars
<1>2. CASE CheckTask
    BY <1>2, RunnerMoves
       DEF CheckTask, CheckTaskThen, attemptVars, failVars, linkVars,
           localVars, poolVars, runFrame, closeVars, wireVars
<1>3. CASE IterateReturns
    BY <1>3, RunnerMoves
       DEF IterateReturns, failVars, iterateFrame, runFrame, closeVars,
           wireVars, linkVars, localVars
<1>4. CASE IterateThrows
    BY <1>4, RunnerMoves
       DEF IterateThrows, failVars, iterateFrame, runFrame, closeVars,
           wireVars, linkVars, localVars
<1>5. CASE IterateKeeps
    BY <1>5, RunnerMoves
       DEF IterateKeeps, failVars, iterateFrame, runFrame, closeVars,
           wireVars, linkVars, localVars
<1>6. ASSUME NEW t \in Transports, CloseTransport(t)
      PROVE  IInv' /\ NoNewConnection
  <2>1. UNCHANGED <<limits, connectedTransport, connectedTransportURI,
                    connectionFailure, told, firstConnection,
                    connectFailures, closer, toStop, uris, created,
                    connectList, failures>>
      BY <1>6
         DEF CloseTransport, attemptVars, failVars, linkVars, localVars,
             poolVars, runFrame, closeVars
  <2>2. /\ runner = "closing" /\ runner' \in {"loop", "closing"}
        /\ t \in closeTask /\ closeTask' = closeTask \ {t}
        /\ disposed' = disposed \cup {t}
      BY <1>6 DEF CloseTransport
  <2>3. LinkInv' /\ LocalInv'
      BY <2>1, <2>2 DEF IInv, LinkInv, LocalInv, closed
  <2>4. AttemptInv'
      BY <2>1, <2>2 DEF IInv, AttemptInv, AttemptsWithinLimits,
                        ReconnectAttemptLimit
  <2>5. LeakInv'
      BY <2>1, <2>2 DEF IInv, LeakInv, NoTransportLeaks
  <2>6. ListenerInv' /\ NoConfiguredURILost' /\ NoNewConnection
      BY <2>1 DEF IInv, ListenerInv, NoConfiguredURILost, NoNewConnection,
                  closed
  <2> QED
      BY <2>3, <2>4, <2>5, <2>6 DEF IInv
<1>7. CASE IterateConnects
  <2>1. UNCHANGED <<limits, connectionFailure, firstConnection,
                    connectFailures, closer, toStop, created, disposed,
                    failures>>
      BY <1>7
         DEF IterateConnects, IterateBegins, failVars, iterateFrame, runFrame,
             closeVars, wireVars
  <2>2. /\ runner = "iterate" /\ runner' = "connecting"
        /\ ~closed /\ ~connectionFailure
        /\ UNCHANGED connectionFailure
        /\ connectedTransport' = 0 /\ connectedTransportURI' = 0
      BY <1>7 DEF IterateConnects, IterateBegins, MustConnect,
                  ConnectionStateValid, ClosedOrFailed, IInv, LinkInv,
                  linkVars, failVars
  <2>3. /\ uris \cup {connectedTransportURI} \subseteq uris' \cup {0}
        /\ \/ connectedTransport = 0 /\ UNCHANGED <<closeTask, told>>
           \/ /\ connectedTransport # 0 /\ told' = "interrupted"
              /\ closeTask' = closeTask \cup {connectedTransport}
      BY <1>7, <2>2
         DEF IterateConnects, IterateBegins, MustConnect, IInv, LinkInv,
             ConnectionStateValid, linkVars, failVars
  <2>4. LinkInv' /\ LocalInv'
      BY <2>1, <2>2 DEF IInv, LinkInv, LocalInv, closed
  <2>5. AttemptInv'
    <3>1. UNCHANGED ReconnectAttemptLimit
        BY <2>1 DEF ReconnectAttemptLimit
    <3> QED
        BY <2>1, <2>2, <3>1 DEF IInv, AttemptInv, AttemptsWithinLimits
  <2>6. LeakInv'
    <3>1. toStop = 0 /\ 0 \notin closeTask \cup disposed
        BY <2>2 DEF IInv, LinkInv, LeakInv, NoTransportLeaks
    <3> QED
        BY <2>1, <2>2, <2>3, <3>1 DEF IInv, LeakInv, NoTransportLeaks
  <2>7. ListenerInv'
      BY <2>1, <2>2, <2>3 DEF IInv, ListenerInv, closed
  <2>8. NoConfiguredURILost'
      BY <2>1, <2>2, <2>3, Bounds DEF IInv, LocalInv, NoConfiguredURILost,
                                      closed
  <2> QED
      BY <2>2, <2>4, <2>6, <2>7, <2>8, <2>5 DEF IInv, NoNewConnection
<1> QED
    BY <1>1, <1>2, <1>3, <1>4, <1>5, <1>6, <1>7

\* The attempts to connect preserve the invariant.
LEMMA AttemptIInv ==
    ASSUME IInv, NEW uri \in URIs,
           Connect(uri) \/ ConnectFails(uri) \/ CreateFails(uri)
    PROVE  IInv' /\ NoNewConnection
<1>1. /\ runner = "connecting" /\ ~closed /\ ~connectionFailure
      /\ connectedTransport = 0 /\ connectedTransportURI = 0 /\ toStop = 0
      /\ created \in 0..MaxTransports
    BY DEF Connect, ConnectReturning, ConnectFails, ConnectFailsClosing,
           CreateFails, IInv, LinkInv
<1>2. /\ created + 1 \notin closeTask \cup disposed
      /\ 1..(created + 1) = (1..created) \cup {created + 1}
      /\ 0 \notin closeTask \cup disposed
    BY <1>1, Bounds DEF IInv, LeakInv, NoTransportLeaks
<1>3. CASE Connect(uri)
  <2>1. UNCHANGED <<limits, connectionFailure, closer, toStop, disposed,
                    closeTask>>
      BY <1>3 DEF Connect, ConnectReturning, attemptFrame, runFrame, closeVars
  <2>2. /\ runner' = "loop" /\ created' = created + 1
        /\ created' \in 0..MaxTransports
        /\ connectedTransport' = created + 1 /\ connectedTransportURI' = uri
        /\ connectFailures' = 0 /\ firstConnection' = FALSE
        /\ told' = "resumed" /\ failures' = {} /\ connectList' = "uris"
        /\ uris' = IF connectList = "uris" THEN (uris \ {uri}) \cup failures
                   ELSE uris
      BY <1>1, <1>3, Bounds DEF Connect, ConnectReturning, Takes
  <2>3. LinkInv' /\ LocalInv' /\ ListenerInv'
      BY <1>1, <2>1, <2>2, Bounds DEF IInv, LinkInv, LocalInv, ListenerInv,
                                      closed
  <2>4. AttemptInv'
      BY <2>2 DEF AttemptInv, AttemptsWithinLimits
  <2>5. LeakInv'
      BY <1>1, <1>2, <2>1, <2>2 DEF IInv, LeakInv, NoTransportLeaks
  <2>6. NoConfiguredURILost'
      BY <1>1, <2>1, <2>2, Bounds DEF IInv, NoConfiguredURILost, closed
  <2> QED
      BY <1>1, <2>3, <2>4, <2>5, <2>6 DEF IInv, NoNewConnection,
                                          ClosedOrFailed
<1>4. ASSUME UNCHANGED <<limits, connectedTransport, connectedTransportURI,
                         connectionFailure, told, firstConnection,
                         connectFailures, closer, toStop, disposed, runner,
                         connectList>>,
             Takes(uri, {}), failures' = failures \cup {uri},
             \/ UNCHANGED <<created, closeTask>>
             \/ /\ created' = created + 1 /\ created' \in 0..MaxTransports
                /\ closeTask' = closeTask \cup {created + 1}
      PROVE  IInv' /\ NoNewConnection
  <2>1. LinkInv' /\ LocalInv' /\ AttemptInv'
      BY <1>1, <1>4 DEF IInv, LinkInv, LocalInv, AttemptInv, closed,
                        AttemptsWithinLimits, ReconnectAttemptLimit
  <2>2. LeakInv'
      BY <1>1, <1>2, <1>4 DEF IInv, LeakInv, NoTransportLeaks
  <2>3. ListenerInv' /\ NoNewConnection
      BY <1>4 DEF IInv, ListenerInv, NoNewConnection, closed
  <2>4. NoConfiguredURILost'
      BY <1>4 DEF IInv, NoConfiguredURILost, Takes, closed
  <2> QED
      BY <2>1, <2>2, <2>3, <2>4 DEF IInv
<1>5. CASE ConnectFails(uri)
  <2>1. UNCHANGED <<limits, connectedTransport, connectedTransportURI,
                    connectionFailure, told, firstConnection,
                    connectFailures, closer, toStop, disposed, runner,
                    connectList>>
      BY <1>5
         DEF ConnectFails, ConnectFailsClosing, attemptFrame, runFrame,
             closeVars, failVars
  <2>2. /\ Takes(uri, {}) /\ failures' = failures \cup {uri}
        /\ created' = created + 1 /\ created' \in 0..MaxTransports
        /\ closeTask' = closeTask \cup {created + 1}
      BY <1>1, <1>5, Bounds DEF ConnectFails, ConnectFailsClosing
  <2> QED
      BY <1>4, <2>1, <2>2
<1>6. CASE CreateFails(uri)
  <2>1. UNCHANGED <<limits, connectedTransport, connectedTransportURI,
                    connectionFailure, told, firstConnection,
                    connectFailures, closer, toStop, created, disposed,
                    closeTask, runner, connectList>>
      BY <1>6
         DEF CreateFails, attemptFrame, runFrame, closeVars, failVars,
             linkVars
  <2>2. Takes(uri, {}) /\ failures' = failures \cup {uri}
      BY <1>6 DEF CreateFails
  <2> QED
      BY <1>4, <2>1, <2>2
<1> QED
    BY <1>3, <1>5, <1>6

\* The end of a round of attempts preserves the invariant.
LEMMA ExhaustedIInv ==
    ASSUME IInv, Exhausted
    PROVE  IInv' /\ NoNewConnection
<1> DEFINE limit == ReconnectAttemptLimit
<1>1. UNCHANGED <<limits, connectedTransport, connectedTransportURI,
                  firstConnection, closer, toStop, created, disposed,
                  closeTask>>
    BY DEF Exhausted, ExhaustedWithin, attemptFrame, runFrame, closeVars,
           linkVars
<1>2. /\ runner # "dead" /\ runner # "off" /\ ~connectionFailure /\ ~closed
      /\ connectedTransport = 0 \/ runner = "iterate"
    BY DEF Exhausted, ExhaustedWithin, MustConnect, ClosedOrFailed, IInv,
           LinkInv
<1>3. /\ runner' \in {"loop", "dead"}
      /\ failures' = {} /\ connectList' = "uris"
      /\ uris' = IF connectList = "uris" THEN (uris \ {0}) \cup failures
                 ELSE uris
      /\ connectFailures' = IF limit >= 0 THEN connectFailures + 1
                            ELSE connectFailures
      /\ \/ connectionFailure' /\ told' = "failed"
         \/ runner' = "dead" /\ UNCHANGED <<connectionFailure, told>>
         \/ /\ ~(limit >= 0 /\ connectFailures + 1 >= limit)
            /\ UNCHANGED <<connectionFailure, told>>
    BY DEF Exhausted, ExhaustedWithin, Takes, failVars
<1>4. LinkInv' /\ LocalInv' /\ ListenerInv'
    BY <1>1, <1>2, <1>3 DEF IInv, LinkInv, LocalInv, ListenerInv, closed
<1>5. LeakInv' /\ NoNewConnection
    BY <1>1 DEF IInv, LeakInv, NoTransportLeaks, NoNewConnection
<1>6. NoConfiguredURILost'
    BY <1>1, <1>3, Bounds DEF IInv, NoConfiguredURILost, closed
<1>7. AttemptInv'
  <2>1. limit \in Nat \cup {-1} /\ limit \in {limits.max, limits.startup}
      BY Bounds DEF IInv, LinkInv, ReconnectAttemptLimit
  <2>2. limit' = limit
      BY <1>1 DEF ReconnectAttemptLimit
  <2>3. /\ connectFailures \in Nat
        /\ connectFailures = 0 \/ connectFailures < limit
      BY <1>2 DEF IInv, AttemptInv, AttemptsWithinLimits
  <2> HIDE DEF limit
  <2>4. /\ connectFailures' \in Nat
        /\ connectFailures' <= 1 \/ connectFailures' <= limit
        /\ \/ runner' = "dead" \/ connectionFailure'
           \/ connectFailures' = 0 \/ connectFailures' < limit
      BY <1>3, <2>1, <2>3
  <2>5. AttemptsWithinLimits'
      BY <1>1, <2>1, <2>4 DEF AttemptsWithinLimits
  <2> QED
      BY <2>2, <2>4, <2>5 DEF AttemptInv, limit
<1> QED
    BY <1>4, <1>5, <1>6, <1>7 DEF IInv

\* Every step preserves the invariant, and none connects after the end.
LEMMA NextIInv == IInv /\ [Next]_vars => IInv' /\ NoNewConnection
<1> SUFFICES ASSUME IInv, [Next]_vars PROVE IInv' /\ NoNewConnection
    OBVIOUS
<1>1. CASE UNCHANGED vars
    BY <1>1, Unchanged
       DEF vars, connVars, linkVars, failVars, attemptVars, closeVars,
           poolVars, wireVars, taskVars, localVars
<1> QED
    BY <1>1, LifeIInv, SenderIInv, ReaderIInv, ControlIInv, RunnerIInv,
       AttemptIInv, ExhaustedIInv
       DEF Next, RunnerStep, IterateStep

\* The invariant holds in every reachable state.
THEOREM Invariant == Spec => []IInv
BY InitIInv, NextIInv, PTL DEF Spec

\* Every transport that was created is in use, waits to be closed, or is
\* closed, however attempts, failures, disconnections and close() alternate.
THEOREM TransportsAccountedFor == Spec => []NoTransportLeaks
<1>1. IInv => NoTransportLeaks
    BY DEF IInv, LeakInv
<1> QED
    BY <1>1, Invariant, PTL

\* The pool never loses a configured URI.
THEOREM URIsKept == Spec => []NoConfiguredURILost
<1>1. IInv => NoConfiguredURILost
    BY DEF IInv
<1> QED
    BY <1>1, Invariant, PTL

\* transportInterrupted, transportResumed and onException tell the truth.
THEOREM ListenerIsRight == Spec => []ListenerAgrees
<1>1. IInv => ListenerAgrees
    BY DEF IInv, ListenerInv, ListenerAgrees
<1> QED
    BY <1>1, Invariant, PTL

\* Attempts to reconnect stay within the limit that is in force.
THEOREM LimitsKept == Spec => []AttemptsWithinLimits
<1>1. IInv => AttemptsWithinLimits
    BY DEF IInv, AttemptInv
<1> QED
    BY <1>1, Invariant, PTL

\* No connection is put into use after close() or a final failure.
THEOREM EndIsFinal == Spec => NoConnectionAfterEnd
<1>1. IInv /\ [Next]_vars => [NoNewConnection]_vars
    BY NextIInv
<1>2. [][NoNewConnection]_vars => NoConnectionAfterEnd
    BY PTL DEF NoConnectionAfterEnd, NoNewConnection
<1> QED
    BY <1>1, <1>2, Invariant, PTL DEF Spec
=============================================================================
