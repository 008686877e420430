----------------------- MODULE FailoverRequestsProofs -----------------------
(***************************************************************************)
(* What the failover transport does with the commands it is given, for any *)
(* set of commands: none that was accepted is lost, none is written twice. *)
(* FailoverTransportProofs has the facts about the connections.            *)
(***************************************************************************)
EXTENDS FailoverTransportProofs

\* What the invariant is about, with the life cycle.
commandVars == <<requestMap, tracked, answered, resent, sender, wire,
                 connectedTransport, firstConnection, started, shutdown,
                 closer>>

WireOK == wire = [t \in Transports |-> wire[t]]

\* Before the first connection nothing was sent.
SentInv ==
    /\ sender \in [Commands ->
                     {"new", "waiting", "spinning", "returned", "threw"}]
    /\ WireOK
    /\ firstConnection => requestMap = {} /\ tracked = {}

\* c is nowhere: not written, and not kept to be written.
Untouched(c) ==
    /\ c \notin requestMap \cup tracked
    /\ \A t \in Transports : c \notin wire[t]

\* What oneway may still write for the first time was not written or kept.
ResendInv ==
    /\ RequestsNotResent
    /\ \A c \in Commands :
          (/\ Kind[c] \in {"request", "ack", "info", "remove"}
           /\ sender[c] \in {"new", "waiting"}) => Untouched(c)

CInv == SentInv /\ ResendInv /\ AcceptedSurvivesFailover

\* The initial states satisfy the invariant.
LEMMA InitCInv == Init => CInv
BY DEF Init, CInv, SentInv, WireOK, ResendInv, RequestsNotResent, Untouched,
       AcceptedSurvivesFailover

\* A step that changes none of this preserves the invariant.
LEMMA CommandsUnchanged ==
    ASSUME CInv, UNCHANGED commandVars
    PROVE  CInv'
BY DEF commandVars, CInv, SentInv, WireOK, ResendInv, RequestsNotResent,
       Untouched, AcceptedSurvivesFailover, closed

\* So does one that ends the connection, the transport's life or its being
\* started, even one that empties requestMap, if it is the end of its life.
LEMMA ConnectionEnds ==
    ASSUME CInv,
           UNCHANGED <<tracked, answered, resent, sender, wire, shutdown,
                       firstConnection>>,
           connectedTransport' \in {0, connectedTransport},
           started' => started \/ connectedTransport = 0,
           closed => closed',
           requestMap' = requestMap \/ (closed' /\ requestMap' = {})
    PROVE  CInv'
<1>1. SentInv'
    BY DEF CInv, SentInv, WireOK
<1>2. ResendInv'
    BY DEF CInv, ResendInv, RequestsNotResent, Untouched
<1>3. AcceptedSurvivesFailover'
    BY DEF CInv, AcceptedSurvivesFailover
<1> QED
    BY <1>1, <1>2, <1>3 DEF CInv

\* Starting, stopping and closing preserve the invariant.
LEMMA LifeCInv ==
    ASSUME IInv, CInv, Start \/ Stop \/ CloseStep
    PROVE  CInv'
<1>1. CASE Start
  <2>1. UNCHANGED <<connectedTransport, firstConnection, shutdown, closer,
                    requestMap, tracked, answered, sender, wire, resent>>
      BY <1>1
         DEF Start, attemptVars, closeVars, linkVars, requestVars, wireVars
  <2>2. connectedTransport = 0
      BY <1>1 DEF Start, IInv, LinkInv
  <2> QED
      BY <2>1, <2>2, ConnectionEnds DEF closed
<1>2. CASE Stop
  <2>1. UNCHANGED <<connectedTransport, firstConnection, shutdown, closer,
                    requestMap, tracked, answered, sender, wire, resent>>
      BY <1>2
         DEF Stop, attemptVars, closeVars, linkVars, requestVars, wireVars
  <2> QED
      BY <1>2, <2>1, ConnectionEnds DEF Stop, closed
<1>3. CASE Close
  <2>1. UNCHANGED <<firstConnection, shutdown, tracked, answered, sender,
                    wire, resent>>
      BY <1>3 DEF Close, attemptVars, wireVars
  <2> QED
      BY <1>3, <2>1, ConnectionEnds DEF Close, closed
<1>4. CASE ShutdownRunner
  <2>1. UNCHANGED <<connectedTransport, firstConnection, started, shutdown,
                    requestMap, tracked, answered, sender, wire, resent>>
      BY <1>4 DEF ShutdownRunner, attemptVars, linkVars, requestVars, wireVars
  <2> QED
      BY <1>4, <2>1, ConnectionEnds DEF ShutdownRunner, closed
<1>5. CASE CloseStopped
  <2>1. UNCHANGED <<connectedTransport, firstConnection, started, shutdown,
                    requestMap, tracked, answered, sender, wire, resent>>
      BY <1>5 DEF CloseStopped, attemptVars, linkVars, requestVars
  <2> QED
      BY <1>5, <2>1, ConnectionEnds DEF CloseStopped, closed
<1> QED
    BY <1>1, <1>2, <1>3, <1>4, <1>5 DEF CloseStep

\* oneway without a connection preserves the invariant.
LEMMA WaitCInv ==
    ASSUME IInv, CInv, NEW c \in Commands, Skip(c) \/ GiveUp(c) \/ Await(c)
    PROVE  CInv'
<1>1. UNCHANGED <<tracked, resent, wire, connectedTransport,
                  firstConnection, started, shutdown, closer>>
    BY DEF Skip, GiveUp, Await, onewayVars, linkVars, attemptVars, closeVars,
           requestVars, wireVars
<1>2. connectedTransport = 0 /\ requestMap' \subseteq requestMap
    BY DEF Skip, Skipped, GiveUp, Await, requestVars
<1>3. \E s \in {"waiting", "returned", "threw"} : Becomes(c, s)
    BY DEF Skip, GiveUp, Await
<1>4. SentInv'
    BY <1>1, <1>2, <1>3 DEF CInv, SentInv, WireOK, Becomes
<1>5. \A d \in Commands : d # c => sender'[d] = sender[d]
    BY <1>3 DEF CInv, SentInv, Becomes
<1>6. \A d \in Commands : Untouched(d) => Untouched(d)'
    BY <1>1, <1>2 DEF Untouched
<1>7. ResendInv'
  <2>1. sender[c] \in {"new", "waiting"}
      BY DEF Skip, GiveUp, Await, Holds
  <2> QED
      BY <1>1, <1>5, <1>6, <2>1 DEF CInv, ResendInv, RequestsNotResent
<1>8. (/\ Kind[c] \in {"request", "ack", "info"}
       /\ sender'[c] = "returned" /\ ~closed) => c \in answered'
    BY DEF Skip, Skipped, GiveUp, Await, CommandsIf, Answerable, CInv,
           SentInv, Becomes
<1>9. /\ answered \subseteq answered'
      /\ requestMap \subseteq requestMap' \cup {c}
    BY DEF Skip, GiveUp, Await, requestVars
<1>10. AcceptedSurvivesFailover'
    BY <1>1, <1>2, <1>5, <1>8, <1>9 DEF CInv, AcceptedSurvivesFailover, closed
<1> QED
    BY <1>4, <1>7, <1>10 DEF CInv

\* oneway with a connection preserves the invariant.
LEMMA SendCInv ==
    ASSUME IInv, CInv, NEW c \in Commands, Send(c)
    PROVE  CInv'
<1>1. UNCHANGED <<connectedTransport, firstConnection, started, closer,
                  answered>>
    BY DEF Send, onewayVars, linkVars, attemptVars, closeVars
<1>2. /\ tracked' = tracked \cup CommandsIf(c, Restored)
      /\ requestMap' = requestMap \cup CommandsIf(c, Mapped)
      /\ sender' = [sender EXCEPT ![c] = "returned"]
      /\ wire' = [wire EXCEPT ![connectedTransport] = @ \cup {c}]
      /\ resent' = resent \cup ({c} \cap wire[connectedTransport])
      /\ shutdown => shutdown'
      /\ sender[c] \in {"new", "waiting"}
    BY Zenon DEF Send, Becomes, Holds
<1>3. connectedTransport \in Transports /\ ~firstConnection
    BY Bounds DEF Send, IInv, LinkInv, LeakInv, NoTransportLeaks
<1>4. SentInv'
    BY <1>1, <1>2, <1>3 DEF CInv, SentInv, WireOK
<1>5. \A d \in Commands :
         sender'[d] = IF d = c THEN "returned" ELSE sender[d]
    BY <1>2 DEF CInv, SentInv
<1>6. /\ \A t \in Transports :
            wire[t] \subseteq wire'[t] /\ wire'[t] \subseteq wire[t] \cup {c}
      /\ c \in wire'[connectedTransport]
    BY <1>2, <1>3 DEF CInv, SentInv, WireOK
<1>7. ResendInv'
  <2>1. \A d \in Commands : d # c /\ Untouched(d) => Untouched(d)'
      BY <1>2, <1>6 DEF Untouched, CommandsIf
  <2>2. RequestsNotResent'
      BY <1>2, <1>3 DEF CInv, ResendInv, RequestsNotResent, Untouched
  <2> QED
      BY <1>5, <2>1, <2>2 DEF CInv, ResendInv
<1>8. Kind[c] \in {"request", "ack", "info"} => c \in requestMap' \cup tracked'
    BY <1>2 DEF CommandsIf, Mapped, Restored
<1>9. AcceptedSurvivesFailover'
    BY <1>1, <1>2, <1>3, <1>5, <1>6, <1>8
       DEF CInv, AcceptedSurvivesFailover, closed
<1> QED
    BY <1>4, <1>7, <1>9 DEF CInv

\* A write that fails preserves the invariant: what will be retried is not
\* kept, and what is kept will not be retried.
LEMMA SendFailsCInv ==
    ASSUME IInv, CInv, NEW c \in Commands, SendFails(c)
    PROVE  CInv'
<1> DEFINE retried == Kind[c] \notin Marked /\ CanReconnect
<1>1. UNCHANGED <<firstConnection, started, shutdown, closer, answered,
                  wire, resent>>
    BY DEF SendFails, SendFailsKeeping, attemptVars, closeVars, wireVars
<1>2. /\ tracked' = tracked \cup CommandsIf(c, Restored)
      /\ requestMap' = requestMap \cup (IF retried THEN {}
                                        ELSE CommandsIf(c, Mapped))
      /\ \E s \in IF retried THEN {"spinning", "threw", "waiting"}
                  ELSE {"returned"} : sender' = [sender EXCEPT ![c] = s]
      /\ sender[c] \in {"new", "waiting"}
    BY Zenon DEF SendFails, SendFailsKeeping, Becomes, Holds
<1>3. ~firstConnection
    BY DEF SendFails, SendFailsKeeping, IInv, LinkInv
<1>4. connectedTransport' = 0 \/ shutdown'
    BY <1>1 DEF SendFails, SendFailsKeeping, HandleTransportFailure,
                HandleTransportFailureWith
<1> HIDE DEF retried
<1>5. SentInv'
    BY <1>1, <1>2, <1>3 DEF CInv, SentInv, WireOK
<1>6. /\ \A d \in Commands : d # c => sender'[d] = sender[d]
      /\ sender'[c] = "returned" <=> ~retried
    BY <1>2 DEF CInv, SentInv
<1>7. ResendInv'
  <2>1. \A d \in Commands : d # c /\ Untouched(d) => Untouched(d)'
      BY <1>1, <1>2 DEF Untouched, CommandsIf
  <2>2. Untouched(c) /\ retried => Untouched(c)' \/ Kind[c] = "pull"
      BY <1>1, <1>2 DEF Untouched, CommandsIf, Restored, Marked, retried
  <2> QED
      BY <1>1, <1>2, <1>6, <2>1, <2>2 DEF CInv, ResendInv, RequestsNotResent
<1>8. (Kind[c] \in {"request", "ack", "info"} /\ ~retried)
         => c \in requestMap' \cup tracked'
    BY <1>2 DEF CommandsIf, Mapped, Restored
<1>9. AcceptedSurvivesFailover'
    BY <1>1, <1>2, <1>4, <1>6, <1>8
       DEF CInv, AcceptedSurvivesFailover, closed
<1> QED
    BY <1>5, <1>7, <1>9 DEF CInv

\* The reader threads preserve the invariant.
LEMMA ReaderCInv ==
    ASSUME IInv, CInv, NEW t \in Transports, ReaderStep(t)
    PROVE  CInv'
<1>1. CASE ReaderFails(t)
  <2>1. UNCHANGED <<firstConnection, started, shutdown, closer, requestMap,
                    tracked, answered, sender, wire, resent>>
      BY <1>1 DEF ReaderFails, attemptVars, closeVars, requestVars
  <2>2. connectedTransport' \in {0, connectedTransport}
      BY <1>1 DEF ReaderFails, HandleTransportFailure,
                  HandleTransportFailureWith, linkVars
  <2> QED
      BY <2>1, <2>2, ConnectionEnds DEF closed
<1>2. ASSUME NEW c \in Commands, Respond(t, c)
      PROVE  CInv'
  <2>1. UNCHANGED <<connectedTransport, firstConnection, started, shutdown,
                    closer, tracked, sender, wire, resent>>
      BY <1>2
         DEF Respond, onewayVars, linkVars, attemptVars, closeVars, wireVars
  <2>2. requestMap' = requestMap \ {c} /\ answered' = answered \cup {c}
      BY <1>2 DEF Respond
  <2>3. SentInv' /\ ResendInv'
      BY <2>1, <2>2 DEF CInv, SentInv, WireOK, ResendInv, RequestsNotResent,
                        Untouched
  <2>4. AcceptedSurvivesFailover'
      BY <2>1, <2>2 DEF CInv, AcceptedSurvivesFailover, closed
  <2> QED
      BY <2>3, <2>4 DEF CInv
<1>3. CASE ReceiveControl(t)
    BY <1>3, CommandsUnchanged
       DEF ReceiveControl, controlFrame, linkVars, closeVars, requestVars,
           wireVars, commandVars
<1> QED
    BY <1>1, <1>2, <1>3 DEF ReaderStep

\* Handling a ConnectionControl preserves the invariant.
LEMMA ControlCInv ==
    ASSUME CInv, ControlStep
    PROVE  CInv'
<1>1. CASE ControlReconnects
    BY <1>1, CommandsUnchanged
       DEF ControlReconnects, controlFrame, linkVars, closeVars, requestVars,
           wireVars, commandVars
<1>2. CASE ControlClears
    BY <1>2, CommandsUnchanged
       DEF ControlClears, controlFrame, linkVars, closeVars, requestVars,
           wireVars, commandVars
<1>3. CASE ControlFills
    BY <1>3, CommandsUnchanged
       DEF ControlFills, controlFrame, linkVars, closeVars, requestVars,
           wireVars, commandVars
<1>4. CASE ControlCompares
    BY <1>4, CommandsUnchanged
       DEF ControlCompares, controlFrame, linkVars, closeVars, requestVars,
           wireVars, commandVars
<1>5. CASE ControlRebalances
    BY <1>5, CommandsUnchanged
       DEF ControlRebalances, controlFrame, linkVars, closeVars, requestVars,
           wireVars, commandVars
<1> QED
    BY <1>1, <1>2, <1>3, <1>4, <1>5 DEF ControlStep

\* The task runner preserves the invariant: restoreTransport writes all that
\* is kept to the new connection.
LEMMA RunnerCInv ==
    ASSUME IInv, CInv, RunnerStep
    PROVE  CInv'
<1>1. CASE RunnerLoops
    BY <1>1, CommandsUnchanged
       DEF RunnerLoops, attemptVars, linkVars, runFrame, closeVars,
           requestVars, wireVars, commandVars
<1>2. CASE CheckTask
    BY <1>2, CommandsUnchanged
       DEF CheckTask, CheckTaskThen, attemptVars, linkVars, runFrame,
           closeVars, requestVars, wireVars, commandVars
<1>3. ASSUME NEW t \in Transports, CloseTransport(t) PROVE CInv'
    BY <1>3, CommandsUnchanged
       DEF CloseTransport, attemptVars, linkVars, runFrame, closeVars,
           requestVars, commandVars
<1>4. CASE IterateReturns
    BY <1>4, CommandsUnchanged
       DEF IterateReturns, iterateFrame, runFrame, closeVars, requestVars,
           wireVars, linkVars, commandVars
<1>5. CASE IterateThrows
    BY <1>5, CommandsUnchanged
       DEF IterateThrows, iterateFrame, runFrame, closeVars, requestVars,
           wireVars, linkVars, commandVars
<1>6. CASE IterateKeeps
    BY <1>6, CommandsUnchanged
       DEF IterateKeeps, iterateFrame, runFrame, closeVars, requestVars,
           wireVars, linkVars, commandVars
<1>7. CASE IterateConnects
  <2>1. UNCHANGED <<firstConnection, started, shutdown, closer, requestMap,
                    tracked, answered, sender, wire, resent>>
      BY <1>7
         DEF IterateConnects, IterateBegins, iterateFrame, runFrame,
             closeVars, requestVars, wireVars
  <2>2. connectedTransport' \in {0, connectedTransport}
      BY <1>7 DEF IterateConnects, IterateBegins, linkVars
  <2> QED
      BY <2>1, <2>2, ConnectionEnds DEF closed
<1>8. ASSUME NEW uri \in URIs, CreateFails(uri) PROVE CInv'
    BY <1>8, CommandsUnchanged
       DEF CreateFails, attemptFrame, runFrame, closeVars, requestVars,
           linkVars, commandVars
<1>9. CASE Exhausted
    BY <1>9, CommandsUnchanged
       DEF Exhausted, ExhaustedWithin, attemptFrame, runFrame, closeVars,
           requestVars, linkVars, commandVars
<1>10. ASSUME created + 1 \in Transports,
              \E written \in {{}, Replay} :
                wire' = [wire EXCEPT ![created + 1] = written],
              UNCHANGED <<requestMap, tracked, sender, resent>>,
              firstConnection' => firstConnection
       PROVE  SentInv' /\ ResendInv'
  <2>1. SentInv'
      BY <1>10 DEF CInv, SentInv, WireOK
  <2>2. \A d \in Commands : Untouched(d) => Untouched(d)'
      BY <1>10 DEF CInv, SentInv, WireOK, Untouched, Replay
  <2> QED
      BY <1>10, <2>1, <2>2 DEF CInv, ResendInv, RequestsNotResent
<1>11. ASSUME NEW uri \in URIs, Connect(uri)
       PROVE  CInv'
  <2>1. UNCHANGED <<started, shutdown, closer, requestMap, tracked,
                    answered, sender, resent>>
      BY <1>11
         DEF Connect, ConnectReturning, attemptFrame, runFrame, closeVars,
             requestVars
  <2>2. /\ wire' = [wire EXCEPT ![created + 1] = Replay]
        /\ connectedTransport' = created + 1
        /\ ~firstConnection'
        /\ created + 1 \in Transports
      BY <1>11, Bounds DEF Connect, ConnectReturning, IInv, LinkInv
  <2>3. wire'[created + 1] = Replay
      BY <2>2 DEF CInv, SentInv, WireOK
  <2>4. \A d \in requestMap \cup tracked : started => d \in Replay
      BY DEF CInv, SentInv, Replay
  <2>5. AcceptedSurvivesFailover'
      BY <2>1, <2>2, <2>3, <2>4 DEF CInv, AcceptedSurvivesFailover, closed
  <2> QED
      BY <1>10, <2>1, <2>2, <2>5 DEF CInv
<1>12. ASSUME NEW uri \in URIs, ConnectFails(uri)
       PROVE  CInv'
  <2>1. UNCHANGED <<connectedTransport, firstConnection, started, shutdown,
                    closer, requestMap, tracked, answered, sender, resent>>
      BY <1>12
         DEF ConnectFails, ConnectFailsClosing, attemptFrame, runFrame,
             closeVars, requestVars
  <2>2. \E written \in {{}, Replay} :
           wire' = [wire EXCEPT ![created + 1] = written]
      BY <1>12, Zenon DEF ConnectFails, ConnectFailsClosing
  <2>3. created + 1 \in Transports /\ connectedTransport = 0
      BY <1>12, Bounds DEF ConnectFails, ConnectFailsClosing, IInv, LinkInv
  <2>4. AcceptedSurvivesFailover'
      BY <2>1, <2>3 DEF CInv, AcceptedSurvivesFailover, closed
  <2> QED
      BY <1>10, <2>1, <2>2, <2>3, <2>4, Zenon DEF CInv
<1> QED
    BY <1>1, <1>2, <1>3, <1>4, <1>5, <1>6, <1>7, <1>8, <1>9, <1>11, <1>12
       DEF RunnerStep, IterateStep

\* Every step preserves the invariant.
LEMMA NextCInv == IInv /\ CInv /\ [Next]_vars => CInv'
<1> SUFFICES ASSUME IInv, CInv, [Next]_vars PROVE CInv'
    OBVIOUS
<1>1. CASE UNCHANGED vars
    BY <1>1, CommandsUnchanged
       DEF vars, commandVars, linkVars, attemptVars, closeVars, requestVars,
           wireVars
<1> QED
    BY <1>1, LifeCInv, WaitCInv, SendCInv, SendFailsCInv, ReaderCInv,
       ControlCInv, RunnerCInv
       DEF Next, SenderStep

\* The invariant holds in every reachable state.
THEOREM CommandInvariant == Spec => []CInv
BY InitCInv, NextCInv, Invariant, PTL DEF Spec

\* A request or info that oneway accepted is answered, or kept for the next
\* reconnection and written to the connection that is up, whatever fails.
THEOREM NothingAcceptedIsLost == Spec => []AcceptedSurvivesFailover
<1>1. CInv => AcceptedSurvivesFailover
    BY DEF CInv
<1> QED
    BY <1>1, CommandInvariant, PTL

\* oneway and restoreTransport never write one request twice to a transport.
THEOREM NothingSentTwice == Spec => []RequestsNotResent
<1>1. CInv => RequestsNotResent
    BY DEF CInv, ResendInv
<1> QED
    BY <1>1, CommandInvariant, PTL
=============================================================================
