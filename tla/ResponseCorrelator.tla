------------------------- MODULE ResponseCorrelator -------------------------
(***************************************************************************)
(* activemq::transport::correlator::ResponseCorrelator, the TransportFilter *)
(* that matches responses to requests, with the parts of TransportFilter   *)
(* and FutureResponse it is built from.                                    *)
(*                                                                         *)
(* Threads: any number of callers inside oneway / asyncRequest / request;  *)
(* the reader thread of the wrapped transport, which delivers responses    *)
(* and exceptions; one thread that closes the stack.  mapMutex is a        *)
(* variable because one access to requestMap is made without it.           *)
(*                                                                         *)
(* A future is named by the command id it was created for.  Response       *)
(* contents and error texts are left out; a future only remembers whether  *)
(* it was completed by a response or by an error.                          *)
(***************************************************************************)
EXTENDS Naturals

CONSTANTS
    \* Threads that send commands.
    Callers,
    \* The reading thread of the wrapped transport and the closing thread.
    Reader, Closer,
    \* mapMutex is free.
    Nobody,
    \* Bound on the command ids handed out.
    MaxCommandId

Disposers == {Reader, Closer}
Threads == Callers \cup Disposers

ASSUME CorrelatorAssumption ==
    /\ MaxCommandId \in Nat \ {0}
    /\ Reader # Closer
    /\ Reader \notin Callers
    /\ Closer \notin Callers
    /\ Nobody \notin Threads

Ids == 1..MaxCommandId

\* A future that does not exist yet, waits, or holds a response or an error.
FutureStates == {"unused", "pending", "answered", "failed"}

\* oneway, asyncRequest, request and request with a timeout.
Kinds == {"oneway", "async", "request", "timed"}

VARIABLES
    \* TransportFilter: started and closed.
    started, closed,
    \* CorrelatorData.
    nextCommandId, requestMap, mapMutex, priorError,
    \* FutureResponse of each command id.
    future,
    \* Requests the peer has received: the ids it may send responses for.
    received,
    \* Where each thread is, and the command and kind of each caller's call.
    pc, command, kind,
    \* The response the reader is delivering.
    response,
    \* The local list of futures of each thread inside dispose.
    requests,
    \* The filter's own listener has been told of an exception.
    listenerTold

filterVars == <<started, closed>>
mapVars == <<nextCommandId, requestMap, mapMutex, priorError>>
callVars == <<command, kind>>
readerVars == <<response, listenerTold>>
vars == <<filterVars, mapVars, future, received, pc, callVars, requests,
          readerVars>>

CallerPC == {"idle", "register", "registering", "reject", "send", "remove",
             "await", "finalize", "finalizing"}
ReaderPC == {"idle", "correlate", "correlating", "callback", "dispose",
             "disposing", "notify", "forward"}
CloserPC == {"idle", "stopped", "nextClose", "dispose", "disposing", "notify",
             "done"}

Init ==
    /\ started = FALSE
    /\ closed = FALSE
    /\ nextCommandId = 1
    /\ requestMap = {}
    /\ mapMutex = Nobody
    /\ priorError = FALSE
    /\ future = [i \in Ids |-> "unused"]
    /\ received = {}
    /\ pc = [t \in Threads |-> "idle"]
    /\ command = [t \in Callers |-> 0]
    /\ kind = [t \in Callers |-> "oneway"]
    /\ response = 0
    /\ requests = [d \in Disposers |-> {}]
    /\ listenerTold = FALSE

Goto(t, where) == pc' = [pc EXCEPT ![t] = where]

\* Caller t moves on inside its call, or returns from it and forgets its locals.
Continue(t, where) == Goto(t, where) /\ UNCHANGED callVars
Return(t) ==
    /\ Goto(t, "idle")
    /\ command' = [command EXCEPT ![t] = 0]
    /\ kind' = [kind EXCEPT ![t] = "oneway"]

\* synchronized(&mapMutex): thread t moves from one place to the next once the
\* mutex is free.
Lock(t, from, to) ==
    /\ pc[t] = from
    /\ mapMutex = Nobody
    /\ mapMutex' = t
    /\ Goto(t, to)
    /\ UNCHANGED <<filterVars, callVars, readerVars, nextCommandId,
                   requestMap, priorError, future, received, requests>>

-----------------------------------------------------------------------------
(* TransportFilter.                                                        *)

\* start(): a closed filter ignores it.  The connection starts its transport
\* once, before it uses it.
Start ==
    /\ pc[Closer] = "idle"
    /\ ~closed
    /\ ~started
    /\ started' = TRUE
    /\ UNCHANGED <<mapVars, callVars, readerVars, closed, future, received,
                   pc, requests>>

\* close(): a closed filter ignores it; otherwise it first calls stop().
Close ==
    /\ pc[Closer] = "idle"
    /\ ~closed
    /\ started' = FALSE
    /\ Goto(Closer, "stopped")
    /\ UNCHANGED <<mapVars, callVars, readerVars, closed, future, received,
                   requests>>

InUse == started \/ pc[Closer] # "idle"

\* close(): closed is set and the wrapped transport loses its listener.
MarkClosed ==
    /\ pc[Closer] = "stopped"
    /\ closed' = TRUE
    /\ Goto(Closer, "nextClose")
    /\ UNCHANGED <<mapVars, callVars, readerVars, started, future, received,
                   requests>>

\* The wrapped transport has been closed.
NextClosed == pc[Closer] \in {"dispose", "disposing", "notify", "done"}

\* close() after the wrapped transport is closed goes on to the given place.
CloseNextTo(place) ==
    /\ pc[Closer] = "nextClose"
    /\ Goto(Closer, place)
    /\ UNCHANGED <<filterVars, mapVars, callVars, readerVars, future,
                   received, requests>>

\* Mutant: doClose() does not dispose.
CloseNextWithoutDispose == CloseNextTo("done")

\* close(): the wrapped transport is closed, then doClose() disposes.
CloseNext == CloseNextTo("dispose")

-----------------------------------------------------------------------------
(* The calling threads.                                                    *)

\* The head of oneway, asyncRequest and request: checkClosed() passes, the
\* command gets its id (getAndIncrement) and, for a request, a future.
Begin(t, k) ==
    /\ pc[t] = "idle"
    /\ InUse
    /\ ~closed
    /\ nextCommandId <= MaxCommandId
    /\ nextCommandId' = nextCommandId + 1
    /\ command' = [command EXCEPT ![t] = nextCommandId]
    /\ kind' = [kind EXCEPT ![t] = k]
    /\ IF k = "oneway"
       THEN Goto(t, "send") /\ UNCHANGED future
       ELSE /\ Goto(t, "register")
            /\ future' = [future EXCEPT ![nextCommandId] = "pending"]
    /\ UNCHANGED <<filterVars, readerVars, requestMap, mapMutex, priorError,
                   received, requests>>

\* Under the mutex: see that the transport failed, or else enter the future in
\* the map.
RegisterUnless(t, failed) ==
    /\ pc[t] = "registering"
    /\ mapMutex' = Nobody
    /\ IF failed
       THEN /\ IF kind[t] = "async" THEN Continue(t, "reject") ELSE Return(t)
            /\ UNCHANGED requestMap
       ELSE /\ requestMap' = requestMap \cup {command[t]}
            /\ Continue(t, "send")
    /\ UNCHANGED <<filterVars, readerVars, nextCommandId, priorError, future,
                   received, requests>>

\* Mutant: priorError is not looked at before the put.
RegisterIgnoresError(t) == RegisterUnless(t, FALSE)

\* The synchronized block of asyncRequest and request.
Register(t) == RegisterUnless(t, priorError)

\* asyncRequest on a failed transport completes the future, then throws.
Reject(t) ==
    /\ pc[t] = "reject"
    /\ future' = [future EXCEPT ![command[t]] = "failed"]
    /\ Return(t)
    /\ UNCHANGED <<filterVars, mapVars, readerVars, received, requests>>

\* The wrapped transport may lose a command it accepted, and may deliver one
\* it reports as failed; a closed one delivers nothing.
MayReceive(t, reached) ==
    /\ reached => kind[t] # "oneway" /\ ~NextClosed
    /\ received' = IF reached THEN received \cup {command[t]} ELSE received

\* next->oneway(command) returns.
SendReturns(t) ==
    /\ pc[t] = "send"
    /\ \E reached \in BOOLEAN : MayReceive(t, reached)
    /\ IF kind[t] \in {"oneway", "async"} THEN Return(t) ELSE Continue(t, "await")
    /\ UNCHANGED <<filterVars, mapVars, readerVars, future, requests>>

\* next->oneway(command) throws.
SendThrows(t) ==
    /\ pc[t] = "send"
    /\ \E reached \in BOOLEAN : MayReceive(t, reached)
    /\ CASE kind[t] = "oneway" -> Return(t)
         [] kind[t] = "async"  -> Continue(t, "remove")
         [] OTHER              -> Continue(t, "finalize")
    /\ UNCHANGED <<filterVars, mapVars, readerVars, future, requests>>

\* asyncRequest takes its entry out without mapMutex.  While another thread is
\* inside the map the removal is a data race and may be lost.
AsyncRemove(t) ==
    /\ pc[t] = "remove"
    /\ \/ requestMap' = requestMap \ {command[t]}
       \/ mapMutex # Nobody /\ UNCHANGED requestMap
    /\ Return(t)
    /\ UNCHANGED <<filterVars, readerVars, nextCommandId, mapMutex,
                   priorError, future, received, requests>>

\* getResponse(): the latch opens.
AwaitDone(t) ==
    /\ pc[t] = "await"
    /\ future[command[t]] # "pending"
    /\ Goto(t, "finalize")
    /\ UNCHANGED <<filterVars, mapVars, callVars, readerVars, future,
                   received, requests>>

\* getResponse(timeout): the wait ends with no response.
TimeOut(t) ==
    /\ pc[t] = "await"
    /\ kind[t] = "timed"
    /\ future[command[t]] = "pending"
    /\ Goto(t, "finalize")
    /\ UNCHANGED <<filterVars, mapVars, callVars, readerVars, future,
                   received, requests>>

\* ~ResponseFinalizer: the entry leaves the map on every way out of request.
Finalize(t) ==
    /\ pc[t] = "finalizing"
    /\ requestMap' = requestMap \ {command[t]}
    /\ mapMutex' = Nobody
    /\ Return(t)
    /\ UNCHANGED <<filterVars, readerVars, nextCommandId, priorError, future,
                   received, requests>>

CallerStep(t) ==
    \/ Lock(t, "register", "registering")
    \/ Register(t)
    \/ Reject(t)
    \/ SendReturns(t)
    \/ SendThrows(t)
    \/ AsyncRemove(t)
    \/ AwaitDone(t)
    \/ TimeOut(t)
    \/ Lock(t, "finalize", "finalizing")
    \/ Finalize(t)

-----------------------------------------------------------------------------
(* The reader thread.                                                      *)

\* The wrapped transport reads a response; a reconnecting one replays
\* requests, so the peer may answer one more than once.
FireResponse(i) ==
    /\ pc[Reader] = "idle"
    /\ ~closed
    /\ i \in received
    /\ response' = i
    /\ Goto(Reader, "correlate")
    /\ UNCHANGED <<filterVars, mapVars, callVars, future, received, requests,
                   listenerTold>>

\* onCommand(): take the future out of the map and set its response; an
\* unknown correlation id is ignored.
Correlate ==
    /\ pc[Reader] = "correlating"
    /\ IF response \in requestMap
       THEN /\ requestMap' = requestMap \ {response}
            /\ future' = [future EXCEPT ![response] = "answered"]
            /\ Goto(Reader, "callback")
            /\ UNCHANGED mapMutex
       ELSE /\ mapMutex' = Nobody
            /\ Goto(Reader, "idle")
            /\ UNCHANGED <<requestMap, future>>
    /\ response' = 0
    /\ UNCHANGED <<filterVars, callVars, nextCommandId, priorError, received,
                   requests, listenerTold>>

\* The ResponseCallback, if any, runs and returns before the mutex is freed.
CallbackDone ==
    /\ pc[Reader] = "callback"
    /\ mapMutex' = Nobody
    /\ Goto(Reader, "idle")
    /\ UNCHANGED <<filterVars, callVars, readerVars, nextCommandId,
                   requestMap, priorError, future, received, requests>>

\* The wrapped transport reports an exception to its listener.
FireExceptionTelling(told) ==
    /\ pc[Reader] = "idle"
    /\ InUse
    /\ ~closed
    /\ listenerTold' = (listenerTold \/ told)
    /\ Goto(Reader, "dispose")
    /\ UNCHANGED <<filterVars, mapVars, callVars, future, received, response,
                   requests>>

\* Mutant: onException() calls the filter's listener before dispose().
FireExceptionTellsFirst == FireExceptionTelling(started)

\* onException() disposes before it does anything else.
FireException == FireExceptionTelling(FALSE)

\* dispose() under the mutex, on its first error: the futures copied, what is
\* left of the map, and the error recorded.
DisposeWith(d, copied, left, error) ==
    /\ pc[d] = "disposing"
    /\ IF priorError
       THEN UNCHANGED <<priorError, requests, requestMap>>
       ELSE /\ priorError' = error
            /\ requests' = [requests EXCEPT ![d] = copied]
            /\ requestMap' = left
    /\ mapMutex' = Nobody
    /\ Goto(d, "notify")
    /\ UNCHANGED <<filterVars, callVars, readerVars, nextCommandId, future,
                   received>>

\* Mutants: the map is cleared but not copied; copied but not cleared; the
\* error is not recorded.
DisposeDropsRequests(d) == DisposeWith(d, {}, {}, TRUE)
DisposeKeepsMap(d) == DisposeWith(d, requestMap, requestMap, TRUE)
DisposeForgetsError(d) == DisposeWith(d, requestMap, {}, FALSE)

\* dispose() under the mutex: the first error empties the map.
Dispose(d) == DisposeWith(d, requestMap, {}, TRUE)

\* dispose() after the mutex: each future taken from the map gets the error.
NotifyError(d, i) ==
    /\ pc[d] = "notify"
    /\ i \in requests[d]
    /\ future' = [future EXCEPT ![i] = "failed"]
    /\ requests' = [requests EXCEPT ![d] = @ \ {i}]
    /\ UNCHANGED <<filterVars, mapVars, callVars, readerVars, received, pc>>

\* dispose() returns to onException() or to close().
DisposeReturnsTo(d, where) ==
    /\ pc[d] = "notify"
    /\ requests[d] = {}
    /\ Goto(d, where)
    /\ UNCHANGED <<filterVars, mapVars, callVars, readerVars, future,
                   received, requests>>

\* Mutant: close() goes on to tell the listener as well.
DisposeReturnsForwarding(d) == DisposeReturnsTo(d, "forward")

DisposeReturns(d) == DisposeReturnsTo(d, IF d = Reader THEN "forward" ELSE "done")

\* onException(): TransportFilter::onException passes the exception on unless
\* the filter is stopped or closed.
Forward ==
    /\ pc[Reader] = "forward"
    /\ listenerTold' = (listenerTold \/ (started /\ ~closed))
    /\ Goto(Reader, "idle")
    /\ UNCHANGED <<filterVars, mapVars, callVars, future, received, response,
                   requests>>

DisposeStep(d) ==
    \/ Lock(d, "dispose", "disposing")
    \/ Dispose(d)
    \/ \E i \in Ids : NotifyError(d, i)
    \/ DisposeReturns(d)

ReaderStep ==
    \/ Lock(Reader, "correlate", "correlating")
    \/ Correlate
    \/ CallbackDone
    \/ DisposeStep(Reader)
    \/ Forward

CloserStep == MarkClosed \/ CloseNext \/ DisposeStep(Closer)

-----------------------------------------------------------------------------
Next ==
    \/ Start
    \/ Close
    \/ \E t \in Callers, k \in Kinds : Begin(t, k)
    \/ \E t \in Callers : CallerStep(t)
    \/ \E i \in Ids : FireResponse(i)
    \/ FireException
    \/ ReaderStep
    \/ CloserStep

Spec == Init /\ [][Next]_vars

\* Threads keep running: a call in progress goes on, and so do the delivery and
\* the close that have begun.  Nobody is obliged to call, answer, fail or close.
Fairness ==
    /\ \A t \in Callers : WF_vars(CallerStep(t))
    /\ WF_vars(ReaderStep)
    /\ WF_vars(CloserStep)

FairSpec == Spec /\ Fairness

-----------------------------------------------------------------------------
TypeOK ==
    /\ started \in BOOLEAN
    /\ closed \in BOOLEAN
    /\ nextCommandId \in 1..(MaxCommandId + 1)
    /\ requestMap \in SUBSET Ids
    /\ mapMutex \in Threads \cup {Nobody}
    /\ priorError \in BOOLEAN
    /\ future \in [Ids -> FutureStates]
    /\ received \in SUBSET Ids
    /\ pc \in [Threads -> CallerPC \cup ReaderPC \cup CloserPC]
    /\ \A t \in Callers : pc[t] \in CallerPC
    /\ pc[Reader] \in ReaderPC
    /\ pc[Closer] \in CloserPC
    /\ command \in [Callers -> 0..MaxCommandId]
    /\ kind \in [Callers -> Kinds]
    /\ response \in 0..MaxCommandId
    /\ requests \in [Disposers -> SUBSET Ids]
    /\ listenerTold \in BOOLEAN

\* A request whose caller is waiting for the latch, and that nobody has
\* completed, is still known to somebody who will complete it: it is in
\* requestMap, or on the list of a thread inside dispose().  Registration in
\* request(), removal in onCommand(), the copy-and-clear in dispose() and the
\* finalizer all touch this.
NoLostRequest ==
    \A t \in Callers :
        pc[t] = "await" /\ future[command[t]] = "pending"
            => \/ command[t] \in requestMap
               \/ \E d \in Disposers : command[t] \in requests[d]

\* Once dispose() has recorded an error nothing is left in requestMap and no
\* later call can put anything there: a request entered after that would never
\* be completed.
NothingRegisteredAfterError == priorError => requestMap = {}

\* When the filter's listener hears of an exception, every request that had
\* been entered in the map has already been completed with the error: what is
\* still pending belongs to a call that gave up, or that has yet to look at
\* priorError.
FailedBeforeListenerTold ==
    listenerTold => requestMap = {} /\ \A d \in Disposers : requests[d] = {}

\* FutureResponse::setResponse() is called at most once per future: an answer
\* is never overwritten by an error, nor an error by a late answer.
CompletedOnce ==
    [][\A i \in Ids : future[i] \in {"answered", "failed"} => future'[i] = future[i]]_vars

\* The futures behave as RequestReply promises.
Reply == INSTANCE RequestReply
             WITH Requests <- Ids, status <- future, down <- priorError
ImplementsRequestReply == Reply!RRSpec

\* Closing the stack releases every caller, wherever it was: nobody waits for
\* ever on a response that can no longer come.
CloseReleasesCallers == closed ~> \A t \in Callers : pc[t] = "idle"
=============================================================================
