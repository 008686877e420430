----------------------- MODULE ResponseCorrelatorProofs -----------------------
(***************************************************************************)
(* Proofs about ResponseCorrelator, for any set of callers and any bound   *)
(* on the command ids.                                                     *)
(*                                                                         *)
(* NoLostRequest is not inductive: it speaks of waiting callers only, and  *)
(* says nothing of what the map and the lists of dispose() hold.  IInv     *)
(* adds that the ids of the calls in progress are distinct, that what is   *)
(* in the map or on a list is pending, and in which order priorError,      *)
(* closed and the places inside dispose() become true.                     *)
(***************************************************************************)
EXTENDS ResponseCorrelator, TLAPS

\* The places inside synchronized(&mapMutex).
Inside == {"registering", "finalizing", "correlating", "callback", "disposing"}

\* Places of a request's call before its future is entered in the map.
Before == {"register", "registering", "reject"}

Known(i) == i \in requestMap \/ \E d \in Disposers : i \in requests[d]

\* Only the holder of mapMutex is inside a synchronized block.
MutexInv == \A t \in Threads : pc[t] \in Inside => mapMutex = t

\* Ids are handed out once: calls in progress have different ids, and an id that
\* has not been handed out is nowhere.
IdInv ==
    /\ \A t \in Callers : pc[t] # "idle" => command[t] \in Ids /\ command[t] < nextCommandId
    /\ \A t, u \in Callers :
          t # u /\ pc[t] # "idle" /\ pc[u] # "idle" => command[t] # command[u]
    /\ \A i \in Ids : i >= nextCommandId => future[i] = "unused" /\ ~Known(i)
    /\ received \subseteq {i \in Ids : i < nextCommandId}

\* What is in the map or on a list is pending, and is in one place only.
KnownInv ==
    /\ \A i \in Ids : Known(i) => future[i] = "pending"
    /\ \A d \in Disposers :
          requests[d] # {} => /\ pc[d] = "notify"
                              /\ priorError
                              /\ \A e \in Disposers : e # d => requests[e] = {}
    /\ requests[Closer] # {} => closed

\* A request that is not entered yet is pending and unknown; one that is
\* entered and pending is known.
CallInv ==
    \A t \in Callers :
        /\ pc[t] \in Before =>
              /\ kind[t] # "oneway"
              /\ future[command[t]] = "pending"
              /\ ~Known(command[t])
        /\ pc[t] = "reject" => priorError
        /\ pc[t] \in {"remove", "await", "finalize", "finalizing"} => kind[t] # "oneway"
        /\ pc[t] \in {"send", "await"} /\ kind[t] # "oneway" /\ future[command[t]] = "pending"
              => Known(command[t])

\* The order of events in dispose(), onException() and close().
OrderInv ==
    /\ priorError => requestMap = {}
    /\ \A d \in Disposers : pc[d] = "notify" => priorError
    /\ pc[Reader] = "forward" => priorError
    /\ pc[Closer] \in {"nextClose", "dispose", "disposing", "notify", "done"} => closed
    /\ listenerTold => priorError /\ \A d \in Disposers : requests[d] = {}
    /\ pc[Reader] = "correlating" => response \in Ids
    /\ pc[Reader] = "correlate" => response \in Ids

IInv == TypeOK /\ MutexInv /\ IdInv /\ KnownInv /\ CallInv /\ OrderInv

-----------------------------------------------------------------------------
\* The constructor establishes the inductive invariant.
LEMMA InitIInv == Init => IInv
<1> SUFFICES ASSUME Init PROVE IInv  OBVIOUS
<1> USE CorrelatorAssumption DEF Init, Threads, Disposers, Ids
<1>1. TypeOK
  <2>1. pc \in [Threads -> CallerPC \cup ReaderPC \cup CloserPC]  BY DEF CallerPC
  <2>2. \A t \in Callers : pc[t] \in CallerPC  BY DEF CallerPC
  <2>3. pc[Reader] \in ReaderPC /\ pc[Closer] \in CloserPC  BY DEF ReaderPC, CloserPC
  <2>4. kind \in [Callers -> Kinds]  BY DEF Kinds
  <2>5. future \in [Ids -> FutureStates]  BY DEF FutureStates
  <2>6. command \in [Callers -> 0..MaxCommandId]  OBVIOUS
  <2>7. requests \in [Disposers -> SUBSET Ids]  OBVIOUS
  <2>8. nextCommandId \in 1..(MaxCommandId + 1) /\ response \in 0..MaxCommandId  OBVIOUS
  <2> HIDE DEF Ids, Threads, Disposers
  <2> QED  BY <2>1, <2>2, <2>3, <2>4, <2>5, <2>6, <2>7, <2>8, ZenonT(20) DEF TypeOK
<1>2. MutexInv  BY DEF MutexInv, Inside
<1>3. IdInv  BY DEF IdInv, Known
<1>4. KnownInv  BY DEF KnownInv, Known
<1>5. CallInv  BY DEF CallInv, Before
<1>6. OrderInv  BY DEF OrderInv
<1> QED  BY <1>1, <1>2, <1>3, <1>4, <1>5, <1>6 DEF IInv

\* Where threads are and what calls are in progress is of the right type.
PlacesOK ==
    /\ pc \in [Threads -> CallerPC \cup ReaderPC \cup CloserPC]
    /\ \A t \in Callers : pc[t] \in CallerPC
    /\ pc[Reader] \in ReaderPC
    /\ pc[Closer] \in CloserPC
    /\ command \in [Callers -> 0..MaxCommandId]
    /\ kind \in [Callers -> Kinds]

\* A caller that moves on or returns keeps the types of the places.
LEMMA ContinueTyped ==
  ASSUME TypeOK, NEW t \in Callers, NEW place \in CallerPC, Continue(t, place)
  PROVE  PlacesOK'
BY CorrelatorAssumption DEF PlacesOK, TypeOK, Continue, Goto, callVars, Threads, Disposers

\* A caller that returns is idle again.
LEMMA ReturnTyped ==
  ASSUME TypeOK, NEW t \in Callers, Return(t)
  PROVE  PlacesOK'
<1> USE CorrelatorAssumption DEF TypeOK, Return, Goto, Threads, Disposers
<1>1. pc' \in [Threads -> CallerPC \cup ReaderPC \cup CloserPC]  BY DEF CallerPC
<1>2. \A u \in Callers : pc'[u] \in CallerPC  BY DEF CallerPC
<1>3. pc'[Reader] \in ReaderPC /\ pc'[Closer] \in CloserPC  OBVIOUS
<1>4. command' \in [Callers -> 0..MaxCommandId]  OBVIOUS
<1>5. kind' \in [Callers -> Kinds]  BY DEF Kinds
<1> QED  BY <1>1, <1>2, <1>3, <1>4, <1>5 DEF PlacesOK

\* start().
LEMMA StartStep ==
  ASSUME IInv, Start
  PROVE  IInv'
<1> USE CorrelatorAssumption DEF IInv, Threads, Disposers, Ids, filterVars, mapVars,
      callVars, readerVars, Goto, Start
<1>1. TypeOK'
  BY DEF TypeOK, CallerPC, ReaderPC, CloserPC, Kinds
<1>2. MutexInv'
  BY DEF MutexInv, TypeOK, Inside
<1>3. IdInv'
  BY DEF IdInv, KnownInv, Known, TypeOK
<1>4. KnownInv'
  BY DEF KnownInv, Known, CallInv, OrderInv, IdInv, TypeOK, MutexInv, Inside, Before
<1>5. CallInv'
  BY DEF CallInv, Known, KnownInv, IdInv, OrderInv, TypeOK, Before, MutexInv, Inside
<1>6. OrderInv'
  BY DEF OrderInv, KnownInv, Known, TypeOK, IdInv, MutexInv, Inside
<1> QED  BY <1>1, <1>2, <1>3, <1>4, <1>5, <1>6

\* close() calls stop().
LEMMA CloseStep ==
  ASSUME IInv, Close
  PROVE  IInv'
<1> USE CorrelatorAssumption DEF IInv, Threads, Disposers, Ids, filterVars, mapVars,
      callVars, readerVars, Goto, Close
<1>1. TypeOK'
  BY ZenonT(20) DEF TypeOK, CloserPC
<1>2. MutexInv'
  BY DEF MutexInv, TypeOK, Inside
<1>3. IdInv'
  BY DEF IdInv, KnownInv, Known, TypeOK
<1>4. KnownInv'
  BY DEF KnownInv, Known, CallInv, OrderInv, IdInv, TypeOK, MutexInv, Inside, Before
<1>5. CallInv'
  BY DEF CallInv, Known, KnownInv, IdInv, OrderInv, TypeOK, Before, MutexInv, Inside
<1>6. OrderInv'
  BY DEF OrderInv, KnownInv, Known, TypeOK, IdInv, MutexInv, Inside
<1> QED  BY <1>1, <1>2, <1>3, <1>4, <1>5, <1>6

\* close() sets closed.
LEMMA MarkClosedStep ==
  ASSUME IInv, MarkClosed
  PROVE  IInv'
<1> USE CorrelatorAssumption DEF IInv, Threads, Disposers, Ids, filterVars, mapVars,
      callVars, readerVars, Goto, MarkClosed
<1>1. TypeOK'
  BY DEF TypeOK, CallerPC, ReaderPC, CloserPC, Kinds
<1>2. MutexInv'
  BY DEF MutexInv, TypeOK, Inside
<1>3. IdInv'
  BY DEF IdInv, KnownInv, Known, TypeOK
<1>4. KnownInv'
  BY DEF KnownInv, Known, CallInv, OrderInv, IdInv, TypeOK, MutexInv, Inside, Before
<1>5. CallInv'
  BY DEF CallInv, Known, KnownInv, IdInv, OrderInv, TypeOK, Before, MutexInv, Inside
<1>6. OrderInv'
  BY DEF OrderInv, KnownInv, Known, TypeOK, IdInv, MutexInv, Inside
<1> QED  BY <1>1, <1>2, <1>3, <1>4, <1>5, <1>6

\* close() closes the wrapped transport.
LEMMA CloseNextStep ==
  ASSUME IInv, CloseNext
  PROVE  IInv'
<1> USE CorrelatorAssumption DEF IInv, Threads, Disposers, Ids, filterVars, mapVars,
      callVars, readerVars, Goto, CloseNext, CloseNextTo
<1>1. TypeOK'
  BY DEF TypeOK, CallerPC, ReaderPC, CloserPC, Kinds
<1>2. MutexInv'
  BY DEF MutexInv, TypeOK, Inside
<1>3. IdInv'
  BY DEF IdInv, KnownInv, Known, TypeOK
<1>4. KnownInv'
  BY DEF KnownInv, Known, CallInv, OrderInv, IdInv, TypeOK, MutexInv, Inside, Before
<1>5. CallInv'
  BY DEF CallInv, Known, KnownInv, IdInv, OrderInv, TypeOK, Before, MutexInv, Inside
<1>6. OrderInv'
  BY DEF OrderInv, KnownInv, Known, TypeOK, IdInv, MutexInv, Inside
<1> QED  BY <1>1, <1>2, <1>3, <1>4, <1>5, <1>6

\* A call begins.
LEMMA BeginStep ==
  ASSUME IInv, NEW t \in Callers, NEW k \in Kinds, Begin(t, k)
  PROVE  IInv'
<1> USE CorrelatorAssumption DEF IInv, Threads, Disposers, Ids, filterVars, mapVars,
      callVars, readerVars, Goto, Begin, InUse
<1>1. TypeOK'
  <2>1. pc' \in [Threads -> CallerPC \cup ReaderPC \cup CloserPC]
    BY ZenonT(20) DEF TypeOK, CallerPC
  <2>2. \A u \in Callers : pc'[u] \in CallerPC
    BY DEF TypeOK, CallerPC
  <2>3. pc'[Reader] \in ReaderPC /\ pc'[Closer] \in CloserPC
    BY DEF TypeOK, ReaderPC, CloserPC
  <2>4. command' \in [Callers -> 0..MaxCommandId] /\ kind' \in [Callers -> Kinds]
    BY DEF TypeOK, Kinds
  <2>5. future' \in [Ids -> FutureStates]
    BY DEF TypeOK, FutureStates
  <2> QED  BY <2>1, <2>2, <2>3, <2>4, <2>5 DEF TypeOK
<1>2. MutexInv'
  BY DEF MutexInv, TypeOK, Inside
<1>3. IdInv'
  BY DEF IdInv, KnownInv, Known, TypeOK
<1>4. KnownInv'
  BY DEF KnownInv, Known, CallInv, OrderInv, IdInv, TypeOK, MutexInv, Inside, Before
<1>5. CallInv'
  BY DEF CallInv, Known, KnownInv, IdInv, OrderInv, TypeOK, Before, MutexInv, Inside
<1>6. OrderInv'
  BY DEF OrderInv, KnownInv, Known, TypeOK, IdInv, MutexInv, Inside
<1> QED  BY <1>1, <1>2, <1>3, <1>4, <1>5, <1>6

\* The future is entered in the map.
LEMMA RegisterStep ==
  ASSUME IInv, NEW t \in Callers, Register(t)
  PROVE  IInv'
<1> USE CorrelatorAssumption DEF IInv, Threads, Disposers, Ids, filterVars, mapVars,
      callVars, readerVars, Goto, Register, RegisterUnless
<1>1. TypeOK'
  <2>1. Return(t) \/ \E place \in CallerPC : Continue(t, place)
    BY DEF Register, RegisterUnless, CallerPC
  <2>2. PlacesOK'
    BY <2>1, ContinueTyped, ReturnTyped
  <2>. command[t] \in Ids
    BY DEF IdInv
  <2>3. requestMap' \in SUBSET Ids
    BY ZenonT(20) DEF TypeOK
  <2> QED  BY <2>2, <2>3 DEF TypeOK, PlacesOK, Register, RegisterUnless
<1>2. MutexInv'
  BY DEF MutexInv, TypeOK, Inside, Continue, Return
<1>3. IdInv'
  <2>1. \A u \in Callers : pc'[u] # "idle" => pc[u] # "idle" /\ command'[u] = command[u]
    BY DEF TypeOK, Continue, Return
  <2>2. \A i \in Ids : i >= nextCommandId => ~Known(i)'
    BY DEF IdInv, TypeOK, Known
  <2> QED  BY <2>1, <2>2 DEF IdInv
<1>4. KnownInv'
  BY DEF KnownInv, Known, CallInv, OrderInv, IdInv, TypeOK, MutexInv, Inside, Before, Continue, Return
<1>5. CallInv'
  BY DEF CallInv, Known, KnownInv, IdInv, OrderInv, TypeOK, Before, MutexInv, Inside, Continue, Return
<1>6. OrderInv'
  <2>1. pc'[Reader] = pc[Reader] /\ pc'[Closer] = pc[Closer]
    BY DEF TypeOK, Continue, Return
  <2> QED  BY <2>1 DEF OrderInv
<1> QED  BY <1>1, <1>2, <1>3, <1>4, <1>5, <1>6

\* asyncRequest on a failed transport.
LEMMA RejectStep ==
  ASSUME IInv, NEW t \in Callers, Reject(t)
  PROVE  IInv'
<1> USE CorrelatorAssumption DEF IInv, Threads, Disposers, Ids, filterVars, mapVars,
      callVars, readerVars, Goto, Reject, Return
<1>1. TypeOK'
  <2>1. pc' \in [Threads -> CallerPC \cup ReaderPC \cup CloserPC]
    BY DEF TypeOK, CallerPC, ReaderPC, CloserPC
  <2>2. \A u \in Callers : pc'[u] \in CallerPC
    BY DEF TypeOK, CallerPC
  <2>3. pc'[Reader] \in ReaderPC /\ pc'[Closer] \in CloserPC
    BY DEF TypeOK, ReaderPC, CloserPC
  <2>4. command' \in [Callers -> 0..MaxCommandId] /\ kind' \in [Callers -> Kinds]
    BY DEF TypeOK, Kinds
  <2>5. future' \in [Ids -> FutureStates]
    BY ZenonT(20) DEF TypeOK, FutureStates
  <2> QED  BY <2>1, <2>2, <2>3, <2>4, <2>5 DEF TypeOK
<1>2. MutexInv'
  BY DEF MutexInv, TypeOK, Inside
<1>3. IdInv'
  BY DEF IdInv, KnownInv, Known, TypeOK
<1>4. KnownInv'
  BY DEF KnownInv, Known, CallInv, OrderInv, IdInv, TypeOK, MutexInv, Inside, Before
<1>5. CallInv'
  BY DEF CallInv, Known, KnownInv, IdInv, OrderInv, TypeOK, Before, MutexInv, Inside
<1>6. OrderInv'
  BY DEF OrderInv
<1> QED  BY <1>1, <1>2, <1>3, <1>4, <1>5, <1>6

\* oneway of the wrapped transport returns.
LEMMA SendReturnsStep ==
  ASSUME IInv, NEW t \in Callers, SendReturns(t)
  PROVE  IInv'
<1> USE CorrelatorAssumption DEF IInv, Threads, Disposers, Ids, filterVars, mapVars,
      callVars, readerVars, Goto, SendReturns, MayReceive
<1>1. TypeOK'
  <2>1. Return(t) \/ \E place \in CallerPC : Continue(t, place)
    BY DEF SendReturns, CallerPC
  <2>2. PlacesOK'
    BY <2>1, ContinueTyped, ReturnTyped
  <2>3. received' \in SUBSET Ids
    BY ZenonT(20) DEF IdInv
  <2> QED  BY <2>2, <2>3 DEF TypeOK, PlacesOK, SendReturns
<1>2. MutexInv'
  BY DEF MutexInv, TypeOK, Inside, Continue, Return
<1>3. IdInv'
  <2>1. \A u \in Callers : pc'[u] # "idle" => pc[u] # "idle" /\ command'[u] = command[u]
    BY DEF TypeOK, Continue, Return
  <2>2. received' \subseteq {i \in Ids : i < nextCommandId}
    BY ZenonT(20) DEF IdInv
  <2> QED  BY <2>1, <2>2 DEF IdInv, Known
<1>4. KnownInv'
  BY DEF KnownInv, Known, CallInv, OrderInv, IdInv, TypeOK, MutexInv, Inside, Before, Continue, Return
<1>5. CallInv'
  BY DEF CallInv, Known, KnownInv, IdInv, OrderInv, TypeOK, Before, MutexInv, Inside, Continue, Return
<1>6. OrderInv'
  BY DEF OrderInv, KnownInv, Known, TypeOK, IdInv, MutexInv, Inside, Continue, Return
<1> QED  BY <1>1, <1>2, <1>3, <1>4, <1>5, <1>6

\* oneway of the wrapped transport throws.
LEMMA SendThrowsStep ==
  ASSUME IInv, NEW t \in Callers, SendThrows(t)
  PROVE  IInv'
<1> USE CorrelatorAssumption DEF IInv, Threads, Disposers, Ids, filterVars, mapVars,
      callVars, readerVars, Goto, SendThrows, MayReceive
<1>1. TypeOK'
  <2>1. Return(t) \/ \E place \in CallerPC : Continue(t, place)
    BY DEF SendThrows, CallerPC
  <2>2. PlacesOK'
    BY <2>1, ContinueTyped, ReturnTyped
  <2>3. received' \in SUBSET Ids
    BY DEF TypeOK, IdInv, MayReceive, SendThrows, Ids
  <2> QED  BY <2>2, <2>3 DEF TypeOK, PlacesOK, SendThrows
<1>2. MutexInv'
  BY DEF MutexInv, TypeOK, Inside, Continue, Return
<1>3. IdInv'
  <2>1. \A u \in Callers : pc'[u] # "idle" => pc[u] # "idle" /\ command'[u] = command[u]
    BY DEF TypeOK, Continue, Return
  <2>2. received' \subseteq {i \in Ids : i < nextCommandId}
    BY DEF IdInv, TypeOK
  <2> QED  BY <2>1, <2>2 DEF IdInv, Known
<1>4. KnownInv'
  BY DEF KnownInv, Known, CallInv, OrderInv, IdInv, TypeOK, MutexInv, Inside, Before, Continue, Return
<1>5. CallInv'
  BY DEF CallInv, Known, KnownInv, IdInv, OrderInv, TypeOK, Before, MutexInv, Inside, Continue, Return
<1>6. OrderInv'
  BY DEF OrderInv, KnownInv, Known, TypeOK, IdInv, MutexInv, Inside, Continue, Return
<1> QED  BY <1>1, <1>2, <1>3, <1>4, <1>5, <1>6

\* asyncRequest removes its entry.
LEMMA AsyncRemoveStep ==
  ASSUME IInv, NEW t \in Callers, AsyncRemove(t)
  PROVE  IInv'
<1> USE CorrelatorAssumption DEF IInv, Threads, Disposers, Ids, filterVars, mapVars,
      callVars, readerVars, Goto, AsyncRemove, Return
<1>1. TypeOK'
  <2>1. pc' \in [Threads -> CallerPC \cup ReaderPC \cup CloserPC]
    BY DEF TypeOK, CallerPC, ReaderPC, CloserPC
  <2>2. \A u \in Callers : pc'[u] \in CallerPC
    BY DEF TypeOK, CallerPC
  <2>3. pc'[Reader] \in ReaderPC /\ pc'[Closer] \in CloserPC
    BY DEF TypeOK, ReaderPC, CloserPC
  <2>4. command' \in [Callers -> 0..MaxCommandId] /\ kind' \in [Callers -> Kinds]
    BY DEF TypeOK, Kinds
  <2> QED  BY <2>1, <2>2, <2>3, <2>4, ZenonT(20) DEF TypeOK
<1>2. MutexInv'
  BY DEF MutexInv, TypeOK, Inside
<1>3. IdInv'
  BY DEF IdInv, KnownInv, Known, TypeOK
<1>4. KnownInv'
  BY DEF KnownInv, Known, TypeOK, MutexInv, Inside, Before
<1>5. CallInv'
  BY DEF CallInv, Known, KnownInv, IdInv, OrderInv, TypeOK, Before, MutexInv, Inside
<1>6. OrderInv'
  BY DEF OrderInv, Known
<1> QED  BY <1>1, <1>2, <1>3, <1>4, <1>5, <1>6

\* The latch opens.
LEMMA AwaitDoneStep ==
  ASSUME IInv, NEW t \in Callers, AwaitDone(t)
  PROVE  IInv'
<1> USE CorrelatorAssumption DEF IInv, Threads, Disposers, Ids, filterVars, mapVars,
      callVars, readerVars, Goto, AwaitDone
<1>1. TypeOK'
  <2>1. pc' \in [Threads -> CallerPC \cup ReaderPC \cup CloserPC]
    BY DEF TypeOK, CallerPC, ReaderPC, CloserPC
  <2>2. \A u \in Callers : pc'[u] \in CallerPC
    BY DEF TypeOK, CallerPC
  <2>3. pc'[Reader] \in ReaderPC /\ pc'[Closer] \in CloserPC
    BY DEF TypeOK, ReaderPC, CloserPC
  <2> QED  BY <2>1, <2>2, <2>3 DEF TypeOK
<1>2. MutexInv'
  BY DEF MutexInv, TypeOK, Inside
<1>3. IdInv'
  BY DEF IdInv, KnownInv, Known, TypeOK
<1>4. KnownInv'
  BY DEF KnownInv, Known
<1>5. CallInv'
  BY DEF CallInv, Known, KnownInv, IdInv, OrderInv, Before
<1>6. OrderInv'
  BY DEF OrderInv
<1> QED  BY <1>1, <1>2, <1>3, <1>4, <1>5, <1>6

\* The wait for a response times out.
LEMMA TimeOutStep ==
  ASSUME IInv, NEW t \in Callers, TimeOut(t)
  PROVE  IInv'
<1> USE CorrelatorAssumption DEF IInv, Threads, Disposers, Ids, filterVars, mapVars,
      callVars, readerVars, Goto, TimeOut
<1>1. TypeOK'
  <2>1. pc' \in [Threads -> CallerPC \cup ReaderPC \cup CloserPC]
    BY DEF TypeOK, CallerPC, ReaderPC, CloserPC
  <2>2. \A u \in Callers : pc'[u] \in CallerPC
    BY DEF TypeOK, CallerPC
  <2>3. pc'[Reader] \in ReaderPC /\ pc'[Closer] \in CloserPC
    BY DEF TypeOK, ReaderPC, CloserPC
  <2> QED  BY <2>1, <2>2, <2>3 DEF TypeOK
<1>2. MutexInv'
  BY DEF MutexInv, Inside
<1>3. IdInv'
  BY DEF IdInv, Known
<1>4. KnownInv'
  BY DEF KnownInv, Known, CallInv, OrderInv
<1>5. CallInv'
  BY DEF CallInv, Known, KnownInv, IdInv, OrderInv, TypeOK, Before, MutexInv, Inside
<1>6. OrderInv'
  BY DEF OrderInv, KnownInv, Known, TypeOK, IdInv, MutexInv, Inside
<1> QED  BY <1>1, <1>2, <1>3, <1>4, <1>5, <1>6

\* The finalizer removes the entry.
LEMMA FinalizeStep ==
  ASSUME IInv, NEW t \in Callers, Finalize(t)
  PROVE  IInv'
<1> USE CorrelatorAssumption DEF IInv, Threads, Disposers, Ids, filterVars, mapVars,
      callVars, readerVars, Goto, Finalize, Return
<1>1. TypeOK'
  <2>1. pc' \in [Threads -> CallerPC \cup ReaderPC \cup CloserPC]
    BY DEF TypeOK, CallerPC, ReaderPC, CloserPC
  <2>2. \A u \in Callers : pc'[u] \in CallerPC
    BY DEF TypeOK, CallerPC
  <2>3. pc'[Reader] \in ReaderPC /\ pc'[Closer] \in CloserPC
    BY DEF TypeOK, ReaderPC, CloserPC
  <2>4. command' \in [Callers -> 0..MaxCommandId] /\ kind' \in [Callers -> Kinds]
    BY DEF TypeOK, Kinds
  <2> QED  BY <2>1, <2>2, <2>3, <2>4, ZenonT(20) DEF TypeOK
<1>2. MutexInv'
  BY DEF MutexInv, TypeOK, Inside
<1>3. IdInv'
  BY DEF IdInv, KnownInv, Known, TypeOK
<1>4. KnownInv'
  BY DEF KnownInv, Known
<1>5. CallInv'
  BY DEF CallInv, Known, IdInv, TypeOK, Before, Inside
<1>6. OrderInv'
  BY DEF OrderInv
<1> QED  BY <1>1, <1>2, <1>3, <1>4, <1>5, <1>6

\* A response is read.
LEMMA FireResponseStep ==
  ASSUME IInv, NEW i \in Ids, FireResponse(i)
  PROVE  IInv'
<1> USE CorrelatorAssumption DEF IInv, Threads, Disposers, Ids, filterVars, mapVars,
      callVars, readerVars, Goto, FireResponse
<1>1. TypeOK'
  BY DEF TypeOK, CallerPC, ReaderPC, CloserPC, Kinds
<1>2. MutexInv'
  BY DEF MutexInv, TypeOK, Inside
<1>3. IdInv'
  BY DEF IdInv, KnownInv, Known, TypeOK
<1>4. KnownInv'
  BY DEF KnownInv, Known, OrderInv, IdInv
<1>5. CallInv'
  BY DEF CallInv, Known
<1>6. OrderInv'
  BY DEF OrderInv, KnownInv, Known, TypeOK, IdInv, MutexInv, Inside
<1> QED  BY <1>1, <1>2, <1>3, <1>4, <1>5, <1>6

\* onCommand().
LEMMA CorrelateStep ==
  ASSUME IInv, Correlate
  PROVE  IInv'
<1> USE CorrelatorAssumption DEF IInv, Threads, Disposers, Ids, filterVars, mapVars,
      callVars, readerVars, Goto, Correlate
<1>1. TypeOK'
  <2>1. pc' \in [Threads -> CallerPC \cup ReaderPC \cup CloserPC]
    BY DEF TypeOK, CallerPC, ReaderPC, CloserPC
  <2>2. \A u \in Callers : pc'[u] \in CallerPC
    BY DEF TypeOK, CallerPC
  <2>3. pc'[Reader] \in ReaderPC /\ pc'[Closer] \in CloserPC
    BY DEF TypeOK, ReaderPC, CloserPC
  <2>4. future' \in [Ids -> FutureStates]
    BY ZenonT(20) DEF TypeOK, FutureStates
  <2>5. requestMap' \in SUBSET Ids
    BY ZenonT(20) DEF TypeOK
  <2>6. mapMutex' \in Threads \cup {Nobody}
    BY DEF TypeOK
  <2>7. response' \in 0..MaxCommandId
    OBVIOUS
  <2> QED  BY <2>1, <2>2, <2>3, <2>4, <2>5, <2>6, <2>7 DEF TypeOK
<1>2. MutexInv'
  BY DEF MutexInv, TypeOK, Inside
<1>3. IdInv'
  BY DEF IdInv, Known, TypeOK
<1>4. KnownInv'
  BY DEF KnownInv, Known, CallInv, OrderInv, IdInv, TypeOK, MutexInv, Inside, Before
<1>5. CallInv'
  BY DEF CallInv, Known, KnownInv, IdInv, OrderInv, TypeOK, Before, MutexInv, Inside
<1>6. OrderInv'
  <2>1. pc'[Closer] = pc[Closer] /\ pc'[Reader] \in {"callback", "idle"}
    BY DEF TypeOK
  <2> QED  BY <2>1 DEF OrderInv
<1> QED  BY <1>1, <1>2, <1>3, <1>4, <1>5, <1>6

\* The callback returns.
LEMMA CallbackStep ==
  ASSUME IInv, CallbackDone
  PROVE  IInv'
<1> USE CorrelatorAssumption DEF IInv, Threads, Disposers, Ids, filterVars, mapVars,
      callVars, readerVars, Goto, CallbackDone
<1>1. TypeOK'
  BY DEF TypeOK, CallerPC, ReaderPC, CloserPC, Kinds
<1>2. MutexInv'
  BY DEF MutexInv, TypeOK, Inside
<1>3. IdInv'
  BY DEF IdInv, Known
<1>4. KnownInv'
  BY DEF KnownInv, Known, TypeOK, MutexInv, Inside, Before
<1>5. CallInv'
  BY DEF CallInv, Known
<1>6. OrderInv'
  BY DEF OrderInv, KnownInv, Known, TypeOK, IdInv, MutexInv, Inside
<1> QED  BY <1>1, <1>2, <1>3, <1>4, <1>5, <1>6

\* An exception is reported.
LEMMA FireExceptionStep ==
  ASSUME IInv, FireException
  PROVE  IInv'
<1> USE CorrelatorAssumption DEF IInv, Threads, Disposers, Ids, filterVars, mapVars,
      callVars, readerVars, Goto, FireException, FireExceptionTelling
<1>1. TypeOK'
  BY DEF TypeOK, ReaderPC, CloserPC, Kinds
<1>2. MutexInv'
  BY DEF MutexInv, Inside
<1>3. IdInv'
  BY DEF IdInv, Known
<1>4. KnownInv'
  BY DEF KnownInv, Known
<1>5. CallInv'
  BY DEF CallInv, Known
<1>6. OrderInv'
  BY DEF OrderInv, TypeOK
<1> QED  BY <1>1, <1>2, <1>3, <1>4, <1>5, <1>6

\* dispose() empties the map.
LEMMA DisposeLemma ==
  ASSUME IInv, NEW d \in Disposers, Dispose(d)
  PROVE  IInv'
<1> USE CorrelatorAssumption DEF IInv, Threads, Disposers, Ids, filterVars, mapVars,
      callVars, readerVars, Goto, Dispose, DisposeWith
<1>1. TypeOK'
  <2>1. pc' \in [Threads -> CallerPC \cup ReaderPC \cup CloserPC]
    BY DEF TypeOK, ReaderPC, CloserPC
  <2>2. \A u \in Callers : pc'[u] \in CallerPC
    BY DEF TypeOK
  <2>3. pc'[Reader] \in ReaderPC /\ pc'[Closer] \in CloserPC
    BY DEF TypeOK, ReaderPC, CloserPC
  <2>4. requests' \in [Disposers -> SUBSET Ids]
    BY ZenonT(20) DEF TypeOK
  <2>5. requestMap' \in SUBSET Ids /\ priorError' \in BOOLEAN
    BY ZenonT(20) DEF TypeOK
  <2> QED  BY <2>1, <2>2, <2>3, <2>4, <2>5 DEF TypeOK
<1>2. MutexInv'
  BY DEF MutexInv, TypeOK, Inside
<1>3. IdInv'
  BY DEF IdInv, Known, TypeOK
<1>4. KnownInv'
  BY DEF KnownInv, Known, CallInv, OrderInv, TypeOK
<1>5. CallInv'
  BY DEF CallInv, Known, KnownInv, TypeOK, Inside
<1>6. OrderInv'
  BY DEF OrderInv
<1> QED  BY <1>1, <1>2, <1>3, <1>4, <1>5, <1>6

\* dispose() completes a future.
LEMMA NotifyStep ==
  ASSUME IInv, NEW d \in Disposers, NEW i \in Ids, NotifyError(d, i)
  PROVE  IInv'
<1> USE CorrelatorAssumption DEF IInv, Threads, Disposers, Ids, filterVars, mapVars,
      callVars, readerVars, Goto, NotifyError
<1>1. TypeOK'
  <2>1. future' \in [Ids -> FutureStates]
    BY DEF TypeOK, FutureStates
  <2>2. requests' \in [Disposers -> SUBSET Ids]
    BY DEF TypeOK
  <2> QED  BY <2>1, <2>2 DEF TypeOK
<1>2. MutexInv'
  BY DEF MutexInv
<1>3. IdInv'
  BY DEF IdInv, Known
<1>4. KnownInv'
  BY DEF KnownInv, Known, CallInv, OrderInv, IdInv, TypeOK, Inside, Before
<1>5. CallInv'
  BY DEF CallInv, Known, KnownInv, TypeOK, MutexInv, Inside
<1>6. OrderInv'
  BY DEF OrderInv, KnownInv, Known, TypeOK, IdInv, MutexInv, Inside
<1> QED  BY <1>1, <1>2, <1>3, <1>4, <1>5, <1>6

\* dispose() returns.
LEMMA DisposeReturnsStep ==
  ASSUME IInv, NEW d \in Disposers, DisposeReturns(d)
  PROVE  IInv'
<1> USE CorrelatorAssumption DEF IInv, Threads, Disposers, Ids, filterVars, mapVars,
      callVars, readerVars, Goto, DisposeReturns, DisposeReturnsTo
<1>1. TypeOK'
  BY DEF TypeOK, CallerPC, ReaderPC, CloserPC, Kinds
<1>2. MutexInv'
  BY DEF MutexInv, Inside
<1>3. IdInv'
  BY DEF IdInv, Known
<1>4. KnownInv'
  BY DEF KnownInv, Known
<1>5. CallInv'
  BY DEF CallInv, Known
<1>6. OrderInv'
  BY DEF OrderInv, KnownInv, Known, TypeOK, IdInv, MutexInv, Inside
<1> QED  BY <1>1, <1>2, <1>3, <1>4, <1>5, <1>6

\* onException() tells the filter's listener.
LEMMA ForwardStep ==
  ASSUME IInv, Forward
  PROVE  IInv'
<1> USE CorrelatorAssumption DEF IInv, Threads, Disposers, Ids, filterVars, mapVars,
      callVars, readerVars, Goto, Forward
<1>1. TypeOK'
  BY DEF TypeOK, CallerPC, ReaderPC, CloserPC, Kinds
<1>2. MutexInv'
  BY DEF MutexInv, TypeOK, Inside
<1>3. IdInv'
  BY DEF IdInv, Known
<1>4. KnownInv'
  BY DEF KnownInv, Known, Inside, Before
<1>5. CallInv'
  BY DEF CallInv, Known, TypeOK, Before, MutexInv, Inside
<1>6. OrderInv'
  BY DEF OrderInv, KnownInv, Known, TypeOK, IdInv, MutexInv, Inside
<1> QED  BY <1>1, <1>2, <1>3, <1>4, <1>5, <1>6

\* A thread enters a synchronized block.
LEMMA LockStep ==
  ASSUME IInv,
         NEW t \in Threads, NEW from, NEW to,
         \/ t \in Callers /\ from = "register" /\ to = "registering"
         \/ t \in Callers /\ from = "finalize" /\ to = "finalizing"
         \/ t = Reader /\ from = "correlate" /\ to = "correlating"
         \/ t \in Disposers /\ from = "dispose" /\ to = "disposing", Lock(t, from, to)
  PROVE  IInv'
<1> USE CorrelatorAssumption DEF IInv, Threads, Disposers, Ids, filterVars, mapVars,
      callVars, readerVars, Goto, Lock
<1>1. TypeOK'
  BY DEF TypeOK, CallerPC, ReaderPC, CloserPC, Kinds
<1>2. MutexInv'
  BY DEF MutexInv
<1>3. IdInv'
  BY DEF IdInv, Known
<1>4. KnownInv'
  BY DEF KnownInv, Known
<1>5. CallInv'
  <2>1. \A i : Known(i)' <=> Known(i)  BY DEF Known
  <2>2. \A u \in Callers : \/ pc'[u] = pc[u]
                           \/ pc[u] = "register" /\ pc'[u] = "registering"
                           \/ pc[u] = "finalize" /\ pc'[u] = "finalizing"
    BY DEF TypeOK
  <2>3. UNCHANGED <<kind, command, future, priorError>>  OBVIOUS
  <2> HIDE DEF Lock, Goto
  <2> QED  BY <2>1, <2>2, <2>3 DEF CallInv, Before
<1>6. OrderInv'
  BY DEF OrderInv, KnownInv, Known, TypeOK, IdInv, MutexInv, Inside
<1> QED  BY <1>1, <1>2, <1>3, <1>4, <1>5, <1>6

-----------------------------------------------------------------------------
\* Every step preserves the inductive invariant.
LEMMA StepIInv == IInv /\ [Next]_vars => IInv'
<1> SUFFICES ASSUME IInv, [Next]_vars PROVE IInv'  OBVIOUS
<1>1. CASE Start  BY <1>1, StartStep
<1>2. CASE Close  BY <1>2, CloseStep
<1>3. CASE \E t \in Callers, k \in Kinds : Begin(t, k)  BY <1>3, BeginStep
<1>4. ASSUME NEW t \in Callers, CallerStep(t) PROVE IInv'
  <2>1. t \in Threads  BY DEF Threads
  <2>2. CASE Lock(t, "register", "registering")  BY <2>1, <2>2, LockStep
  <2>3. CASE Lock(t, "finalize", "finalizing")  BY <2>1, <2>3, LockStep
  <2> QED
    BY <1>4, <2>2, <2>3, RegisterStep, RejectStep, SendReturnsStep, SendThrowsStep,
       AsyncRemoveStep, AwaitDoneStep, TimeOutStep, FinalizeStep DEF CallerStep
<1>5. CASE \E i \in Ids : FireResponse(i)  BY <1>5, FireResponseStep
<1>6. CASE FireException  BY <1>6, FireExceptionStep
<1>7. ASSUME NEW d \in Disposers, DisposeStep(d) PROVE IInv'
  <2>1. d \in Threads  BY DEF Threads
  <2>2. CASE Lock(d, "dispose", "disposing")  BY <2>1, <2>2, LockStep
  <2> QED  BY <1>7, <2>2, DisposeLemma, NotifyStep, DisposeReturnsStep DEF DisposeStep
<1>8. CASE ReaderStep
  <2>1. Reader \in Threads /\ Reader \in Disposers  BY DEF Threads, Disposers
  <2>2. CASE Lock(Reader, "correlate", "correlating")  BY <2>1, <2>2, LockStep
  <2> QED  BY <1>7, <1>8, <2>1, <2>2, CorrelateStep, CallbackStep, ForwardStep DEF ReaderStep
<1>9. CASE CloserStep
  <2>1. Closer \in Disposers  BY DEF Disposers
  <2> QED  BY <1>7, <1>9, <2>1, MarkClosedStep, CloseNextStep DEF CloserStep
<1>10. CASE UNCHANGED vars
  BY <1>10 DEF IInv, TypeOK, MutexInv, IdInv, KnownInv, CallInv, OrderInv, Known, vars,
       filterVars, mapVars, callVars, readerVars
<1> QED  BY <1>1, <1>2, <1>3, <1>4, <1>5, <1>6, <1>8, <1>9, <1>10 DEF Next

\* The inductive invariant holds in every reachable state.
THEOREM Invariance == Spec => []IInv
BY InitIInv, StepIInv, PTL DEF Spec

\* Every variable keeps its type, whatever the callers, the reader and the
\* closing thread do.
THEOREM TypeCorrect == Spec => []TypeOK
<1>1. IInv => TypeOK  BY DEF IInv
<1> QED  BY <1>1, Invariance, PTL

\* request() never waits on a future that nobody will complete: ResponseCorrelator
\* keeps every waiting, uncompleted request in requestMap or on a list of dispose().
THEOREM RequestsAreNotLost == Spec => []NoLostRequest
<1>1. IInv => NoLostRequest
  BY DEF IInv, CallInv, Known, NoLostRequest
<1> QED  BY <1>1, Invariance, PTL

\* After dispose() has recorded an error, asyncRequest and request enter nothing
\* more in requestMap.
THEOREM MapStaysEmptyAfterError == Spec => []NothingRegisteredAfterError
<1>1. IInv => NothingRegisteredAfterError
  BY DEF IInv, OrderInv, NothingRegisteredAfterError
<1> QED  BY <1>1, Invariance, PTL

\* onException() tells the filter's listener only after dispose() has completed
\* every registered request, even when close() disposes at the same time.
THEOREM ListenerIsToldLast == Spec => []FailedBeforeListenerTold
<1>1. IInv => FailedBeforeListenerTold
  BY DEF IInv, OrderInv, FailedBeforeListenerTold
<1> QED  BY <1>1, Invariance, PTL

-----------------------------------------------------------------------------
\* A step of the correlator is a step of RequestReply on the futures, or leaves
\* the futures and priorError alone.
LEMMA StepImplements == IInv /\ [Next]_vars => [Reply!RRNext]_<<future, priorError>>
<1> SUFFICES ASSUME IInv, [Next]_vars PROVE [Reply!RRNext]_<<future, priorError>>
  OBVIOUS
<1> USE DEF Reply!RRNext, Reply!Issue, Reply!Answer, Reply!GoDown, Reply!Fail
<1>1. CASE \E t \in Callers, k \in Kinds : Begin(t, k)
  <2>1. PICK t \in Callers, k \in Kinds : Begin(t, k)  BY <1>1
  <2>2. nextCommandId \in Ids /\ future[nextCommandId] = "unused"
    BY <2>1 DEF Begin, IInv, TypeOK, IdInv, Ids
  <2> QED  BY <2>1, <2>2 DEF Begin
<1>2. CASE \E t \in Callers : Reject(t)
  <2>1. PICK t \in Callers : Reject(t)  BY <1>2
  <2>2. command[t] \in Ids /\ priorError /\ future[command[t]] = "pending"
    BY <2>1 DEF Reject, IInv, IdInv, CallInv, Before
  <2> QED  BY <2>1, <2>2, ZenonT(20) DEF Reject, mapVars
<1>3. CASE Correlate
  <2>1. response \in requestMap => ~priorError /\ response \in Ids /\ future[response] = "pending"
    BY <1>3 DEF Correlate, IInv, OrderInv, KnownInv, Known
  <2> QED  BY <1>3, <2>1 DEF Correlate
<1>4. CASE \E d \in Disposers, i \in Ids : NotifyError(d, i)
  <2>1. PICK d \in Disposers, i \in Ids : NotifyError(d, i)  BY <1>4
  <2>2. priorError /\ future[i] = "pending"
    BY <2>1 DEF NotifyError, IInv, KnownInv, Known
  <2> QED  BY <2>1, <2>2, ZenonT(20) DEF NotifyError, mapVars
<1>5. CASE \E d \in Disposers : Dispose(d)
  BY <1>5 DEF Dispose, DisposeWith
<1>6. CASE UNCHANGED <<future, priorError>>
  BY <1>6
<1>7. ASSUME NEW t \in Threads, NEW from, NEW to, Lock(t, from, to)
      PROVE  UNCHANGED <<future, priorError>>
  BY <1>7 DEF Lock
<1>8. ASSUME NEW d \in Disposers, DisposeStep(d) PROVE [Reply!RRNext]_<<future, priorError>>
  <2>1. d \in Threads  BY DEF Threads
  <2>2. CASE Lock(d, "dispose", "disposing")  BY <2>1, <2>2, <1>6, <1>7
  <2>3. CASE DisposeReturns(d)  BY <2>3, <1>6 DEF DisposeReturns, DisposeReturnsTo, mapVars
  <2> QED  BY <1>8, <2>2, <2>3, <1>4, <1>5, ZenonT(20) DEF DisposeStep
<1>9. ASSUME NEW t \in Callers, CallerStep(t) PROVE [Reply!RRNext]_<<future, priorError>>
  <2>1. t \in Threads  BY DEF Threads
  <2>2. CASE Lock(t, "register", "registering") \/ Lock(t, "finalize", "finalizing")
    BY <2>1, <2>2, <1>6, <1>7
  <2>3. CASE Register(t)  BY <2>3, <1>6 DEF Register, RegisterUnless
  <2>4. CASE SendReturns(t)  BY <2>4, <1>6 DEF SendReturns, mapVars
  <2>5. CASE SendThrows(t)  BY <2>5, <1>6 DEF SendThrows, mapVars
  <2>6. CASE AsyncRemove(t)  BY <2>6, <1>6 DEF AsyncRemove
  <2>7. CASE AwaitDone(t)  BY <2>7, <1>6 DEF AwaitDone, mapVars
  <2>8. CASE TimeOut(t)  BY <2>8, <1>6 DEF TimeOut, mapVars
  <2>9. CASE Finalize(t)  BY <2>9, <1>6 DEF Finalize
  <2> QED
    BY <1>9, <2>2, <2>3, <2>4, <2>5, <2>6, <2>7, <2>8, <2>9, <1>2, ZenonT(20) DEF
         CallerStep
<1>10. CASE ReaderStep
  <2>1. Reader \in Threads /\ Reader \in Disposers  BY DEF Threads, Disposers
  <2>2. CASE Lock(Reader, "correlate", "correlating")  BY <2>1, <2>2, <1>6, <1>7
  <2>3. CASE CallbackDone  BY <2>3, <1>6 DEF CallbackDone
  <2>4. CASE Forward  BY <2>4, <1>6 DEF Forward, mapVars
  <2> QED  BY <1>10, <2>1, <2>2, <2>3, <2>4, <1>3, <1>8, ZenonT(20) DEF ReaderStep
<1>11. CASE CloserStep
  <2>1. Closer \in Disposers  BY DEF Disposers
  <2>2. CASE MarkClosed  BY <2>2, <1>6 DEF MarkClosed, mapVars
  <2>3. CASE CloseNext  BY <2>3, <1>6 DEF CloseNext, CloseNextTo, mapVars
  <2> QED  BY <1>11, <2>1, <2>2, <2>3, <1>8, ZenonT(20) DEF CloserStep
<1>12. CASE Start \/ Close \/ FireException \/ (\E i \in Ids : FireResponse(i)) \/ UNCHANGED vars
  BY <1>12, <1>6 DEF Start, Close, FireException, FireExceptionTelling, FireResponse,
                     vars, mapVars
<1> QED  BY <1>1, <1>9, <1>10, <1>11, <1>12, ZenonT(20) DEF Next

\* ResponseCorrelator implements RequestReply: futures are completed once, by
\* answers before the error and by the error after it.
THEOREM CorrelatorImplementsRequestReply == Spec => ImplementsRequestReply
<1>1. Init => Reply!RRInit  BY DEF Init, Reply!RRInit
<1> QED
  BY <1>1, StepImplements, Invariance, PTL
  DEF Spec, ImplementsRequestReply, Reply!RRSpec, Reply!rrVars

\* A future that holds a response or an error keeps it.
THEOREM FuturesAreCompletedOnce == Spec => CompletedOnce
<1>1. IInv /\ [Next]_vars
        => [\A i \in Ids : future[i] \in {"answered", "failed"} => future'[i] = future[i]]_vars
  <2> SUFFICES ASSUME IInv, [Next]_vars, NEW i \in Ids, future[i] \in {"answered", "failed"}
               PROVE  future'[i] = future[i]
    OBVIOUS
  <2>1. [Reply!RRNext]_<<future, priorError>>  BY StepImplements
  <2> QED
    BY <2>1 DEF Reply!RRNext, Reply!Issue, Reply!Answer, Reply!GoDown, Reply!Fail, IInv,
         TypeOK
<1> QED  BY <1>1, Invariance, PTL DEF Spec, CompletedOnce
=============================================================================
