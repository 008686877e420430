-------------------- MODULE ConnectionStateTrackerProofs --------------------
(***************************************************************************)
(* The tracker holds exactly the unfinished transactions, for any number   *)
(* of sessions, producers, transactions, messages and lost connections.    *)
(*                                                                         *)
(* RemoveTransactionAction runs only for a response whose request is in    *)
(* requestMap, and the caller is told only while it waits.  That the two   *)
(* are the same (EndsRequested) makes the property inductive: a response   *)
(* that comes twice, from a lost connection and from its successor, or     *)
(* after the commit in doubt was rolled back, changes neither.             *)
(***************************************************************************)
EXTENDS ConnectionStateTracker, TLAPS

Ending == {"committing", "rollingback"}
Ended == {"committed", "rolledback"}

\* What waits in requestMap is what its caller waits for.
EndsRequested == requestMap = {t \in Transactions : outcome[t] \in Ending}

Results(set) == \A r \in set : r.result \in Ended

IInv ==
    /\ outcome \in [Transactions -> Outcomes]
    /\ Results(responses)
    /\ Results(late)
    /\ EndsRequested
    /\ TracksUnfinished

\* What a transmission does to what is on its way.
LEMMA TransmitResults ==
    ASSUME NEW c, Results(responses), Results(late), Transmit(c)
    PROVE  Results(responses') /\ Results(late')
<1>1. CASE Receive(c) /\ UNCHANGED late
    BY <1>1 DEF Receive, Results, Ended
<1>2. CASE Down
    BY <1>2 DEF Down, Results
<1> QED
    BY <1>1, <1>2 DEF Transmit

\* A response ends the transaction its caller waits for, and leaves every
\* other as it is.
LEMMA ProcessResponseTracks ==
    ASSUME NEW t, NEW result \in Ended, ProcessResponse(t, result),
           outcome \in [Transactions -> Outcomes], EndsRequested,
           TracksUnfinished
    PROVE  /\ outcome' \in [Transactions -> Outcomes]
           /\ EndsRequested'
           /\ TracksUnfinished'
<1>1. CASE t \in requestMap
  <2>1. t \in Transactions /\ outcome[t] \in Ending
      BY <1>1 DEF EndsRequested
  <2>2. /\ requestMap' = requestMap \ {t}
        /\ txs' = WithoutTx(txs, t)
        /\ outcome' = [outcome EXCEPT ![t] = result]
      BY <1>1, <2>1 DEF ProcessResponse, RemoveTransactionState, Tell, Ending
  <2>3. outcome' \in [Transactions -> Outcomes]
      BY <2>2, Zenon DEF Outcomes, Ended
  <2>4. EndsRequested'
      BY <2>1, <2>2 DEF EndsRequested, Ending, Ended
  <2>5. DOMAIN txs' = DOMAIN txs \ {t}
      BY <2>2 DEF WithoutTx
  <2>6. TracksUnfinished'
      BY <2>1, <2>2, <2>5 DEF TracksUnfinished, Unfinished, Ended
  <2> QED
      BY <2>3, <2>4, <2>6
<1>2. CASE t \notin requestMap
  <2>1. UNCHANGED <<requestMap, txs>>
      BY <1>2 DEF ProcessResponse, EndsRequested
  <2>2. UNCHANGED outcome
      BY <1>2 DEF ProcessResponse, Tell, EndsRequested, Ending
  <2> QED
      BY <2>1, <2>2 DEF EndsRequested, TracksUnfinished, Unfinished
<1> QED
    BY <1>1, <1>2

\* The initial states satisfy the invariant.
LEMMA InitIInv == Init => IInv
BY DEF Init, IInv, Outcomes, Results, EndsRequested, Ending, TracksUnfinished,
       Unfinished

\* A step of the application preserves it.
LEMMA AppIInv == IInv /\ AppStep => IInv'
<1> SUFFICES ASSUME IInv, AppStep PROVE IInv'
    OBVIOUS
<1>a. ASSUME UNCHANGED <<outcome, requestMap>>, DOMAIN txs' = DOMAIN txs,
             Results(responses'), Results(late')
      PROVE  IInv'
    BY <1>a DEF IInv, Results, EndsRequested, TracksUnfinished, Unfinished
<1>b. ASSUME NEW o, SendRemoveInfo(o)
      PROVE  Results(responses') /\ Results(late')
    BY <1>b, TransmitResults DEF SendRemoveInfo, IInv, Results, brokerVars
<1>1. ASSUME NEW o, Register(o) PROVE IInv'
    BY <1>1, <1>a, TransmitResults DEF Register, IInv
<1>2. ASSUME NEW o, RegisterRefused(o) PROVE IInv'
    BY <1>2, <1>a DEF RegisterRefused, IInv, brokerVars
<1>3. ASSUME NEW o, RemoveLeaf(o) PROVE IInv'
    BY <1>3, <1>a, <1>b DEF RemoveLeaf, RemoveLeafIf
<1>4. ASSUME NEW p, RemoveProducer(p) PROVE IInv'
  <2>1. DOMAIN txs' = DOMAIN txs
      BY <1>4 DEF RemoveProducer, RemoveProducerFrom
  <2> QED
      BY <1>4, <1>a, <1>b, <2>1 DEF RemoveProducer, RemoveProducerFrom
<1>5. ASSUME NEW s, RemoveSession(s) PROVE IInv'
    BY <1>5, <1>a, <1>b DEF RemoveSession
<1>6. ASSUME NEW s, NEW t \in Transactions, BeginTransaction(s, t) PROVE IInv'
  <2>1. Results(responses') /\ Results(late')
      BY <1>6, TransmitResults DEF BeginTransaction, IInv
  <2>2. DOMAIN txs' = DOMAIN txs \cup {t}
      BY <1>6 DEF BeginTransaction, WithTx
  <2>3. /\ outcome[t] = "none"
        /\ outcome' = [outcome EXCEPT ![t] = "open"]
        /\ requestMap' = requestMap
      BY <1>6 DEF BeginTransaction
  <2>4. outcome' \in [Transactions -> Outcomes] /\ EndsRequested'
      BY <2>3 DEF IInv, Outcomes, EndsRequested, Ending
  <2>5. TracksUnfinished'
      BY <2>2, <2>3 DEF IInv, TracksUnfinished, Unfinished
  <2> QED
      BY <2>1, <2>4, <2>5 DEF IInv
<1>7. ASSUME NEW t, NEW p, SendMessage(t, p) PROVE IInv'
  <2>1. DOMAIN txs' = DOMAIN txs
      BY <1>7 DEF SendMessage
  <2> QED
      BY <1>7, <1>a, <2>1, TransmitResults DEF SendMessage, IInv
<1>8. ASSUME NEW t \in Transactions, NEW command, NEW pending \in Ending,
             EndTransactionWith(t, command, pending)
      PROVE  IInv'
  <2>1. Results(responses') /\ Results(late')
      BY <1>8, TransmitResults DEF EndTransactionWith, IInv
  <2>2. DOMAIN txs' = DOMAIN txs
      BY <1>8 DEF EndTransactionWith
  <2>3. /\ outcome[t] = "open"
        /\ outcome' = [outcome EXCEPT ![t] = pending]
        /\ requestMap' = requestMap \cup {t}
      BY <1>8 DEF EndTransactionWith
  <2>4. outcome' \in [Transactions -> Outcomes] /\ EndsRequested'
      BY <1>8, <2>3 DEF IInv, Outcomes, EndsRequested, Ending
  <2>5. TracksUnfinished'
      BY <1>8, <2>2, <2>3 DEF IInv, TracksUnfinished, Unfinished, Ending
  <2> QED
      BY <2>1, <2>4, <2>5 DEF IInv
<1>9. ASSUME NEW t \in Transactions,
             CommitTransaction(t) \/ RollbackTransaction(t)
      PROVE  IInv'
    BY <1>8, <1>9 DEF CommitTransaction, RollbackTransaction, Ending
<1> QED
    BY <1>1, <1>2, <1>3, <1>4, <1>5, <1>6, <1>7, <1>9 DEF AppStep

\* So do the restore, the reader and the loss of a connection.
LEMMA NextIInv == IInv /\ [Next]_vars => IInv'
<1> SUFFICES ASSUME IInv, [Next]_vars PROVE IInv'
    OBVIOUS
<1>a. ASSUME UNCHANGED <<outcome, requestMap, txs>>, Results(responses'),
             Results(late')
      PROVE  IInv'
    BY <1>a DEF IInv, Results, EndsRequested, TracksUnfinished, Unfinished
<1>b. ASSUME NEW t, NEW result \in Ended, ProcessResponse(t, result),
             Results(responses'), Results(late')
      PROVE  IInv'
    BY <1>b, ProcessResponseTracks DEF IInv
<1>1. CASE AppStep
    BY <1>1, AppIInv
<1>2. CASE Reconnect \/ RestoreTransactions \/ RestoreRemoves \/ Restored
    BY <1>2, <1>a DEF Reconnect, RestoreTransactions, RestoreRemoves,
                      Restored,
                      IInv, trackerVars, brokerVars
<1>3. CASE RestoreSend
  <2>1. Results(responses')
      BY <1>3 DEF RestoreSend, Receive, Results, Ended, IInv
  <2> QED
      BY <1>3, <1>a, <2>1 DEF RestoreSend, IInv, trackerVars
<1>4. ASSUME NEW t, RestoreNext(t) PROVE IInv'
    BY <1>4, <1>a DEF RestoreNext, RestoreNextWith, IInv, trackerVars,
                      brokerVars
<1>5. ASSUME NEW t, RollbackInDoubt(t) PROVE IInv'
  <2>1. /\ ProcessResponse(t, "rolledback")
        /\ UNCHANGED <<responses, late>>
      BY <1>5 DEF RollbackInDoubt, AnswerInDoubt, brokerVars
  <2> QED
      BY <1>b, <2>1 DEF IInv, Ended
<1>6. CASE RestoreThrows \/ Lose
    BY <1>6, <1>a DEF RestoreThrows, Lose, Down, IInv, Results, trackerVars
<1>7. ASSUME NEW r \in responses, ReadResponse(r) PROVE IInv'
  <2>1. r.result \in Ended /\ Results(responses') /\ Results(late')
      BY <1>7 DEF ReadResponse, IInv, Results
  <2> QED
      BY <1>7, <1>b, <2>1 DEF ReadResponse
<1>8. ASSUME NEW r \in late, ReadLate(r) PROVE IInv'
  <2>1. r.result \in Ended /\ Results(responses') /\ Results(late')
      BY <1>8 DEF ReadLate, IInv, Results, brokerVars
  <2> QED
      BY <1>8, <1>b, <2>1 DEF ReadLate
<1>9. CASE UNCHANGED vars
    BY <1>9, <1>a DEF vars, IInv, trackerVars, brokerVars
<1> QED
    BY <1>1, <1>2, <1>3, <1>4, <1>5, <1>6, <1>7, <1>8, <1>9
       DEF Next, RestoreStep, ReaderStep

\* The invariant holds in every reachable state.
THEOREM Invariant == Spec => []IInv
BY InitIInv, NextIInv, PTL DEF Spec

\* ConnectionStateTracker never forgets a transaction that its caller has not
\* ended, and keeps none that is ended, however responses, restores and lost
\* connections interleave.
THEOREM UnfinishedIsTracked == Spec => []TracksUnfinished
<1>1. IInv => TracksUnfinished
    BY DEF IInv
<1> QED
    BY <1>1, Invariant, PTL
=============================================================================
