----------------------- MODULE ConnectionStateTracker -----------------------
(***************************************************************************)
(* The state tracker of the failover transport: ConnectionStateTracker     *)
(* with ConnectionState, SessionState, ProducerState and TransactionState, *)
(* and its use by FailoverTransport::oneway, restoreTransport and          *)
(* processResponse.  What a client registered at its broker, and the       *)
(* commands of its open transactions, are recorded before they are sent    *)
(* and sent again on every new connection.                                 *)
(*                                                                         *)
(* Sessions, producers, consumers and temporary destinations are objects   *)
(* with a parent.  One connection is tracked; its own registration always  *)
(* comes first and is left out.  A command is sent with reconnectMutex     *)
(* held, and so is the whole restore; what runs at the same time is the    *)
(* thread that reads responses, of the new connection or of the lost one   *)
(* (late).  Only RemoveInfo commands pass while there is no connection.    *)
(*                                                                         *)
(* The broker is external: it forgets the objects of a connection it lost, *)
(* rolls their transactions back, and answers the end of a transaction.    *)
(***************************************************************************)
EXTENDS Integers, SequencesExt

CONSTANTS
    \* Objects of each kind, and the session of each producer and consumer.
    Sessions, Producers, Consumers, Temps, SessionOf,
    \* Transactions 1..MaxTransactions, messages 1..MaxMessages in each.
    MaxTransactions, MaxMessages,
    \* Bound on the lost connections.
    MaxLosses,
    \* No transaction.
    None

Objects == Sessions \cup Producers \cup Consumers \cup Temps
Transactions == 1..MaxTransactions

ASSUME TrackerAssumption ==
    /\ SessionOf \in [Producers \cup Consumers -> Sessions]
    /\ Sessions \cap (Producers \cup Consumers \cup Temps) = {}
    /\ Producers \cap (Consumers \cup Temps) = {}
    /\ Consumers \cap Temps = {}
    /\ MaxTransactions \in Nat
    /\ MaxMessages \in Nat
    /\ MaxLosses \in Nat
    /\ None \notin Transactions

VARIABLES
    \* What the application has open, what it has had open, the consumers
    \* whose creation the broker refused.
    open, used, refused,
    \* Of each transaction: its session, the messages sent in it, and what the
    \* application knows of it.
    owner, sent, outcome,
    \* The tracker: registered objects, the TransactionState of each open
    \* transaction, and the transactionState of each ProducerState.
    tracked, txs, txOf,
    \* Transactions whose end waits in requestMap for its response.
    requestMap,
    \* The restore: its stage, the commands to send, the transactions whose
    \* replay is to come, the one being replayed and those in doubt.
    stage, todo, iterator, remaining, current, inDoubt,
    \* The broker: objects and open transactions of the connection, and the
    \* messages of the transactions it committed.
    brokerObjects, brokerTxs, stored,
    \* Responses on their way, those read from a connection that is lost, and
    \* whether the broker met a command without its parent.
    responses, late, orphaned,
    losses

appVars == <<open, used, refused, owner, sent>>
trackerVars == <<tracked, txs, txOf>>
restoreVars == <<todo, iterator, remaining, current, inDoubt>>
brokerVars == <<brokerObjects, brokerTxs, stored, responses, orphaned>>
vars == <<appVars, outcome, trackerVars, requestMap, stage, restoreVars,
          brokerVars, late, losses>>

Stages == {"down", "state", "transactions", "commands", "removes", "up"}
Outcomes == {"none", "open", "committing", "rollingback", "committed", "rolledback"}

Init ==
    /\ open = {}
    /\ used = {}
    /\ refused = {}
    /\ owner = [t \in Transactions |-> None]
    /\ sent = [t \in Transactions |-> <<>>]
    /\ outcome = [t \in Transactions |-> "none"]
    /\ tracked = {}
    /\ txs = <<>>
    /\ txOf = [p \in Producers |-> None]
    /\ requestMap = {}
    /\ stage = "up"
    /\ todo = <<>>
    /\ iterator = {}
    /\ remaining = {}
    /\ current = None
    /\ inDoubt = {}
    /\ brokerObjects = {}
    /\ brokerTxs = <<>>
    /\ stored = [t \in Transactions |-> <<>>]
    /\ responses = {}
    /\ late = {}
    /\ orphaned = FALSE
    /\ losses = 0

-----------------------------------------------------------------------------
(* The broker.                                                             *)

Info(o) == [type |-> "info", object |-> o]
RemoveInfo(o) == [type |-> "remove", object |-> o]
Begin(t) == [type |-> "begin", tx |-> t]
Message(t, p, n) == [type |-> "message", tx |-> t, producer |-> p, body |-> n]
Commit(t) == [type |-> "commit", tx |-> t]
Rollback(t) == [type |-> "rollback", tx |-> t]

WithoutTx(map, t) == [u \in DOMAIN map \ {t} |-> map[u]]
WithTx(map, t, value) ==
    [u \in DOMAIN map \cup {t} |-> IF u = t THEN value ELSE map[u]]

Children(s) == {o \in Producers \cup Consumers : SessionOf[o] = s}
Parents(o) == IF o \in Producers \cup Consumers THEN {SessionOf[o]} ELSE {}

\* A command whose parents the broker does not know.
Orphan(c) ==
    CASE c.type = "info" -> ~(Parents(c.object) \subseteq brokerObjects)
      [] c.type = "message" -> \/ c.tx \notin DOMAIN brokerTxs
                               \/ c.producer \notin brokerObjects
      [] c.type \in {"commit", "rollback"} -> c.tx \notin DOMAIN brokerTxs
      [] OTHER -> FALSE

\* The broker handles command c.  It answers the end of a transaction.
Receive(c) ==
    /\ orphaned' = (orphaned \/ Orphan(c))
    /\ brokerObjects' =
           CASE c.type = "info" -> brokerObjects \cup {c.object}
             [] c.type = "remove" ->
                    brokerObjects \ ({c.object} \cup Children(c.object))
             [] OTHER -> brokerObjects
    /\ brokerTxs' =
           CASE c.type = "begin" -> WithTx(brokerTxs, c.tx, <<>>)
             [] c.type = "message" /\ ~Orphan(c) ->
                    [brokerTxs EXCEPT ![c.tx] = Append(@, c.body)]
             [] c.type \in {"commit", "rollback"} -> WithoutTx(brokerTxs, c.tx)
             [] OTHER -> brokerTxs
    /\ stored' = IF c.type = "commit" /\ ~Orphan(c)
                 THEN [stored EXCEPT ![c.tx] = @ \o brokerTxs[c.tx]]
                 ELSE stored
    /\ responses' =
           IF c.type \in {"commit", "rollback"}
           THEN responses \cup
                {[tx |-> c.tx,
                  result |-> IF c.type = "commit" /\ ~Orphan(c)
                             THEN "committed" ELSE "rolledback"]}
           ELSE responses

-----------------------------------------------------------------------------
(* The connection.                                                         *)

\* The connection is gone: with the broker's state, and with the responses
\* except one that the reading thread may have in its hands.
Down ==
    /\ stage' = "down"
    /\ todo' = <<>>
    /\ iterator' = {}
    /\ remaining' = {}
    /\ current' = None
    /\ inDoubt' = {}
    /\ brokerObjects' = {}
    /\ brokerTxs' = <<>>
    /\ responses' = {}
    /\ \/ late' = late
       \/ late = {} /\ \E r \in responses : late' = {r}
    /\ UNCHANGED <<stored, orphaned>>

\* transport->oneway(c) of a command that was tracked: the broker gets it, or
\* the transport throws, which starts a failover and counts as sent.
Transmit(c) ==
    \/ Receive(c) /\ UNCHANGED <<stage, restoreVars, late, losses>>
    \/ losses < MaxLosses /\ losses' = losses + 1 /\ Down

Lose ==
    /\ stage # "down"
    /\ losses < MaxLosses
    /\ losses' = losses + 1
    /\ Down
    /\ UNCHANGED <<appVars, outcome, trackerVars, requestMap>>

-----------------------------------------------------------------------------
(* Commands of the application.                                            *)

Connected == stage = "up"

\* processSessionInfo, processProducerInfo, processConsumerInfo and
\* processDestinationInfo.
Register(o) ==
    /\ Connected
    /\ o \notin used
    /\ Parents(o) \subseteq open
    /\ open' = open \cup {o}
    /\ used' = used \cup {o}
    /\ tracked' = tracked \cup {o}
    /\ Transmit(Info(o))
    /\ UNCHANGED <<refused, owner, sent, outcome, txs, txOf, requestMap>>

\* The broker answers a ConsumerInfo with an error: the session forgets the
\* consumer, and nobody tells the tracker.
RegisterRefused(o) ==
    /\ Connected
    /\ o \in Consumers \ used
    /\ Parents(o) \subseteq open
    /\ refused' = refused \cup {o}
    /\ used' = used \cup {o}
    /\ tracked' = tracked \cup {o}
    /\ UNCHANGED <<open, owner, sent, outcome, txs, txOf, requestMap, stage,
                   restoreVars, brokerVars, late, losses>>

\* A RemoveInfo is tracked whether or not there is a connection.
SendRemoveInfo(o) ==
    \/ Connected /\ Transmit(RemoveInfo(o))
    \/ stage = "down" /\ UNCHANGED <<stage, restoreVars, brokerVars, late, losses>>

RemoveLeafIf(o, track) ==
    /\ o \in (Consumers \cup Temps) \cap open
    /\ open' = open \ {o}
    /\ tracked' = IF track THEN tracked \ {o} ELSE tracked
    /\ SendRemoveInfo(o)
    /\ UNCHANGED <<used, refused, owner, sent, outcome, txs, txOf, requestMap>>

\* Mutant: a RemoveInfo that finds no connection is not tracked.
RemoveLeafConnected(o) == RemoveLeafIf(o, Connected)

\* processRemoveConsumer and processRemoveDestination.
RemoveLeaf(o) == RemoveLeafIf(o, TRUE)

RemoveProducerFrom(p, handOver) ==
    /\ p \in Producers \cap open
    /\ open' = open \ {p}
    /\ tracked' = tracked \ {p}
    /\ txs' = IF handOver /\ txOf[p] \in DOMAIN txs
              THEN [txs EXCEPT ![txOf[p]].producers = @ \cup {p}]
              ELSE txs
    /\ SendRemoveInfo(p)
    /\ UNCHANGED <<used, refused, owner, sent, outcome, txOf, requestMap>>

\* Mutant: a closed producer is not handed to its transaction.
ForgetProducer(p) == RemoveProducerFrom(p, FALSE)

\* processRemoveProducer: the transaction the producer last sent in keeps it,
\* to register it again for the replay.
RemoveProducer(p) == RemoveProducerFrom(p, TRUE)

Unfinished(t) == outcome[t] \in {"open", "committing", "rollingback"}

\* processRemoveSession: the session's state goes with its children.  A
\* session that is closed has rolled its transaction back.
RemoveSession(s) ==
    /\ s \in Sessions \cap open
    /\ \A t \in Transactions : owner[t] = s => ~Unfinished(t)
    /\ open' = open \ ({s} \cup Children(s))
    /\ tracked' = tracked \ ({s} \cup Children(s))
    /\ SendRemoveInfo(s)
    /\ UNCHANGED <<used, refused, owner, sent, outcome, txs, txOf, requestMap>>

\* processBeginTransaction
BeginTransaction(s, t) ==
    /\ Connected
    /\ s \in Sessions \cap open
    /\ \A u \in Transactions : owner[u] = s => ~Unfinished(u)
    /\ outcome[t] = "none"
    /\ \A u \in Transactions : u < t => outcome[u] # "none"
    /\ owner' = [owner EXCEPT ![t] = s]
    /\ outcome' = [outcome EXCEPT ![t] = "open"]
    /\ txs' = WithTx(txs, t, [commands |-> <<Begin(t)>>, producers |-> {}])
    /\ Transmit(Begin(t))
    /\ UNCHANGED <<open, used, refused, sent, tracked, txOf, requestMap>>

\* processMessage of a transacted message.
SendMessage(t, p) ==
    LET m == Message(t, p, Len(sent[t]) + 1) IN
    /\ Connected
    /\ outcome[t] = "open"
    /\ p \in Producers \cap open
    /\ SessionOf[p] = owner[t]
    /\ Len(sent[t]) < MaxMessages
    /\ sent' = [sent EXCEPT ![t] = Append(@, m.body)]
    /\ txs' = [txs EXCEPT ![t].commands = Append(@, m)]
    /\ txOf' = [txOf EXCEPT ![p] = t]
    /\ Transmit(m)
    /\ UNCHANGED <<open, used, refused, owner, outcome, tracked, requestMap>>

EndTransactionWith(t, command, pending) ==
    /\ Connected
    /\ outcome[t] = "open"
    /\ outcome' = [outcome EXCEPT ![t] = pending]
    /\ txs' = [txs EXCEPT ![t].commands = Append(@, command)]
    /\ requestMap' = requestMap \cup {t}
    /\ Transmit(command)
    /\ UNCHANGED <<appVars, tracked, txOf>>

\* processCommitTransactionOnePhase, processRollbackTransaction
CommitTransaction(t) == EndTransactionWith(t, Commit(t), "committing")
RollbackTransaction(t) == EndTransactionWith(t, Rollback(t), "rollingback")

-----------------------------------------------------------------------------
(* Responses.                                                              *)

\* The correlator hands only the first response of a request to the caller.
Tell(t, result) ==
    outcome' = IF outcome[t] \in {"committing", "rollingback"}
               THEN [outcome EXCEPT ![t] = result]
               ELSE outcome

\* Mutant: the state is cleared and stays in the map.
ClearTransactionState(t) == [txs EXCEPT ![t] = [commands |-> <<>>, producers |-> {}]]

\* RemoveTransactionAction
RemoveTransactionState(t) == WithoutTx(txs, t)

\* processResponse: RemoveTransactionAction, then the listener.
ProcessResponse(t, result) ==
    /\ requestMap' = requestMap \ {t}
    /\ txs' = IF t \in requestMap THEN RemoveTransactionState(t) ELSE txs
    /\ Tell(t, result)
    /\ UNCHANGED <<tracked, txOf>>

ReadResponse(r) ==
    /\ r \in responses
    /\ responses' = responses \ {r}
    /\ ProcessResponse(r.tx, r.result)
    /\ UNCHANGED <<appVars, stage, restoreVars, brokerObjects, brokerTxs, stored,
                   orphaned, late, losses>>

\* A response that was read before its connection was lost.
ReadLate(r) ==
    /\ r \in late
    /\ late' = {}
    /\ ProcessResponse(r.tx, r.result)
    /\ UNCHANGED <<appVars, stage, restoreVars, brokerVars, losses>>

-----------------------------------------------------------------------------
(* restore() on a new connection.                                          *)

\* doRestoreTempDestinations, doRestoreSessions with doRestoreProducers and
\* doRestoreConsumers.
StateCommands ==
    LET infos(set) == [i \in 1..Cardinality(set) |-> Info(SetToSeq(set)[i])]
        session(s) == <<Info(s)>> \o infos(Children(s) \cap Producers \cap tracked)
                                  \o infos(Children(s) \cap Consumers \cap tracked)
    IN  infos(Temps \cap tracked)
        \o FlattenSeq([i \in 1..Cardinality(Sessions \cap tracked) |->
                          session(SetToSeq(Sessions \cap tracked)[i])])

Reconnect ==
    /\ stage = "down"
    /\ stage' = "state"
    /\ todo' = StateCommands
    /\ UNCHANGED <<appVars, outcome, trackerVars, requestMap, iterator, remaining,
                   current, inDoubt, brokerVars, late, losses>>

\* A list that was cleared while it is iterated makes the iterator throw.
Cleared ==
    /\ stage = "commands" \/ (stage = "removes" /\ todo # <<>>)
    /\ current \notin DOMAIN txs

RestoreSend ==
    /\ todo # <<>>
    /\ ~Cleared
    /\ Receive(Head(todo))
    /\ todo' = Tail(todo)
    /\ UNCHANGED <<appVars, outcome, trackerVars, requestMap, stage, iterator,
                   remaining, current, inDoubt, late, losses>>

\* The iterator over the transactions is created.
RestoreTransactions ==
    /\ stage = "state"
    /\ todo = <<>>
    /\ stage' = "transactions"
    /\ iterator' = DOMAIN txs
    /\ remaining' = DOMAIN txs
    /\ UNCHANGED <<appVars, outcome, trackerVars, requestMap, todo, current,
                   inDoubt, brokerVars, late, losses>>

\* Between two transactions.
Iterating == stage \in {"transactions", "removes"} /\ todo = <<>>

RestoreNextWith(t, doubtful) ==
    LET producers == SetToSeq(txs[t].producers) IN
    /\ Iterating
    /\ iterator = DOMAIN txs
    /\ t \in remaining
    /\ \A u \in remaining : t <= u
    /\ remaining' = remaining \ {t}
    /\ \/ /\ doubtful
          /\ inDoubt' = inDoubt \cup {t}
          /\ UNCHANGED <<stage, todo, current>>
       \/ /\ ~doubtful
          /\ stage' = "commands"
          /\ current' = t
          /\ todo' = [i \in 1..Len(producers) |-> Info(producers[i])]
                         \o txs[t].commands
          /\ UNCHANGED inDoubt
    /\ UNCHANGED <<appVars, outcome, trackerVars, requestMap, iterator, brokerVars,
                   late, losses>>

\* Mutant: a commit that may have reached the broker is replayed.
RestoreNextReplaying(t) == RestoreNextWith(t, FALSE)

\* The next transaction: one whose commit was sent is in doubt and will be
\* rolled back, any other is replayed, its closed producers first.
RestoreNext(t) == RestoreNextWith(t, Last(txs[t].commands).type = "commit")

\* The producers that were registered for the replay are removed again.
RestoreRemoves ==
    LET producers == IF Cleared THEN <<>> ELSE SetToSeq(txs[current].producers) IN
    /\ stage = "commands"
    /\ todo = <<>>
    /\ stage' = "removes"
    /\ todo' = [i \in 1..Len(producers) |-> RemoveInfo(producers[i])]
    /\ UNCHANGED <<appVars, outcome, trackerVars, requestMap, iterator, remaining,
                   current, inDoubt, brokerVars, late, losses>>

AnswerInDoubt(t, answer) ==
    /\ Iterating
    /\ remaining = {}
    /\ t \in inDoubt
    /\ inDoubt' = inDoubt \ {t}
    /\ IF answer
       THEN ProcessResponse(t, "rolledback")
       ELSE UNCHANGED <<outcome, trackerVars, requestMap>>
    /\ UNCHANGED <<appVars, stage, todo, iterator, remaining, current, brokerVars,
                   late, losses>>

\* Mutant: the caller of a commit in doubt is not answered.
LeaveInDoubt(t) == AnswerInDoubt(t, FALSE)

\* The commits in doubt are answered with a TransactionRolledBackException.
RollbackInDoubt(t) == AnswerInDoubt(t, TRUE)

\* The restore is complete: the senders that wait go on.
Restored ==
    /\ Iterating
    /\ remaining = {}
    /\ inDoubt = {}
    /\ stage' = "up"
    /\ current' = None
    /\ iterator' = {}
    /\ UNCHANGED <<appVars, outcome, trackerVars, requestMap, todo, remaining,
                   inDoubt, brokerVars, late, losses>>

\* A collection changed under its iterator: the exception ends this attempt,
\* the new connection is dropped and the next attempt starts over.
RestoreThrows ==
    /\ \/ Cleared
       \/ Iterating /\ remaining # {} /\ iterator # DOMAIN txs
    /\ Down
    /\ UNCHANGED <<appVars, outcome, trackerVars, requestMap, losses>>

-----------------------------------------------------------------------------
RestoreStep ==
    \/ Reconnect
    \/ RestoreSend
    \/ RestoreTransactions
    \/ \E t \in remaining : RestoreNext(t)
    \/ RestoreRemoves
    \/ \E t \in inDoubt : RollbackInDoubt(t)
    \/ Restored
    \/ RestoreThrows

ReaderStep ==
    \/ \E r \in responses : ReadResponse(r)
    \/ \E r \in late : ReadLate(r)

AppStep ==
    \/ \E o \in Objects : Register(o)
    \/ \E o \in Consumers : RegisterRefused(o)
    \/ \E o \in Consumers \cup Temps : RemoveLeaf(o)
    \/ \E p \in Producers : RemoveProducer(p)
    \/ \E s \in Sessions : RemoveSession(s)
    \/ \E s \in Sessions, t \in Transactions : BeginTransaction(s, t)
    \/ \E t \in Transactions, p \in Producers : SendMessage(t, p)
    \/ \E t \in Transactions : CommitTransaction(t) \/ RollbackTransaction(t)

Next ==
    \/ AppStep
    \/ RestoreStep
    \/ ReaderStep
    \/ Lose

Spec == Init /\ [][Next]_vars

\* The task that reconnects and the reading thread run; the application and
\* the network need not do anything.
FairSpec == Spec /\ WF_vars(RestoreStep) /\ WF_vars(ReaderStep)

-----------------------------------------------------------------------------
(* Properties.                                                             *)

\* Whenever commands flow, the broker knows every session, producer, consumer
\* and temporary destination the application has open, and no consumer, session
\* or destination that it closed, however often the connection was lost, in the
\* middle of a restore too.  The one exception is a consumer the broker refused:
\* it stays tracked, and a later broker may accept it.
RegistryRestored ==
    Connected => /\ open \subseteq brokerObjects
                 /\ brokerObjects \ Producers \subseteq open \cup refused

\* The broker never gets a command that it cannot place: a child comes after
\* its parent, a transacted message after its producer and its begin, even
\* when the producer was closed before the connection was lost.
NoOrphans == ~orphaned

\* A commit that the application was told succeeded committed the messages
\* sent in the transaction: all of them, in order, once.
CommitIsComplete ==
    \A t \in Transactions : outcome[t] = "committed" => stored[t] = sent[t]

\* The tracker holds the transactions that are not finished, and only them:
\* none is missing from a replay and none leaks.
TracksUnfinished == DOMAIN txs = {t \in Transactions : Unfinished(t)}

\* The caller of commit or rollback gets an answer, however the losses of
\* connections fall.
EndsAreAnswered ==
    \A t \in Transactions : outcome[t] \in {"committing", "rollingback"}
                            ~> outcome[t] \in {"committed", "rolledback"}
=============================================================================
