--------------------------- MODULE ConsumerKernel ---------------------------
(***************************************************************************)
(* ActiveMQConsumerKernel with the parts of ActiveMQSessionKernel,         *)
(* ActiveMQTransactionContext and ConnectionAudit it works with: how a     *)
(* message goes from the broker to the application, when it is             *)
(* acknowledged, and what a rollback, a recover and a close do with the    *)
(* messages that are not.                                                  *)
(*                                                                         *)
(* Threads: the application, which receives or is called as the listener;  *)
(* the session's thread, which takes messages from sessionQueue; the       *)
(* scheduler (OptimizedAckTask, StartConsumerTask); the thread of the      *)
(* consumer's executor, which sends the ack of deliverAcks.  A message is  *)
(* its place in the order in which the broker dispatches.  The broker, and *)
(* the connection, do not fail here.                                       *)
(***************************************************************************)
EXTENDS Integers, SequencesExt

CONSTANTS
    \* The acknowledgement modes a behaviour may have; see ModeNames.
    Modes,
    \* Messages 1..MaxMessages are on the destination.
    MaxMessages,
    \* The messages that may expire before they are consumed, and those that
    \* the broker has redelivered more often than the policy allows.
    Perishable, Exhausted,
    \* prefetchSize of the ConsumerInfo.
    Prefetch,
    \* The RedeliveryPolicy: maximumRedeliveries, and the delays it returns.
    MaxRedeliveries, Delays

\* The modes of the session.  "dups_ok" is a topic's: isAutoAcknowledgeBatch.
\* "optimized" is "auto" with optimizeAcknowledge.
ModeNames ==
    {"auto", "optimized", "dups_ok", "client", "individual", "transacted"}

Messages == 1..MaxMessages

ASSUME ConsumerAssumption ==
    /\ Modes \subseteq ModeNames
    /\ MaxMessages \in Nat
    /\ Perishable \subseteq Messages
    /\ Exhausted \subseteq Messages
    /\ Prefetch \in Nat \ {0}
    /\ MaxRedeliveries \in Nat
    /\ Delays \subseteq Nat

VARIABLES
    mode,
    \* The state of each message at the broker, and the messages it was told
    \* of by a DELIVERED ack.
    broker, reported,
    \* messageQueue of the session; unconsumedMessages of the consumer, and
    \* whether that channel is running, and closed.
    sessionQueue, unconsumed, running, closed,
    \* Whether a MessageListener is set.
    listener,
    \* Where the message in consumption is, and that message.
    pc, current, expired,
    \* deliveredMessages, newest first, and the redeliveryCounters.
    delivered, redeliveries,
    \* The ids that ConnectionAudit knows.
    audit,
    \* pendingAck, deliveredCounter, ackCounter.
    pendingAck, deliveredCounter, ackCounter,
    \* deliveringAcks, and the messages of the AsyncMessageAckTask.
    deliveringAcks, ackTask,
    \* StartConsumerTasks that are scheduled.
    startTasks,
    \* The transaction: whether there is one, synchronizationRegistered,
    \* closeSyncRegistered.
    inTransaction, registered, closeRegistered,
    \* The result of the transaction that ends and the synchronizations that
    \* have still to be told.
    ending,
    \* Whether the application is closing the consumer.
    closing,
    \* What the application knows: the messages it has been handed and may
    \* still give back, and those it is done with; what the listener missed;
    \* what a rollback forgot.
    handed, settled, missed, forgotten

brokerVars == <<broker, reported>>
channelVars == <<sessionQueue, unconsumed, running>>
consumeVars == <<pc, current, expired>>
deliveredVars == <<delivered, redeliveries, audit>>
ackVars == <<pendingAck, deliveredCounter, ackCounter>>
taskVars == <<deliveringAcks, ackTask>>
transactionVars == <<inTransaction, registered, closeRegistered>>
applicationVars == <<handed, settled, missed, forgotten>>
vars == <<mode, brokerVars, channelVars, closed, listener, consumeVars,
          deliveredVars, ackVars, taskVars, startTasks, transactionVars,
          ending, closing, applicationVars>>

Transacted == mode = "transacted"
AutoEach == mode \in {"auto", "optimized"}
AutoBatch == mode = "dups_ok"
ClientOrIndividual == mode \in {"client", "individual"}

NoAck == [type |-> "none", first |-> 0, last |-> 0]
BrokerStates ==
    {"queued", "dispatched", "consumed", "expired", "dlq", "released"}

Init ==
    /\ mode \in Modes
    /\ broker = [m \in Messages |-> "queued"]
    /\ reported = {}
    /\ sessionQueue = <<>>
    /\ unconsumed = <<>>
    /\ running = TRUE
    /\ closed = FALSE
    /\ listener = FALSE
    /\ pc = "idle"
    /\ current = 0
    /\ expired = FALSE
    /\ delivered = <<>>
    /\ redeliveries = [m \in Messages |-> 0]
    /\ audit = {}
    /\ pendingAck = NoAck
    /\ deliveredCounter = 0
    /\ ackCounter = 0
    /\ deliveringAcks = FALSE
    /\ ackTask = {}
    /\ startTasks = 0
    /\ inTransaction = FALSE
    /\ registered = FALSE
    /\ closeRegistered = FALSE
    /\ ending = [result |-> "none", synchronizations |-> {}]
    /\ closing = "no"
    /\ handed = {}
    /\ settled = {}
    /\ missed = {}
    /\ forgotten = {}

\* The application may call the session: between two receives, or from the
\* listener.
InApplication ==
    /\ ending.synchronizations = {}
    /\ IF listener THEN pc = "application" ELSE pc = "idle"

-----------------------------------------------------------------------------
(* The broker.                                                             *)

\* The messages dispatched to the consumer from first to last.
InRange(first, last) ==
    {m \in Messages : first <= m /\ m <= last /\ broker[m] = "dispatched"}

\* The range of an ack for all delivered messages: makeAckForAllDelivered.
AllDelivered(list) ==
    IF list = <<>> THEN {} ELSE InRange(Last(list), Head(list))

SetBroker(set, state) ==
    broker' = [m \in Messages |-> IF m \in set THEN state ELSE broker[m]]

\* The broker sends while fewer messages than the prefetch are out that it
\* has not been told about.
WindowOpen ==
    Cardinality({m \in Messages : broker[m] = "dispatched"} \ reported)
        < Prefetch

BrokerDispatch(m) ==
    /\ ~closed
    /\ broker[m] = "queued"
    /\ \A k \in 1..(m - 1) : broker[k] # "queued"
    /\ WindowOpen
    /\ SetBroker({m}, "dispatched")
    /\ sessionQueue' = Append(sessionQueue, m)
    /\ UNCHANGED <<mode, reported, unconsumed, running, closed, listener,
                   consumeVars, deliveredVars, ackVars, taskVars, startTasks,
                   transactionVars, ending, closing, applicationVars>>

-----------------------------------------------------------------------------
(* ackLater.                                                               *)

LaterFrom(type, m, first) == [type |-> type, first |-> first, last |-> m]

\* Mutant: the first id is always that of the ack that was pending.
LaterFromPending(type, m) == LaterFrom(type, m, pendingAck.first)

\* The ack that is pending after m.
Later(type, m) ==
    LaterFrom(type, m, IF pendingAck = NoAck THEN m ELSE pendingAck.first)

\* Mutant: only an exceeded half of the prefetch counts.
IsTimeWhenExceeded == Prefetch < deliveredCounter + 1 + ackCounter

\* (0.5 * prefetchSize) <= pendingAcks
IsTime == Prefetch <= 2 * (deliveredCounter + 1 + ackCounter)

\* A DELIVERED ack tells the broker of all messages up to its last.
AckLater(type, m) ==
    LET ack == Later(type, m) IN
    /\ UNCHANGED ackCounter
    /\ IF IsTime
       THEN /\ pendingAck' = NoAck
            /\ deliveredCounter' = 0
            /\ IF type = "delivered"
               THEN reported' = reported \cup InRange(1, m) /\ UNCHANGED broker
               ELSE /\ SetBroker(InRange(ack.first, m), "consumed")
                    /\ UNCHANGED reported
       ELSE /\ pendingAck' = ack
            /\ deliveredCounter' = deliveredCounter + 1
            /\ UNCHANGED brokerVars

-----------------------------------------------------------------------------
(* The session's thread: ActiveMQSessionExecutor::iterate and              *)
(* ActiveMQConsumerKernel::dispatch.                                       *)

\* iterate of the consumer comes first: with a listener it takes what is in
\* the consumer's channel.  With a listener the thread is busy until the
\* message is consumed.
FromConsumer == listener /\ running /\ unconsumed # <<>>

SessionTakes(m) ==
    /\ listener => pc = "idle"
    /\ ~closed
    /\ IF FromConsumer
       THEN /\ m = Head(unconsumed)
            /\ unconsumed' = Tail(unconsumed)
            /\ UNCHANGED sessionQueue
       ELSE /\ sessionQueue # <<>>
            /\ m = Head(sessionQueue)
            /\ sessionQueue' = Tail(sessionQueue)
            /\ UNCHANGED unconsumed

\* A message that may expire may have expired when it is looked at.
MayBeExpired(m) == IF m \in Perishable THEN BOOLEAN ELSE {FALSE}

\* The audit of the connection.
IsDuplicate(m) == m \in audit

RollbackDuplicate(list) == audit' = audit \ ToSet(list)

PolicyExceeded(m) == Transacted /\ m \in Exhausted

CallListener(m) ==
    /\ listener
    /\ running
    /\ SessionTakes(m)
    /\ UNCHANGED <<running, mode, reported, closed, listener, delivered,
                   redeliveries, ackVars, taskVars, startTasks,
                   transactionVars, ending, closing, applicationVars>>
    /\ ~IsDuplicate(m)
    /\ audit' = audit \cup {m}
    /\ IF PolicyExceeded(m)
       THEN SetBroker({m}, "dlq") /\ UNCHANGED consumeVars
       ELSE /\ pc' = "before"
            /\ current' = m
            /\ expired' \in MayBeExpired(m)
            /\ UNCHANGED broker

\* While the channel is stopped for a redelivery, rollbackDuplicate: the
\* message will be dispatched a second time.
Enqueue(m) ==
    /\ ~(listener /\ running)
    /\ ~closed
    /\ listener => pc = "idle"
    /\ sessionQueue # <<>>
    /\ m = Head(sessionQueue)
    /\ ~IsDuplicate(m)
    /\ sessionQueue' = Tail(sessionQueue)
    /\ unconsumed' = Append(unconsumed, m)
    /\ audit' = IF running THEN audit \cup {m} ELSE audit
    /\ UNCHANGED <<mode, brokerVars, running, closed, listener, consumeVars,
                   delivered, redeliveries, ackVars, taskVars, startTasks,
                   transactionVars, ending, closing, applicationVars>>

\* posionAck: the connection has dispatched this message before.
SuppressDuplicate(m) ==
    /\ SessionTakes(m)
    /\ IsDuplicate(m)
    /\ SetBroker({m}, "dlq")
    /\ UNCHANGED <<running, mode, reported, closed, listener, consumeVars,
                   deliveredVars, ackVars, taskVars, startTasks,
                   transactionVars, ending, closing, applicationVars>>

-----------------------------------------------------------------------------
(* The application takes a message.                                        *)

Receive ==
    /\ ~listener
    /\ ~closed
    /\ closing = "no"
    /\ InApplication
    /\ pc' = "take"
    /\ UNCHANGED <<mode, brokerVars, channelVars, closed, listener, current,
                   expired, deliveredVars, ackVars, taskVars, startTasks,
                   transactionVars, ending, closing, applicationVars>>

\* The timeout of receive.
ReceiveTimesOut ==
    /\ pc = "take"
    /\ pc' = "idle"
    /\ UNCHANGED <<mode, brokerVars, channelVars, closed, listener, current,
                   expired, deliveredVars, ackVars, taskVars, startTasks,
                   transactionVars, ending, closing, applicationVars>>

\* dequeue: a message that was redelivered too often is poisoned and the next
\* one taken.
Dequeue ==
    LET m == Head(unconsumed) IN
    /\ pc = "take"
    /\ running
    /\ unconsumed # <<>>
    /\ unconsumed' = Tail(unconsumed)
    /\ IF PolicyExceeded(m)
       THEN SetBroker({m}, "dlq") /\ UNCHANGED consumeVars
       ELSE /\ pc' = "before"
            /\ current' = m
            /\ expired' \in MayBeExpired(m)
            /\ UNCHANGED broker
    /\ UNCHANGED <<mode, reported, sessionQueue, running, closed, listener,
                   deliveredVars, ackVars, taskVars, startTasks,
                   transactionVars, ending, closing, applicationVars>>

\* beforeMessageIsConsumed
BeforeMessageIsConsumed ==
    /\ pc = "before"
    /\ delivered' = IF AutoBatch THEN delivered
                                 ELSE <<current>> \o delivered
    /\ IF Transacted
       THEN /\ AckLater("delivered", current)
            /\ inTransaction' = TRUE
            /\ registered' = TRUE
       ELSE UNCHANGED <<brokerVars, ackVars, inTransaction, registered>>
    /\ pc' = IF expired \/ ~listener THEN "after" ELSE "application"
    /\ handed' = handed \cup {current}
    /\ UNCHANGED <<mode, channelVars, closed, listener, current, expired,
                   redeliveries, audit, taskVars, startTasks, closeRegistered,
                   ending, closing, settled, missed, forgotten>>

ListenerReturns ==
    /\ listener
    /\ InApplication
    /\ pc' = "after"
    /\ UNCHANGED <<mode, brokerVars, channelVars, closed, listener, current,
                   expired, deliveredVars, ackVars, taskVars, startTasks,
                   transactionVars, ending, closing, applicationVars>>

\* The application has had its message and not given it back: in the
\* automatic modes it is done with it, as is everybody when it has expired.
Settle ==
    /\ settled' = settled \cup ({current} \cap handed)
    /\ handed' = handed \ {current}

\* An expired message is acknowledged at once; receive looks for the next.
ExpiredIsConsumed ==
    /\ pc = "after"
    /\ expired
    /\ SetBroker({current} \cap InRange(1, MaxMessages), "expired")
    /\ delivered' = SelectSeq(delivered, LAMBDA m : m # current)
    /\ Settle
    /\ pc' = IF listener THEN "idle" ELSE "take"
    /\ UNCHANGED <<mode, reported, channelVars, closed, listener, current,
                   expired, redeliveries, audit, ackVars, taskVars, startTasks,
                   transactionVars, ending, closing, missed, forgotten>>

\* isTimeForOptimizedAck, the first test.
EnoughForOptimizedAck ==
    100 * (ackCounter + 1 + deliveredCounter) >= 65 * Prefetch

\* The ack for all delivered messages, unless deliverAcks is under way.
AckEach(late) ==
    /\ Settle
    /\ UNCHANGED <<reported, pendingAck, deliveredCounter>>
    /\ IF deliveringAcks \/ delivered = <<>>
       THEN UNCHANGED <<broker, delivered, ackCounter>>
       ELSE IF mode = "auto" \/ EnoughForOptimizedAck \/ late
       THEN /\ SetBroker(AllDelivered(delivered), "consumed")
            /\ delivered' = <<>>
            /\ ackCounter' = 0
       ELSE ackCounter' = ackCounter + 1 /\ UNCHANGED <<broker, delivered>>

\* Whether the application has not acknowledged the message itself.
UnackedByConsumer == current \in ToSet(delivered)

AfterMessageIsConsumed ==
    /\ pc = "after"
    /\ ~expired
    /\ pc' = "idle"
    /\ \/ /\ Transacted \/ (ClientOrIndividual /\ ~UnackedByConsumer)
          /\ UNCHANGED <<brokerVars, delivered, ackVars, handed, settled>>
       \/ /\ AutoEach
          \* the time since the last optimized ack, the second test
          /\ \E late \in IF mode = "optimized" THEN BOOLEAN ELSE {FALSE} :
                AckEach(late)
       \/ /\ AutoBatch
          /\ AckLater("consumed", current)
          /\ Settle
          /\ UNCHANGED delivered
       \/ /\ ClientOrIndividual
          /\ UnackedByConsumer
          /\ AckLater("delivered", current)
          /\ UNCHANGED <<delivered, handed, settled>>
    /\ UNCHANGED <<mode, channelVars, closed, listener, current, expired,
                   redeliveries, audit, taskVars, startTasks, transactionVars,
                   ending, closing, missed, forgotten>>

-----------------------------------------------------------------------------
(* acknowledge and rollback.                                               *)

Least(a, b) == IF a <= b THEN a ELSE b
AtLeastZero(n) == IF n < 0 THEN 0 ELSE n

\* The counters after acknowledge.
CountersAcknowledged ==
    /\ pendingAck' = NoAck
    /\ deliveredCounter' = AtLeastZero(deliveredCounter - Len(delivered))
    /\ UNCHANGED ackCounter

\* Message::acknowledge in client mode: ActiveMQSessionKernel::acknowledge.
AcknowledgeAll(list) ==
    /\ mode = "client"
    /\ InApplication
    /\ delivered # <<>>
    /\ CountersAcknowledged
    /\ SetBroker(AllDelivered(list), "consumed")
    /\ delivered' = <<>>
    /\ settled' = settled \cup handed
    /\ handed' = {}
    /\ UNCHANGED <<mode, reported, channelVars, closed, listener, consumeVars,
                   redeliveries, audit, taskVars, startTasks, transactionVars,
                   ending, closing, missed, forgotten>>

\* Mutant: the first id of the ack is that of the newest message.
AcknowledgeNewest == AcknowledgeAll(<<Head(delivered)>>)

Acknowledge == AcknowledgeAll(delivered)

AcknowledgeWith(m, acked) ==
    /\ mode = "individual"
    /\ InApplication
    /\ m \in ToSet(delivered)
    /\ SetBroker(acked, "consumed")
    /\ delivered' = SelectSeq(delivered, LAMBDA d : d # m)
    /\ settled' = settled \cup {m}
    /\ handed' = handed \ {m}
    /\ UNCHANGED <<mode, reported, channelVars, closed, listener, consumeVars,
                   redeliveries, audit, ackVars, taskVars, startTasks,
                   transactionVars, ending, closing, missed, forgotten>>

\* Mutant: a standard ack, which covers the messages before m.
AcknowledgeUpTo(m) == AcknowledgeWith(m, InRange(1, m))

\* Message::acknowledge in individual mode.
AcknowledgeOne(m) == AcknowledgeWith(m, {m})

\* With optimizeAcknowledge rollback first removes the oldest messages; the
\* list shrinks under the loop's test, which stops half way.
RemovedFirst ==
    IF mode # "optimized" THEN 0
    ELSE Least(ackCounter, (Len(delivered) + 1) \div 2)

\* The channel holds queue: with a listener it is redispatched.
Redispatch(queue) ==
    IF listener
    THEN unconsumed' = <<>> /\ sessionQueue' = queue \o sessionQueue
    ELSE unconsumed' = queue /\ UNCHANGED sessionQueue

PutBackAs(queue, delay) ==
    /\ Redispatch(queue \o unconsumed)
    /\ running' = (delay = 0 /\ ~closed)
    /\ startTasks' = IF delay > 0 /\ ~closed THEN startTasks + 1
                                             ELSE startTasks

\* Mutant: the newest message comes first.
PutBackNewestFirst(list, delay) == PutBackAs(list, delay)

\* The messages of list are put back and the channel stopped; it is started
\* at once or by a StartConsumerTask.
PutBack(list, delay) == PutBackAs(Reverse(list), delay)

\* Mutant: the policy is asked about the oldest message.
PolicyMessageOldest(list) == Last(list)

\* The message whose redeliveryCounter decides.
PolicyMessage(list) == Head(list)

\* ActiveMQConsumerKernel::rollback of the messages of list, where count is
\* the deliveredCounter it starts from.
RollbackMessages(list, count, delay) ==
    IF list = <<>>
    THEN /\ deliveredCounter' = count
         /\ UNCHANGED <<broker, channelVars, startTasks, redeliveries>>
    ELSE /\ redeliveries' = [m \in Messages |->
                IF m \in ToSet(list) THEN redeliveries[m] + 1
                                     ELSE redeliveries[m]]
         /\ deliveredCounter' = count - Len(list)
         /\ IF redeliveries'[PolicyMessage(list)] > MaxRedeliveries
            THEN /\ SetBroker(AllDelivered(list), "dlq")
                 /\ Redispatch(unconsumed)
                 /\ UNCHANGED <<running, startTasks>>
            ELSE PutBack(list, delay) /\ UNCHANGED broker

Rollback(count, delay) ==
    LET left == Len(delivered) - RemovedFirst
        kept == SubSeq(delivered, 1, left) IN
    /\ RollbackMessages(kept, count, delay)
    /\ delivered' = <<>>
    /\ RollbackDuplicate(delivered)
    /\ handed' = handed \ ToSet(kept)
    /\ settled' = settled \ ToSet(kept)
    /\ forgotten' =
          forgotten \cup {delivered[i] : i \in left + 1 .. Len(delivered)}

\* ActiveMQSessionKernel::recover
Recover(delay) ==
    /\ ~Transacted
    /\ InApplication
    /\ ~closed
    /\ delivered # <<>>
    /\ Rollback(deliveredCounter, delay)
    /\ UNCHANGED <<mode, reported, closed, listener, consumeVars, pendingAck,
                   ackCounter, taskVars, transactionVars, ending, closing,
                   missed>>

\* The listener throws; in the other modes that is as if it returned.
ListenerThrows(delay) ==
    /\ listener
    /\ InApplication
    /\ AutoEach \/ AutoBatch \/ mode = "individual"
    /\ pc' = "idle"
    /\ Rollback(deliveredCounter, delay)
    /\ UNCHANGED <<mode, reported, closed, listener, current, expired,
                   pendingAck, ackCounter, taskVars, transactionVars, ending,
                   closing, missed>>

\* StartConsumerTask
StartConsumer ==
    /\ startTasks > 0
    /\ startTasks' = startTasks - 1
    /\ running' = (running \/ ~closed)
    /\ UNCHANGED <<mode, brokerVars, sessionQueue, unconsumed, closed,
                   listener, consumeVars, deliveredVars, ackVars, taskVars,
                   transactionVars, ending, closing, applicationVars>>

-----------------------------------------------------------------------------
(* The end of a transaction: beforeEnd, the request, afterCommit or        *)
(* afterRollback of the synchronizations.                                  *)

\* The synchronizations that are registered.
Synchronizations ==
    {s \in {"transaction", "close"} :
        IF s = "close" THEN closeRegistered /\ ~closed ELSE registered}

\* beforeEnd acknowledges in the transaction if the consumer has a
\* synchronization; then the request is sent, and afterwards the
\* synchronizations run.
EndTransaction(result) ==
    /\ Transacted
    /\ InApplication
    /\ inTransaction
    /\ inTransaction' = FALSE
    /\ registered' = FALSE
    /\ ending' = [result |-> result, synchronizations |-> Synchronizations]
    /\ IF registered /\ delivered # <<>>
       THEN CountersAcknowledged
       ELSE UNCHANGED ackVars
    /\ UNCHANGED <<mode, reported, channelVars, closed, listener, consumeVars,
                   deliveredVars, taskVars, startTasks, closeRegistered,
                   closing, missed, forgotten>>

Commit ==
    /\ EndTransaction("commit")
    /\ SetBroker(AllDelivered(delivered), "consumed")
    /\ settled' = settled \cup handed
    /\ handed' = {}

\* The application rolls back, or the broker refuses the commit.
RollbackTransaction ==
    /\ EndTransaction("rollback")
    /\ UNCHANGED <<broker, handed, settled>>

Ran(s) == ending' = [ending EXCEPT !.synchronizations = @ \ {s}]

AfterCommitKeeps(list) ==
    /\ "transaction" \in ending.synchronizations
    /\ ending.result = "commit"
    /\ Ran("transaction")
    /\ delivered' = list
    /\ UNCHANGED <<mode, brokerVars, channelVars, closed, listener,
                   consumeVars, redeliveries, audit, ackVars, taskVars,
                   startTasks, transactionVars, closing, applicationVars>>

\* Mutant: the delivered messages stay in the list.
AfterCommitKeepsAll == AfterCommitKeeps(delivered)

\* afterCommit of the TransactionSynchronization: commit.
AfterCommit == AfterCommitKeeps(<<>>)

\* afterRollback of the TransactionSynchronization: rollback.
AfterRollback(delay) ==
    /\ "transaction" \in ending.synchronizations
    /\ ending.result = "rollback"
    /\ Ran("transaction")
    /\ Rollback(deliveredCounter, delay)
    /\ UNCHANGED <<mode, reported, closed, listener, consumeVars, pendingAck,
                   ackCounter, taskVars, transactionVars, closing, missed>>

-----------------------------------------------------------------------------
(* Closing.                                                                *)

\* The end of dispose, and the RemoveInfo: the broker takes back what it has
\* not been told to remove.
CloseChannel ==
    /\ closed' = TRUE
    /\ running' = FALSE
    /\ unconsumed' = <<>>
    /\ RollbackDuplicate(unconsumed)
    /\ SetBroker(InRange(1, MaxMessages), "released")

\* afterCommit and afterRollback of the CloseSynchronization: doClose.
CloseAfterTransaction ==
    /\ "close" \in ending.synchronizations
    /\ Ran("close")
    /\ CloseChannel
    /\ UNCHANGED <<mode, reported, sessionQueue, listener, consumeVars,
                   delivered, redeliveries, ackVars, taskVars, startTasks,
                   transactionVars, closing, applicationVars>>

\* A receiving application closes between two receives, one with a listener
\* at any time.
MayClose == ~closed /\ closing = "no" /\ (listener \/ InApplication)

\* close leaves it to the transaction to close the consumer, once.
CloseIsLeft == delivered # <<>> /\ inTransaction /\ ~closeRegistered

RegisterClose ==
    /\ MayClose
    /\ CloseIsLeft
    /\ closeRegistered' = TRUE
    /\ UNCHANGED <<mode, brokerVars, channelVars, closed, listener,
                   consumeVars, deliveredVars, ackVars, taskVars, startTasks,
                   inTransaction, registered, ending, closing,
                   applicationVars>>

\* deliverAcks: the ack is given to the executor, unless one is under way.
AckToDeliver ==
    IF AutoEach THEN AllDelivered(delivered)
    ELSE IF pendingAck.type = "consumed"
         THEN InRange(pendingAck.first, pendingAck.last)
         ELSE {}

DeliverAcks ==
    IF deliveringAcks \/ AckToDeliver = {}
    THEN UNCHANGED <<taskVars, delivered, pendingAck, ackCounter>>
    ELSE /\ deliveringAcks' = TRUE
         /\ ackTask' = AckToDeliver
         /\ IF AutoEach
            THEN /\ delivered' = <<>>
                 /\ ackCounter' = 0
                 /\ UNCHANGED pendingAck
            ELSE pendingAck' = NoAck /\ UNCHANGED <<delivered, ackCounter>>

\* OptimizedAckTask
OptimizedAck ==
    /\ mode = "optimized"
    /\ ~closed
    /\ closing = "no"
    /\ DeliverAcks
    /\ UNCHANGED <<mode, brokerVars, channelVars, closed, listener,
                   consumeVars, redeliveries, audit, deliveredCounter,
                   startTasks, transactionVars, ending, closing,
                   applicationVars>>

\* AsyncMessageAckTask
SendAck ==
    /\ deliveringAcks
    /\ SetBroker(ackTask \cap InRange(1, MaxMessages), "consumed")
    /\ deliveringAcks' = FALSE
    /\ ackTask' = {}
    /\ UNCHANGED <<mode, reported, channelVars, closed, listener, consumeVars,
                   deliveredVars, ackVars, startTasks, transactionVars, ending,
                   closing, applicationVars>>

\* doClose, dispose.
Close ==
    /\ MayClose
    /\ ~CloseIsLeft
    /\ closing' = "flush"
    /\ IF Transacted
       THEN UNCHANGED <<taskVars, delivered, pendingAck, ackCounter>>
       ELSE DeliverAcks
    /\ UNCHANGED <<mode, brokerVars, channelVars, closed, listener,
                   consumeVars, redeliveries, audit, deliveredCounter,
                   startTasks, transactionVars, ending, applicationVars>>

\* The executor has terminated; the list is cleared.
CloseClears ==
    /\ closing = "flush"
    /\ ~deliveringAcks
    /\ closing' = "clear"
    /\ delivered' = IF Transacted THEN delivered ELSE <<>>
    /\ RollbackDuplicate(IF ClientOrIndividual THEN delivered ELSE <<>>)
    /\ UNCHANGED <<mode, brokerVars, channelVars, closed, listener,
                   consumeVars, redeliveries, ackVars, taskVars, startTasks,
                   transactionVars, ending, applicationVars>>

\* The channel's lock is free when no listener is called.
CloseEnds ==
    /\ closing = "clear"
    /\ pc = "idle"
    /\ ending.synchronizations = {}
    /\ closing' = "no"
    /\ CloseChannel
    /\ UNCHANGED <<mode, reported, sessionQueue, listener, consumeVars,
                   delivered, redeliveries, ackVars, taskVars, startTasks,
                   transactionVars, ending, applicationVars>>

-----------------------------------------------------------------------------
\* setMessageListener: the session is stopped, what is in the consumer's
\* channel redispatched, and the session and its consumers are started.
SetMessageListener ==
    /\ ~listener
    /\ ~closed
    /\ InApplication
    /\ closing = "no"
    /\ listener' = TRUE
    /\ missed' = ToSet(unconsumed)
    /\ unconsumed' = <<>>
    /\ sessionQueue' = unconsumed \o sessionQueue
    /\ running' = TRUE
    /\ UNCHANGED <<mode, brokerVars, closed, consumeVars, deliveredVars,
                   ackVars, taskVars, startTasks, transactionVars, ending,
                   closing, handed, settled, forgotten>>

Next ==
    \/ \E m \in Messages :
          \/ BrokerDispatch(m)
          \/ CallListener(m)
          \/ Enqueue(m)
          \/ SuppressDuplicate(m)
          \/ AcknowledgeOne(m)
    \/ Receive
    \/ ReceiveTimesOut
    \/ Dequeue
    \/ BeforeMessageIsConsumed
    \/ ListenerReturns
    \/ ExpiredIsConsumed
    \/ AfterMessageIsConsumed
    \/ Acknowledge
    \/ \E delay \in Delays :
          \/ Recover(delay)
          \/ ListenerThrows(delay)
          \/ AfterRollback(delay)
    \/ StartConsumer
    \/ Commit
    \/ RollbackTransaction
    \/ AfterCommit
    \/ CloseAfterTransaction
    \/ RegisterClose
    \/ OptimizedAck
    \/ SendAck
    \/ Close
    \/ CloseClears
    \/ CloseEnds
    \/ SetMessageListener

Spec == Init /\ [][Next]_vars

-----------------------------------------------------------------------------
(* Properties.                                                             *)

TypeOK ==
    /\ mode \in Modes
    /\ broker \in [Messages -> BrokerStates]
    /\ reported \subseteq Messages
    /\ sessionQueue \in Seq(Messages)
    /\ unconsumed \in Seq(Messages)
    /\ delivered \in Seq(Messages)
    /\ redeliveries \in [Messages -> Nat]
    /\ \/ pendingAck = NoAck
       \/ pendingAck \in [type : {"delivered", "consumed"},
                          first : Messages, last : Messages]
    /\ deliveredCounter \in Int
    /\ ackCounter \in Nat
    /\ pc \in {"idle", "take", "before", "application", "after"}

\* The messages an ack is pending for.
InPendingAck ==
    IF pendingAck.type = "consumed"
    THEN InRange(pendingAck.first, pendingAck.last) ELSE {}

AtBroker(state) == {m \in Messages : broker[m] = state}

\* No ack covers a message that the application is not done with: the broker
\* removes only what was committed, or acknowledged by the application.  In
\* the automatic modes it removes nothing that was not handed out; there a
\* close, an optimized ack or a batch may come before the listener returns.
ConsumedIsSettled ==
    AtBroker("consumed") \subseteq
        settled \cup (IF AutoEach \/ AutoBatch THEN handed ELSE {})

\* What the application is done with is removed at the broker, or an ack for
\* it is under way, until the consumer is closed.  The rollback of an
\* optimized consumer forgets some.
SettledIsConsumed ==
    (closing = "no" /\ ~closed) =>
        settled \subseteq AtBroker("consumed") \cup AtBroker("expired")
                          \cup ToSet(delivered) \cup InPendingAck
                          \cup ackTask \cup forgotten

\* A message the broker has removed is not handed to the application again.
RemovedNotRepeated ==
    \A m \in ToSet(unconsumed) \cup ToSet(sessionQueue) :
        broker[m] \in {"dispatched", "released"}

\* The application gets the messages in the order of the broker, through all
\* rollbacks and delayed redeliveries.
InOrder ==
    LET all == Reverse(delivered) \o unconsumed \o sessionQueue IN
    ~closed => \A i, j \in 1..Len(all) : i < j => all[i] < all[j]

\* Only messages that were redelivered too often are poisoned, though one
\* message decides for all; or those that the listener missed.
PoisonedIsExhausted ==
    \A m \in AtBroker("dlq") :
        \/ redeliveries[m] > MaxRedeliveries
        \/ m \in Exhausted
        \/ m \in missed

\* The application waits, nothing is on its way to it, and the broker has
\* messages it does not send.
Stalled ==
    /\ pc = "take" \/ (listener /\ pc = "idle")
    /\ ~closed
    /\ closing = "no"
    /\ unconsumed = <<>>
    /\ sessionQueue = <<>>
    /\ ~deliveringAcks
    /\ AtBroker("queued") # {}
    /\ ~WindowOpen

\* The acks of the messages that are consumed keep the window open.  There
\* are four exceptions: an optimized consumer's rollback forgot messages, so
\* that they stay dispatched; messages were poisoned; a topic's listener
\* threw, on messages nobody acknowledges; or there was a rollback outside of
\* a transaction.  It and the poisoning take from deliveredCounter what had
\* not been added to it, so that the next ack comes too late.
WindowKeptOpen ==
    Stalled => \/ forgotten # {}
               \/ AtBroker("dlq") # {}
               \/ AutoBatch /\ handed # {}
               \/ ~Transacted /\ \E m \in Messages : redeliveries[m] > 0
=============================================================================
