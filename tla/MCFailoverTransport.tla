------------------------ MODULE MCFailoverTransport ------------------------
(***************************************************************************)
(* Instances of FailoverTransport for TLC: a command is named by its kind; *)
(* limits on the attempts; the ConnectionControls of a two-broker network. *)
(***************************************************************************)
EXTENDS FailoverTransport

KindOf == [c \in Commands |-> c]

\* maxReconnectAttempts: unlimited; two; unlimited, or none once connected.
Unlimited == {[max |-> -1, startup |-> -1]}
TwoAttempts == {[max |-> 2, startup |-> -1]}
NoneOrAny == Unlimited \cup {[max |-> 0, startup |-> 2]}

\* Move to the other broker; move to the one in use; the other broker alone,
\* or both, with and without a rebalance.
Move(u) == [reconnectTo |-> u, brokers |-> {}, rebalance |-> FALSE]
Known(us, r) == [reconnectTo |-> 0, brokers |-> us, rebalance |-> r]
BrokerControls == {Move(1), Move(2), Known({2}, TRUE), Known({1, 2}, FALSE)}
=============================================================================
