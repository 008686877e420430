---------------------------- MODULE RequestReply ----------------------------
(***************************************************************************)
(* What a request/response transport promises to the futures it hands out. *)
(* A request is issued once.  It is answered at most once, and only while  *)
(* the transport is up; or it is failed at most once, and only after the   *)
(* transport went down.  An answer is never turned into a failure nor a    *)
(* failure into an answer, and the transport never comes up again.  A      *)
(* request whose caller gave up may stay pending for ever, so no progress  *)
(* is promised here.                                                       *)
(***************************************************************************)

CONSTANT
    \* The command ids a request can be issued under.
    Requests

VARIABLES
    \* What each request has come to.
    status,
    \* The transport has recorded an error and is unusable.
    down

rrVars == <<status, down>>

Status == {"unused", "pending", "answered", "failed"}

RRInit ==
    /\ status = [r \in Requests |-> "unused"]
    /\ down = FALSE

\* A caller creates the future of request r.
Issue(r) ==
    /\ status[r] = "unused"
    /\ status' = [status EXCEPT ![r] = "pending"]
    /\ UNCHANGED down

\* The peer's response reaches the future.
Answer(r) ==
    /\ ~down
    /\ status[r] = "pending"
    /\ status' = [status EXCEPT ![r] = "answered"]
    /\ UNCHANGED down

\* The transport fails or is closed.
GoDown ==
    /\ ~down
    /\ down' = TRUE
    /\ UNCHANGED status

\* The future is completed with the error that took the transport down.
Fail(r) ==
    /\ down
    /\ status[r] = "pending"
    /\ status' = [status EXCEPT ![r] = "failed"]
    /\ UNCHANGED down

RRNext ==
    \/ GoDown
    \/ \E r \in Requests : Issue(r) \/ Answer(r) \/ Fail(r)

RRSpec == RRInit /\ [][RRNext]_rrVars
=============================================================================
