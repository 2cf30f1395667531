------------------------------ MODULE QueueView ------------------------------
(***************************************************************************)
(* What `mt show' lets somebody else see of the tasks of one queue, and    *)
(* how it may change between two looks: the controller and the hard-case   *)
(* checklist read queues this way and hold nothing while they do.          *)
(*                                                                         *)
(* A task shows its status, the validation attempts charged to it, and,    *)
(* once reviewed, whether the evidence of the review is evidence of the    *)
(* inputs as they are now (input_sha256 equal to current_input_sha256),    *)
(* and whether the review is within its budget (review_eligible).          *)
(* No reader distinguishes `claimed' from `validating': both are "active". *)
(***************************************************************************)
EXTENDS Naturals

CONSTANT Task

VARIABLE shown   \* shown[t]: what `mt show' would answer about t

ShownStatus == {"queued", "active", "pending_review", "reviewed", "blocked"}

(* How one command changes the status of a task.                           *)
Edges ==
  { <<"queued", "active">>,                                       \* claim
    <<"active", "queued">>, <<"active", "blocked">>,              \* release
    <<"active", "active">>, <<"active", "pending_review">>,       \* validate
    <<"pending_review", "reviewed">>,                             \* review
    <<"pending_review", "queued">>, <<"pending_review", "blocked">>,
    <<"reviewed", "queued">>, <<"reviewed", "blocked">>,          \* reopen
    <<"blocked", "queued">> }                                     \* unblock, grant

(* Attempts are charged when validate opens one, or when a grant debits a  *)
(* linked lineage; only fresh evidence within budget is accepted.          *)
Moves(r, s) ==
  /\ <<r.status, s.status>> \in Edges
  /\ s.used >= r.used
  /\ s.used > r.used => <<r.status, s.status>> \in {<<"active", "active">>, <<"blocked", "queued">>}
  /\ s.status = "pending_review" => s.used > 0
  /\ s.fresh = (s.status = "reviewed")
  /\ s.eligible = (s.status = "reviewed")

(* Files are edited, or the configuration changes: the evidence goes       *)
(* stale, or is current again, and nothing else.                           *)
Drifts(r, s) == s = [r EXCEPT !.fresh = s.fresh] /\ (s.fresh => r.status = "reviewed")

(* What an older release accepted may be stale, or over its budget.        *)
Init ==
  /\ DOMAIN shown = Task
  /\ \A t \in Task :
       /\ shown[t].status \in ShownStatus
       /\ shown[t].used \in Nat
       /\ shown[t].fresh \/ shown[t].eligible => shown[t].status = "reviewed"

Next ==
  \/ \E t \in Task : shown' = [shown EXCEPT ![t] = shown'[t]] /\ Moves(shown[t], shown'[t])
  \/ DOMAIN shown' = Task /\ \A t \in Task : Drifts(shown[t], shown'[t])

Spec == Init /\ [][Next]_shown
=============================================================================
