---------------------------- MODULE MCSupersession ----------------------------
(* What becomes of the credit that somebody has invalidated: Controller    *)
(* with a history of the reviews accepted since.                           *)
EXTENDS MCController

VARIABLE since   \* since[u]: tasks of u accepted since its credit was withdrawn

Withdrawn(u) ==
  /\ ledger'[u].state = "superseded_needs_fresh_review"
  /\ ledger[u].state # ledger'[u].state

Remember ==
  since' = [u \in Unit |->
    IF Withdrawn(u) THEN {}
    ELSE since[u] \cup {t \in TasksOf[u] : \E k \in Queue :
           /\ queue'[k][t] # queue[k][t] /\ queue'[k][t] # Absent
           /\ queue'[k][t].status = "reviewed" /\ queue[k][t].status # "reviewed"}]

RememberSpec == Init /\ since = [u \in Unit |-> {}] /\ [][Next /\ Remember]_<<vars, since>>

(* What supersede_unit says of superseded credit: it "Requires fresh       *)
(* validation + independent review".                                       *)
FreshReviewRequired ==
  [][\A u \in Unit :
       ledger[u].state = "superseded_needs_fresh_review" /\ ledger'[u].state = "reviewed"
         => TasksOf[u] \subseteq since[u]]_<<vars, since>>
=============================================================================
