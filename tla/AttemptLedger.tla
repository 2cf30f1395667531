---------------------------- MODULE AttemptLedger ----------------------------
(***************************************************************************)
(* What the migration queue promises about validation attempts and         *)
(* certification, with nothing of how it keeps the promise: attempts are   *)
(* spent and never come back, a spent allowance or a hold stops a task     *)
(* until a warrant for more is used up, and only a task within its         *)
(* allowance is ever certified again, whatever the ledger it takes over    *)
(* has certified.                                                          *)
(***************************************************************************)
EXTENDS Naturals

CONSTANTS Task, Warrant, BaseLimit

VARIABLES
  spent,      \* attempts charged to each task over its lifetime
  limit,      \* attempts it may be charged
  hold,       \* an authorization hold
  certified,  \* its repair stands as independently reviewed
  used        \* warrants used up

vars == <<spent, limit, hold, certified, used>>

Init ==
  /\ spent \in [Task -> Nat]
  /\ limit = [t \in Task |-> BaseLimit]
  /\ hold = [t \in Task |-> FALSE]
  /\ certified \in [Task -> BOOLEAN]
  /\ used = {}

Spend(t) ==
  /\ ~hold[t] /\ ~certified[t]
  /\ spent[t] < limit[t]
  /\ spent' = [spent EXCEPT ![t] = @ + 1]
  /\ UNCHANGED <<limit, hold, certified, used>>

Certify(t) ==
  /\ ~hold[t] /\ ~certified[t]
  /\ spent[t] <= limit[t]
  /\ certified' = [certified EXCEPT ![t] = TRUE]
  /\ UNCHANGED <<spent, limit, hold, used>>

Revoke(t) ==
  /\ certified[t]
  /\ certified' = [certified EXCEPT ![t] = FALSE]
  /\ hold' \in {hold, [hold EXCEPT ![t] = TRUE]}
  /\ UNCHANGED <<spent, limit, used>>

(* Authorization takes a warrant that was not used before.  It may charge  *)
(* the attempts of a linked lineage, leaves some attempts to spend, and    *)
(* alone lifts a hold.                                                     *)
Authorize(t) ==
  /\ ~certified[t]
  /\ \E w \in Warrant \ used : used' = used \cup {w}
  /\ spent' = [spent EXCEPT ![t] = spent'[t]]
  /\ limit' = [limit EXCEPT ![t] = limit'[t]]
  /\ spent'[t] >= spent[t]
  /\ limit'[t] > spent'[t]
  /\ hold' = [hold EXCEPT ![t] = FALSE]
  /\ UNCHANGED certified

Next == \E t \in Task : Spend(t) \/ Certify(t) \/ Revoke(t) \/ Authorize(t)

Spec == Init /\ [][Next]_vars
=============================================================================
