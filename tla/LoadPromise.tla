----------------------------- MODULE LoadPromise -----------------------------
(***************************************************************************)
(* What the data loader promises, with nothing of locks, transactions or   *)
(* exit codes: rows go into empty tables only, all tables of a run at once *)
(* or none, and what a run announces about its rows is true for good.      *)
(***************************************************************************)
CONSTANTS
  Run,       \* runs of the loader
  Table,
  Content,   \* Content[r]: the tables that run r brings rows for
  Other      \* anybody else who writes to the schema

VARIABLES
  rows,      \* rows[t]: whose rows table t holds
  verdict    \* what each run has announced

vars == <<rows, verdict>>

Init ==
  /\ rows \in [Table -> {{}, {Other}}]
  /\ verdict = [r \in Run |-> "pending"]

Insert(t) ==
  /\ rows[t] = {}
  /\ rows' = [rows EXCEPT ![t] = {Other}]
  /\ UNCHANGED verdict

Load(r) ==
  /\ verdict[r] = "pending"
  /\ \A t \in Content[r] : rows[t] = {}
  /\ rows' = [t \in Table |-> IF t \in Content[r] THEN {r} ELSE rows[t]]
  /\ verdict' \in {verdict, [verdict EXCEPT ![r] = "silent"]}

(* A run that ends without a word, or unsure, may or may not have loaded.  *)
Announce(r, v) ==
  /\ verdict[r] = "pending"
  /\ v = "loaded" => \A t \in Content[r] : rows[t] = {r}
  /\ v = "nothing" => \A t \in Table : r \notin rows[t]
  /\ verdict' = [verdict EXCEPT ![r] = v]
  /\ UNCHANGED rows

Next ==
  \/ \E t \in Table : Insert(t)
  \/ \E r \in Run :
       Load(r) \/ \E v \in {"loaded", "nothing", "unknown", "silent"} : Announce(r, v)

Spec == Init /\ [][Next]_vars
=============================================================================
