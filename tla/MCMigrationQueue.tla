-------------------------- MODULE MCMigrationQueue --------------------------
(* Small instances of MigrationQueue for TLC.                              *)
EXTENDS MigrationQueue, FiniteSetsExt, TLC

CONSTANTS ann, annAgain   \* two spellings of one actor

MCFold == [n \in Name |-> IF n = annAgain THEN ann ELSE n]

(* A queue no older release has touched.                                   *)
FreshOnly == {NoHistory}

(* One completed attempt, a legacy reset and an interrupted attempt, as in *)
(* test_legacy_floor_counts_an_interrupted_attempt_across_a_reset; and     *)
(* tasks up for review, already accepted, or in repair, whose resets hid   *)
(* that they were over the limit.                                          *)
Upgraded ==
  {NoHistory,
   [before |-> 1, after |-> 0, counter |-> 1, status |-> "blocked"],
   [before |-> 2, after |-> 1, counter |-> 1, status |-> "pending_review"],
   [before |-> 2, after |-> 1, counter |-> 1, status |-> "reviewed"],
   [before |-> 2, after |-> 1, counter |-> 0, status |-> "claimed"]}

Symmetry == UNION {Permutations(S) : S \in {Process, Content, Schema, Approval}}
LaneSymmetry == UNION {Permutations(S) : S \in {Process, Task, Approval, Name}}
=============================================================================
