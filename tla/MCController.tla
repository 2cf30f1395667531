----------------------------- MODULE MCController -----------------------------
(* Small instances of Controller for TLC.                                  *)
EXTENDS Controller, TLC

CONSTANTS foundation, own, theirs, run, t1, t2, t3

(* A unit of the schema foundation, in its queue, and one that depends on  *)
(* it and is the controller's.                                             *)
MCTasksOf == [u \in Unit |-> IF u = foundation THEN {t1} ELSE Task \ {t1}]
MCDependsOn == [u \in Unit |-> IF u = foundation THEN {} ELSE {foundation} \cap Unit]
Symmetry == Permutations(Task \ {t1})
=============================================================================
