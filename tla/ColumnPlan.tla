----------------------------- MODULE ColumnPlan -----------------------------
(***************************************************************************)
(* The column plan of a load (data_loader.py, build_plan), taken as a      *)
(* whole: a manifest, a mapping file and a schema go in, the plans and the *)
(* blockers come out.  Nothing else happens in between, nothing changes.   *)
(***************************************************************************)
EXTENDS LoadPlan

CONSTANTS
  PlanInputs,  \* what build_plan may be given
  Pending      \* it has not answered yet

(* What the files and the catalog can say; no word about what the mapping  *)
(* file says, except that it is a dictionary.                              *)
IsPlanInput(i) ==
  /\ i.kind = "plan"
  /\ i.manifest.tables \subseteq Entry /\ i.manifest.incomplete \in BOOLEAN
  /\ \A a, b \in DOMAIN i.mapping : i.mapping[a].target = i.mapping[b].target => a = b
  /\ DOMAIN i.schema \subseteq Name
  /\ \A t \in DOMAIN i.schema :
       /\ DOMAIN i.schema[t] \subseteq Name
       /\ i.schema[t] \in [DOMAIN i.schema[t] -> Column]
ASSUME PlanInputsAssumption == \A i \in PlanInputs : IsPlanInput(i)

VARIABLES input, result

PlanInit == input \in PlanInputs /\ result = Pending

PlanTables ==
  /\ input.kind = "plan" /\ result = Pending
  /\ result' = BuildPlan(input.manifest, input.mapping, input.schema)
  /\ UNCHANGED input

PlanSpec == PlanInit /\ [][PlanTables]_<<input, result>>

(* The load may begin exactly when every table of the snapshot is intact,  *)
(* has one target and is kept whole by it; and then every table has a      *)
(* plan, and each column of its target that is not recomputed either takes *)
(* a source column or is one the server fills.  No spelling, mapping or    *)
(* mixture of generated and written columns drops a source column          *)
(* unnoticed (build_plan).                                                 *)
PlansWhatItKeeps ==
  input.kind = "plan" /\ result # Pending =>
    /\ result.blockers = {} <=>
         /\ ~input.manifest.incomplete
         /\ \A e \in input.manifest.tables :
              /\ e.intact
              /\ \E t \in DOMAIN input.schema :
                   /\ TargetOf(e, input.mapping, input.schema) = {t}
                   /\ KeepsTable(e, SpecOf(input.mapping, t), input.schema[t])
    /\ result.blockers = {} =>
         \A e \in input.manifest.tables : \E p \in result.plans :
           /\ p.source = e.table
           /\ {c \in DOMAIN input.schema[p.target] : ~input.schema[p.target][c].generated}
                = DOMAIN p.insert \cup p.auto
=============================================================================
