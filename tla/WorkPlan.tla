------------------------------ MODULE WorkPlan ------------------------------
(***************************************************************************)
(* How the controller cuts the plan into batches (full_run.py).            *)
(* topo_levels, after Kahn: a level is the units whose last missing        *)
(* dependency was in the level before; indegrees are counted down.         *)
(* build_batches: each level, sorted so that a family stays together, is   *)
(* cut into batches of bounded size.  One action per turn of each loop.    *)
(*                                                                         *)
(* Units are numbers in the order of their ids, families likewise.         *)
(***************************************************************************)
EXTENDS Naturals, FiniteSets, Sequences

CONSTANT WorkPlans   \* the plans there may be: what work-units.json may say

VARIABLES
  plan,      \* the plan that was loaded
  indeg,     \* indeg[u]: dependencies of u not in any level yet
  ready,     \* the level about to be placed
  placed,    \* how many units the levels have
  levels,    \* topo_levels' answer so far
  batches,   \* build_batches' answer so far
  stage      \* "levels", then "cyclic", or "cutting" and "written"

workVars == <<plan, indeg, ready, placed, levels, batches, stage>>

(* Of which units a plan consists, what each depends on, and the largest   *)
(* batch allowed.  A unit may depend on gates that are no unit.            *)
IsPlan(p) ==
  /\ DOMAIN p.dependsOn \subseteq Nat /\ IsFiniteSet(DOMAIN p.dependsOn)
  /\ p.family \in [DOMAIN p.dependsOn -> Nat]
  /\ p.maxBatch \in Nat \ {0}
ASSUME WorkPlansAssumption == \A p \in WorkPlans : IsPlan(p)

Units == DOMAIN plan.dependsOn

(* Only edges within the plan count; gates outside it are advisory.        *)
Deps(u) == plan.dependsOn[u] \cap Units

WorkInit ==
  /\ plan \in WorkPlans
  /\ indeg = [u \in Units |-> Cardinality(Deps(u))]
  /\ ready = {u \in Units : indeg[u] = 0}
  /\ placed = 0
  /\ levels = <<>>
  /\ batches = <<>>
  /\ stage = "levels"

(* Mutant: a unit follows the first of its dependencies.                   *)
FreedByFirst(u, left) == Deps(u) \cap ready # {}

(* The units of the next level: counted down to zero by this one.          *)
Freed(u, left) == Deps(u) \cap ready # {} /\ left = 0

PlaceLevel ==
  /\ stage = "levels" /\ ready # {}
  /\ levels' = Append(levels, ready)
  /\ placed' = placed + Cardinality(ready)
  /\ indeg' = [u \in Units |-> indeg[u] - Cardinality(Deps(u) \cap ready)]
  /\ ready' = {u \in Units : Freed(u, indeg'[u])}
  /\ UNCHANGED <<plan, batches, stage>>

(* RuntimeError("dependency cycle"), or on to the batches.                 *)
EndLevels ==
  /\ stage = "levels" /\ ready = {}
  /\ stage' = IF placed = Cardinality(Units) THEN "cutting" ELSE "cyclic"
  /\ UNCHANGED <<plan, indeg, ready, placed, levels, batches>>

-----------------------------------------------------------------------------
Before(u, v) ==
  \/ plan.family[u] < plan.family[v]
  \/ plan.family[u] = plan.family[v] /\ u < v

Cut == UNION {batches[b].units : b \in DOMAIN batches}
Left(l) == levels[l] \ Cut

(* The next chunk of a level: what has fewer than max_batch units before   *)
(* it among those that are left.                                           *)
Chunk(members) ==
  {u \in members : Cardinality({v \in members : Before(v, u)}) < plan.maxBatch}

CutBatch ==
  /\ stage = "cutting"
  /\ \E l \in DOMAIN levels :
       /\ Left(l) # {} /\ \A m \in 1..(l - 1) : Left(m) = {}
       /\ batches' = Append(batches, [level |-> l, units |-> Chunk(Left(l))])
  /\ UNCHANGED <<plan, indeg, ready, placed, levels, stage>>

WriteBatches ==
  /\ stage = "cutting" /\ \A l \in DOMAIN levels : Left(l) = {}
  /\ stage' = "written"
  /\ UNCHANGED <<plan, indeg, ready, placed, levels, batches>>

WorkNext == PlaceLevel \/ EndLevels \/ CutBatch \/ WriteBatches
WorkSpec == WorkInit /\ [][WorkNext]_workVars

-----------------------------------------------------------------------------
Acyclic == \A s \in (SUBSET Units) \ {{}} : \E u \in s : Deps(u) \cap s = {}

(* A plan is refused exactly when some units wait for each other.  If not, *)
(* no batch is larger than allowed, none repeats a unit, everything a unit *)
(* depends on is in an earlier batch of an earlier level, and in the end   *)
(* no unit is missing (topo_levels, build_batches).                        *)
BatchesRespectDependencies ==
  /\ stage = "cyclic" => ~Acyclic
  /\ stage \in {"cutting", "written"} => Acyclic
  /\ \A b \in DOMAIN batches :
       /\ Cardinality(batches[b].units) \in 1..plan.maxBatch
       /\ \A c \in 1..(b - 1) : batches[b].units \cap batches[c].units = {}
       /\ \A u \in batches[b].units : \A d \in Deps(u) : \E c \in 1..(b - 1) :
            d \in batches[c].units /\ batches[c].level < batches[b].level
  /\ stage = "written" => Cut = Units
=============================================================================
