----------------------------- MODULE PlanProofs -----------------------------
(***************************************************************************)
(* Proofs about the two plans.  The controller's batches respect every     *)
(* dependency and refuse exactly the cyclic plans, however many units      *)
(* there are; the loader's column plan lets a load begin exactly when      *)
(* every column of the snapshot is kept, whatever the names, the mapping   *)
(* and the schema.                                                         *)
(***************************************************************************)
EXTENDS ColumnPlan, WorkPlan, FiniteSetTheorems, TLAPS

-----------------------------------------------------------------------------
(* Sequences that grow                                                     *)

(* What appending leaves alone and what it adds (levels.append,            *)
(* batches.append).                                                        *)
LEMMA Appended ==
  ASSUME NEW S, NEW s \in Seq(S), NEW e \in S
  PROVE  /\ Append(s, e) \in Seq(S)
         /\ Len(s) \in Nat /\ DOMAIN s = 1..Len(s)
         /\ DOMAIN Append(s, e) = 1..(Len(s) + 1)
         /\ \A i \in 1..Len(s) : Append(s, e)[i] = s[i]
         /\ Append(s, e)[Len(s) + 1] = e
OBVIOUS

-----------------------------------------------------------------------------
(* The levels: the inductive invariant                                     *)

(* Types of the controller's planning (topo_levels, build_batches).        *)
WorkType ==
  /\ plan \in WorkPlans
  /\ indeg \in [Units -> Nat]
  /\ ready \in SUBSET Units
  /\ placed \in Nat
  /\ levels \in Seq(SUBSET Units)
  /\ batches \in Seq([level : Nat, units : SUBSET Units])
  /\ stage \in {"levels", "cyclic", "cutting", "written"}

Placed == UNION {levels[l] : l \in DOMAIN levels}

(* No unit is in two levels, and what it depends on is in earlier ones.    *)
LevelsAreOrdered ==
  /\ \A l, m \in DOMAIN levels : l # m => levels[l] \cap levels[m] = {}
  /\ \A l \in DOMAIN levels : \A u \in levels[l] : \A d \in Deps(u) :
       \E m \in 1..(l - 1) : d \in levels[m]

(* The counters say what they are meant to: how many units the levels      *)
(* have, how many dependencies a unit is missing, which miss none.         *)
CountersAreRight ==
  /\ placed = Cardinality(Placed)
  /\ \A u \in Units : indeg[u] = Cardinality(Deps(u) \ Placed)
  /\ ready = {u \in Units \ Placed : Deps(u) \subseteq Placed}

(* Among the units of the levels none wait for each other.                 *)
PlacedIsAcyclic == \A s \in (SUBSET Placed) \ {{}} : \E u \in s : Deps(u) \cap s = {}

(* The loop ends with nothing left, or with a cycle.                       *)
LevelsEnd ==
  /\ stage # "levels" => ready = {}
  /\ stage = "cyclic" => Placed # Units
  /\ stage \in {"cutting", "written"} => Placed = Units

LevelInv == LevelsAreOrdered /\ CountersAreRight /\ PlacedIsAcyclic /\ LevelsEnd

(* Every batch is part of a level.                                         *)
BatchesAreCut ==
  /\ stage \in {"levels", "cyclic"} => batches = <<>>
  /\ \A b \in DOMAIN batches :
       /\ batches[b].level \in DOMAIN levels
       /\ batches[b].units \subseteq levels[batches[b].level]

(* The batches' part of the property.                                      *)
BatchesAreGood ==
  /\ \A b \in DOMAIN batches :
       /\ Cardinality(batches[b].units) \in 1..plan.maxBatch
       /\ \A c \in 1..(b - 1) : batches[b].units \cap batches[c].units = {}
       /\ \A u \in batches[b].units : \A d \in Deps(u) : \E c \in 1..(b - 1) :
            d \in batches[c].units /\ batches[c].level < batches[b].level
  /\ stage = "written" => Cut = Units

WorkInv == WorkType /\ LevelInv /\ BatchesAreCut /\ BatchesAreGood

-----------------------------------------------------------------------------
(* The levels: initially and step by step                                  *)

(* A plan has finitely many units, numbers all (work-units.json).          *)
LEMMA PlanFacts ==
  ASSUME plan \in WorkPlans
  PROVE  /\ IsFiniteSet(Units) /\ Units \subseteq Nat
         /\ \A u \in Units : plan.family[u] \in Nat
         /\ plan.maxBatch \in Nat \ {0}
         /\ \A s \in SUBSET Units : IsFiniteSet(s) /\ Cardinality(s) \in Nat
<1>1. IsPlan(plan)
  BY WorkPlansAssumption
<1>2. IsFiniteSet(Units) /\ Units \subseteq Nat /\ plan.maxBatch \in Nat \ {0}
  BY <1>1 DEF IsPlan, Units
<1>3. \A u \in Units : plan.family[u] \in Nat
  BY <1>1 DEF IsPlan, Units
<1>4. \A s \in SUBSET Units : IsFiniteSet(s) /\ Cardinality(s) \in Nat
  BY <1>2, FS_Subset, FS_CardinalityType
<1> QED
  BY <1>2, <1>3, <1>4

(* Before the first turn of the loops (topo_levels).                       *)
LEMMA WorkStart == WorkInit => WorkInv
<1> SUFFICES ASSUME WorkInit PROVE WorkInv
  OBVIOUS
<1>0. plan \in WorkPlans
  BY DEF WorkInit
<1>1. \A s \in SUBSET Units : IsFiniteSet(s) /\ Cardinality(s) \in Nat
  BY <1>0, PlanFacts
<1>2. \A u \in Units : Deps(u) \in SUBSET Units
  BY DEF Deps
<1>3. Placed = {}
  BY DEF WorkInit, Placed
<1>4. \A u \in Units : indeg[u] = Cardinality(Deps(u)) /\ indeg[u] \in Nat
  BY <1>1, <1>2 DEF WorkInit
<1>5. WorkType
  <2>1. indeg \in [Units -> Nat]
    BY <1>4 DEF WorkInit
  <2> QED
    BY <2>1 DEF WorkInit, WorkType
<1>6. \A u \in Units : indeg[u] = 0 <=> Deps(u) = {}
  BY <1>1, <1>2, <1>4, FS_EmptySet
<1>7. LevelsAreOrdered /\ PlacedIsAcyclic /\ LevelsEnd /\ BatchesAreCut
  BY <1>3 DEF WorkInit, LevelsAreOrdered, PlacedIsAcyclic, LevelsEnd, BatchesAreCut
<1>8. CountersAreRight
  <2>1. placed = Cardinality(Placed)
    BY <1>3, FS_EmptySet DEF WorkInit
  <2>2. ASSUME NEW u \in Units PROVE indeg[u] = Cardinality(Deps(u) \ Placed)
    <3>1. Deps(u) \ Placed = Deps(u)
      BY <1>3
    <3> QED
      BY <1>4, <3>1
  <2>3. ready = {u \in Units \ Placed : Deps(u) \subseteq Placed}
    BY <1>3, <1>6 DEF WorkInit
  <2> QED
    BY <2>1, <2>2, <2>3 DEF CountersAreRight
<1>9. BatchesAreGood
  BY DEF WorkInit, BatchesAreGood
<1> QED
  BY <1>5, <1>7, <1>8, <1>9 DEF WorkInv, LevelInv

(* The units of the plan and their dependencies stay what they are.        *)
LEMMA PlanStays ==
  ASSUME plan' = plan
  PROVE  Units' = Units /\ \A u : Deps(u)' = Deps(u)
BY DEF Units, Deps

(* A turn of the loop adds the units that were ready.                      *)
LEMMA PlacedGrows ==
  ASSUME WorkType, PlaceLevel
  PROVE  /\ Placed' = Placed \cup ready
         /\ levels' \in Seq(SUBSET Units)
         /\ DOMAIN levels = 1..Len(levels) /\ Len(levels) \in Nat
         /\ DOMAIN levels' = 1..(Len(levels) + 1)
         /\ \A i \in 1..Len(levels) : levels'[i] = levels[i]
         /\ levels'[Len(levels) + 1] = ready
<1>1. levels \in Seq(SUBSET Units) /\ ready \in SUBSET Units
  BY DEF WorkType
<1>2. levels' = Append(levels, ready)
  BY DEF PlaceLevel
<1>3. /\ levels' \in Seq(SUBSET Units)
      /\ DOMAIN levels = 1..Len(levels) /\ Len(levels) \in Nat
      /\ DOMAIN levels' = 1..(Len(levels) + 1)
      /\ \A i \in 1..Len(levels) : levels'[i] = levels[i]
      /\ levels'[Len(levels) + 1] = ready
  BY <1>1, <1>2, Appended
<1>4. Placed' = UNION {levels'[l] : l \in DOMAIN levels'}
  BY DEF Placed
<1>5. ASSUME NEW u \in Placed' PROVE u \in Placed \cup ready
  <2>1. PICK l \in DOMAIN levels' : u \in levels'[l]
    BY <1>4
  <2>2. CASE l = Len(levels) + 1
    BY <1>3, <2>1, <2>2
  <2>3. CASE l # Len(levels) + 1
    <3>1. l \in 1..Len(levels)
      BY <1>3, <2>3
    <3> QED
      BY <1>3, <2>1, <3>1 DEF Placed
  <2> QED
    BY <2>2, <2>3
<1>6. ASSUME NEW u \in Placed PROVE u \in Placed'
  <2>1. PICK l \in DOMAIN levels : u \in levels[l]
    BY DEF Placed
  <2>2. l \in DOMAIN levels' /\ levels'[l] = levels[l]
    BY <1>3
  <2> QED
    BY <1>4, <2>1, <2>2
<1>7. ready \subseteq Placed'
  <2>1. Len(levels) + 1 \in DOMAIN levels'
    BY <1>3
  <2> QED
    BY <1>3, <1>4, <2>1
<1> QED
  BY <1>3, <1>5, <1>6, <1>7

(* Every unit of a level has its dependencies placed, and is a unit.       *)
LEMMA PlacedIsClosed ==
  ASSUME WorkType, LevelsAreOrdered
  PROVE  Placed \subseteq Units /\ \A u \in Placed : Deps(u) \subseteq Placed
<1>1. \A l \in DOMAIN levels : levels[l] \subseteq Units
  BY DEF WorkType
<1>2. DOMAIN levels = 1..Len(levels) /\ Len(levels) \in Nat
  BY DEF WorkType
<1>3. ASSUME NEW u \in Placed, NEW d \in Deps(u) PROVE d \in Placed
  <2>1. PICK l \in DOMAIN levels : u \in levels[l]
    BY DEF Placed
  <2>2. PICK m \in 1..(l - 1) : d \in levels[m]
    BY <2>1 DEF LevelsAreOrdered
  <2>3. m \in DOMAIN levels
    BY <1>2
  <2> QED
    BY <2>2, <2>3 DEF Placed
<1> QED
  BY <1>1, <1>3 DEF Placed

(* A turn of the loop keeps the levels ordered: what was ready had all its *)
(* dependencies in earlier levels (topo_levels, levels.append).            *)
LEMMA OrderedStep ==
  ASSUME WorkType, LevelsAreOrdered, CountersAreRight, PlaceLevel
  PROVE  LevelsAreOrdered'
<1>1. \A u : Deps(u)' = Deps(u)
  BY PlanStays DEF PlaceLevel
<1>2. /\ DOMAIN levels = 1..Len(levels) /\ Len(levels) \in Nat
      /\ DOMAIN levels' = 1..(Len(levels) + 1)
      /\ \A i \in 1..Len(levels) : levels'[i] = levels[i]
      /\ levels'[Len(levels) + 1] = ready
  BY PlacedGrows
<1>3. \A u \in ready : u \notin Placed /\ Deps(u) \subseteq Placed
  BY DEF CountersAreRight
<1>4. \A l \in DOMAIN levels : levels[l] \cap ready = {}
  BY <1>3 DEF Placed
<1>5. ASSUME NEW l \in DOMAIN levels', NEW m \in DOMAIN levels', l # m
      PROVE  levels'[l] \cap levels'[m] = {}
  <2>1. CASE l \in 1..Len(levels) /\ m \in 1..Len(levels)
    BY <1>2, <1>5, <2>1 DEF LevelsAreOrdered
  <2>2. CASE l = Len(levels) + 1
    <3>1. m \in 1..Len(levels)
      BY <1>2, <1>5, <2>2
    <3> QED
      BY <1>2, <1>4, <2>2, <3>1
  <2>3. CASE m = Len(levels) + 1
    <3>1. l \in 1..Len(levels)
      BY <1>2, <1>5, <2>3
    <3> QED
      BY <1>2, <1>4, <2>3, <3>1
  <2> QED
    BY <1>2, <2>1, <2>2, <2>3
<1>6. ASSUME NEW l \in DOMAIN levels', NEW u \in levels'[l], NEW d \in Deps(u)
      PROVE  \E m \in 1..(l - 1) : d \in levels'[m]
  <2>1. CASE l \in 1..Len(levels)
    <3>1. u \in levels[l]
      BY <1>2, <2>1
    <3>2. PICK m \in 1..(l - 1) : d \in levels[m]
      BY <1>2, <2>1, <3>1 DEF LevelsAreOrdered
    <3>3. m \in 1..Len(levels)
      BY <1>2, <2>1
    <3> QED
      BY <1>2, <3>2, <3>3
  <2>2. CASE l = Len(levels) + 1
    <3>1. d \in Placed
      BY <1>2, <1>3, <2>2
    <3>2. PICK m \in DOMAIN levels : d \in levels[m]
      BY <3>1 DEF Placed
    <3>3. m \in 1..(l - 1)
      BY <1>2, <2>2
    <3> QED
      BY <1>2, <3>2, <3>3
  <2> QED
    BY <1>2, <2>1, <2>2
<1> QED
  BY <1>1, <1>5, <1>6 DEF LevelsAreOrdered

(* The counting down keeps the counters right (topo_levels, the loop over  *)
(* the children).                                                          *)
LEMMA CountersStep ==
  ASSUME WorkType, LevelsAreOrdered, CountersAreRight, PlaceLevel
  PROVE  CountersAreRight' /\ indeg' \in [Units -> Nat]
<1>1. Units' = Units /\ \A u : Deps(u)' = Deps(u)
  BY PlanStays DEF PlaceLevel
<1>2. Placed' = Placed \cup ready
  BY PlacedGrows
<1>3. \A s \in SUBSET Units : IsFiniteSet(s) /\ Cardinality(s) \in Nat
  BY PlanFacts DEF WorkType
<1>4. /\ Placed \in SUBSET Units /\ ready \in SUBSET Units
      /\ \A u \in Placed : Deps(u) \subseteq Placed
      /\ \A u : Deps(u) \in SUBSET Units
  BY PlacedIsClosed DEF WorkType, Deps
<1>5. Placed \cap ready = {}
  BY DEF CountersAreRight
<1>6. placed' = Cardinality(Placed')
  <2>1. Cardinality(Placed \cup ready) = Cardinality(Placed) + Cardinality(ready) - Cardinality({})
    BY <1>3, <1>4, <1>5, FS_Union
  <2>2. Cardinality(Placed) \in Nat /\ Cardinality(ready) \in Nat
    BY <1>3, <1>4
  <2> QED
    BY <1>2, <2>1, <2>2, FS_EmptySet DEF PlaceLevel, CountersAreRight
<1>7. ASSUME NEW u \in Units
      PROVE  indeg'[u] = Cardinality(Deps(u) \ Placed') /\ indeg'[u] \in Nat
  <2>1. indeg'[u] = indeg[u] - Cardinality(Deps(u) \cap ready)
    BY DEF PlaceLevel
  <2>2. indeg[u] = Cardinality(Deps(u) \ Placed)
    BY DEF CountersAreRight
  <2>3. (Deps(u) \ Placed) \ ready = Deps(u) \ Placed' /\ (Deps(u) \ Placed) \cap ready = Deps(u) \cap ready
    BY <1>2, <1>5
  <2>4. Deps(u) \ Placed \in SUBSET Units /\ Deps(u) \ Placed' \in SUBSET Units
    BY <1>4
  <2>5. IsFiniteSet(Deps(u) \ Placed)
    BY <1>3, <2>4
  <2>6. Cardinality((Deps(u) \ Placed) \ ready)
          = Cardinality(Deps(u) \ Placed) - Cardinality((Deps(u) \ Placed) \cap ready)
    BY <2>5, FS_Difference
  <2>7. Cardinality(Deps(u) \ Placed') \in Nat
    BY <1>3, <2>4
  <2> QED
    BY <2>1, <2>2, <2>3, <2>6, <2>7
<1>8. indeg' \in [Units -> Nat]
  BY <1>7 DEF PlaceLevel
<1>9. ready' = {u \in Units \ Placed' : Deps(u) \subseteq Placed'}
  <2>1. ready' = {u \in Units : Deps(u) \cap ready # {} /\ indeg'[u] = 0}
    BY DEF PlaceLevel, Freed
  <2>2. \A u \in Units : indeg'[u] = 0 <=> Deps(u) \subseteq Placed'
    <3> TAKE u \in Units
    <3>1. Deps(u) \ Placed' \in SUBSET Units
      BY <1>4
    <3>2. indeg'[u] = 0 <=> Deps(u) \ Placed' = {}
      BY <1>3, <1>7, <3>1, FS_EmptySet
    <3> QED
      BY <3>2
  <2>3. ready = {u \in Units \ Placed : Deps(u) \subseteq Placed}
    BY DEF CountersAreRight
  <2>4. ASSUME NEW u \in ready' PROVE u \in Units \ Placed' /\ Deps(u) \subseteq Placed'
    <3>1. u \in Units /\ Deps(u) \cap ready # {} /\ Deps(u) \subseteq Placed'
      BY <2>1, <2>2
    <3>2. ~(Deps(u) \subseteq Placed)
      BY <1>5, <3>1
    <3> QED
      BY <1>2, <1>4, <2>3, <3>1, <3>2
  <2>5. ASSUME NEW u \in Units \ Placed', Deps(u) \subseteq Placed' PROVE u \in ready'
    <3>1. Deps(u) \cap ready # {}
      BY <1>2, <2>3, <2>5
    <3> QED
      BY <2>1, <2>2, <2>5, <3>1
  <2> QED
    BY <2>1, <2>4, <2>5
<1> QED
  BY <1>1, <1>6, <1>7, <1>8, <1>9 DEF CountersAreRight

(* A unit that was ready waits for nothing but what is placed, so no unit  *)
(* of the levels waits for itself through others (topo_levels).            *)
LEMMA AcyclicStep ==
  ASSUME WorkType, LevelsAreOrdered, CountersAreRight, PlacedIsAcyclic, PlaceLevel
  PROVE  PlacedIsAcyclic'
<1>1. \A u : Deps(u)' = Deps(u)
  BY PlanStays DEF PlaceLevel
<1>2. Placed' = Placed \cup ready
  BY PlacedGrows
<1>3. Placed \cap ready = {} /\ \A u \in ready : Deps(u) \subseteq Placed
  BY DEF CountersAreRight
<1>4. \A u \in Placed : Deps(u) \subseteq Placed
  BY PlacedIsClosed
<1>5. ASSUME NEW s \in (SUBSET Placed') \ {{}} PROVE \E u \in s : Deps(u) \cap s = {}
  <2>1. CASE s \cap Placed = {}
    BY <1>2, <1>3, <2>1
  <2>2. CASE s \cap Placed # {}
    <3>1. PICK u \in s \cap Placed : Deps(u) \cap (s \cap Placed) = {}
      BY <2>2 DEF PlacedIsAcyclic
    <3> QED
      BY <1>4, <3>1
  <2> QED
    BY <2>1, <2>2
<1> QED
  BY <1>1, <1>5 DEF PlacedIsAcyclic

(* The levels end with every unit in one, or some units wait for each      *)
(* other (topo_levels, `dependency cycle').                                *)
LEMMA EndStep ==
  ASSUME WorkType, LevelInv, EndLevels
  PROVE  LevelsEnd'
<1>1. Placed' = Placed /\ Units' = Units /\ ready' = ready
  BY PlanStays DEF EndLevels, Placed
<1>2. IsFiniteSet(Units) /\ Placed \in SUBSET Units
  BY PlanFacts, PlacedIsClosed DEF WorkType, LevelInv
<1>3. placed = Cardinality(Units) <=> Placed = Units
  BY <1>2, FS_Subset DEF LevelInv, CountersAreRight
<1> QED
  BY <1>1, <1>3 DEF EndLevels, LevelsEnd

(* A plan with a cycle is refused, one without is not (topo_levels).       *)
LEMMA CyclesAreFound ==
  ASSUME WorkType, LevelInv
  PROVE  /\ stage = "cyclic" => ~Acyclic
         /\ stage \in {"cutting", "written"} => Acyclic
<1>1. Placed \subseteq Units
  BY PlacedIsClosed DEF LevelInv
<1>2. ASSUME stage = "cyclic" PROVE ~Acyclic
  <2>1. Units \ Placed # {} /\ ready = {}
    BY <1>1, <1>2 DEF LevelInv, LevelsEnd
  <2>2. \A u \in Units \ Placed : Deps(u) \cap (Units \ Placed) # {}
    BY <2>1 DEF LevelInv, CountersAreRight, Deps
  <2>3. Units \ Placed \in (SUBSET Units) \ {{}}
    BY <2>1
  <2> QED
    BY <2>2, <2>3 DEF Acyclic
<1>3. ASSUME stage \in {"cutting", "written"} PROVE Acyclic
  BY <1>3 DEF LevelInv, LevelsEnd, PlacedIsAcyclic, Acyclic
<1> QED
  BY <1>2, <1>3

-----------------------------------------------------------------------------
(* The batches: what a chunk is                                            *)

(* The units are ordered strictly and totally (the key of sorted(level)).  *)
LEMMA BeforeIsAnOrder ==
  ASSUME plan \in WorkPlans
  PROVE  /\ \A u \in Units : ~Before(u, u)
         /\ \A u, v \in Units : u # v => Before(u, v) \/ Before(v, u)
         /\ \A u, v, w \in Units : Before(u, v) /\ Before(v, w) => Before(u, w)
<1>1. Units \subseteq Nat /\ \A u \in Units : plan.family[u] \in Nat
  BY PlanFacts
<1>2. ASSUME NEW u \in Units PROVE ~Before(u, u)
  <2>1. u \in Nat /\ plan.family[u] \in Nat
    BY <1>1
  <2>2. ~(u < u) /\ ~(plan.family[u] < plan.family[u])
    BY <2>1
  <2> QED
    BY <2>2 DEF Before
<1>3. \A u, v \in Units : u # v => Before(u, v) \/ Before(v, u)
  BY <1>1 DEF Before
<1>4. \A u, v, w \in Units : Before(u, v) /\ Before(v, w) => Before(u, w)
  BY <1>1 DEF Before
<1> QED
  BY <1>2, <1>3, <1>4

(* What comes before one unit of a set, and before a later one.            *)
Preceding(members, u) == {v \in members : Before(v, u)}

LEMMA PrecedingGrows ==
  ASSUME plan \in WorkPlans, NEW members \in SUBSET Units,
         NEW v \in members, NEW u \in members, Before(v, u)
  PROVE  /\ Preceding(members, v) \subseteq Preceding(members, u)
         /\ Preceding(members, v) # Preceding(members, u)
         /\ Cardinality(Preceding(members, v)) < Cardinality(Preceding(members, u))
<1>1. Preceding(members, v) \subseteq Preceding(members, u)
  BY BeforeIsAnOrder DEF Preceding
<1>2. v \in Preceding(members, u) /\ v \notin Preceding(members, v)
  BY BeforeIsAnOrder DEF Preceding
<1>3. Preceding(members, u) \in SUBSET Units /\ Preceding(members, v) \in SUBSET Units
  BY DEF Preceding
<1>4. /\ IsFiniteSet(Preceding(members, u))
      /\ Cardinality(Preceding(members, u)) \in Nat
      /\ Cardinality(Preceding(members, v)) \in Nat
  BY <1>3, PlanFacts
<1>5. /\ Cardinality(Preceding(members, v)) <= Cardinality(Preceding(members, u))
      /\ Cardinality(Preceding(members, v)) # Cardinality(Preceding(members, u))
  BY <1>1, <1>2, <1>4, FS_Subset
<1> QED
  BY <1>1, <1>2, <1>4, <1>5

(* A set of units that is not empty has a first one.                       *)
LEMMA SomeUnitIsFirst ==
  ASSUME plan \in WorkPlans, NEW members \in (SUBSET Units) \ {{}}
  PROVE  \E u \in members : Preceding(members, u) = {}
<1> DEFINE R == StrictSubsetOrdering(Units)
           T == {Preceding(members, u) : u \in members}
<1>1. IsFiniteSet(Units)
  BY PlanFacts
<1>2. IsWellFoundedOn(R, FiniteSubsetsOf(Units))
  BY FS_StrictSubsetOrderingWellFounded
<1>3. T \subseteq FiniteSubsetsOf(Units) /\ T # {}
  <2>1. FiniteSubsetsOf(Units) = SUBSET Units
    BY <1>1, FS_FiniteSubsetsOfFinite
  <2>2. \A u \in members : Preceding(members, u) \in SUBSET Units
    BY DEF Preceding
  <2> QED
    BY <2>1, <2>2
<1>4. PICK x \in T : \A y \in T : ~(<<y, x>> \in R)
  <2> HIDE DEF T, R
  <2> QED
    BY <1>2, <1>3, WFMin
<1>5. PICK u \in members : x = Preceding(members, u)
  BY <1>4
<1>6. ASSUME NEW v \in Preceding(members, u) PROVE FALSE
  <2>1. v \in members /\ Before(v, u)
    BY DEF Preceding
  <2>2. /\ Preceding(members, v) \subseteq Preceding(members, u)
        /\ Preceding(members, v) # Preceding(members, u)
    BY <2>1, PrecedingGrows
  <2>3. Preceding(members, v) \in SUBSET Units /\ Preceding(members, u) \in SUBSET Units
    BY DEF Preceding
  <2>4. <<Preceding(members, v), x>> \in R
    BY <1>5, <2>2, <2>3 DEF StrictSubsetOrdering
  <2> QED
    BY <1>4, <2>1, <2>4
<1> QED
  BY <1>6

(* A chunk takes something of what is left and never more than a batch     *)
(* may hold (build_batches, the slices of max_batch).                      *)
LEMMA ChunkSize ==
  ASSUME plan \in WorkPlans, NEW members \in (SUBSET Units) \ {{}}
  PROVE  Chunk(members) \subseteq members /\ Cardinality(Chunk(members)) \in 1..plan.maxBatch
<1> DEFINE n == plan.maxBatch
           Rank == [u \in Chunk(members) |-> Cardinality(Preceding(members, u))]
<1>1. n \in Nat \ {0} /\ \A s \in SUBSET Units : IsFiniteSet(s) /\ Cardinality(s) \in Nat
  BY PlanFacts
<1>2. Chunk(members) = {u \in members : Cardinality(Preceding(members, u)) < n}
  BY DEF Chunk, Preceding
<1>3. \A u \in members : Preceding(members, u) \in SUBSET Units
  BY DEF Preceding
<1>4. Rank \in [Chunk(members) -> 0..(n - 1)]
  BY <1>1, <1>2, <1>3
<1>5. \A u, v \in Chunk(members) : u # v => Rank[u] # Rank[v]
  <2> TAKE u, v \in Chunk(members)
  <2> HAVE u # v
  <2>1. u \in members /\ v \in members
    BY <1>2
  <2>2. Before(u, v) \/ Before(v, u)
    BY <2>1, BeforeIsAnOrder
  <2>3. \/ Cardinality(Preceding(members, u)) < Cardinality(Preceding(members, v))
        \/ Cardinality(Preceding(members, v)) < Cardinality(Preceding(members, u))
    BY <2>1, <2>2, PrecedingGrows
  <2>4. Cardinality(Preceding(members, u)) \in Nat /\ Cardinality(Preceding(members, v)) \in Nat
    BY <1>1, <1>3, <2>1
  <2> QED
    BY <2>3, <2>4
<1>6. Rank \in Injection(Chunk(members), 0..(n - 1))
  BY <1>4, <1>5 DEF Injection, IsInjective
<1>7. IsFiniteSet(0..(n - 1)) /\ Cardinality(0..(n - 1)) = n
  <2>1. 0 \in Int /\ n - 1 \in Int /\ ~(0 > n - 1) /\ (n - 1) - 0 + 1 = n
    BY <1>1
  <2> HIDE DEF n
  <2> QED
    BY <2>1, FS_Interval
<1>8. Cardinality(Chunk(members)) <= n
  <2> HIDE DEF Rank
  <2> QED
    BY <1>6, <1>7, FS_Injection
<1>9. Chunk(members) # {}
  <2>1. PICK u \in members : Preceding(members, u) = {}
    BY SomeUnitIsFirst
  <2>2. Cardinality(Preceding(members, u)) < n
    BY <1>1, <2>1, FS_EmptySet
  <2> QED
    BY <1>2, <2>2
<1>10. Chunk(members) \in SUBSET Units
  BY <1>2
<1>11. Cardinality(Chunk(members)) \in Nat /\ Cardinality(Chunk(members)) # 0
  BY <1>1, <1>9, <1>10, FS_EmptySet
<1> QED
  BY <1>1, <1>2, <1>8, <1>11

-----------------------------------------------------------------------------
(* The batches: step by step                                               *)

(* What is cut grows by a chunk of a level whose predecessors are used up  *)
(* (build_batches, the append).                                            *)
LEMMA CutGrows ==
  ASSUME WorkType, CutBatch
  PROVE  \E l \in DOMAIN levels :
           /\ Left(l) \in (SUBSET Units) \ {{}} /\ \A m \in 1..(l - 1) : Left(m) = {}
           /\ batches' \in Seq([level : Nat, units : SUBSET Units])
           /\ DOMAIN batches = 1..Len(batches) /\ Len(batches) \in Nat
           /\ DOMAIN batches' = 1..(Len(batches) + 1)
           /\ \A i \in 1..Len(batches) : batches'[i] = batches[i]
           /\ batches'[Len(batches) + 1].level = l
           /\ batches'[Len(batches) + 1].units = Chunk(Left(l))
<1>1. PICK l \in DOMAIN levels :
        /\ Left(l) # {} /\ \A m \in 1..(l - 1) : Left(m) = {}
        /\ batches' = Append(batches, [level |-> l, units |-> Chunk(Left(l))])
  BY DEF CutBatch
<1>2. levels \in Seq(SUBSET Units) /\ batches \in Seq([level : Nat, units : SUBSET Units])
  BY DEF WorkType
<1>3. l \in Nat /\ levels[l] \subseteq Units
  BY <1>2
<1>4. Left(l) \in (SUBSET Units) \ {{}}
  BY <1>1, <1>3 DEF Left
<1>5. Chunk(Left(l)) \in SUBSET Units
  BY <1>4 DEF Chunk
<1> DEFINE e == [level |-> l, units |-> Chunk(Left(l))]
<1>6. e \in [level : Nat, units : SUBSET Units] /\ e.level = l /\ e.units = Chunk(Left(l))
  BY <1>3, <1>5
<1>7. batches' = Append(batches, e)
  BY <1>1
<1> HIDE DEF e
<1>8. /\ batches' \in Seq([level : Nat, units : SUBSET Units])
      /\ DOMAIN batches = 1..Len(batches) /\ Len(batches) \in Nat
      /\ DOMAIN batches' = 1..(Len(batches) + 1)
      /\ \A i \in 1..Len(batches) : batches'[i] = batches[i]
      /\ batches'[Len(batches) + 1] = e
  BY <1>2, <1>6, <1>7, Appended
<1> QED
  BY <1>1, <1>4, <1>6, <1>8

(* A batch cut is a batch of its level and keeps the others (build_batches). *)
LEMMA CutStep ==
  ASSUME WorkType, LevelInv, BatchesAreCut, BatchesAreGood, CutBatch
  PROVE  BatchesAreCut' /\ BatchesAreGood'
<1>1. /\ UNCHANGED <<plan, levels, stage>> /\ stage = "cutting"
      /\ Units' = Units /\ \A u : Deps(u)' = Deps(u)
  BY PlanStays DEF CutBatch
<1>2. PICK l \in DOMAIN levels :
        /\ Left(l) \in (SUBSET Units) \ {{}} /\ \A m \in 1..(l - 1) : Left(m) = {}
        /\ DOMAIN batches = 1..Len(batches) /\ Len(batches) \in Nat
        /\ DOMAIN batches' = 1..(Len(batches) + 1)
        /\ \A i \in 1..Len(batches) : batches'[i] = batches[i]
        /\ batches'[Len(batches) + 1].level = l
        /\ batches'[Len(batches) + 1].units = Chunk(Left(l))
  BY CutGrows
<1>3. Chunk(Left(l)) \subseteq Left(l) /\ Cardinality(Chunk(Left(l))) \in 1..plan.maxBatch
  BY <1>2, ChunkSize DEF WorkType
<1>4. \A b \in DOMAIN batches :
        batches[b].level \in DOMAIN levels /\ batches[b].units \subseteq levels[batches[b].level]
  BY DEF BatchesAreCut
<1>5. BatchesAreCut'
  <2>1. \A b \in DOMAIN batches' :
          batches'[b].level \in DOMAIN levels /\ batches'[b].units \subseteq levels[batches'[b].level]
    <3> TAKE b \in DOMAIN batches'
    <3>1. CASE b \in 1..Len(batches)
      BY <1>2, <1>4, <3>1
    <3>2. CASE b = Len(batches) + 1
      BY <1>2, <1>3, <3>2 DEF Left
    <3> QED
      BY <1>2, <3>1, <3>2
  <2> QED
    BY <1>1, <2>1 DEF BatchesAreCut
<1>6. \A b \in DOMAIN batches : Left(l) \cap batches[b].units = {}
  BY DEF Left, Cut
<1>7. ASSUME NEW u \in Chunk(Left(l)), NEW d \in Deps(u)
      PROVE  \E c \in 1..Len(batches) : d \in batches[c].units /\ batches[c].level < l
  <2>1. u \in levels[l]
    BY <1>3 DEF Left
  <2>2. PICK m \in 1..(l - 1) : d \in levels[m]
    BY <2>1 DEF LevelInv, LevelsAreOrdered
  <2>3. d \in Cut
    BY <1>2, <2>2 DEF Left
  <2>4. PICK c \in DOMAIN batches : d \in batches[c].units
    BY <2>3 DEF Cut
  <2>5. levels \in Seq(SUBSET Units)
    BY DEF WorkType
  <2>6. m \in DOMAIN levels /\ m < l
    BY <2>2, <2>5
  <2>7. batches[c].level = m
    BY <1>4, <2>2, <2>4, <2>6 DEF LevelInv, LevelsAreOrdered
  <2> QED
    BY <1>2, <2>4, <2>6, <2>7
<1>8. ASSUME NEW b \in DOMAIN batches'
      PROVE  /\ Cardinality(batches'[b].units) \in 1..plan.maxBatch
             /\ \A c \in 1..(b - 1) : batches'[b].units \cap batches'[c].units = {}
             /\ \A u \in batches'[b].units : \A d \in Deps(u) : \E c \in 1..(b - 1) :
                  d \in batches'[c].units /\ batches'[c].level < batches'[b].level
  <2>1. CASE b \in 1..Len(batches)
    <3>1. batches'[b] = batches[b] /\ b \in DOMAIN batches
      BY <1>2, <2>1
    <3>2. \A c \in 1..(b - 1) : batches'[c] = batches[c]
      BY <1>2, <2>1
    <3> QED
      BY <3>1, <3>2 DEF BatchesAreGood
  <2>2. CASE b = Len(batches) + 1
    <3>1. batches'[b].units = Chunk(Left(l)) /\ batches'[b].level = l
      BY <1>2, <2>2
    <3>2. 1..(b - 1) = 1..Len(batches)
      BY <1>2, <2>2
    <3>3. \A c \in 1..(b - 1) : c \in DOMAIN batches /\ batches'[c] = batches[c]
      BY <1>2, <3>2
    <3>4. \A c \in 1..(b - 1) : batches'[b].units \cap batches'[c].units = {}
      BY <1>3, <1>6, <3>1, <3>3
    <3>5. \A u \in batches'[b].units : \A d \in Deps(u) : \E c \in 1..(b - 1) :
            d \in batches'[c].units /\ batches'[c].level < batches'[b].level
      BY <1>7, <3>1, <3>2, <3>3
    <3> QED
      BY <1>3, <3>1, <3>4, <3>5
  <2> QED
    BY <1>2, <2>1, <2>2
<1> QED
  BY <1>1, <1>5, <1>8 DEF BatchesAreGood

(* When no level has anything left, every unit is in a batch               *)
(* (build_batches returns).                                                *)
LEMMA WrittenStep ==
  ASSUME WorkType, LevelInv, BatchesAreCut, BatchesAreGood, WriteBatches
  PROVE  BatchesAreCut' /\ BatchesAreGood'
<1>1. /\ UNCHANGED <<plan, levels, batches>> /\ stage = "cutting" /\ stage' = "written"
      /\ Units' = Units /\ Cut' = Cut /\ \A u : Deps(u)' = Deps(u)
  BY PlanStays DEF WriteBatches, Cut
<1>2. Placed = Units
  BY <1>1 DEF LevelInv, LevelsEnd
<1>3. Placed \subseteq Cut
  BY DEF WriteBatches, Left, Placed
<1>4. Cut \subseteq Placed
  BY DEF BatchesAreCut, Cut, Placed
<1>5. Cut = Units
  BY <1>2, <1>3, <1>4
<1> QED
  BY <1>1, <1>5 DEF BatchesAreCut, BatchesAreGood

(* Nothing is cut while the levels grow, and nothing when they end.        *)
LEMMA NotYetCut ==
  ASSUME BatchesAreCut, BatchesAreGood, stage = "levels",
         PlaceLevel \/ EndLevels
  PROVE  BatchesAreCut' /\ BatchesAreGood'
<1>1. batches = <<>> /\ batches' = <<>> /\ stage' # "written"
  BY DEF BatchesAreCut, PlaceLevel, EndLevels
<1> QED
  BY <1>1 DEF BatchesAreCut, BatchesAreGood

(* Every turn of every loop keeps the invariant (topo_levels,              *)
(* build_batches).                                                         *)
LEMMA WorkStep == WorkInv /\ [WorkNext]_workVars => WorkInv'
<1> SUFFICES ASSUME WorkInv, [WorkNext]_workVars PROVE WorkInv'
  OBVIOUS
<1>0. WorkType /\ LevelInv /\ BatchesAreCut /\ BatchesAreGood
  BY DEF WorkInv
<1>1. CASE PlaceLevel
  <2>1. /\ Units' = Units /\ Placed' = Placed \cup ready
        /\ levels' \in Seq(SUBSET Units)
    BY <1>0, <1>1, PlanStays, PlacedGrows DEF PlaceLevel
  <2>2. LevelsAreOrdered' /\ CountersAreRight' /\ indeg' \in [Units -> Nat] /\ PlacedIsAcyclic'
    BY <1>0, <1>1, OrderedStep, CountersStep, AcyclicStep DEF LevelInv
  <2>3. ready' \in SUBSET Units
    BY <1>1 DEF PlaceLevel
  <2>4. placed' \in Nat
    <3>1. Cardinality(ready) \in Nat /\ placed \in Nat
      BY <1>0, PlanFacts DEF WorkType
    <3> QED
      BY <1>1, <3>1 DEF PlaceLevel
  <2>5. WorkType'
    <3>1. UNCHANGED <<plan, batches, stage>>
      BY <1>1 DEF PlaceLevel
    <3> QED
      BY <1>0, <2>1, <2>2, <2>3, <2>4, <3>1 DEF WorkType
  <2>6. LevelsEnd'
    BY <1>1 DEF LevelsEnd, PlaceLevel
  <2>7. BatchesAreCut' /\ BatchesAreGood'
    BY <1>0, <1>1, NotYetCut DEF PlaceLevel
  <2> QED
    BY <2>2, <2>5, <2>6, <2>7 DEF WorkInv, LevelInv
<1>2. CASE EndLevels
  <2>1. Units' = Units /\ Placed' = Placed /\ \A u : Deps(u)' = Deps(u)
    BY <1>2, PlanStays DEF EndLevels, Placed
  <2>2. WorkType'
    BY <1>0, <1>2, <2>1 DEF WorkType, EndLevels
  <2>3. LevelsAreOrdered' /\ CountersAreRight' /\ PlacedIsAcyclic'
    BY <1>0, <1>2, <2>1
    DEF LevelInv, LevelsAreOrdered, CountersAreRight, PlacedIsAcyclic, EndLevels
  <2>4. LevelsEnd'
    BY <1>0, <1>2, EndStep
  <2>5. BatchesAreCut' /\ BatchesAreGood'
    BY <1>0, <1>2, NotYetCut DEF EndLevels
  <2> QED
    BY <2>2, <2>3, <2>4, <2>5 DEF WorkInv, LevelInv
<1>3. CASE CutBatch
  <2>1. Units' = Units /\ Placed' = Placed /\ \A u : Deps(u)' = Deps(u)
    BY <1>3, PlanStays DEF CutBatch, Placed
  <2>2. batches' \in Seq([level : Nat, units : SUBSET Units])
    BY <1>0, <1>3, CutGrows
  <2>3. WorkType'
    BY <1>0, <1>3, <2>1, <2>2 DEF WorkType, CutBatch
  <2>4. LevelInv'
    BY <1>0, <1>3, <2>1
    DEF LevelInv, LevelsAreOrdered, CountersAreRight, PlacedIsAcyclic, LevelsEnd, CutBatch
  <2>5. BatchesAreCut' /\ BatchesAreGood'
    BY <1>0, <1>3, CutStep
  <2> QED
    BY <2>3, <2>4, <2>5 DEF WorkInv
<1>4. CASE WriteBatches
  <2>1. Units' = Units /\ Placed' = Placed /\ \A u : Deps(u)' = Deps(u)
    BY <1>4, PlanStays DEF WriteBatches, Placed
  <2>2. WorkType'
    BY <1>0, <1>4, <2>1 DEF WorkType, WriteBatches
  <2>3. LevelInv'
    BY <1>0, <1>4, <2>1
    DEF LevelInv, LevelsAreOrdered, CountersAreRight, PlacedIsAcyclic, LevelsEnd, WriteBatches
  <2>4. BatchesAreCut' /\ BatchesAreGood'
    BY <1>0, <1>4, WrittenStep
  <2> QED
    BY <2>2, <2>3, <2>4 DEF WorkInv
<1>5. CASE UNCHANGED workVars
  <2>1. Units' = Units /\ Placed' = Placed /\ Cut' = Cut /\ \A u : Deps(u)' = Deps(u)
    BY <1>5, PlanStays DEF workVars, Placed, Cut
  <2>2. WorkType'
    BY <1>0, <1>5, <2>1 DEF WorkType, workVars
  <2>3. LevelInv'
    BY <1>0, <1>5, <2>1
    DEF LevelInv, LevelsAreOrdered, CountersAreRight, PlacedIsAcyclic, LevelsEnd, workVars
  <2>4. BatchesAreCut' /\ BatchesAreGood'
    BY <1>0, <1>5, <2>1 DEF BatchesAreCut, BatchesAreGood, workVars
  <2> QED
    BY <2>2, <2>3, <2>4 DEF WorkInv
<1> QED
  BY <1>1, <1>2, <1>3, <1>4, <1>5 DEF WorkNext

(* The batches respect every dependency, whatever the plan: a plan is      *)
(* refused exactly when it is cyclic, and otherwise everything a unit      *)
(* depends on is in an earlier batch of an earlier level, no batch is too  *)
(* large, none repeats a unit and none is missing (topo_levels,            *)
(* build_batches).                                                         *)
THEOREM PlanIsCutInOrder == WorkSpec => []BatchesRespectDependencies
<1>1. WorkInv => BatchesRespectDependencies
  BY CyclesAreFound DEF WorkInv, BatchesAreGood, BatchesRespectDependencies
<1> QED
  BY <1>1, WorkStart, WorkStep, PTL DEF WorkSpec

-----------------------------------------------------------------------------
(* The column plan: names                                                  *)

(* A name is its word in its spelling.                                     *)
LEMMA SameName ==
  ASSUME NEW a \in Name, NEW b \in Name
  PROVE  a = b <=> a.word = b.word /\ (a.capitals <=> b.capitals)
<1> DEFINE S == [word : Word, capitals : BOOLEAN]
<1>1. a \in S /\ b \in S
  BY DEF Name
<1> QED
  BY <1>1

LEMMA Respelled ==
  ASSUME NEW a \in Name, NEW k \in BOOLEAN
  PROVE  /\ [a EXCEPT !.capitals = k] \in Name
         /\ [a EXCEPT !.capitals = k].word = a.word
         /\ [a EXCEPT !.capitals = k].capitals = k
<1>1. a \in [word : Word, capitals : BOOLEAN]
  BY DEF Name
<1> QED
  BY <1>1 DEF Name

(* A name is met by itself and, where it is small, by its capitals         *)
(* (resolve_name).                                                         *)
LEMMA CandidatesAre ==
  ASSUME NEW c \in Name, NEW names \in SUBSET Name
  PROVE  Candidates(c, names) = {c, [c EXCEPT !.capitals = TRUE]} \cap names
<1>1. \A s \in Name : Matches(s, c) <=> s \in {c, [c EXCEPT !.capitals = TRUE]}
  <2> TAKE s \in Name
  <2>1. Fold(s) \in Name /\ Fold(s).word = s.word /\ ~Fold(s).capitals
    BY Respelled DEF Fold
  <2>2. PICK d \in Name : d = [c EXCEPT !.capitals = TRUE] /\ d.word = c.word /\ d.capitals
    BY Respelled
  <2>3. c.capitals \in BOOLEAN /\ s.capitals \in BOOLEAN
    BY DEF Name
  <2>4. /\ s = c <=> s.word = c.word /\ (s.capitals <=> c.capitals)
        /\ Fold(s) = c <=> s.word = c.word /\ ~c.capitals
        /\ s = d <=> s.word = c.word /\ s.capitals
    BY <2>1, <2>2, SameName
  <2> QED
    BY <2>2, <2>3, <2>4 DEF Matches
<1> QED
  BY <1>1 DEF Candidates

(* There are at most two names to choose from, so finitely many.           *)
LEMMA PairIsFinite == \A a, b : IsFiniteSet({a, b})
<1> TAKE a, b
<1>1. IsFiniteSet({a} \cup {b})
  BY FS_Singleton, FS_Union
<1>2. {a} \cup {b} = {a, b}
  OBVIOUS
<1> QED
  BY <1>1, <1>2

(* A name stands for at most one of the names given, and for that one      *)
(* exactly when the rule or the mapping says so (resolve_name).            *)
LEMMA ResolvesToOne ==
  ASSUME NEW c \in Name, NEW names \in SUBSET Name, NEW explicit
  PROVE  /\ Resolved(c, names, explicit) \subseteq names
         /\ \A s, t \in Resolved(c, names, explicit) : s = t
         /\ \A s \in names : s \in Resolved(c, names, explicit) <=>
              IF explicit # Unmapped THEN explicit = s
              ELSE /\ s \in {c, [c EXCEPT !.capitals = TRUE]}
                   /\ {c, [c EXCEPT !.capitals = TRUE]} \cap names = {s}
<1> DEFINE found == Candidates(c, names)
           both == {c, [c EXCEPT !.capitals = TRUE]}
<1>1. found = both \cap names
  BY CandidatesAre
<1>2. Cardinality(found) = 1 <=> \E x : found = {x}
  <2>1. PICK d : d = [c EXCEPT !.capitals = TRUE]
    OBVIOUS
  <2>2. found \subseteq {c, d}
    BY <1>1, <2>1
  <2> HIDE DEF found
  <2>3. IsFiniteSet({c, d})
    BY PairIsFinite
  <2>4. IsFiniteSet(found)
    BY <2>2, <2>3, FS_Subset
  <2> QED
    BY <2>4, FS_Singleton
<1>3. CASE explicit # Unmapped
  BY <1>3 DEF Resolved
<1>4. CASE explicit = Unmapped
  <2>1. Resolved(c, names, explicit) = IF Cardinality(found) = 1 THEN found ELSE {}
    BY <1>4 DEF Resolved
  <2> HIDE DEF found, both
  <2>2. /\ Resolved(c, names, explicit) \subseteq names
        /\ \A s, t \in Resolved(c, names, explicit) : s = t
    BY <1>1, <1>2, <2>1
  <2>3. \A s \in names : s \in Resolved(c, names, explicit) <=> both \cap names = {s}
    BY <1>1, <1>2, <2>1
  <2>4. \A s \in names : both \cap names = {s} => s \in both
    OBVIOUS
  <2> QED
    BY <1>4, <2>2, <2>3, <2>4 DEF both
<1> QED
  BY <1>3, <1>4

(* A table has at most one target, and that is one of the schema's         *)
(* (_resolve_target_table).                                                *)
LEMMA OneTarget ==
  ASSUME NEW e \in Entry, NEW mapping, NEW schema, DOMAIN schema \subseteq Name
  PROVE  /\ TargetOf(e, mapping, schema) \subseteq DOMAIN schema
         /\ TargetOf(e, mapping, schema) # {} =>
              \E t \in DOMAIN schema : TargetOf(e, mapping, schema) = {t}
<1> DEFINE explicit == SelectSeq(mapping, LAMBDA m : m.source = e.table)
           found == {t \in DOMAIN schema : Matches(e.table, t)}
<1>1. TargetOf(e, mapping, schema) =
        IF explicit # <<>> THEN {explicit[Len(explicit)].target} \cap DOMAIN schema
        ELSE IF Cardinality(found) = 1 THEN found ELSE {}
  BY DEF TargetOf
<1>2. found \subseteq {e.table, Fold(e.table)}
  BY DEF Matches
<1>3. Cardinality(found) = 1 <=> \E x : found = {x}
  <2>1. PICK a, b : a = e.table /\ b = Fold(e.table)
    OBVIOUS
  <2> HIDE DEF found
  <2>2. IsFiniteSet({a, b})
    BY PairIsFinite
  <2>3. IsFiniteSet(found)
    BY <1>2, <2>1, <2>2, FS_Subset
  <2> QED
    BY <2>3, FS_Singleton
<1>4. found \subseteq DOMAIN schema
  OBVIOUS
<1> HIDE DEF explicit, found
<1>5. CASE explicit # <<>>
  BY <1>1, <1>5
<1>6. CASE explicit = <<>> /\ Cardinality(found) = 1
  BY <1>1, <1>3, <1>4, <1>6
<1>7. CASE explicit = <<>> /\ Cardinality(found) # 1
  BY <1>1, <1>7
<1> QED
  BY <1>5, <1>6, <1>7

-----------------------------------------------------------------------------
(* The column plan: one table                                              *)

(* Nothing speaks against the plan of a table exactly when every source    *)
(* column is carried and the server can fill the rest; and then the plan   *)
(* covers every column that is not recomputed (build_plan's loop).         *)
LEMMA TableIsKept ==
  ASSUME NEW e \in Entry, NEW spec, NEW columns,
         DOMAIN columns \subseteq Name, columns \in [DOMAIN columns -> Column]
  PROVE  LET plan1 == PlanTable(e, spec, columns) IN
         /\ plan1.blockers = {} <=> KeepsTable(e, spec, columns)
         /\ plan1.blockers = {} =>
              /\ plan1.planned
              /\ {c \in DOMAIN columns : ~columns[c].generated} = DOMAIN plan1.insert \cup plan1.auto
<1> DEFINE From(c) == Resolved(c, e.columns, ExplicitOf(spec, c))
           generated == {c \in DOMAIN columns : columns[c].generated}
           written == DOMAIN columns \ generated
           fed == {c \in written : From(c) # {}}
           auto == {c \in written \ fed : columns[c].filled}
           lost == e.columns \ UNION {From(c) : c \in fed \cup generated}
           Clear(c) == ExplicitOf(spec, c) = Unmapped /\ Candidates(c, e.columns) = {}
           unclear == {c \in generated : From(c) = {} /\ ~Clear(c)}
           missing == written \ (fed \cup auto)
           misfit == {c \in fed : \E s \in From(c) : ~Fits(s \in e.udt, columns[c].holds)}
           insert == [c \in fed |-> CHOOSE s \in From(c) : TRUE]
           blockers == {Blocker("generated_mapping", c) : c \in unclear}
                         \cup {Blocker("missing_source_column", c) : c \in missing}
                         \cup {Blocker("dropped_source_column", s) : s \in lost}
                         \cup {Blocker("type_mismatch", c) : c \in misfit}
<1>1. e.columns \in SUBSET Name
  BY DEF Entry
<1>2. ASSUME NEW c \in DOMAIN columns
      PROVE  /\ From(c) \subseteq e.columns /\ \A s, t \in From(c) : s = t
             /\ \A s \in e.columns : s \in From(c) <=> Carries(spec, e, c, s)
  <2>1. c \in Name
    OBVIOUS
  <2> QED
    BY <1>1, <2>1, ResolvesToOne DEF Carries
<1>3. PlanTable(e, spec, columns) =
        [insert |-> insert, auto |-> auto,
         planned |-> unclear \cup missing \cup lost = {}, blockers |-> blockers]
  BY DEF PlanTable
<1>4. blockers = {} <=> unclear = {} /\ missing = {} /\ lost = {} /\ misfit = {}
  <2> HIDE DEF From, unclear, missing, lost, misfit
  <2> QED
    OBVIOUS
<1>5. (\A s \in e.columns : \E c \in DOMAIN columns : Carries(spec, e, c, s)) <=> lost = {}
  <2> HIDE DEF From
  <2> QED
    BY <1>2
<1>6. ASSUME NEW c \in generated
      PROVE  (\/ \E s \in e.columns : Carries(spec, e, c, s)
              \/ (\A s \in e.columns : ~Carries(spec, e, c, s)) /\ Clear(c))
             <=> c \notin unclear
  <2> HIDE DEF From, Clear
  <2> QED
    BY <1>2
<1>7. ASSUME NEW c \in written
      PROVE  (\/ \E s \in e.columns : Carries(spec, e, c, s) /\ Fits(s \in e.udt, columns[c].holds)
              \/ (\A s \in e.columns : ~Carries(spec, e, c, s)) /\ columns[c].filled)
             <=> c \notin missing /\ c \notin misfit
  <2> HIDE DEF From
  <2>1. CASE From(c) = {}
    BY <1>2, <2>1
  <2>2. CASE From(c) # {}
    <3>1. PICK s \in e.columns : From(c) = {s} /\ Carries(spec, e, c, s)
      BY <1>2, <2>2
    <3>2. \A t \in e.columns : Carries(spec, e, c, t) => t = s
      BY <1>2, <3>1
    <3>3. c \in fed /\ (c \in misfit <=> ~Fits(s \in e.udt, columns[c].holds))
      BY <3>1
    <3> QED
      BY <3>1, <3>2, <3>3
  <2> QED
    BY <2>1, <2>2
<1>8. blockers = {} <=> KeepsTable(e, spec, columns)
  <2> DEFINE Good(c) ==
        \/ \E s \in e.columns : /\ Carries(spec, e, c, s)
                                /\ columns[c].generated \/ Fits(s \in e.udt, columns[c].holds)
        \/ /\ \A s \in e.columns : ~Carries(spec, e, c, s)
           /\ IF columns[c].generated THEN Clear(c) ELSE columns[c].filled
  <2>1. \A c \in generated : Good(c) <=> c \notin unclear
    BY <1>6
  <2>2. \A c \in written : Good(c) <=> c \notin missing /\ c \notin misfit
    BY <1>7
  <2>3. KeepsTable(e, spec, columns) <=>
          /\ \A s \in e.columns : \E c \in DOMAIN columns : Carries(spec, e, c, s)
          /\ \A c \in DOMAIN columns : Good(c)
    BY DEF KeepsTable
  <2>4. DOMAIN columns = generated \cup written
    OBVIOUS
  <2>5. unclear \subseteq generated /\ missing \subseteq written /\ misfit \subseteq written
    OBVIOUS
  <2> HIDE DEF Good, unclear, missing, misfit, generated, written, lost, blockers
  <2>6. (\A c \in DOMAIN columns : Good(c)) <=> unclear = {} /\ missing = {} /\ misfit = {}
    BY <2>1, <2>2, <2>4, <2>5
  <2> QED
    BY <1>4, <1>5, <2>3, <2>6
<1>9. missing = {} => written = DOMAIN insert \cup auto
  OBVIOUS
<1>10. written = {c \in DOMAIN columns : ~columns[c].generated}
  OBVIOUS
<1> HIDE DEF blockers, insert, auto, unclear, missing, lost, misfit, written
<1>11. PICK p : p = PlanTable(e, spec, columns)
  OBVIOUS
<1>12. /\ p.insert = insert /\ p.auto = auto /\ p.blockers = blockers
       /\ p.planned = (unclear \cup missing \cup lost = {})
  BY <1>3, <1>11
<1>13. p.blockers = {} => unclear \cup missing \cup lost = {}
  BY <1>4, <1>12
<1>14. p.blockers = {} => p.planned
  BY <1>12, <1>13
<1>15. p.blockers = {} => {c \in DOMAIN columns : ~columns[c].generated} = DOMAIN p.insert \cup p.auto
  BY <1>4, <1>9, <1>10, <1>12
<1>16. p.blockers = {} <=> KeepsTable(e, spec, columns)
  BY <1>8, <1>12
<1> QED
  BY <1>11, <1>14, <1>15, <1>16

-----------------------------------------------------------------------------
(* The column plan: the whole                                              *)

(* No file speaks against the load exactly when the export was complete    *)
(* and every file is intact (validate_manifest).                           *)
LEMMA NoFileErrors ==
  ASSUME NEW manifest, manifest.incomplete \in BOOLEAN
  PROVE  FileErrors(manifest) = {} <=>
           ~manifest.incomplete /\ \A e \in manifest.tables : e.intact
<1>1. manifest.tables \ Intact(manifest) = {} <=> \A e \in manifest.tables : e.intact
  BY DEF Intact
<1>2. {TRUE} \cap {manifest.incomplete} = {} <=> ~manifest.incomplete
  OBVIOUS
<1> DEFINE damaged == manifest.tables \ Intact(manifest)
           blocked == {TRUE} \cap {manifest.incomplete}
<1>3. FileErrors(manifest) = {} <=> damaged = {} /\ blocked = {}
  <2>1. FileErrors(manifest) = {[kind |-> "file_validation", at |-> e.table] : e \in damaged}
                       \cup {[kind |-> "export_blocker", at |-> Unmapped] : b \in blocked}
    BY DEF FileErrors
  <2> HIDE DEF damaged, blocked
  <2> QED
    BY <2>1
<1> QED
  BY <1>1, <1>2, <1>3

(* build_plan's answer is what PlansWhatItKeeps says of it, whatever it is *)
(* given.                                                                  *)
LEMMA BuildPlanKeeps ==
  ASSUME NEW i \in PlanInputs, NEW r, r = BuildPlan(i.manifest, i.mapping, i.schema)
  PROVE
    /\ r.blockers = {} <=>
         /\ ~i.manifest.incomplete
         /\ \A e \in i.manifest.tables :
              /\ e.intact
              /\ \E t \in DOMAIN i.schema :
                   /\ TargetOf(e, i.mapping, i.schema) = {t}
                   /\ KeepsTable(e, SpecOf(i.mapping, t), i.schema[t])
    /\ r.blockers = {} =>
         \A e \in i.manifest.tables : \E p \in r.plans :
           /\ p.source = e.table
           /\ {c \in DOMAIN i.schema[p.target] : ~i.schema[p.target][c].generated}
                = DOMAIN p.insert \cup p.auto
<1> DEFINE T(e) == TargetOf(e, i.mapping, i.schema)
           intact == Intact(i.manifest)
           known == {e \in intact : T(e) # {}}
           Target(e) == CHOOSE t \in T(e) : TRUE
           Table(e) == PlanTable(e, SpecOf(i.mapping, Target(e)), i.schema[Target(e)])
           Row(e) == [source |-> e.table, target |-> Target(e), insert |-> Table(e).insert,
                      auto |-> Table(e).auto]
           plans == {Row(e) : e \in {e \in known : Table(e).planned}}
           blockers == FileErrors(i.manifest)
                         \cup {Blocker("table_match", e.table) : e \in intact \ known}
                         \cup UNION {Table(e).blockers : e \in known}
<1>1. /\ i.manifest.tables \subseteq Entry /\ i.manifest.incomplete \in BOOLEAN
      /\ DOMAIN i.schema \subseteq Name
      /\ \A t \in DOMAIN i.schema :
           DOMAIN i.schema[t] \subseteq Name /\ i.schema[t] \in [DOMAIN i.schema[t] -> Column]
  BY PlanInputsAssumption DEF IsPlanInput
<1>2. r = [plans |-> plans, blockers |-> blockers]
  BY DEF BuildPlan
<1>3. r.plans = plans /\ r.blockers = blockers
  <2> HIDE DEF plans, blockers
  <2> QED
    BY <1>2
<1>4. intact = {e \in i.manifest.tables : e.intact}
  BY DEF Intact
<1>5. ASSUME NEW e \in i.manifest.tables
      PROVE  /\ T(e) # {} <=> \E t \in DOMAIN i.schema : T(e) = {t}
             /\ \A t : T(e) = {t} => Target(e) = t
  <2>1. T(e) # {} => \E t \in DOMAIN i.schema : T(e) = {t}
    BY <1>1, OneTarget
  <2> HIDE DEF T
  <2> QED
    BY <2>1
<1>6. ASSUME NEW e \in i.manifest.tables, T(e) # {}
      PROVE  /\ Target(e) \in DOMAIN i.schema /\ T(e) = {Target(e)}
             /\ Table(e).blockers = {} <=> KeepsTable(e, SpecOf(i.mapping, Target(e)), i.schema[Target(e)])
             /\ Table(e).blockers = {} =>
                  /\ Table(e).planned
                  /\ {c \in DOMAIN i.schema[Target(e)] : ~i.schema[Target(e)][c].generated}
                       = DOMAIN Table(e).insert \cup Table(e).auto
  <2>1. Target(e) \in DOMAIN i.schema /\ T(e) = {Target(e)}
    <3> HIDE DEF T
    <3> QED
      BY <1>5, <1>6
  <2>2. PICK t \in DOMAIN i.schema : t = Target(e)
    BY <2>1
  <2>3. e \in Entry /\ DOMAIN i.schema[t] \subseteq Name /\ i.schema[t] \in [DOMAIN i.schema[t] -> Column]
    BY <1>1
  <2>4. PICK spec, columns : spec = SpecOf(i.mapping, t) /\ columns = i.schema[t]
    OBVIOUS
  <2>5. Table(e) = PlanTable(e, spec, columns)
    BY <2>2, <2>4
  <2>6. LET plan1 == PlanTable(e, spec, columns) IN
         /\ plan1.blockers = {} <=> KeepsTable(e, spec, columns)
         /\ plan1.blockers = {} =>
              /\ plan1.planned
              /\ {c \in DOMAIN columns : ~columns[c].generated} = DOMAIN plan1.insert \cup plan1.auto
    BY <2>3, <2>4, TableIsKept
  <2> HIDE DEF T, Target, Table
  <2> QED
    BY <2>1, <2>2, <2>4, <2>5, <2>6
<1> HIDE DEF T, Target, Table
<1>7. blockers = {} <=> /\ FileErrors(i.manifest) = {}
                        /\ intact \ known = {}
                        /\ \A e \in known : Table(e).blockers = {}
  <2> HIDE DEF intact, known
  <2> QED
    OBVIOUS
<1>8. blockers = {} <=>
         /\ ~i.manifest.incomplete
         /\ \A e \in i.manifest.tables : e.intact /\ T(e) # {} /\ Table(e).blockers = {}
  <2>1. FileErrors(i.manifest) = {} <=>
          ~i.manifest.incomplete /\ \A e \in i.manifest.tables : e.intact
    BY <1>1, NoFileErrors
  <2> HIDE DEF blockers
  <2> QED
    BY <1>4, <1>7, <2>1
<1>9. ASSUME NEW e \in i.manifest.tables
      PROVE  T(e) # {} /\ Table(e).blockers = {} <=>
               \E t \in DOMAIN i.schema :
                 T(e) = {t} /\ KeepsTable(e, SpecOf(i.mapping, t), i.schema[t])
  <2>1. ASSUME T(e) # {}, Table(e).blockers = {}
        PROVE  \E t \in DOMAIN i.schema :
                 T(e) = {t} /\ KeepsTable(e, SpecOf(i.mapping, t), i.schema[t])
    BY <1>6, <2>1
  <2>2. ASSUME NEW t \in DOMAIN i.schema, T(e) = {t}, KeepsTable(e, SpecOf(i.mapping, t), i.schema[t])
        PROVE  T(e) # {} /\ Table(e).blockers = {}
    <3>1. Target(e) = t /\ T(e) # {}
      BY <1>5, <2>2
    <3> QED
      BY <1>6, <2>2, <3>1
  <2> QED
    BY <2>1, <2>2
<1>10. r.blockers = {} <=>
         /\ ~i.manifest.incomplete
         /\ \A e \in i.manifest.tables :
              /\ e.intact
              /\ \E t \in DOMAIN i.schema :
                   T(e) = {t} /\ KeepsTable(e, SpecOf(i.mapping, t), i.schema[t])
  <2> HIDE DEF blockers
  <2> QED
    BY <1>3, <1>8, <1>9
<1>11. ASSUME r.blockers = {}, NEW e \in i.manifest.tables
       PROVE  \E p \in r.plans :
                /\ p.source = e.table
                /\ {c \in DOMAIN i.schema[p.target] : ~i.schema[p.target][c].generated}
                     = DOMAIN p.insert \cup p.auto
  <2>1. e.intact /\ T(e) # {} /\ Table(e).blockers = {}
    <3> HIDE DEF blockers
    <3> QED
      BY <1>3, <1>8, <1>11
  <2>2. e \in known /\ Table(e).planned
    BY <1>4, <1>6, <2>1
  <2>3. PICK p : p = Row(e)
    OBVIOUS
  <2>4. p \in r.plans
    BY <1>3, <2>2, <2>3
  <2>5. /\ p.source = e.table /\ p.target = Target(e)
        /\ p.insert = Table(e).insert /\ p.auto = Table(e).auto
    BY <2>3
  <2> QED
    BY <1>6, <2>1, <2>4, <2>5
<1> QED
  BY <1>10, <1>11 DEF T

(* The load may begin exactly when nothing of the snapshot is left behind, *)
(* whatever the names, the mapping file and the schema; and then every     *)
(* table has a plan for every column the server does not recompute         *)
(* (build_plan).                                                           *)
THEOREM PlanLeavesNothingBehind == PlanSpec => []PlansWhatItKeeps
<1> DEFINE Inv == /\ input \in PlanInputs
                  /\ \/ result = Pending
                     \/ result = BuildPlan(input.manifest, input.mapping, input.schema)
<1>1. PlanInit => Inv
  BY DEF PlanInit
<1>2. Inv /\ [PlanTables]_<<input, result>> => Inv'
  BY DEF PlanTables
<1>3. Inv => PlansWhatItKeeps
  BY BuildPlanKeeps DEF PlansWhatItKeeps
<1> QED
  BY <1>1, <1>2, <1>3, PTL DEF PlanSpec
=============================================================================
