------------------------------ MODULE MCPlans ------------------------------
(***************************************************************************)
(* The pure decisions of loader, controller and seed generator, over       *)
(* bounded inputs: the column plan of a snapshot, the value that ends up   *)
(* in a column, the batches of a plan, and the statements of the seed load.*)
(* A behaviour takes one input and computes its answer: in one step, but   *)
(* for the batches, whose loops WorkPlan takes turn by turn, and the load, *)
(* which SeedPlan takes statement by statement.                            *)
(***************************************************************************)
EXTENDS ColumnPlan, ValueMapping, WorkPlan, SeedPlan

CONSTANTS W1, W2

MCWord == {W1, W2}
small(w) == [word |-> w, capitals |-> FALSE]
CAPS(w) == [word |-> w, capitals |-> TRUE]

(***************************************************************************)
(* Snapshots and targets.  Of one table: every set of source columns, of   *)
(* up to two target columns and of explicit mappings, wrong ones included. *)
(* Of two tables: what the files, the mapping file and the schema say.     *)
(***************************************************************************)
PlainColumn == [generated |-> FALSE, filled |-> FALSE, holds |-> "plain"]
Columns == {PlainColumn, [PlainColumn EXCEPT !.filled = TRUE],
            [PlainColumn EXCEPT !.holds = "structured"], [PlainColumn EXCEPT !.generated = TRUE]}

SourceTable == [table |-> CAPS(W1), columns |-> {}, udt |-> {}, intact |-> TRUE]
Spec1(columns) == [target |-> small(W1), source |-> Unmapped, columns |-> columns]
Targets == UNION {[names -> Columns] : names \in {n \in SUBSET (Name \ {CAPS(W2)}) : Cardinality(n) \in 1..2}}
Explicit(target) == UNION {[names -> Name] : names \in SUBSET DOMAIN target}

ColumnInputs ==
  {[kind |-> "plan",
    manifest |-> [tables |-> {[SourceTable EXCEPT !.columns = names, !.udt = udt]},
                  incomplete |-> FALSE],
    mapping |-> <<Spec1(explicit)>>, schema |-> small(W1) :> target] :
      <<names, udt, target, explicit>> \in
        UNION {{names} \X {{}, names} \X {target} \X Explicit(target) :
                 names \in SUBSET Name, target \in Targets}}

Tables == {{e, f} : e \in [table : {CAPS(W1)}, columns : {{CAPS(W1)}}, udt : {{}}, intact : BOOLEAN],
                    f \in [table : {CAPS(W2), small(W1)}, columns : {{CAPS(W1)}}, udt : {{}}, intact : BOOLEAN]}
Specs == [target : {small(W1), small(W2)}, source : Name \cup {Unmapped}, columns : {<<>>}]
TableInputs ==
  [kind : {"plan"},
   manifest : [tables : Tables, incomplete : BOOLEAN],
   mapping : {<<>>} \cup {<<s>> : s \in Specs}
               \cup {<<s, t>> : <<s, t>> \in {m \in Specs \X Specs : m[1].target # m[2].target}},
   schema : {[t \in tables |-> small(W1) :> PlainColumn] : tables \in SUBSET {small(W1), small(W2), CAPS(W1)}}]

(***************************************************************************)
(* Values and types: json leaves alone, under a domain, in an array, in a  *)
(* composite and in an array of composites.                                *)
(***************************************************************************)
Scalar(name) == [kind |-> "scalar", name |-> name]
Leaves == {Scalar("json"), Scalar("text"), Scalar("bool"), Scalar("bytea")}
Flat == Leaves \cup {[kind |-> "domain", base |-> t] : t \in Leaves}
Composite(fields) == [kind |-> "composite", fields |-> fields]
Composites == {Composite(small(W1) :> t) : t \in Flat}
         \cup {Composite(small(W1) :> Scalar("json") @@ small(W2) :> t) : t \in Flat}
Types == Flat \cup Composites \cup {[kind |-> "array", element |-> t] : t \in Flat \cup Composites}
         \cup {[kind |-> "domain", base |-> t] : t \in Composites}

Atoms == {Null, Item("text", "null"), Item("text", "not json"), Item("text", "word"),
          Item("number", "0"), Item("number", "0.5"), Item("number", "NaN"), Item("bytes", "word")}
Objects == UNION {[names -> Atoms] : names \in {{}, {CAPS(W1)}, {CAPS(W1), CAPS(W2)}, {CAPS(W1), small(W1)}}}
Lists(items) == {<<>>} \cup {<<x>> : x \in items}
MCValues == Atoms \cup {Dict(o) : o \in Objects}
              \cup {List(s) : s \in Lists(Atoms \cup {Dict(o) : o \in Objects})}
              \cup {List(<<a, b>>) : a, b \in Atoms}

ValueInputs == [kind : {"value"}, value : MCValues, type : Types]

(***************************************************************************)
(* Plans: every graph over three units and a gate outside the plan.        *)
(***************************************************************************)
MCUnits == 1..3
NoPlan == [dependsOn |-> <<>>, family |-> <<>>, maxBatch |-> 1]
MCWorkPlans == {NoPlan} \cup [dependsOn : [MCUnits -> SUBSET (MCUnits \cup {0})],
                              family : [MCUnits -> 1..2], maxBatch : 1..2]

MCPlanInputs == ColumnInputs \cup TableInputs

(* Either the answer to one input, with nothing to cut or to write; or the *)
(* batches of one plan; or the seed load.                                  *)
Init ==
  /\ WriteInit /\ result = Pending
  /\ \/ input \in PlanInputs \cup ValueInputs /\ plan = NoPlan /\ WorkInit
     \/ input = [kind |-> "seed"] /\ plan = NoPlan /\ WorkInit
     \/ input = [kind |-> "batches"] /\ WorkInit /\ plan # NoPlan

StoreValue == /\ input.kind = "value" /\ result = Pending
              /\ result' = Stored(input.value, input.type)
              /\ UNCHANGED input

Answer == (PlanTables \/ StoreValue) /\ UNCHANGED <<workVars, written>>
Batch == input.kind = "batches" /\ WorkNext /\ UNCHANGED <<input, result, written>>
Seed == input.kind = "seed" /\ WriteStatement /\ UNCHANGED <<input, result, workVars>>
Next == Answer \/ Batch \/ Seed
Spec == Init /\ [][Next]_<<input, result, workVars, written>>

(***************************************************************************)
(* Properties.                                                             *)
(***************************************************************************)
RECURSIVE SameNulls(_, _, _)
SameNulls(v, s, t) ==
  IF v = Null \/ s = Null THEN v = Null /\ s = Null
  ELSE CASE t.kind = "domain" -> SameNulls(v, s, t.base)
         [] t.kind = "array" ->
              /\ Len(v.of) = Len(s.of)
              /\ \A i \in DOMAIN v.of : SameNulls(v.of[i], s.of[i], t.element)
         [] t.kind = "composite" ->
              \A f \in DOMAIN t.fields : \E a \in DOMAIN v.at :
                Matches(a, f) /\ SameNulls(v.at[a], s.at[f], t.fields[f])
         [] t.kind = "scalar" -> (v = Item("text", "null") /\ t.name = "json") <=> s = Document(Null)

\* encode_field, _transport, _project_sql: whatever the loader does not block is
\* stored so that at every leaf, however deep, a source NULL is SQL NULL, the
\* JSON document null is a JSON null, and nothing else is either of them.
NullsKeptApart ==
  input.kind = "value" /\ result # Pending /\ result # Blocked =>
    SameNulls(input.value, result, input.type)
=============================================================================
