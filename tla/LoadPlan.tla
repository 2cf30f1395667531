------------------------------ MODULE LoadPlan ------------------------------
(***************************************************************************)
(* What the data loader decides before it touches a row (data_loader.py):  *)
(* which files of the snapshot can be trusted (validate_manifest) and      *)
(* which source column goes to which target column (build_plan).  Pure     *)
(* operators: DataLoader is the process that acts on the answer.           *)
(*                                                                         *)
(* A name is a word in one of two spellings.  Oracle folds what is not     *)
(* quoted to capitals, PostgreSQL to small letters; a quoted name of mixed *)
(* spelling only ever meets itself, as a small one does here.              *)
(***************************************************************************)
EXTENDS Naturals, FiniteSets, Sequences

CONSTANTS
  Word,     \* identifiers, their spelling apart
  Unmapped  \* the mapping file does not mention the column

Name == [word: Word, capitals: BOOLEAN]

Fold(n) == [n EXCEPT !.capitals = FALSE]
Matches(source, target) == source = target \/ Fold(source) = target

Candidates(target, names) == {s \in names : Matches(s, target)}

\* Mutant: of several candidates the first is taken.
ResolvedFirst(target, names, explicit) ==
  IF explicit # Unmapped THEN {explicit} \cap names
  ELSE LET found == Candidates(target, names)
       IN IF found = {} THEN {} ELSE {CHOOSE s \in found : TRUE}

\* The name `target' stands for, as a set: empty where resolve_name raises.
Resolved(target, names, explicit) ==
  IF explicit # Unmapped THEN {explicit} \cap names
  ELSE LET found == Candidates(target, names)
       IN IF Cardinality(found) = 1 THEN found ELSE {}

(***************************************************************************)
(* An entry of the manifest: a table, its columns, those that hold Oracle  *)
(* objects or collections, and whether file, hash and row count agree.     *)
(***************************************************************************)
Entry == [table: Name, columns: SUBSET Name, udt: SUBSET Name, intact: BOOLEAN]

\* check.files: what _safe_member_path, the hash and the count let through.
Intact(manifest) == {e \in manifest.tables : e.intact}
FileErrors(manifest) ==
  {[kind |-> "file_validation", at |-> e.table] :
     e \in manifest.tables \ Intact(manifest)}
  \cup {[kind |-> "export_blocker", at |-> Unmapped] : b \in {TRUE} \cap {manifest.incomplete}}

(***************************************************************************)
(* A target is a function from its columns to what pg_catalog says of      *)
(* them.  `holds' is the type below any domains: composite or array        *)
(* (structured), json or xml (open), or another scalar (plain).            *)
(***************************************************************************)
Column == [generated: BOOLEAN, filled: BOOLEAN, \* identity or default
           holds: {"structured", "open", "plain"}]

\* The mapping file: a sequence of specs, one for each target it names, in
\* file order.  A spec gives the target table, its source or Unmapped, and
\* the columns mapped explicitly.
NoSpec == [target |-> Unmapped, source |-> Unmapped, columns |-> <<>>]
SpecOf(mapping, target) ==
  LET found == SelectSeq(mapping, LAMBDA m : m.target = target)
  IN IF found = <<>> THEN NoSpec ELSE found[Len(found)]

\* The last spec that names the table as its source overrides the fold rule.
TargetOf(entry, mapping, schema) ==
  LET explicit == SelectSeq(mapping, LAMBDA m : m.source = entry.table)
      found == {t \in DOMAIN schema : Matches(entry.table, t)}
  IN IF explicit # <<>> THEN {explicit[Len(explicit)].target} \cap DOMAIN schema
     ELSE IF Cardinality(found) = 1 THEN found ELSE {}

ExplicitOf(spec, column) ==
  IF column \in DOMAIN spec.columns THEN spec.columns[column] ELSE Unmapped

Blocker(kind, at) == [kind |-> kind, at |-> at]

\* _plan_check_encoding: the static check of a source column's shape.
Fits(udt, holds) == CASE holds = "structured" -> udt
                      [] holds = "open" -> TRUE
                      [] holds = "plain" -> ~udt

(***************************************************************************)
(* The plan of one table: what is inserted, what a generated column stands *)
(* for, what the database fills in, and what speaks against it.            *)
(***************************************************************************)
PlanTable(entry, spec, columns) ==
  LET From(c) == Resolved(c, entry.columns, ExplicitOf(spec, c))
      generated == {c \in DOMAIN columns : columns[c].generated}
      written == DOMAIN columns \ generated
      fed == {c \in written : From(c) # {}}
      auto == {c \in written \ fed : columns[c].filled}
      lost == entry.columns \ UNION {From(c) : c \in fed \cup generated}
      unclear == {c \in generated : /\ From(c) = {}
                                    /\ \/ ExplicitOf(spec, c) # Unmapped
                                       \/ Candidates(c, entry.columns) # {}}
      missing == written \ (fed \cup auto)
      misfit == {c \in fed : \E s \in From(c) : ~Fits(s \in entry.udt, columns[c].holds)}
  IN [insert |-> [c \in fed |-> CHOOSE s \in From(c) : TRUE],
      auto |-> auto,
      planned |-> unclear \cup missing \cup lost = {},
      blockers |-> {Blocker("generated_mapping", c) : c \in unclear}
              \cup {Blocker("missing_source_column", c) : c \in missing}
              \cup {Blocker("dropped_source_column", s) : s \in lost}
              \cup {Blocker("type_mismatch", c) : c \in misfit}]

BuildPlan(manifest, mapping, schema) ==
  LET known == {e \in Intact(manifest) : TargetOf(e, mapping, schema) # {}}
      Target(e) == CHOOSE t \in TargetOf(e, mapping, schema) : TRUE
      Table(e) == PlanTable(e, SpecOf(mapping, Target(e)), schema[Target(e)])
  IN [plans |-> {[source |-> e.table, target |-> Target(e), insert |-> Table(e).insert,
                  auto |-> Table(e).auto] : e \in {e \in known : Table(e).planned}},
      blockers |-> FileErrors(manifest)
              \cup {Blocker("table_match", e.table) : e \in Intact(manifest) \ known}
              \cup UNION {Table(e).blockers : e \in known}]

(***************************************************************************)
(* The reference: what it means that nothing of a snapshot is left behind. *)
(* Every table has a plan; of every table a rule says which columns carry  *)
(* each source column, whether written or recomputed; and the server is    *)
(* not left with a column it cannot fill.                                  *)
(***************************************************************************)
Carries(spec, entry, c, s) ==
  IF ExplicitOf(spec, c) # Unmapped THEN ExplicitOf(spec, c) = s
  ELSE /\ s \in {c, [c EXCEPT !.capitals = TRUE]}
       /\ {c, [c EXCEPT !.capitals = TRUE]} \cap entry.columns = {s}

KeepsTable(entry, spec, columns) ==
  /\ \A s \in entry.columns : \E c \in DOMAIN columns : Carries(spec, entry, c, s)
  /\ \A c \in DOMAIN columns :
       \/ \E s \in entry.columns :
            /\ Carries(spec, entry, c, s)
            /\ columns[c].generated \/ Fits(s \in entry.udt, columns[c].holds)
       \/ /\ \A s \in entry.columns : ~Carries(spec, entry, c, s)
          /\ IF columns[c].generated
             THEN ExplicitOf(spec, c) = Unmapped /\ Candidates(c, entry.columns) = {}
             ELSE columns[c].filled
=============================================================================
