---------------------------- MODULE DataValidation ----------------------------
(***************************************************************************)
(* Whether the data arrived: full_validation.py looks at every table of    *)
(* the target, compares what it exports with the snapshot by means of      *)
(* `compare-data' (evidence.py), and leaves receipts in a directory;       *)
(* full_run.ingest_data credits the load units from what it finds there.   *)
(*                                                                         *)
(* The directory is written over by every run, a run may end anywhere, and *)
(* an ingest may read it meanwhile.  A comparison is a process of its own: *)
(* it may outlive the run that started it, and write when a later run has  *)
(* long removed and exported again what it was to compare.                 *)
(*                                                                         *)
(* Each query sees the target as it is at that moment: others load, alter  *)
(* and drop tables between any two, so the target is no variable but a     *)
(* choice at every look.  Left out: how values are rendered, and the gates *)
(* that this lane does not close.                                          *)
(***************************************************************************)
EXTENDS Naturals, Sequences, FiniteSets, SequencesExt, Bags

CONSTANTS
  Table,       \* base tables of the snapshot
  Key, Payload,
  Source,      \* Source[t]: its rows, as [key, payload]
  Contents,    \* Contents[t]: what the target may hold of it, over time
  Composite,   \* tables with a column of a composite type
  Faults,      \* sets of schema checks that the target may fail
  Selections,  \* what --tables may say
  Inputs,      \* the other arguments of a run, and what they let it know
  MaxRuns,     \* bound: validations ever begun
  Absent, Torn \* no file; a file cut short

(* What each input to the schema gate (_check_target_schema) adds to it.   *)
Hard == {"columns_match", "type_family", "not_null", "generated", "primary_key"}
OfCatalog == {"quantitative", "unique_identity"}
OfAdaptation == {"check_predicates", "defaults", "generated_expressions",
                 "timestamp_semantics", "representation_evidence"}
Check == Hard \cup OfCatalog \cup OfAdaptation

ASSUME DataAssumption ==
  /\ MaxRuns \in Nat
  /\ IsFiniteSet(Table) /\ Composite \subseteq Table
  /\ \A t \in Table : {Source[t]} \cup Contents[t] \subseteq Seq([key: Key, payload: Payload])
  /\ Faults \subseteq SUBSET Check
  /\ Selections \subseteq Seq(Table) \ {<<>>}
  /\ Inputs \subseteq
       [sourceOnly: BOOLEAN,                        \* --source-only
        catalog: BOOLEAN,                           \* --source-catalog
        adaptation: {"none", "partial", "full"},    \* --adaptation, and its coverage
        registered: BOOLEAN,                        \* the target has the composite types
        keyless: SUBSET Table]                      \* no usable key, by --ddl

ASSUME AbsentAssumption ==
  Absent \notin {"passed", "failed"} /\ \A t \in Table : Absent \notin Contents[t]

VARIABLES
  runs,      \* validations begun
  run,       \* the validation that is under way
  child,     \* child[n]: the compare-data that the n-th validation started
  csv,       \* target-csv/<table>.csv
  compare,   \* compare/<table>.json
  left,      \* tables with a .tmp beside it
  report,    \* full-validation-report.json
  ingest,    \* the ingest that is under way
  load,      \* controller_state of the load units
  proved,    \* history: tables once seen to be what they should
  last,      \* history: whether the export of the newest comparison was right
  late       \* history: tables whose newest comparison found an older one at work

vars == <<runs, run, child, csv, compare, left, report, ingest, load, proved, last, late>>

Idle == [pc |-> "idle"]
NoChild == [pc |-> "none"]

-----------------------------------------------------------------------------
(* Pure parts                                                              *)

Keys(rows) == {rows[i].key : i \in DOMAIN rows}
Duplicated(rows) == Cardinality(Keys(rows)) # Len(rows)

(* compare_exports: keys that are missing, extra, or with other payload.   *)
Compared(source, target) ==
  LET missing == Keys(source) \ Keys(target)
      extra == Keys(target) \ Keys(source)
      changed == {i \in DOMAIN source : \E j \in DOMAIN target :
                    source[i].key = target[j].key /\ source[i].payload # target[j].payload}
  IN IF Duplicated(source) \/ Duplicated(target) \/ (source = <<>> /\ target = <<>>)
     THEN "error"
     ELSE IF missing \cup extra = {} /\ changed = {} THEN "passed" ELSE "failed"

(* Mutant: a manifest that omits what the source requires will do.         *)
SchemaReasonLenient(present, fails, catalog, adaptation) ==
  LET gates == Hard \cup (IF catalog THEN OfCatalog ELSE {})
                    \cup (IF adaptation = "none" THEN {} ELSE OfAdaptation)
  IN IF ~present THEN "missing"
     ELSE IF fails \cap gates # {} THEN "mismatch"
     ELSE IF ~catalog THEN "catalog_required"
     ELSE "ok"

(* _check_target_schema: what an input that is not given would check stays *)
(* unresolved, and a mismatch is told before that.                         *)
SchemaReason(present, fails, catalog, adaptation) ==
  LET gates == Hard \cup (IF catalog THEN OfCatalog ELSE {})
                    \cup (IF adaptation = "none" THEN {} ELSE OfAdaptation)
  IN IF ~present THEN "missing"
     ELSE IF fails \cap gates # {} THEN "mismatch"
     ELSE IF ~catalog THEN "catalog_required"
     ELSE IF adaptation = "none" THEN "adaptation_required"
     ELSE IF adaptation = "partial" THEN "adaptation_incomplete"
     ELSE "ok"

Unresolved == {"catalog_required", "adaptation_required", "adaptation_incomplete"}

Pass == {"parity_pass", "empty_verified"}
Failure == {"parity_fail", "empty_mismatch", "schema_mismatch", "blocked_complex_target_render",
            "target_table_missing", "blocked_no_comparable_key", "empty_schema_unverified"}
Status == Pass \cup Failure \cup {"source_projected"}

(* build_receipts: data_validation and overall.                            *)
Overall(sourceOnly, results) ==
  IF sourceOnly THEN "INCOMPLETE"
  ELSE IF \A t \in DOMAIN results : results[t] \in Pass THEN "PASS" ELSE "FAIL"

Coverage(selected) == IF Len(selected) = Cardinality(Table) THEN "all" ELSE "subset"

(* Mutant: what is not credited keeps the word of the report.              *)
CreditRaw(t, status, receipt) ==
  IF status \in Pass /\ (Source[t] = <<>> \/ receipt = "passed") THEN "reviewed" ELSE status

(* ingest_data: a pass counts only with a receipt that says so, unless the *)
(* table is empty and has none.                                            *)
Credit(t, status, receipt) ==
  IF status \in Pass
  THEN IF Source[t] = <<>> \/ receipt = "passed" THEN "reviewed" ELSE "blocked"
  ELSE IF status \in Failure THEN "blocked" ELSE "incomplete"

-----------------------------------------------------------------------------
Init ==
  /\ runs = 0
  /\ run = Idle
  /\ child = [n \in 1..MaxRuns |-> NoChild]
  /\ csv = [t \in Table |-> Absent]
  /\ compare = [t \in Table |-> Absent]
  /\ left = {}
  /\ report = Absent
  /\ ingest = Idle
  /\ load = [t \in Table |-> "unstarted"]
  /\ proved = {}
  /\ last = [t \in Table |-> "none"]
  /\ late = {}

-----------------------------------------------------------------------------
(* A validation (run), table by table                                      *)

Begin(selected, input) ==
  /\ run = Idle /\ runs < MaxRuns
  /\ runs' = runs + 1
  /\ run' = [pc |-> "schema", selected |-> selected, at |-> 1, input |-> input,
             fails |-> {}, reason |-> "none", exit |-> "none",
             results |-> [t \in {} |-> "none"]]
  /\ UNCHANGED <<child, csv, compare, left, report, ingest, load, proved, last, late>>

Subject == run.selected[run.at]

(* The table is done with; the next one, or the report, is due.            *)
Ends(status) ==
  run' = [run EXCEPT
    !.pc = IF run.at < Len(run.selected) THEN "schema" ELSE "report",
    !.at = IF run.at < Len(run.selected) THEN @ + 1 ELSE @,
    !.results = [t \in DOMAIN @ \cup {Subject} |-> IF t = Subject THEN status ELSE @[t]],
    !.fails = {}, !.reason = "none", !.exit = "none"]

(* The snapshot is projected, and the schema of the target looked at.      *)
CheckSchema ==
  /\ run.pc = "schema"
  /\ IF run.input.sourceOnly
     THEN Ends("source_projected")
     ELSE \E present \in BOOLEAN, fails \in Faults :
            LET reason == SchemaReason(present, fails, run.input.catalog, run.input.adaptation)
            IN IF reason = "missing" THEN Ends("target_table_missing")
               ELSE run' = [run EXCEPT !.pc = "count", !.fails = fails, !.reason = reason]
  /\ UNCHANGED <<runs, child, csv, compare, left, report, ingest, load, proved, last, late>>

(* A table that should be empty is verified by its count and its schema.   *)
CountRows ==
  /\ run.pc = "count"
  /\ \E rows \in Contents[Subject] :
       /\ IF run.reason = "mismatch" THEN Ends("schema_mismatch")
          ELSE IF Source[Subject] # <<>> THEN run' = [run EXCEPT !.pc = "export"]
          ELSE IF run.reason \in Unresolved THEN Ends("empty_schema_unverified")
          ELSE IF rows = <<>> THEN Ends("empty_verified") ELSE Ends("empty_mismatch")
       /\ proved' = IF Source[Subject] = <<>> /\ rows = <<>> /\ run.fails = {}
                       /\ run.input.catalog /\ run.input.adaptation = "full"
                    THEN proved \cup {Subject} ELSE proved
  /\ UNCHANGED <<runs, child, csv, compare, left, report, ingest, load, last, late>>

Right(rows, t) == ToBag(rows) = ToBag(Source[t])
Same(t) == Right(csv[t], t)
AtWork(t) == \E n \in 1..MaxRuns : child[n] # NoChild /\ child[n].table = t

(* It is exported before it is known whether it has a key to compare by.   *)
Export ==
  /\ run.pc = "export"
  /\ IF Subject \in Composite /\ ~run.input.registered
     THEN Ends("blocked_complex_target_render") /\ UNCHANGED <<csv, proved, late>>
     ELSE /\ \E rows \in Contents[Subject] :
               /\ csv' = [csv EXCEPT ![Subject] = rows]
               /\ proved' = IF Right(rows, Subject) /\ run.fails \cap Hard = {}
                            THEN proved \cup {Subject} ELSE proved
          /\ IF Subject \in run.input.keyless THEN Ends("blocked_no_comparable_key")
             ELSE run' = [run EXCEPT !.pc = "unlink"]
          /\ late' = IF AtWork(Subject) THEN late \cup {Subject} ELSE late
  /\ UNCHANGED <<runs, child, compare, left, report, ingest, load, last>>

(* Mutant: compare-data is left to refuse to overwrite it.                 *)
NotUnlinked(t) == UNCHANGED compare

Unlinked(t) == compare' = [compare EXCEPT ![t] = Absent]

(* compare_data: the comparison of an earlier run is removed, and a new    *)
(* one started and waited for.                                             *)
StartCompare ==
  /\ run.pc = "unlink"
  /\ Unlinked(Subject)
  /\ child' = [child EXCEPT ![runs] =
                 [pc |-> "reading", table |-> Subject, verdict |-> "none"]]
  /\ run' = [run EXCEPT !.pc = "compare"]
  /\ last' = [last EXCEPT ![Subject] = IF Same(Subject) THEN "same" ELSE "different"]
  /\ late' = IF AtWork(Subject) THEN late \cup {Subject} ELSE late \ {Subject}
  /\ UNCHANGED <<runs, csv, left, report, ingest, load, proved>>

(* Mutant: whatever comparison is found there is taken for the run's own.  *)
PassedByFile == compare[Subject] = "passed"

Passed == run.exit = "passed" /\ compare[Subject] = "passed"

(* The comparison has ended: what it exited with, and the file, must pass. *)
Judge ==
  /\ run.pc = "judge"
  /\ Ends(IF Passed THEN "parity_pass" ELSE "parity_fail")
  /\ UNCHANGED <<runs, child, csv, compare, left, report, ingest, load, proved, last, late>>

WriteReport ==
  /\ run.pc = "report"
  /\ report' = [results |-> run.results, selected |-> run.selected,
                overall |-> Overall(run.input.sourceOnly, run.results),
                coverage |-> Coverage(run.selected)]
  /\ run' = Idle
  /\ UNCHANGED <<runs, child, csv, compare, left, ingest, load, proved, last, late>>

(* The run ends where it is: killed, the connection lost, the snapshot not *)
(* the one that was pinned.  A comparison it waits for is left to itself.  *)
Abort ==
  /\ run # Idle
  /\ run' = Idle
  /\ report' = report \/ (run.pc = "report" /\ report' = Torn)
  /\ UNCHANGED <<runs, child, csv, compare, left, ingest, load, proved, last, late>>

-----------------------------------------------------------------------------
(* A comparison (compare-data), started by the n-th validation             *)

(* It ends with an exit code, which its run learns if it still waits.      *)
Exits(n, code) ==
  /\ child' = [child EXCEPT ![n] = NoChild]
  /\ run' = IF run # Idle /\ n = runs THEN [run EXCEPT !.pc = "judge", !.exit = code] ELSE run

(* The export as it is when it is read: the comparison fails if it changes *)
(* while it is (compare_exports).                                          *)
ReadsExports(n) ==
  /\ child[n].pc = "reading"
  /\ LET t == child[n].table
         verdict == Compared(Source[t], csv[t])
     IN IF verdict = "error" THEN Exits(n, "error")
        ELSE /\ child' = [child EXCEPT ![n].pc = "read", ![n].verdict = verdict]
             /\ UNCHANGED run
  /\ UNCHANGED <<runs, csv, compare, left, report, ingest, load, proved, last, late>>

(* Its output must not exist.                                              *)
ChecksOutput(n) ==
  /\ child[n].pc = "read"
  /\ IF compare[child[n].table] # Absent THEN Exits(n, "error")
     ELSE child' = [child EXCEPT ![n].pc = "clear"] /\ UNCHANGED run
  /\ UNCHANGED <<runs, csv, compare, left, report, ingest, load, proved, last, late>>

(* Nor the temporary file, which may be of one that was killed.            *)
OpensOutput(n) ==
  /\ child[n].pc = "clear"
  /\ IF child[n].table \in left THEN Exits(n, "error") /\ UNCHANGED left
     ELSE /\ left' = left \cup {child[n].table}
          /\ child' = [child EXCEPT ![n].pc = "writing"]
          /\ UNCHANGED run
  /\ UNCHANGED <<runs, csv, compare, report, ingest, load, proved, last, late>>

(* That one takes the place of whatever is there by now.                   *)
RenamesOutput(n) ==
  /\ child[n].pc = "writing"
  /\ compare' = [compare EXCEPT ![child[n].table] = child[n].verdict]
  /\ left' = left \ {child[n].table}
  /\ \E code \in {child[n].verdict, "error"} : Exits(n, code)
  /\ UNCHANGED <<runs, csv, report, ingest, load, proved, last, late>>

(* It is killed, or an export is malformed or changes under it.            *)
CompareDies(n) ==
  /\ child[n] # NoChild
  /\ Exits(n, "error")
  /\ UNCHANGED <<runs, csv, compare, left, report, ingest, load, proved, last, late>>

CompareData(n) ==
  ReadsExports(n) \/ ChecksOutput(n) \/ OpensOutput(n) \/ RenamesOutput(n) \/ CompareDies(n)

-----------------------------------------------------------------------------
(* An ingest (ingest_data): the report, each receipt, the ledger           *)

BeginIngest ==
  /\ ingest = Idle /\ report \notin {Absent, Torn}
  /\ ingest' = [pc |-> "receipts", results |-> report.results,
                todo |-> {t \in DOMAIN report.results :
                            report.results[t] \in {"parity_pass", "parity_fail"}},
                seen |-> [t \in DOMAIN report.results |-> Absent]]
  /\ UNCHANGED <<runs, run, child, csv, compare, left, report, load, proved, last, late>>

ReadReceipt(t) ==
  /\ ingest # Idle /\ t \in ingest.todo
  /\ ingest' = [ingest EXCEPT !.todo = @ \ {t},
                              !.seen = [ingest.seen EXCEPT ![t] = compare[t]]]
  /\ UNCHANGED <<runs, run, child, csv, compare, left, report, load, proved, last, late>>

WriteLoad ==
  /\ ingest # Idle /\ ingest.todo = {}
  /\ load' = [t \in Table |-> IF t \in DOMAIN ingest.results
                              THEN Credit(t, ingest.results[t], ingest.seen[t]) ELSE load[t]]
  /\ ingest' = Idle
  /\ UNCHANGED <<runs, run, child, csv, compare, left, report, proved, last, late>>

IngestDies ==
  /\ ingest # Idle /\ ingest' = Idle
  /\ UNCHANGED <<runs, run, child, csv, compare, left, report, load, proved, last, late>>

-----------------------------------------------------------------------------
Next ==
  \/ \E selected \in Selections, input \in Inputs : Begin(selected, input)
  \/ CheckSchema \/ CountRows \/ Export \/ StartCompare \/ Judge \/ WriteReport \/ Abort
  \/ \E n \in 1..MaxRuns : CompareData(n)
  \/ BeginIngest \/ (\E t \in Table : ReadReceipt(t)) \/ WriteLoad \/ IngestDies

Spec == Init /\ [][Next]_vars

-----------------------------------------------------------------------------
(* Properties                                                              *)

(* Run, comparisons, receipts, report and ledger have their types.         *)
TypeOK ==
  /\ runs \in Nat
  /\ run.pc \in {"idle", "schema", "count", "export", "unlink", "compare", "judge", "report"}
  /\ run # Idle => /\ run.selected \in Selections /\ run.input \in Inputs
                   /\ run.at \in 1..Len(run.selected)
                   /\ run.fails \subseteq Check
                   /\ run.exit \in {"none", "passed", "failed", "error"}
                   /\ \A t \in DOMAIN run.results : run.results[t] \in Status
  /\ child \in [1..MaxRuns -> {NoChild} \cup
                 [pc: {"reading", "read", "clear", "writing"}, table: Table,
                  verdict: {"none", "passed", "failed"}]]
  /\ compare \in [Table -> {Absent, "passed", "failed"}]
  /\ left \subseteq Table /\ proved \subseteq Table /\ late \subseteq Table
  /\ report \in {Absent, Torn} \/ \A t \in DOMAIN report.results : report.results[t] \in Status
  /\ load \in [Table -> {"unstarted", "reviewed", "blocked", "incomplete"}]
  /\ last \in [Table -> {"none", "same", "different"}]

(* A load unit is credited only if the target was once seen to hold the    *)
(* rows of the snapshot, each as often as there, in a table with the keys, *)
(* types and constraints it must have; or none, where there should be      *)
(* none, in a table that fails no check at all (ingest_data, build_receipts*)
(* and compare_exports: never a false pass).                               *)
CreditedWasProved == \A t \in Table : load[t] = "reviewed" => t \in proved

(* What a receipt read by an ingest has to do with the newest comparison.  *)
ReadsPassed(t) ==
  /\ ingest # Idle /\ ingest' # Idle /\ t \in ingest.todo \ ingest'.todo
  /\ ingest'.seen[t] = "passed"

(* A receipt speaks for the newest comparison, though the run that made it *)
(* was cut short or is still under way, unless a comparison of an earlier  *)
(* run was still at work on the table when that one began (compare_data,   *)
(* ingest_data).                                                           *)
ReceiptIsNewest ==
  [][\A t \in Table \ late : ReadsPassed(t) => last[t] = "same"]_vars

(* A run passes a table on its own export and no other, whoever puts a     *)
(* comparison in its place meanwhile: it would mask a changed result       *)
(* (compare_data, _validate_target).                                       *)
PassIsOfThisRun ==
  [][run.pc = "judge" /\ run'.pc \notin {"judge", "idle"}
       /\ run'.results[Subject] = "parity_pass" => Same(Subject)]_vars

(* A report that says PASS over all tables says so of every table, if no   *)
(* table was named twice (build_receipts, the scope of `coverage').        *)
PassCoversSelection ==
  report \notin {Absent, Torn} /\ report.overall = "PASS" =>
    /\ \A i \in DOMAIN report.selected : report.results[report.selected[i]] \in Pass
    /\ report.coverage = "all" /\ IsInjective(report.selected) =>
         \A t \in Table : t \in DOMAIN report.results /\ t \in proved
=============================================================================
