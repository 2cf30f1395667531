------------------------- MODULE DataValidationProofs -------------------------
(***************************************************************************)
(* What a credited load unit, a report and a receipt are worth, for every  *)
(* snapshot, every content of the target and any number of validations.    *)
(***************************************************************************)
EXTENDS DataValidation, FiniteSetTheorems, TLAPS

-----------------------------------------------------------------------------
(* The inductive invariant                                                 *)

Rows == Seq([key: Key, payload: Payload])
Results == UNION {[D -> Status] : D \in SUBSET Table}
Receipt == {Absent, "passed", "failed"}
Reason == {"none", "missing", "mismatch", "ok"} \cup Unresolved

Code == {"none", "passed", "failed", "error"}

RunRecord ==
  [pc: {"schema", "count", "export", "unlink", "compare", "judge", "report"},
   selected: Selections, at: Nat, input: Inputs, fails: SUBSET Check, reason: Reason,
   exit: Code, results: Results]
ChildRecord ==
  [pc: {"reading", "read", "clear", "writing"}, table: Table,
   verdict: {"none", "passed", "failed"}]
ReportRecord ==
  [results: Results, selected: Selections, overall: {"PASS", "FAIL", "INCOMPLETE"},
   coverage: {"all", "subset"}]
IngestRecord ==
  [pc: {"receipts"}, results: Results, todo: SUBSET Table,
   seen: UNION {[D -> Receipt] : D \in SUBSET Table}]

Types ==
  /\ runs \in Nat
  /\ run = Idle \/ (run \in RunRecord /\ run.at \in 1..Len(run.selected))
  /\ child \in [1..MaxRuns -> {NoChild} \cup ChildRecord]
  /\ csv \in [Table -> Rows \cup {Absent}]
  /\ compare \in [Table -> Receipt]
  /\ left \subseteq Table /\ proved \subseteq Table /\ late \subseteq Table
  /\ report \in {Absent, Torn} \cup ReportRecord
  /\ ingest = Idle \/ (ingest \in IngestRecord /\ ingest.todo \subseteq DOMAIN ingest.seen)
  /\ load \in [Table -> {"unstarted", "reviewed", "blocked", "incomplete"}]
  /\ last \in [Table -> {"none", "same", "different"}]

(* The schema gate stays what it was found to be, and none that failed it  *)
(* is exported.                                                            *)
SchemaTold ==
  /\ run.pc \in {"count", "export"} =>
       run.reason = SchemaReason(TRUE, run.fails, run.input.catalog, run.input.adaptation)
  /\ run.pc = "export" => run.reason # "mismatch"

(* A pass, in whoever's hands, is about a table that was seen to be right. *)
Earned(results) == \A t \in DOMAIN results : results[t] \in Pass => t \in proved
PassesEarned ==
  /\ run # Idle => Earned(run.results)
  /\ report \notin {Absent, Torn} => Earned(report.results)
  /\ ingest # Idle => Earned(ingest.results)
  /\ CreditedWasProved

(* The results are those of the tables selected so far, all in the end.    *)
Selected(selected, n) == {selected[i] : i \in 1..n}
ResultsCover ==
  run # Idle => DOMAIN run.results = Selected(run.selected,
                  IF run.pc = "report" THEN Len(run.selected) ELSE run.at - 1)

(* A report says of its results what they are.                             *)
ReportTold ==
  report \notin {Absent, Torn} =>
    /\ DOMAIN report.results = Selected(report.selected, Len(report.selected))
    /\ report.overall = "PASS" => \A t \in DOMAIN report.results : report.results[t] \in Pass
    /\ report.coverage = "all" => Len(report.selected) = Cardinality(Table)

(* A comparison is of a table that was exported, by a run that has begun,  *)
(* and has a verdict once it has read the export.                          *)
ChildTold ==
  \A n \in 1..MaxRuns : child[n] # NoChild =>
    /\ n <= runs /\ csv[child[n].table] \in Contents[child[n].table]
    /\ child[n].pc # "reading" => child[n].verdict \in {"passed", "failed"}

(* What an export, a comparison under way or a file has that is right, the *)
(* target was seen to have.                                                *)
FilesProved ==
  /\ \A t \in Table : csv[t] \in Contents[t] /\ Same(t) => t \in proved
  /\ \A n \in 1..MaxRuns : child[n] # NoChild /\ child[n].verdict = "passed"
       => child[n].table \in proved
  /\ \A t \in Table : compare[t] = "passed" => t \in proved

(* A run waits for the comparison it started, of its own export.           *)
RunWaits ==
  run # Idle =>
    /\ runs \in 1..MaxRuns
    /\ run.pc = "unlink" => csv[Subject] \in Contents[Subject]
    /\ child[runs] # NoChild <=> run.pc = "compare"
    /\ run.pc = "compare" =>
         /\ child[runs].table = Subject
         /\ child[runs].verdict = "passed" => Same(Subject)
    /\ run.pc = "judge" /\ run.exit = "passed" => Same(Subject)

(* Where no older comparison was at work, what passes is the newest.       *)
ReceiptTold ==
  \A t \in Table \ late :
    /\ compare[t] = "passed" => last[t] = "same"
    /\ \A n \in 1..MaxRuns : child[n] # NoChild /\ child[n].table = t =>
         /\ child[n].verdict = "passed" => last[t] = "same"
         /\ child[n].pc = "reading" /\ Same(t) => last[t] = "same"

-----------------------------------------------------------------------------
(* The pure parts                                                          *)

LEMMA IntervalSize ==
  ASSUME NEW n \in Nat PROVE IsFiniteSet(1..n) /\ Cardinality(1..n) = n
<1>1. IsFiniteSet(1..n) /\ Cardinality(1..n) = IF 1 > n THEN 0 ELSE n - 1 + 1
  BY FS_Interval
<1> QED
  BY <1>1

(* Without a duplicate a key tells where its row is.                       *)
LEMMA KeysTellRows ==
  ASSUME NEW rows \in Rows, ~Duplicated(rows),
         NEW i \in DOMAIN rows, NEW j \in DOMAIN rows, rows[i].key = rows[j].key
  PROVE  i = j
<1> DEFINE f == [k \in 1..Len(rows) |-> rows[k].key]
<1>1. DOMAIN rows = 1..Len(rows) /\ Len(rows) \in Nat
  <2>1. \A S : \A s \in Seq(S) : DOMAIN s = 1..Len(s) /\ Len(s) \in Nat
    OBVIOUS
  <2> QED
    BY <2>1 DEF Rows
<1>2. f \in Surjection(1..Len(rows), Keys(rows))
  BY <1>1 DEF Surjection, Keys
<1>3. IsFiniteSet(1..Len(rows)) /\ Cardinality(1..Len(rows)) = Len(rows)
  BY <1>1, IntervalSize
<1>4. f \in Injection(1..Len(rows), Keys(rows))
  BY <1>2, <1>3, FS_SurjSameCardinalityImpliesInj DEF Duplicated
<1> QED
  BY <1>1, <1>4 DEF Injection, IsInjective

(* What compares equal is equal: the same rows, each as often.             *)
LEMMA ComparedEqual ==
  ASSUME NEW source \in Rows, NEW target \in Rows, Compared(source, target) = "passed"
  PROVE  ToBag(target) = ToBag(source)
<1>1. /\ ~Duplicated(source) /\ ~Duplicated(target)
      /\ Keys(source) = Keys(target)
      /\ \A i \in DOMAIN source, j \in DOMAIN target :
           source[i].key = target[j].key => source[i].payload = target[j].payload
  BY DEF Compared
<1>2. \A rows \in Rows : \A i \in DOMAIN rows : rows[i] \in [key: Key, payload: Payload]
  <2>1. \A S : \A s \in Seq(S) : \A i \in DOMAIN s : s[i] \in S
    OBVIOUS
  <2> QED
    BY <2>1 DEF Rows
<1>3. \A i \in DOMAIN source, j \in DOMAIN target :
        source[i].key = target[j].key => source[i] = target[j]
  BY <1>1, <1>2
<1>4. ASSUME NEW rows \in Rows, ~Duplicated(rows), NEW i \in DOMAIN rows
      PROVE  Cardinality({k \in DOMAIN rows : rows[k] = rows[i]}) = 1
  <2>1. {k \in DOMAIN rows : rows[k] = rows[i]} = {i}
    BY <1>4, KeysTellRows
  <2> QED
    BY <2>1, FS_Singleton
<1>5. Range(source) = Range(target)
  <2>1. \A i \in DOMAIN source : \E j \in DOMAIN target : source[i].key = target[j].key
    BY <1>1 DEF Keys
  <2>2. \A j \in DOMAIN target : \E i \in DOMAIN source : source[i].key = target[j].key
    BY <1>1 DEF Keys
  <2> QED
    BY <1>3, <2>1, <2>2 DEF Range
<1>6. ASSUME NEW rows \in Rows, ~Duplicated(rows)
      PROVE  ToBag(rows) = [x \in Range(rows) |-> 1]
  <2>1. \A x \in Range(rows) : Cardinality({k \in DOMAIN rows : rows[k] = x}) = 1
    BY <1>4, <1>6 DEF Range
  <2> QED
    BY <2>1 DEF ToBag
<1> QED
  BY <1>1, <1>5, <1>6

(* A schema that is found in order fails nothing, when all is asked of it, *)
(* and one that does not mismatch passes what is always asked.             *)
LEMMA SchemaOk ==
  ASSUME NEW fails \in SUBSET Check, NEW catalog \in BOOLEAN,
         NEW adaptation \in {"none", "partial", "full"},
         NEW reason, reason = SchemaReason(TRUE, fails, catalog, adaptation)
  PROVE  /\ reason \in Reason \ {"none", "missing"}
         /\ reason # "mismatch" => fails \cap Hard = {}
         /\ reason = "ok" => catalog /\ adaptation = "full" /\ fails = {}
BY DEF SchemaReason, Reason, Unresolved, Check

-----------------------------------------------------------------------------
(* A validation under way                                                  *)

LEMMA SubjectType ==
  ASSUME Types, run # Idle
  PROVE  /\ run \in RunRecord /\ run.at \in 1..Len(run.selected)
         /\ run.selected \in Seq(Table) /\ Len(run.selected) \in Nat
         /\ DOMAIN run.selected = 1..Len(run.selected)
         /\ Subject \in Table
         /\ Source[Subject] \in Rows /\ Contents[Subject] \subseteq Rows
         /\ run.results \in [DOMAIN run.results -> Status] /\ DOMAIN run.results \subseteq Table
<1>1. run \in RunRecord /\ run.at \in 1..Len(run.selected)
  BY DEF Types
<1>2. run.selected \in Seq(Table)
  BY <1>1, DataAssumption DEF RunRecord
<1>3. Len(run.selected) \in Nat /\ DOMAIN run.selected = 1..Len(run.selected)
  BY <1>2
<1>4. Subject \in Table
  BY <1>1, <1>2, <1>3 DEF Subject
<1>5. Source[Subject] \in Rows /\ Contents[Subject] \subseteq Rows
  BY <1>4, DataAssumption DEF Rows
<1>6. run.results \in Results
  BY <1>1 DEF RunRecord
<1>7. run.results \in [DOMAIN run.results -> Status] /\ DOMAIN run.results \subseteq Table
  BY <1>6 DEF Results
<1> QED
  BY <1>1, <1>2, <1>3, <1>4, <1>5, <1>7

(* What the end of a table leaves: one more result, and the next phase.    *)
LEMMA EndsTable ==
  ASSUME Types, run # Idle, run.pc # "report", NEW status \in Status, Ends(status)
  PROVE  /\ run' # Idle /\ run' \in RunRecord /\ run'.at \in 1..Len(run'.selected)
         /\ run'.selected = run.selected /\ run'.input = run.input
         /\ \/ run'.pc = "schema" /\ run'.at = run.at + 1
            \/ run'.pc = "report" /\ run.at = Len(run.selected)
         /\ DOMAIN run'.results = DOMAIN run.results \cup {Subject}
         /\ \A t \in DOMAIN run'.results :
              run'.results[t] = IF t = Subject THEN status ELSE run.results[t]
<1> DEFINE results == [t \in DOMAIN run.results \cup {Subject} |->
                         IF t = Subject THEN status ELSE run.results[t]]
<1>1. results \in Results
  <2>1. DOMAIN run.results \cup {Subject} \subseteq Table
    BY SubjectType
  <2>2. results \in [DOMAIN run.results \cup {Subject} -> Status]
    BY SubjectType
  <2> QED
    BY <2>1, <2>2 DEF Results
<1>2. run' = [run EXCEPT
         !.pc = IF run.at < Len(run.selected) THEN "schema" ELSE "report",
         !.at = IF run.at < Len(run.selected) THEN run.at + 1 ELSE run.at,
         !.results = results, !.fails = {}, !.reason = "none", !.exit = "none"]
  BY DEF Ends
<1> HIDE DEF results
<1>3. "none" \in Code /\ run.at \in Nat /\ Len(run.selected) \in Nat
  BY SubjectType DEF Code
<1>4. run' \in RunRecord
  <2> DEFINE phase == IF run.at < Len(run.selected) THEN "schema" ELSE "report"
             next == IF run.at < Len(run.selected) THEN run.at + 1 ELSE run.at
  <2>1. phase \in {"schema", "report"} /\ next \in Nat /\ "none" \in Reason
    BY <1>3 DEF Reason
  <2>2. run' = [run EXCEPT !.pc = phase, !.at = next, !.results = results, !.fails = {},
                           !.reason = "none", !.exit = "none"]
    BY <1>2
  <2>3. run \in RunRecord
    BY SubjectType
  <2> HIDE DEF phase, next
  <2> QED
    BY <1>1, <1>3, <2>1, <2>2, <2>3 DEF RunRecord
<1>5. /\ run'.selected = run.selected /\ run'.input = run.input /\ run'.results = results
      /\ run'.pc = IF run.at < Len(run.selected) THEN "schema" ELSE "report"
      /\ run'.at = IF run.at < Len(run.selected) THEN run.at + 1 ELSE run.at
  BY <1>2, SubjectType DEF RunRecord
<1>6. run'.at \in 1..Len(run'.selected) /\ (run.at < Len(run.selected) \/ run.at = Len(run.selected))
  BY <1>3, <1>5, SubjectType
<1>7. run' # Idle
  BY <1>5 DEF Idle
<1>8. \/ run'.pc = "schema" /\ run'.at = run.at + 1
      \/ run'.pc = "report" /\ run.at = Len(run.selected)
  BY <1>3, <1>5, <1>6
<1> QED
  BY <1>4, <1>5, <1>6, <1>7, <1>8 DEF results

(* So it leaves passes earned and results covered.                         *)
LEMMA EndsKeeps ==
  ASSUME Types, PassesEarned, ResultsCover, run # Idle, run.pc # "report",
         NEW status \in Status, Ends(status), proved \subseteq proved',
         status \in Pass => Subject \in proved'
  PROVE  Earned(run.results)' /\ ResultsCover'
<1>1. Earned(run.results)'
  <2>1. \A t \in DOMAIN run.results : run.results[t] \in Pass => t \in proved
    BY DEF PassesEarned, Earned
  <2>2. ASSUME NEW t \in DOMAIN run'.results, run'.results[t] \in Pass PROVE t \in proved'
    <3>1. /\ run'.results[t] = IF t = Subject THEN status ELSE run.results[t]
          /\ t \in DOMAIN run.results \cup {Subject}
      BY EndsTable
    <3> QED
      BY <2>1, <2>2, <3>1
  <2> QED
    BY <2>2 DEF Earned
<1>2. DOMAIN run'.results = Selected(run.selected, run.at - 1) \cup {Subject}
  BY EndsTable DEF ResultsCover
<1>3. Selected(run.selected, run.at - 1) \cup {Subject} = Selected(run.selected, run.at)
  <2>1. run.at \in Nat /\ run.at >= 1
    BY SubjectType
  <2>2. 1..run.at = 1..(run.at - 1) \cup {run.at}
    BY <2>1
  <2> QED
    BY <2>2 DEF Selected, Subject
<1>4. run'.pc = "schema" => run'.at - 1 = run.at
  BY EndsTable, SubjectType
<1>5. ResultsCover'
  <2>1. /\ run'.selected = run.selected
        /\ run'.pc = "schema" \/ (run'.pc = "report" /\ run.at = Len(run.selected))
    BY EndsTable
  <2> QED
    BY <1>2, <1>3, <1>4, <2>1 DEF ResultsCover
<1> QED
  BY <1>1, <1>5

-----------------------------------------------------------------------------
(* Each step                                                               *)

Inv ==
  /\ Types /\ SchemaTold /\ PassesEarned /\ ResultsCover /\ ReportTold
  /\ ChildTold /\ FilesProved /\ RunWaits /\ ReceiptTold

Files == <<child, csv, compare, left, last, late>>

(* Neither the start of a run nor the end of one touches the files.        *)
LEMMA FilesKept ==
  ASSUME Inv, UNCHANGED Files, runs' \in Nat, runs' >= runs, proved \subseteq proved'
  PROVE  ChildTold' /\ FilesProved' /\ ReceiptTold'
<1>1. runs \in Nat /\ (1..MaxRuns) \subseteq Nat
  BY DEF Inv, Types
<1>2. ChildTold'
  <2> SUFFICES ASSUME NEW n \in 1..MaxRuns, child[n] # NoChild
               PROVE  /\ n <= runs' /\ csv[child[n].table] \in Contents[child[n].table]
                      /\ child[n].pc # "reading" => child[n].verdict \in {"passed", "failed"}
    BY DEF ChildTold, Files
  <2>1. /\ n <= runs /\ csv[child[n].table] \in Contents[child[n].table]
        /\ child[n].pc # "reading" => child[n].verdict \in {"passed", "failed"}
    BY DEF Inv, ChildTold
  <2> QED
    BY <1>1, <2>1
<1>3. FilesProved' /\ ReceiptTold'
  BY DEF Files, Inv, FilesProved, ReceiptTold, Same
<1> QED
  BY <1>2, <1>3

(* A step of a run shows, and what was shown before stays shown.           *)
LEMMA RunStep ==
  ASSUME Inv, UNCHANGED <<runs, report, ingest, load>>,
         run' \in RunRecord, run'.at \in 1..Len(run'.selected),
         proved \subseteq proved', proved' \subseteq Table,
         child' \in [1..MaxRuns -> {NoChild} \cup ChildRecord],
         csv' \in [Table -> Rows \cup {Absent}],
         compare' \in [Table -> Receipt], left' \subseteq Table, late' \subseteq Table,
         last' \in [Table -> {"none", "same", "different"}],
         Earned(run.results)', ResultsCover', SchemaTold',
         ChildTold', FilesProved', RunWaits', ReceiptTold'
  PROVE  Inv'
<1>1. Types'
  BY DEF Inv, Types
<1>2. PassesEarned'
  BY DEF Inv, PassesEarned, Earned, CreditedWasProved
<1>3. ReportTold'
  BY DEF Inv, ReportTold
<1> QED
  BY <1>1, <1>2, <1>3 DEF Inv

(* A step that is over with a table, whatever it exported.                 *)
LEMMA EndStep ==
  ASSUME Inv, run # Idle, run.pc \notin {"compare", "report"},
         NEW status \in Status, Ends(status),
         UNCHANGED <<runs, child, compare, left, last, report, ingest, load>>,
         proved \subseteq proved', proved' \subseteq Table,
         csv' \in [Table -> Rows \cup {Absent}], late' \subseteq Table,
         status \in Pass => Subject \in proved',
         ChildTold', FilesProved', ReceiptTold'
  PROVE  Inv'
<1>1. Earned(run.results)' /\ ResultsCover'
  BY EndsKeeps DEF Inv
<1>2. run' \in RunRecord /\ run'.at \in 1..Len(run'.selected) /\ run'.pc \in {"schema", "report"}
  BY EndsTable DEF Inv
<1>3. SchemaTold'
  BY <1>2 DEF SchemaTold
<1>4. RunWaits'
  BY <1>2 DEF Inv, RunWaits
<1>5. /\ child' \in [1..MaxRuns -> {NoChild} \cup ChildRecord]
      /\ compare' \in [Table -> Receipt] /\ left' \subseteq Table
      /\ last' \in [Table -> {"none", "same", "different"}]
  BY DEF Inv, Types
<1> QED
  BY <1>1, <1>2, <1>3, <1>4, <1>5, RunStep

(* A step within a table.                                                  *)
LEMMA WithinStep ==
  ASSUME Inv, run # Idle, run.pc # "report", run' \in RunRecord, run'.pc # "report",
         run'.selected = run.selected, run'.at = run.at, run'.results = run.results,
         UNCHANGED <<runs, report, ingest, load>>,
         proved \subseteq proved', proved' \subseteq Table, SchemaTold',
         child' \in [1..MaxRuns -> {NoChild} \cup ChildRecord],
         csv' \in [Table -> Rows \cup {Absent}],
         compare' \in [Table -> Receipt], left' \subseteq Table, late' \subseteq Table,
         last' \in [Table -> {"none", "same", "different"}],
         ChildTold', FilesProved', RunWaits', ReceiptTold'
  PROVE  Inv'
<1>1. run'.at \in 1..Len(run'.selected)
  BY SubjectType DEF Inv
<1>2. Earned(run.results)'
  BY DEF Inv, PassesEarned, Earned
<1>3. ResultsCover'
  BY DEF Inv, ResultsCover
<1> QED
  BY <1>1, <1>2, <1>3, RunStep

LEMMA StepBegin ==
  ASSUME Inv, NEW selected \in Selections, NEW input \in Inputs, Begin(selected, input)
  PROVE  Inv'
<1> DEFINE none == [t \in {} |-> "none"]
<1>1. none \in Results /\ DOMAIN none = {}
  <2>1. none \in [{} -> Status]
    OBVIOUS
  <2> QED
    BY <2>1 DEF Results
<1>2. run' = [pc |-> "schema", selected |-> selected, at |-> 1, input |-> input,
              fails |-> {}, reason |-> "none", exit |-> "none", results |-> none]
  BY DEF Begin
<1> HIDE DEF none
<1>3. "none" \in Code /\ "none" \in Reason
  BY DEF Code, Reason
<1>4. run' \in RunRecord /\ run'.pc = "schema" /\ run'.at = 1 /\ run'.selected = selected
      /\ run'.results = none
  BY <1>1, <1>2, <1>3 DEF RunRecord
<1>5. 1 \in 1..Len(selected)
  <2>1. selected \in Seq(Table) /\ selected # <<>>
    BY DataAssumption
  <2>2. Len(selected) \in Nat /\ Len(selected) # 0
    BY <2>1
  <2> QED
    BY <2>2
<1>6. /\ runs \in Nat /\ runs < MaxRuns /\ runs' = runs + 1 /\ run = Idle
      /\ UNCHANGED <<child, csv, compare, left, report, ingest, load, proved, last, late>>
  BY DEF Begin, Inv, Types
<1>7. Types'
  BY <1>4, <1>5, <1>6 DEF Inv, Types
<1>8. ResultsCover'
  <2>1. Selected(selected, 1 - 1) = {}
    BY DEF Selected
  <2> QED
    BY <1>1, <1>4, <2>1 DEF ResultsCover
<1>9. PassesEarned'
  BY <1>1, <1>4, <1>6 DEF Inv, PassesEarned, Earned, CreditedWasProved
<1>10. SchemaTold' /\ ReportTold'
  BY <1>4, <1>6 DEF Inv, SchemaTold, ReportTold
<1>11. ChildTold' /\ FilesProved' /\ ReceiptTold'
  BY <1>6, FilesKept DEF Files
<1>12. RunWaits'
  <2>1. runs' \in 1..MaxRuns /\ ~(runs' <= runs)
    BY <1>6, DataAssumption
  <2>2. child[runs'] = NoChild
    BY <2>1 DEF Inv, ChildTold
  <2> QED
    BY <1>4, <1>6, <2>1, <2>2 DEF RunWaits
<1> QED
  BY <1>7, <1>8, <1>9, <1>10, <1>11, <1>12 DEF Inv

(* What the schema gate has of the arguments of the run.                   *)
LEMMA InputType ==
  ASSUME Types, run # Idle
  PROVE  /\ run.input.catalog \in BOOLEAN
         /\ run.input.adaptation \in {"none", "partial", "full"}
         /\ run.fails \in SUBSET Check
<1>1. run.input \in Inputs /\ run.fails \in SUBSET Check
  BY SubjectType DEF RunRecord
<1> QED
  BY <1>1, DataAssumption

LEMMA StepCheckSchema ==
  ASSUME Inv, CheckSchema
  PROVE  Inv'
<1>0. /\ run.pc = "schema"
      /\ UNCHANGED <<runs, child, csv, compare, left, report, ingest, load, proved, last, late>>
  BY Zenon DEF CheckSchema
<1>1. run # Idle /\ run.pc = "schema"
  BY <1>0 DEF Idle
<1>2. UNCHANGED <<runs, child, csv, compare, left, report, ingest, load, proved, last, late>>
  BY <1>0
<1>3. /\ proved' \subseteq Table /\ compare' \in [Table -> Receipt] /\ left' \subseteq Table
      /\ last' \in [Table -> {"none", "same", "different"}] /\ late' \subseteq Table
      /\ child' \in [1..MaxRuns -> {NoChild} \cup ChildRecord]
      /\ csv' \in [Table -> Rows \cup {Absent}]
      /\ ChildTold' /\ FilesProved' /\ ReceiptTold'
  <2>1. runs' \in Nat /\ runs' >= runs /\ proved \subseteq proved' /\ UNCHANGED Files
    BY <1>2 DEF Inv, Types, Files
  <2> QED
    BY <1>2, <2>1, FilesKept DEF Inv, Types
<1>4. ASSUME NEW status \in {"source_projected", "target_table_missing"}, Ends(status)
      PROVE  Inv'
  <2>1. status \in Status /\ status \notin Pass
    BY DEF Status, Pass, Failure
  <2> QED
    BY <1>1, <1>2, <1>3, <1>4, <2>1, EndStep
<1>5. ASSUME NEW fails \in Faults, NEW reason,
             reason = SchemaReason(TRUE, fails, run.input.catalog, run.input.adaptation),
             run' = [run EXCEPT !.pc = "count", !.fails = fails, !.reason = reason]
      PROVE  Inv'
  <2>1. fails \in SUBSET Check /\ Types
    BY DataAssumption DEF Inv
  <2>2. reason \in Reason
    BY <1>1, <1>5, <2>1, InputType, SchemaOk, Zenon
  <2>3. run \in RunRecord
    BY <1>1, SubjectType DEF Inv
  <2>4. /\ run' \in RunRecord /\ run'.pc = "count" /\ run'.fails = fails /\ run'.reason = reason
        /\ run'.input = run.input /\ run'.selected = run.selected /\ run'.at = run.at
        /\ run'.results = run.results
    BY <1>5, <2>1, <2>2, <2>3 DEF RunRecord
  <2>5. SchemaTold'
    BY <1>5, <2>4 DEF SchemaTold
  <2>6. RunWaits'
    BY <1>1, <1>2, <2>4 DEF Inv, RunWaits
  <2> QED
    BY <1>1, <1>2, <1>3, <2>4, <2>5, <2>6, WithinStep
<1>6. ASSUME NEW fails \in Faults
      PROVE  /\ fails \in SUBSET Check
             /\ SchemaReason(TRUE, fails, run.input.catalog, run.input.adaptation)
                  \in Reason \ {"none", "missing"}
             /\ SchemaReason(TRUE, fails, run.input.catalog, run.input.adaptation) # "missing"
  <2>1. fails \in SUBSET Check /\ Types
    BY DataAssumption DEF Inv
  <2>2. SchemaReason(TRUE, fails, run.input.catalog, run.input.adaptation)
          \in Reason \ {"none", "missing"}
    BY <1>1, <2>1, InputType, SchemaOk, Zenon
  <2> QED
    BY <2>1, <2>2
<1>7. \/ Ends("source_projected") \/ Ends("target_table_missing")
      \/ \E fails \in Faults :
           LET reason == SchemaReason(TRUE, fails, run.input.catalog, run.input.adaptation)
           IN run' = [run EXCEPT !.pc = "count", !.fails = fails, !.reason = reason]
  <2>1. CASE run.input.sourceOnly
    BY <2>1, Zenon DEF CheckSchema
  <2>2. CASE ~run.input.sourceOnly
    <3>1. PICK present \in BOOLEAN, fails \in Faults :
            LET reason == SchemaReason(present, fails, run.input.catalog, run.input.adaptation)
            IN IF reason = "missing" THEN Ends("target_table_missing")
               ELSE run' = [run EXCEPT !.pc = "count", !.fails = fails, !.reason = reason]
      BY <2>2, Zenon DEF CheckSchema
    <3>2. CASE present = TRUE
      <4>1. SchemaReason(TRUE, fails, run.input.catalog, run.input.adaptation) # "missing"
        BY <1>6, Zenon
      <4> QED
        BY <3>1, <3>2, <4>1, Zenon
    <3>3. CASE present = FALSE
      <4>1. SchemaReason(FALSE, fails, run.input.catalog, run.input.adaptation) = "missing"
        BY Zenon DEF SchemaReason
      <4> QED
        BY <3>1, <3>3, <4>1, Zenon
    <3> QED
      BY <3>2, <3>3, Zenon
  <2> QED
    BY <2>1, <2>2, Zenon
<1> QED
  BY <1>4, <1>5, <1>7, Zenon

LEMMA StepCountRows ==
  ASSUME Inv, CountRows
  PROVE  Inv'
<1>0. /\ run.pc = "count"
      /\ UNCHANGED <<runs, child, csv, compare, left, report, ingest, load, last, late>>
  BY Zenon DEF CountRows
<1>1. run # Idle /\ run.pc = "count"
  BY <1>0 DEF Idle
<1>2. UNCHANGED <<runs, child, csv, compare, left, report, ingest, load, last, late>>
  BY <1>0
<1>3. PICK rows \in Contents[Subject] :
        /\ IF run.reason = "mismatch" THEN Ends("schema_mismatch")
           ELSE IF Source[Subject] # <<>> THEN run' = [run EXCEPT !.pc = "export"]
           ELSE IF run.reason \in Unresolved THEN Ends("empty_schema_unverified")
           ELSE IF rows = <<>> THEN Ends("empty_verified") ELSE Ends("empty_mismatch")
        /\ proved' = IF Source[Subject] = <<>> /\ rows = <<>> /\ run.fails = {}
                       /\ run.input.catalog /\ run.input.adaptation = "full"
                     THEN proved \cup {Subject} ELSE proved
  BY DEF CountRows
<1>4. proved \subseteq proved' /\ proved' \subseteq Table
  BY <1>1, <1>3, SubjectType DEF Inv, Types
<1>5. /\ compare' \in [Table -> Receipt] /\ left' \subseteq Table
      /\ last' \in [Table -> {"none", "same", "different"}] /\ late' \subseteq Table
      /\ child' \in [1..MaxRuns -> {NoChild} \cup ChildRecord]
      /\ csv' \in [Table -> Rows \cup {Absent}]
      /\ ChildTold' /\ FilesProved' /\ ReceiptTold'
  <2>1. runs' \in Nat /\ runs' >= runs /\ UNCHANGED Files
    BY <1>2 DEF Inv, Types, Files
  <2> QED
    BY <1>2, <1>4, <2>1, FilesKept DEF Inv, Types
<1>6. /\ run.reason \in Reason \ {"none", "missing"}
      /\ run.reason = "ok" => run.input.catalog /\ run.input.adaptation = "full" /\ run.fails = {}
  <2>1. /\ Types
        /\ run.reason = SchemaReason(TRUE, run.fails, run.input.catalog, run.input.adaptation)
    BY <1>1 DEF Inv, SchemaTold
  <2> QED
    BY <1>1, <2>1, InputType, SchemaOk, Zenon
<1>7. ASSUME NEW status \in {"schema_mismatch", "empty_schema_unverified", "empty_mismatch",
                             "empty_verified"},
             Ends(status), status = "empty_verified" => Subject \in proved'
      PROVE  Inv'
  <2>1. status \in Status /\ (status \in Pass => status = "empty_verified")
    BY DEF Status, Pass, Failure
  <2> QED
    BY <1>1, <1>2, <1>4, <1>5, <1>7, <2>1, EndStep
<1>8. CASE run.reason = "mismatch"
  BY <1>3, <1>7, <1>8
<1>9. CASE run.reason # "mismatch" /\ Source[Subject] # <<>>
  <2>1. run' = [run EXCEPT !.pc = "export"]
    BY <1>3, <1>9
  <2>2. run \in RunRecord
    BY <1>1, SubjectType DEF Inv
  <2>3. /\ run' \in RunRecord /\ run'.pc = "export" /\ run'.fails = run.fails
        /\ run'.reason = run.reason /\ run'.input = run.input /\ run'.selected = run.selected
        /\ run'.at = run.at /\ run'.results = run.results
    BY <2>1, <2>2 DEF RunRecord
  <2>4. SchemaTold'
    BY <1>1, <1>9, <2>3 DEF Inv, SchemaTold
  <2>5. RunWaits'
    BY <1>1, <1>2, <2>3 DEF Inv, RunWaits
  <2> QED
    BY <1>1, <1>2, <1>4, <1>5, <2>3, <2>4, <2>5, WithinStep
<1>10. CASE run.reason # "mismatch" /\ Source[Subject] = <<>>
  <2>1. CASE run.reason \in Unresolved
    BY <1>3, <1>7, <1>10, <2>1
  <2>2. CASE run.reason \notin Unresolved
    <3>1. run.reason = "ok"
      BY <1>6, <1>10, <2>2 DEF Reason
    <3>2. CASE rows = <<>>
      BY <1>3, <1>6, <1>7, <1>10, <2>2, <3>1, <3>2
    <3>3. CASE rows # <<>>
      BY <1>3, <1>7, <1>10, <2>2, <3>3
    <3> QED
      BY <3>2, <3>3
  <2> QED
    BY <2>1, <2>2
<1> QED
  BY <1>8, <1>9, <1>10

(* What is exported is what the target was seen to hold, in a table that   *)
(* has passed what is always asked of it.                                  *)
LEMMA ExportKeeps ==
  ASSUME Inv, run # Idle, run.pc = "export", NEW rows \in Contents[Subject],
         csv' = [csv EXCEPT ![Subject] = rows],
         proved' = IF Right(rows, Subject) /\ run.fails \cap Hard = {}
                   THEN proved \cup {Subject} ELSE proved,
         late' = IF AtWork(Subject) THEN late \cup {Subject} ELSE late,
         UNCHANGED <<runs, child, compare, left, last>>
  PROVE  /\ csv' \in [Table -> Rows \cup {Absent}] /\ csv'[Subject] \in Contents[Subject]
         /\ late' \subseteq Table /\ proved \subseteq proved' /\ proved' \subseteq Table
         /\ ChildTold' /\ FilesProved' /\ ReceiptTold'
<1>1. Subject \in Table /\ rows \in Rows
  BY SubjectType DEF Inv
<1>2. csv \in [Table -> Rows \cup {Absent}] /\ late \subseteq Table /\ proved \subseteq Table
  BY DEF Inv, Types
<1>3. run.fails \cap Hard = {}
  <2>1. /\ Types /\ run.reason # "mismatch"
        /\ run.reason = SchemaReason(TRUE, run.fails, run.input.catalog, run.input.adaptation)
    BY DEF Inv, SchemaTold
  <2> QED
    BY <2>1, InputType, SchemaOk, Zenon
<1>4. \A t \in Table : csv'[t] = IF t = Subject THEN rows ELSE csv[t]
  BY <1>1, <1>2
<1>5. proved \subseteq proved' /\ (Right(rows, Subject) => Subject \in proved')
  BY <1>3
<1>6. ChildTold'
  <2>1. \A n \in 1..MaxRuns : child[n] # NoChild => child[n].table \in Table
    BY DEF Inv, Types, ChildRecord
  <2> QED
    BY <1>1, <1>4, <2>1 DEF Inv, ChildTold
<1>7. FilesProved'
  <2>1. ASSUME NEW t \in Table, csv'[t] \in Contents[t], Same(t)' PROVE t \in proved'
    <3>1. Right(csv'[t], t)
      BY <2>1 DEF Same, Right
    <3>2. CASE t = Subject
      BY <1>4, <1>5, <3>1, <3>2
    <3>3. CASE t # Subject
      BY <1>4, <1>5, <2>1, <3>1, <3>3 DEF Inv, FilesProved, Same
    <3> QED
      BY <3>2, <3>3
  <2> QED
    BY <1>5, <2>1 DEF Inv, FilesProved
<1>8. ReceiptTold'
  <2> SUFFICES ASSUME NEW t \in Table, t \notin late'
               PROVE  /\ compare[t] = "passed" => last[t] = "same"
                      /\ \A n \in 1..MaxRuns : child[n] # NoChild /\ child[n].table = t =>
                           /\ child[n].verdict = "passed" => last[t] = "same"
                           /\ child[n].pc = "reading" /\ Right(csv'[t], t) => last[t] = "same"
    BY DEF ReceiptTold, Same, Right
  <2>1. t \notin late
    OBVIOUS
  <2>2. CASE t = Subject
    <3>1. ~AtWork(Subject)
      BY <2>2
    <3> QED
      BY <2>1, <2>2, <3>1 DEF AtWork, Inv, ReceiptTold
  <2>3. CASE t # Subject
    BY <1>4, <2>1, <2>3 DEF Inv, ReceiptTold, Same
  <2> QED
    BY <2>2, <2>3
<1> QED
  BY <1>1, <1>2, <1>4, <1>5, <1>6, <1>7, <1>8

LEMMA StepExport ==
  ASSUME Inv, Export
  PROVE  Inv'
<1>0. run.pc = "export" /\ UNCHANGED <<runs, child, compare, left, report, ingest, load, last>>
  BY Zenon DEF Export
<1>1. /\ run # Idle /\ run.pc = "export"
      /\ UNCHANGED <<runs, child, compare, left, report, ingest, load, last>>
  BY <1>0 DEF Idle
<1>2. CASE Subject \in Composite /\ ~run.input.registered
  <2>1. Ends("blocked_complex_target_render") /\ UNCHANGED <<csv, proved, late>>
    BY <1>2, Zenon DEF Export
  <2>2. "blocked_complex_target_render" \in Status /\ "blocked_complex_target_render" \notin Pass
    BY DEF Status, Pass, Failure
  <2>3. runs' \in Nat /\ runs' >= runs /\ UNCHANGED Files
    BY <1>1, <2>1 DEF Inv, Types, Files
  <2>4. ChildTold' /\ FilesProved' /\ ReceiptTold'
    BY <2>1, <2>3, FilesKept
  <2>5. csv' \in [Table -> Rows \cup {Absent}] /\ late' \subseteq Table /\ proved' \subseteq Table
    BY <2>1 DEF Inv, Types
  <2> QED
    BY <1>1, <2>1, <2>2, <2>4, <2>5, EndStep
<1>3. CASE ~(Subject \in Composite /\ ~run.input.registered)
  <2>1. PICK rows \in Contents[Subject] :
          /\ csv' = [csv EXCEPT ![Subject] = rows]
          /\ proved' = IF Right(rows, Subject) /\ run.fails \cap Hard = {}
                       THEN proved \cup {Subject} ELSE proved
    BY <1>3, Zenon DEF Export
  <2>2. late' = IF AtWork(Subject) THEN late \cup {Subject} ELSE late
    BY <1>3, Zenon DEF Export
  <2>3. /\ csv' \in [Table -> Rows \cup {Absent}] /\ csv'[Subject] \in Contents[Subject]
        /\ late' \subseteq Table /\ proved \subseteq proved' /\ proved' \subseteq Table
        /\ ChildTold' /\ FilesProved' /\ ReceiptTold'
    BY <1>1, <2>1, <2>2, ExportKeeps
  <2>4. CASE Ends("blocked_no_comparable_key")
    <3>1. "blocked_no_comparable_key" \in Status /\ "blocked_no_comparable_key" \notin Pass
      BY DEF Status, Pass, Failure
    <3> QED
      BY <1>1, <2>3, <2>4, <3>1, EndStep
  <2>5. CASE run' = [run EXCEPT !.pc = "unlink"]
    <3>1. run \in RunRecord
      BY <1>1, SubjectType DEF Inv
    <3>2. /\ run' \in RunRecord /\ run'.pc = "unlink" /\ run'.fails = run.fails
          /\ run'.reason = run.reason /\ run'.input = run.input /\ run'.selected = run.selected
          /\ run'.at = run.at /\ run'.results = run.results
      BY <2>5, <3>1 DEF RunRecord
    <3>3. SchemaTold' /\ Subject' = Subject
      BY <3>2 DEF SchemaTold, Subject
    <3>4. RunWaits'
      BY <1>1, <2>3, <3>2, <3>3 DEF Inv, RunWaits
    <3>5. /\ child' \in [1..MaxRuns -> {NoChild} \cup ChildRecord]
          /\ compare' \in [Table -> Receipt] /\ left' \subseteq Table
          /\ last' \in [Table -> {"none", "same", "different"}]
      BY <1>1 DEF Inv, Types
    <3> QED
      BY <1>1, <2>3, <3>2, <3>3, <3>4, <3>5, WithinStep
  <2>6. Ends("blocked_no_comparable_key") \/ run' = [run EXCEPT !.pc = "unlink"]
    BY <1>3, Zenon DEF Export
  <2> QED
    BY <2>4, <2>5, <2>6
<1> QED
  BY <1>2, <1>3

LEMMA StepStartCompare ==
  ASSUME Inv, StartCompare
  PROVE  Inv'
<1> DEFINE new == [pc |-> "reading", table |-> Subject, verdict |-> "none"]
           held == IF Same(Subject) THEN "same" ELSE "different"
<1>1. /\ run # Idle /\ run.pc = "unlink"
      /\ UNCHANGED <<runs, csv, left, report, ingest, load, proved>>
      /\ compare' = [compare EXCEPT ![Subject] = Absent]
      /\ child' = [child EXCEPT ![runs] = new] /\ run' = [run EXCEPT !.pc = "compare"]
      /\ last' = [last EXCEPT ![Subject] = held]
      /\ late' = IF AtWork(Subject) THEN late \cup {Subject} ELSE late \ {Subject}
  BY DEF StartCompare, Unlinked, Idle
<1>2. Subject \in Table /\ runs \in 1..MaxRuns /\ csv[Subject] \in Contents[Subject]
  BY <1>1, SubjectType DEF Inv, RunWaits
<1>3. /\ Types
      /\ child \in [1..MaxRuns -> {NoChild} \cup ChildRecord]
      /\ compare \in [Table -> Receipt] /\ last \in [Table -> {"none", "same", "different"}]
  BY DEF Inv, Types
<1>4. new \in ChildRecord /\ new # NoChild /\ new.verdict = "none" /\ new.table = Subject
      /\ new.pc = "reading"
  BY <1>2 DEF ChildRecord, NoChild
<1>5. held \in {"same", "different"} /\ (Same(Subject) => held = "same")
  OBVIOUS
<1> HIDE DEF new, held
<1>6. \A n \in 1..MaxRuns : child'[n] = IF n = runs THEN new ELSE child[n]
  BY <1>1, <1>2, <1>3
<1>7. \A t \in Table : /\ compare'[t] = IF t = Subject THEN Absent ELSE compare[t]
                      /\ last'[t] = IF t = Subject THEN held ELSE last[t]
  BY <1>1, <1>2, <1>3
<1>8. \A t : Same(t)' <=> Same(t)
  BY <1>1 DEF Same, Right
<1>9. /\ child' \in [1..MaxRuns -> {NoChild} \cup ChildRecord]
      /\ compare' \in [Table -> Receipt] /\ left' \subseteq Table /\ late' \subseteq Table
      /\ last' \in [Table -> {"none", "same", "different"}]
      /\ csv' \in [Table -> Rows \cup {Absent}] /\ proved' \subseteq Table
  BY <1>1, <1>2, <1>3, <1>4, <1>5 DEF Inv, Types, Receipt
<1>10. run \in RunRecord
  BY <1>1, SubjectType DEF Inv
<1>11. /\ run' \in RunRecord /\ run'.pc = "compare" /\ run'.fails = run.fails
       /\ run'.reason = run.reason /\ run'.input = run.input /\ run'.selected = run.selected
       /\ run'.at = run.at /\ run'.results = run.results
  BY <1>1, <1>10 DEF RunRecord
<1>12. SchemaTold' /\ Subject' = Subject
  BY <1>11 DEF SchemaTold, Subject
<1>13. ChildTold'
  BY <1>1, <1>2, <1>4, <1>6 DEF Inv, ChildTold
<1>14. FilesProved'
  BY <1>1, <1>4, <1>6, <1>7, <1>8, AbsentAssumption DEF Inv, FilesProved
<1>15. RunWaits'
  BY <1>1, <1>2, <1>4, <1>6, <1>11, <1>12 DEF RunWaits
<1>16. ReceiptTold'
  <2> SUFFICES ASSUME NEW t \in Table, t \notin late'
               PROVE  /\ compare'[t] = "passed" => last'[t] = "same"
                      /\ \A n \in 1..MaxRuns : child'[n] # NoChild /\ child'[n].table = t =>
                           /\ child'[n].verdict = "passed" => last'[t] = "same"
                           /\ child'[n].pc = "reading" /\ Same(t) => last'[t] = "same"
    BY <1>8 DEF ReceiptTold
  <2>1. CASE t = Subject
    <3>1. ~AtWork(Subject)
      BY <1>1, <2>1
    <3>2. \A n \in 1..MaxRuns : n # runs => ~(child'[n] # NoChild /\ child'[n].table = t)
      BY <1>6, <2>1, <3>1 DEF AtWork
    <3> QED
      BY <1>2, <1>4, <1>5, <1>6, <1>7, <2>1, <3>2, AbsentAssumption
  <2>2. CASE t # Subject
    <3>1. t \notin late
      BY <1>1, <2>2
    <3> QED
      BY <1>4, <1>6, <1>7, <2>2, <3>1 DEF Inv, ReceiptTold
  <2> QED
    BY <2>1, <2>2
<1> QED
  BY <1>1, <1>9, <1>11, <1>12, <1>13, <1>14, <1>15, <1>16, WithinStep

LEMMA StepJudge ==
  ASSUME Inv, Judge
  PROVE  Inv'
<1>1. /\ run # Idle /\ run.pc = "judge"
      /\ Ends(IF Passed THEN "parity_pass" ELSE "parity_fail")
      /\ UNCHANGED <<runs, child, csv, compare, left, report, ingest, load, proved, last, late>>
  BY DEF Judge, Idle
<1>2. ChildTold' /\ FilesProved' /\ ReceiptTold'
  <2>1. runs' \in Nat /\ runs' >= runs /\ proved \subseteq proved' /\ UNCHANGED Files
    BY <1>1 DEF Inv, Types, Files
  <2> QED
    BY <2>1, FilesKept
<1>3. /\ csv' \in [Table -> Rows \cup {Absent}] /\ late' \subseteq Table /\ proved' \subseteq Table
  BY <1>1 DEF Inv, Types
<1>4. Passed => Subject \in proved
  <2>1. Subject \in Table
    BY <1>1, SubjectType DEF Inv
  <2> QED
    BY <2>1 DEF Passed, Inv, FilesProved
<1>5. ASSUME NEW status \in {"parity_pass", "parity_fail"}, Ends(status),
             status = "parity_pass" => Passed
      PROVE  Inv'
  <2>1. status \in Status /\ (status \in Pass => status = "parity_pass")
    BY DEF Status, Pass, Failure
  <2> QED
    BY <1>1, <1>2, <1>3, <1>4, <1>5, <2>1, EndStep
<1> QED
  BY <1>1, <1>5

-----------------------------------------------------------------------------
(* A comparison                                                            *)

(* What a comparison is about, and what its run has of it.                 *)
LEMMA ChildType ==
  ASSUME Inv, NEW n \in 1..MaxRuns, child[n] # NoChild
  PROVE  /\ child[n] \in ChildRecord /\ child[n].table \in Table
         /\ child[n].verdict \in {"none", "passed", "failed"}
         /\ n <= runs /\ csv[child[n].table] \in Contents[child[n].table]
         /\ csv[child[n].table] \in Rows /\ Source[child[n].table] \in Rows
         /\ child[n].verdict = "passed" => child[n].table \in proved
<1>1. child[n] \in ChildRecord
  BY DEF Inv, Types
<1>2. child[n].table \in Table /\ child[n].verdict \in {"none", "passed", "failed"}
  BY <1>1 DEF ChildRecord
<1>3. Source[child[n].table] \in Rows /\ Contents[child[n].table] \subseteq Rows
  BY <1>2, DataAssumption DEF Rows
<1> QED
  BY <1>1, <1>2, <1>3 DEF Inv, ChildTold, FilesProved

(* A comparison that goes on: what passes is the export it has read.       *)
LEMMA ChildGoesOn ==
  ASSUME Inv, NEW n \in 1..MaxRuns, child[n] # NoChild,
         NEW next \in ChildRecord, next.table = child[n].table, next.pc # "reading",
         next.verdict \in {"passed", "failed"},
         next.verdict = "passed" => child[n].verdict = "passed"
                                    \/ (child[n].pc = "reading" /\ Same(child[n].table)),
         child' = [child EXCEPT ![n] = next], left' \subseteq Table,
         UNCHANGED <<runs, run, csv, compare, report, ingest, load, proved, last, late>>
  PROVE  Inv'
<1>1. child \in [1..MaxRuns -> {NoChild} \cup ChildRecord] /\ next # NoChild
  BY DEF Inv, Types, ChildRecord, NoChild
<1>2. \A m \in 1..MaxRuns : child'[m] = IF m = n THEN next ELSE child[m]
  BY <1>1
<1>3. Types'
  BY <1>1 DEF Inv, Types
<1>4. \A t : Same(t)' <=> Same(t)
  BY DEF Same, Right
<1>5. next.verdict = "passed" => child[n].table \in proved
  BY ChildType DEF Inv, FilesProved
<1>6. ChildTold'
  BY <1>2, ChildType DEF Inv, ChildTold
<1>7. FilesProved'
  BY <1>2, <1>4, <1>5 DEF Inv, FilesProved
<1>8. ReceiptTold'
  <2> SUFFICES ASSUME NEW t \in Table \ late
               PROVE  /\ compare[t] = "passed" => last[t] = "same"
                      /\ \A m \in 1..MaxRuns : child'[m] # NoChild /\ child'[m].table = t =>
                           /\ child'[m].verdict = "passed" => last[t] = "same"
                           /\ child'[m].pc = "reading" /\ Same(t) => last[t] = "same"
    BY <1>4 DEF ReceiptTold
  <2>1. /\ compare[t] = "passed" => last[t] = "same"
        /\ \A m \in 1..MaxRuns : child[m] # NoChild /\ child[m].table = t =>
             /\ child[m].verdict = "passed" => last[t] = "same"
             /\ child[m].pc = "reading" /\ Same(t) => last[t] = "same"
    BY DEF Inv, ReceiptTold
  <2> QED
    BY <1>2, <2>1
<1>9. RunWaits'
  <2> SUFFICES ASSUME run # Idle
               PROVE  /\ runs \in 1..MaxRuns
                      /\ run.pc = "unlink" => csv[Subject] \in Contents[Subject]
                      /\ child'[runs] # NoChild <=> run.pc = "compare"
                      /\ run.pc = "compare" =>
                           /\ child'[runs].table = Subject
                           /\ child'[runs].verdict = "passed" => Same(Subject)
                      /\ run.pc = "judge" /\ run.exit = "passed" => Same(Subject)
    BY <1>4 DEF RunWaits, Subject
  <2> QED
    BY <1>1, <1>2 DEF Inv, RunWaits
<1>10. SchemaTold' /\ PassesEarned' /\ ResultsCover' /\ ReportTold'
  BY DEF Inv, SchemaTold, PassesEarned, Earned, CreditedWasProved, ResultsCover, ReportTold
<1> QED
  BY <1>3, <1>6, <1>7, <1>8, <1>9, <1>10 DEF Inv

(* A comparison that ends, with its verdict as a file or without.          *)
LEMMA ChildEnds ==
  ASSUME Inv, NEW n \in 1..MaxRuns, child[n] # NoChild,
         NEW code \in Code, code = "passed" => child[n].verdict = "passed", Exits(n, code),
         \/ UNCHANGED compare
         \/ /\ child[n].verdict \in {"passed", "failed"}
            /\ compare' = [compare EXCEPT ![child[n].table] = child[n].verdict],
         left' \subseteq Table,
         UNCHANGED <<runs, csv, report, ingest, load, proved, last, late>>
  PROVE  Inv'
<1>1. /\ child \in [1..MaxRuns -> {NoChild} \cup ChildRecord]
      /\ compare \in [Table -> Receipt] /\ child[n].table \in Table
      /\ child' = [child EXCEPT ![n] = NoChild]
  BY ChildType DEF Inv, Types, Exits
<1>2. \A m \in 1..MaxRuns : child'[m] = IF m = n THEN NoChild ELSE child[m]
  BY <1>1
<1>3. \A t : Same(t)' <=> Same(t)
  BY DEF Same, Right
<1>4. \A t \in Table : compare'[t] = "passed" =>
        compare[t] = "passed" \/ (t = child[n].table /\ child[n].verdict = "passed")
  BY <1>1
<1>5. /\ child' \in [1..MaxRuns -> {NoChild} \cup ChildRecord]
      /\ csv' \in [Table -> Rows \cup {Absent}]
      /\ compare' \in [Table -> Receipt] /\ left' \subseteq Table /\ late' \subseteq Table
      /\ last' \in [Table -> {"none", "same", "different"}]
      /\ proved' \subseteq Table
  BY <1>1 DEF Inv, Types, Receipt
<1>6. ChildTold'
  BY <1>2 DEF Inv, ChildTold
<1>7. FilesProved'
  BY <1>2, <1>3, <1>4, ChildType DEF Inv, FilesProved
<1>8. ReceiptTold'
  <2> SUFFICES ASSUME NEW t \in Table \ late
               PROVE  /\ compare'[t] = "passed" => last[t] = "same"
                      /\ \A m \in 1..MaxRuns : child'[m] # NoChild /\ child'[m].table = t =>
                           /\ child'[m].verdict = "passed" => last[t] = "same"
                           /\ child'[m].pc = "reading" /\ Same(t) => last[t] = "same"
    BY <1>3 DEF ReceiptTold
  <2>1. /\ compare[t] = "passed" => last[t] = "same"
        /\ \A m \in 1..MaxRuns : child[m] # NoChild /\ child[m].table = t =>
             /\ child[m].verdict = "passed" => last[t] = "same"
             /\ child[m].pc = "reading" /\ Same(t) => last[t] = "same"
    BY DEF Inv, ReceiptTold
  <2> QED
    BY <1>2, <1>4, <2>1
<1>9. CASE run # Idle /\ n = runs
  <2>1. /\ run' = [run EXCEPT !.pc = "judge", !.exit = code]
        /\ run \in RunRecord
    BY <1>9, SubjectType DEF Exits, Inv
  <2>2. /\ run.pc = "compare" /\ child[runs].table = Subject
        /\ child[runs].verdict = "passed" => Same(Subject)
    BY <1>9 DEF Inv, RunWaits
  <2>3. /\ run' \in RunRecord /\ run'.pc = "judge" /\ run'.exit = code
        /\ run'.selected = run.selected /\ run'.at = run.at /\ run'.results = run.results
    BY <2>1 DEF RunRecord
  <2>4. SchemaTold' /\ Subject' = Subject
    BY <2>3 DEF SchemaTold, Subject
  <2>5. RunWaits'
    BY <1>2, <1>3, <1>9, <2>2, <2>3, <2>4 DEF RunWaits
  <2> QED
    BY <1>5, <1>6, <1>7, <1>8, <1>9, <2>2, <2>3, <2>4, <2>5, WithinStep
<1>10. CASE ~(run # Idle /\ n = runs)
  <2>1. run' = run
    BY <1>10 DEF Exits
  <2>2. Types'
    BY <1>5, <2>1 DEF Inv, Types
  <2>3. RunWaits'
    <3> SUFFICES ASSUME run # Idle
                 PROVE  /\ runs \in 1..MaxRuns
                        /\ run.pc = "unlink" => csv[Subject] \in Contents[Subject]
                        /\ child'[runs] # NoChild <=> run.pc = "compare"
                        /\ run.pc = "compare" =>
                             /\ child'[runs].table = Subject
                             /\ child'[runs].verdict = "passed" => Same(Subject)
                        /\ run.pc = "judge" /\ run.exit = "passed" => Same(Subject)
      BY <1>3, <2>1 DEF RunWaits, Subject
    <3> QED
      BY <1>2, <1>10 DEF Inv, RunWaits
  <2>4. SchemaTold' /\ PassesEarned' /\ ResultsCover' /\ ReportTold'
    BY <2>1 DEF Inv, SchemaTold, PassesEarned, Earned, CreditedWasProved, ResultsCover, ReportTold
  <2> QED
    BY <1>6, <1>7, <1>8, <2>2, <2>3, <2>4 DEF Inv
<1> QED
  BY <1>9, <1>10

LEMMA StepCompareData ==
  ASSUME Inv, NEW n \in 1..MaxRuns, CompareData(n)
  PROVE  Inv'
<1> DEFINE t == child[n].table
<1>1. child[n] # NoChild
  BY DEF CompareData, ReadsExports, ChecksOutput, OpensOutput, RenamesOutput, CompareDies, NoChild
<1>2. /\ child[n] \in ChildRecord /\ t \in Table
      /\ child[n].verdict \in {"none", "passed", "failed"}
      /\ csv[t] \in Rows /\ Source[t] \in Rows /\ left \subseteq Table
  BY <1>1, ChildType DEF Inv, Types
<1>3. "error" \in Code /\ {"passed", "failed"} \subseteq Code
  BY DEF Code
<1>4. ASSUME Exits(n, "error"),
             UNCHANGED <<runs, csv, compare, left, report, ingest, load, proved, last, late>>
      PROVE  Inv'
  BY <1>1, <1>2, <1>3, <1>4, ChildEnds
<1>5. CASE ReadsExports(n)
  <2> DEFINE verdict == Compared(Source[t], csv[t])
  <2>1. UNCHANGED <<runs, csv, compare, left, report, ingest, load, proved, last, late>>
        /\ child[n].pc = "reading"
    BY <1>5 DEF ReadsExports
  <2>2. CASE verdict = "error"
    BY <1>4, <1>5, <2>1, <2>2 DEF ReadsExports
  <2>3. CASE verdict # "error"
    <3>1. /\ child' = [child EXCEPT ![n].pc = "read", ![n].verdict = verdict] /\ run' = run
      BY <1>5, <2>3 DEF ReadsExports
    <3>2. verdict \in {"passed", "failed"}
      BY <2>3 DEF Compared
    <3>3. verdict = "passed" => Same(t)
      BY <1>2, ComparedEqual DEF Same, Right
    <3> HIDE DEF verdict
    <3> DEFINE next == [child[n] EXCEPT !.pc = "read", !.verdict = verdict]
    <3>4. next \in ChildRecord /\ next.table = t /\ next.pc = "read" /\ next.verdict = verdict
      BY <1>2, <3>2 DEF ChildRecord
    <3>5. child' = [child EXCEPT ![n] = next]
      BY <3>1 DEF Inv, Types
    <3> HIDE DEF next
    <3> QED
      BY <1>1, <1>2, <2>1, <3>1, <3>2, <3>3, <3>4, <3>5, ChildGoesOn
  <2> QED
    BY <2>2, <2>3
<1>6. ASSUME NEW pc \in {"clear", "writing"}, child' = [child EXCEPT ![n].pc = pc],
             left' \subseteq Table, child[n].pc # "reading",
             UNCHANGED <<runs, run, csv, compare, report, ingest, load, proved, last, late>>
      PROVE  Inv'
  <2> DEFINE next == [child[n] EXCEPT !.pc = pc]
  <2>1. /\ next \in ChildRecord /\ next.table = t /\ next.pc = pc
        /\ next.verdict = child[n].verdict
    BY <1>2 DEF ChildRecord
  <2>2. child' = [child EXCEPT ![n] = next]
    BY <1>6 DEF Inv, Types
  <2> HIDE DEF next
  <2>3. child[n].verdict \in {"passed", "failed"}
    BY <1>1, <1>6 DEF Inv, ChildTold
  <2> QED
    BY <1>1, <1>6, <2>1, <2>2, <2>3, ChildGoesOn
<1>7. CASE ChecksOutput(n)
  BY <1>2, <1>4, <1>6, <1>7 DEF ChecksOutput
<1>8. CASE OpensOutput(n)
  BY <1>2, <1>4, <1>6, <1>8 DEF OpensOutput
<1>9. CASE RenamesOutput(n)
  <2>1. /\ compare' = [compare EXCEPT ![t] = child[n].verdict] /\ left' = left \ {t}
        /\ child[n].pc = "writing"
        /\ UNCHANGED <<runs, csv, report, ingest, load, proved, last, late>>
    BY <1>9 DEF RenamesOutput
  <2>2. PICK code \in {child[n].verdict, "error"} : Exits(n, code)
    BY <1>9 DEF RenamesOutput
  <2>3. child[n].verdict \in {"passed", "failed"}
    BY <1>1, <2>1 DEF Inv, ChildTold
  <2> QED
    BY <1>1, <1>2, <1>3, <2>1, <2>2, <2>3, ChildEnds
<1>10. CASE CompareDies(n)
  BY <1>4, <1>10 DEF CompareDies
<1> QED
  BY <1>5, <1>7, <1>8, <1>9, <1>10 DEF CompareData

-----------------------------------------------------------------------------
(* The end of a validation                                                 *)

LEMMA StepWriteReport ==
  ASSUME Inv, WriteReport
  PROVE  Inv'
<1>1. run # Idle /\ run.pc = "report"
  BY DEF WriteReport, Idle
<1>2. /\ UNCHANGED <<runs, child, csv, compare, left, ingest, load, proved, last, late>> /\ run' = Idle
      /\ report' = [results |-> run.results, selected |-> run.selected,
                    overall |-> Overall(run.input.sourceOnly, run.results),
                    coverage |-> Coverage(run.selected)]
  BY DEF WriteReport
<1>3. run.results \in Results /\ run.selected \in Selections
  <2>1. run \in RunRecord
    BY <1>1, SubjectType DEF Inv
  <2> QED
    BY <2>1 DEF RunRecord
<1>4. /\ Overall(run.input.sourceOnly, run.results) \in {"PASS", "FAIL", "INCOMPLETE"}
      /\ Overall(run.input.sourceOnly, run.results) = "PASS" =>
           \A t \in DOMAIN run.results : run.results[t] \in Pass
  BY Zenon DEF Overall
<1>5. /\ Coverage(run.selected) \in {"all", "subset"}
      /\ Coverage(run.selected) = "all" => Len(run.selected) = Cardinality(Table)
  BY DEF Coverage
<1>6. report' \in ReportRecord
  BY <1>2, <1>3, <1>4, <1>5 DEF ReportRecord
<1>7. /\ report'.results = run.results /\ report'.selected = run.selected
      /\ report'.overall = Overall(run.input.sourceOnly, run.results)
      /\ report'.coverage = Coverage(run.selected)
  BY <1>2
<1>8. Types'
  BY <1>2, <1>6 DEF Inv, Types
<1>9. DOMAIN run.results = Selected(run.selected, Len(run.selected))
  BY <1>1 DEF Inv, ResultsCover
<1>10. ReportTold'
  BY <1>4, <1>5, <1>7, <1>9 DEF ReportTold
<1>11. PassesEarned'
  BY <1>1, <1>2, <1>7 DEF Inv, PassesEarned, Earned, CreditedWasProved
<1>12. run'.pc = "idle"
  BY <1>2 DEF Idle
<1>13. SchemaTold' /\ ResultsCover' /\ RunWaits'
  BY <1>2, <1>12 DEF SchemaTold, ResultsCover, RunWaits
<1>14. ChildTold' /\ FilesProved' /\ ReceiptTold'
  <2>1. runs' \in Nat /\ runs' >= runs /\ proved \subseteq proved' /\ UNCHANGED Files
    BY <1>2 DEF Inv, Types, Files
  <2> QED
    BY <2>1, FilesKept
<1> QED
  BY <1>8, <1>10, <1>11, <1>13, <1>14 DEF Inv

LEMMA StepAbort ==
  ASSUME Inv, Abort
  PROVE  Inv'
<1>1. /\ run # Idle /\ run' = Idle /\ report' \in {report, Torn}
      /\ UNCHANGED <<runs, child, csv, compare, left, ingest, load, proved, last, late>>
  BY DEF Abort
<1>2. Types'
  BY <1>1 DEF Inv, Types
<1>3. run'.pc = "idle"
  BY <1>1 DEF Idle
<1>4. SchemaTold' /\ ResultsCover' /\ RunWaits'
  BY <1>1, <1>3 DEF SchemaTold, ResultsCover, RunWaits
<1>5. ReportTold' /\ PassesEarned'
  BY <1>1 DEF Inv, ReportTold, PassesEarned, Earned, CreditedWasProved
<1>6. ChildTold' /\ FilesProved' /\ ReceiptTold'
  <2>1. runs' \in Nat /\ runs' >= runs /\ proved \subseteq proved' /\ UNCHANGED Files
    BY <1>1 DEF Inv, Types, Files
  <2> QED
    BY <2>1, FilesKept
<1> QED
  BY <1>2, <1>4, <1>5, <1>6 DEF Inv

-----------------------------------------------------------------------------
(* An ingest                                                               *)

(* Only what passed is credited.                                           *)
LEMMA CreditPass ==
  ASSUME NEW t, NEW status, NEW receipt
  PROVE  /\ Credit(t, status, receipt) \in {"reviewed", "blocked", "incomplete"}
         /\ Credit(t, status, receipt) = "reviewed" => status \in Pass
BY DEF Credit

LEMMA StepIngest ==
  ASSUME Inv, BeginIngest \/ (\E t \in Table : ReadReceipt(t)) \/ WriteLoad \/ IngestDies
  PROVE  Inv'
<1>1. UNCHANGED <<runs, run, child, csv, compare, left, report, proved, last, late>>
  BY Zenon DEF BeginIngest, ReadReceipt, WriteLoad, IngestDies
<1>2. /\ SchemaTold' /\ ResultsCover' /\ ReportTold'
      /\ ChildTold' /\ FilesProved' /\ RunWaits' /\ ReceiptTold'
  <2>1. runs' \in Nat /\ runs' >= runs /\ proved \subseteq proved' /\ UNCHANGED Files
    BY <1>1 DEF Inv, Types, Files
  <2>2. SchemaTold' /\ ResultsCover' /\ ReportTold'
    BY <1>1 DEF Inv, SchemaTold, ResultsCover, ReportTold
  <2>3. RunWaits'
    BY <1>1 DEF Inv, RunWaits, Same, Subject
  <2> QED
    BY <2>1, <2>2, <2>3, FilesKept
<1>3. CASE BeginIngest
  <2>1. report \in ReportRecord /\ UNCHANGED load /\ Earned(report.results)
    BY <1>3 DEF BeginIngest, Inv, Types, PassesEarned
  <2>2. report.results \in Results
    BY <2>1 DEF ReportRecord
  <2> DEFINE todo == {t \in DOMAIN report.results :
                        report.results[t] \in {"parity_pass", "parity_fail"}}
             seen == [t \in DOMAIN report.results |-> Absent]
  <2>3. /\ DOMAIN report.results \subseteq Table
        /\ todo \subseteq DOMAIN report.results
        /\ seen \in [DOMAIN report.results -> Receipt]
    BY <2>2 DEF Results, Receipt
  <2>4. ingest' = [pc |-> "receipts", results |-> report.results, todo |-> todo, seen |-> seen]
    BY <1>3 DEF BeginIngest
  <2>5. DOMAIN seen = DOMAIN report.results
    OBVIOUS
  <2> HIDE DEF todo, seen
  <2>6. ingest' \in IngestRecord /\ ingest'.todo \subseteq DOMAIN ingest'.seen
        /\ ingest'.results = report.results
    BY <2>2, <2>3, <2>4, <2>5 DEF IngestRecord
  <2>7. Types' /\ PassesEarned'
    BY <1>1, <2>1, <2>6 DEF Inv, Types, PassesEarned, Earned, CreditedWasProved
  <2> QED
    BY <1>2, <2>7 DEF Inv
<1>4. ASSUME NEW t \in Table, ReadReceipt(t) PROVE Inv'
  <2>1. /\ ingest \in IngestRecord /\ ingest.todo \subseteq DOMAIN ingest.seen
        /\ UNCHANGED load /\ t \in ingest.todo
        /\ ingest' = [ingest EXCEPT !.todo = ingest.todo \ {t},
                                   !.seen = [ingest.seen EXCEPT ![t] = compare[t]]]
    BY <1>4, Zenon DEF ReadReceipt, Inv, Types
  <2>2. compare[t] \in Receipt
    BY DEF Inv, Types
  <2>3. ingest.seen \in UNION {[D -> Receipt] : D \in SUBSET Table}
    BY <2>1 DEF IngestRecord
  <2>4. ingest.seen \in [DOMAIN ingest.seen -> Receipt] /\ DOMAIN ingest.seen \subseteq Table
    BY <2>3
  <2> DEFINE seen == [ingest.seen EXCEPT ![t] = compare[t]]
  <2>5. seen \in [DOMAIN ingest.seen -> Receipt] /\ DOMAIN seen = DOMAIN ingest.seen
    BY <2>2, <2>4
  <2>6. seen \in UNION {[D -> Receipt] : D \in SUBSET Table}
    BY <2>4, <2>5
  <2>7. ingest' = [ingest EXCEPT !.todo = ingest.todo \ {t}, !.seen = seen]
    BY <2>1
  <2> HIDE DEF seen
  <2>8. ingest' \in IngestRecord /\ ingest'.todo = ingest.todo \ {t} /\ ingest'.seen = seen
        /\ ingest'.results = ingest.results
    BY <2>1, <2>6, <2>7 DEF IngestRecord
  <2>9. ingest # Idle
    BY <1>4, Zenon DEF ReadReceipt
  <2>10. Types' /\ PassesEarned'
    BY <1>1, <2>1, <2>5, <2>8, <2>9 DEF Inv, Types, PassesEarned, Earned, CreditedWasProved
  <2> QED
    BY <1>2, <2>10 DEF Inv
<1>5. CASE WriteLoad
  <2>1. /\ ingest # Idle /\ ingest' = Idle
        /\ load' = [t \in Table |-> IF t \in DOMAIN ingest.results
                                   THEN Credit(t, ingest.results[t], ingest.seen[t]) ELSE load[t]]
    BY <1>5 DEF WriteLoad
  <2>2. load' \in [Table -> {"unstarted", "reviewed", "blocked", "incomplete"}]
    BY <2>1, CreditPass DEF Inv, Types
  <2>3. Earned(ingest.results) /\ CreditedWasProved
    BY <2>1 DEF Inv, PassesEarned
  <2>4. CreditedWasProved'
    BY <1>1, <2>1, <2>3, CreditPass DEF Earned, CreditedWasProved
  <2>5. Types'
    BY <1>1, <2>1, <2>2 DEF Inv, Types
  <2>6. PassesEarned'
    BY <1>1, <2>1, <2>4 DEF Inv, PassesEarned, Earned
  <2> QED
    BY <1>2, <2>5, <2>6 DEF Inv
<1>6. CASE IngestDies
  <2>1. ingest' = Idle /\ UNCHANGED load
    BY <1>6 DEF IngestDies
  <2>2. Types' /\ PassesEarned'
    BY <1>1, <2>1 DEF Inv, Types, PassesEarned, Earned, CreditedWasProved
  <2> QED
    BY <1>2, <2>2 DEF Inv
<1> QED
  BY <1>3, <1>4, <1>5, <1>6

-----------------------------------------------------------------------------
(* The theorems                                                            *)

LEMMA ValidationInvariant == Spec => []Inv
<1>1. Init => Inv
  <2> SUFFICES ASSUME Init PROVE Inv
    OBVIOUS
  <2>1. run.pc = "idle" /\ run = Idle
    BY DEF Init, Idle
  <2>2. /\ \A n \in 1..MaxRuns : child[n] = NoChild
        /\ \A t \in Table : csv[t] = Absent /\ compare[t] = Absent
    BY DEF Init
  <2>3. Types
    BY DEF Init, Types, Receipt
  <2>4. SchemaTold /\ PassesEarned /\ ResultsCover /\ ReportTold
    BY <2>1 DEF Init, SchemaTold, PassesEarned, Earned, CreditedWasProved, ResultsCover, ReportTold
  <2>5. ChildTold /\ RunWaits
    BY <2>1, <2>2 DEF ChildTold, RunWaits
  <2>6. FilesProved /\ ReceiptTold
    BY <2>2, AbsentAssumption DEF FilesProved, ReceiptTold
  <2> QED
    BY <2>3, <2>4, <2>5, <2>6 DEF Inv
<1>2. Inv /\ [Next]_vars => Inv'
  <2> SUFFICES ASSUME Inv, [Next]_vars PROVE Inv'
    OBVIOUS
  <2>1. CASE UNCHANGED vars
    <3>1. SchemaTold' /\ PassesEarned' /\ ResultsCover' /\ ReportTold' /\ Types'
      BY <2>1 DEF vars, Inv, Types, SchemaTold, PassesEarned, Earned, CreditedWasProved,
         ResultsCover, ReportTold
    <3>2. ChildTold' /\ FilesProved' /\ RunWaits' /\ ReceiptTold'
      BY <2>1 DEF vars, Inv, ChildTold, FilesProved, RunWaits, ReceiptTold, Same, Subject
    <3> QED
      BY <3>1, <3>2 DEF Inv
  <2>2. ASSUME NEW n \in 1..MaxRuns, CompareData(n) PROVE Inv'
    BY <2>2, StepCompareData
  <2> QED
    BY <2>1, <2>2, StepBegin, StepCheckSchema, StepCountRows, StepExport, StepStartCompare,
       StepJudge, StepWriteReport, StepAbort, StepIngest DEF Next
<1> QED
  BY <1>1, <1>2, PTL DEF Spec

(* A load unit is credited only if the target was seen to be right, for    *)
(* every snapshot and target (ingest_data, build_receipts, compare_exports)*)
THEOREM CreditWasProved == Spec => []CreditedWasProved
<1>1. Inv => CreditedWasProved
  BY DEF Inv, PassesEarned
<1> QED
  BY <1>1, ValidationInvariant, PTL

(* Only an ingest reads a receipt.                                         *)
LEMMA OthersIngestNothing ==
  ASSUME [Next]_vars
  PROVE  \/ UNCHANGED ingest
         \/ (\E t \in Table : ReadReceipt(t)) \/ BeginIngest \/ WriteLoad \/ IngestDies
<1>1. CASE CheckSchema \/ CountRows \/ Export \/ StartCompare
  BY <1>1, Zenon DEF CheckSchema, CountRows, Export, StartCompare
<1>2. CASE Judge \/ WriteReport \/ Abort
  BY <1>2, Zenon DEF Judge, WriteReport, Abort
<1>3. ASSUME NEW selected \in Selections, NEW input \in Inputs, Begin(selected, input)
      PROVE  UNCHANGED ingest
  BY <1>3 DEF Begin
<1>4. ASSUME NEW n \in 1..MaxRuns, CompareData(n)
      PROVE  UNCHANGED ingest
  BY <1>4, Zenon DEF CompareData, ReadsExports, ChecksOutput, OpensOutput, RenamesOutput, CompareDies
<1>5. UNCHANGED vars => UNCHANGED ingest
  BY DEF vars
<1> QED
  BY <1>1, <1>2, <1>3, <1>4, <1>5 DEF Next

(* What an ingest reads as passed is the newest comparison, whatever runs  *)
(* were cut short and whatever of them is still at work, unless it was at  *)
(* work on that table when the newest one began (compare_data, ingest_data)*)
THEOREM NewestReceipt == Spec => ReceiptIsNewest
<1>1. ASSUME Inv, [Next]_vars, NEW t \in Table \ late, ReadsPassed(t)
      PROVE  last[t] = "same"
  <2>1. ~BeginIngest /\ ~WriteLoad /\ ~IngestDies
    BY <1>1 DEF ReadsPassed, BeginIngest, WriteLoad, IngestDies
  <2>2. PICK u \in Table : ReadReceipt(u)
    BY <1>1, <2>1, OthersIngestNothing DEF ReadsPassed
  <2>3. /\ ingest \in IngestRecord /\ ingest.todo \subseteq DOMAIN ingest.seen
        /\ ingest' = [ingest EXCEPT !.todo = ingest.todo \ {u},
                                   !.seen = [ingest.seen EXCEPT ![u] = compare[u]]]
    BY <1>1, <2>2 DEF ReadReceipt, ReadsPassed, Inv, Types
  <2>4. /\ ingest'.todo = ingest.todo \ {u}
        /\ ingest'.seen = [ingest.seen EXCEPT ![u] = compare[u]]
    BY <2>3 DEF IngestRecord
  <2>5. t = u /\ u \in DOMAIN ingest.seen
    BY <1>1, <2>3, <2>4 DEF ReadsPassed
  <2>6. compare[t] = "passed"
    BY <1>1, <2>4, <2>5 DEF ReadsPassed
  <2> QED
    BY <1>1, <2>6 DEF Inv, ReceiptTold
<1>2. Inv /\ [Next]_vars =>
        [\A t \in Table \ late : ReadsPassed(t) => last[t] = "same"]_vars
  BY <1>1
<1> QED
  BY <1>2, ValidationInvariant, PTL DEF Spec, ReceiptIsNewest

(* A run passes a table only when its own export held the rows of the      *)
(* snapshot, whatever comparison an earlier run put in its place meanwhile *)
(* (compare_data, _validate_target).                                       *)
THEOREM PassOfThisRun == Spec => PassIsOfThisRun
<1>1. ASSUME Inv, [Next]_vars, run.pc = "judge", run'.pc \notin {"judge", "idle"},
             run'.results[Subject] = "parity_pass"
      PROVE  Same(Subject)
  <2>1. run # Idle
    BY <1>1 DEF Idle
  <2>2. ~CheckSchema /\ ~CountRows /\ ~Export /\ ~StartCompare /\ ~WriteReport
    BY <1>1 DEF CheckSchema, CountRows, Export, StartCompare, WriteReport
  <2>3. ~Abort
    BY <1>1 DEF Abort, Idle
  <2>4. ASSUME NEW n \in 1..MaxRuns, CompareData(n) PROVE run'.pc = "judge"
    <3>1. run' = run \/ run' = [run EXCEPT !.pc = "judge", !.exit = "error"]
          \/ \E code : run' = [run EXCEPT !.pc = "judge", !.exit = code]
      BY <2>4 DEF CompareData, ReadsExports, ChecksOutput, OpensOutput, RenamesOutput, CompareDies,
         Exits
    <3>2. run \in RunRecord
      BY <1>1, <2>1, SubjectType DEF Inv
    <3> QED
      BY <1>1, <3>1, <3>2 DEF RunRecord
  <2>5. UNCHANGED run => run'.pc = "judge"
    BY <1>1
  <2>6. /\ BeginIngest \/ (\E t \in Table : ReadReceipt(t)) \/ WriteLoad \/ IngestDies => UNCHANGED run
        /\ UNCHANGED vars => UNCHANGED run
        /\ \A selected \in Selections, input \in Inputs : ~Begin(selected, input)
    BY <2>1 DEF BeginIngest, ReadReceipt, WriteLoad, IngestDies, vars, Begin
  <2>7. Judge
    BY <1>1, <2>2, <2>3, <2>4, <2>5, <2>6 DEF Next
  <2>8. PICK status \in {"parity_pass", "parity_fail"} :
          Ends(status) /\ (status = "parity_pass" => Passed)
    BY <2>7 DEF Judge
  <2>9. status \in Status
    BY DEF Status, Pass, Failure
  <2>10. run'.results[Subject] = status
    BY <1>1, <2>1, <2>8, <2>9, EndsTable DEF Inv
  <2> QED
    BY <1>1, <2>1, <2>8, <2>10 DEF Passed, Inv, RunWaits
<1>2. Inv /\ [Next]_vars =>
        [run.pc = "judge" /\ run'.pc \notin {"judge", "idle"}
           /\ run'.results[Subject] = "parity_pass" => Same(Subject)]_vars
  BY <1>1
<1> QED
  BY <1>2, ValidationInvariant, PTL DEF Spec, PassIsOfThisRun

(* A report that says PASS says so of all it selected, and of every table  *)
(* if it selected all and none twice (build_receipts).                     *)
THEOREM PassCovers == Spec => []PassCoversSelection
<1>1. ASSUME Inv, report \notin {Absent, Torn}, report.overall = "PASS"
      PROVE  /\ \A i \in DOMAIN report.selected : report.results[report.selected[i]] \in Pass
             /\ report.coverage = "all" /\ IsInjective(report.selected) =>
                  \A t \in Table : t \in DOMAIN report.results /\ t \in proved
  <2> DEFINE n == Len(report.selected)
  <2>1. report \in ReportRecord
    BY <1>1 DEF Inv, Types
  <2>2. report.selected \in Seq(Table)
    BY <2>1, DataAssumption DEF ReportRecord
  <2>3. n \in Nat /\ DOMAIN report.selected = 1..n /\ report.selected \in [1..n -> Table]
    BY <2>2
  <2>4. /\ DOMAIN report.results = Selected(report.selected, n)
        /\ \A t \in DOMAIN report.results : report.results[t] \in Pass
        /\ report.coverage = "all" => n = Cardinality(Table)
    BY <1>1 DEF Inv, ReportTold
  <2>5. \A t \in DOMAIN report.results : t \in proved
    BY <1>1, <2>4 DEF Inv, PassesEarned, Earned
  <2>6. \A i \in DOMAIN report.selected : report.results[report.selected[i]] \in Pass
    BY <2>3, <2>4 DEF Selected
  <2>7. ASSUME n = Cardinality(Table), IsInjective(report.selected), NEW t \in Table
        PROVE  t \in DOMAIN report.results
    <3>1. report.selected \in Injection(1..n, Table)
      BY <2>3, <2>7 DEF Injection
    <3>2. IsFiniteSet(1..n) /\ Cardinality(1..n) = n
      BY <2>3, IntervalSize
    <3>3. report.selected \in Surjection(1..n, Table)
      BY <2>7, <3>1, <3>2, DataAssumption, FS_Injection
    <3>4. PICK i \in 1..n : report.selected[i] = t
      BY <3>3 DEF Surjection
    <3> QED
      BY <2>4, <3>4 DEF Selected
  <2> QED
    BY <2>4, <2>5, <2>6, <2>7
<1>2. Inv => PassCoversSelection
  BY <1>1 DEF PassCoversSelection
<1> QED
  BY <1>2, ValidationInvariant, PTL

(* Run, receipts, report and ledger have their types.                      *)
THEOREM ValidationTypes == Spec => []TypeOK
<1>1. ASSUME Inv PROVE TypeOK
  <2>1. run.pc \in {"idle", "schema", "count", "export", "unlink", "compare", "judge", "report"}
    BY <1>1 DEF Inv, Types, RunRecord, Idle
  <2>2. ASSUME run # Idle
        PROVE  /\ run.selected \in Selections /\ run.input \in Inputs
               /\ run.at \in 1..Len(run.selected) /\ run.fails \subseteq Check
               /\ run.exit \in {"none", "passed", "failed", "error"}
               /\ \A t \in DOMAIN run.results : run.results[t] \in Status
    BY <1>1, <2>2, SubjectType DEF Inv, RunRecord, Code
  <2>3. report \in ReportRecord => \A t \in DOMAIN report.results : report.results[t] \in Status
    <3>1. report \in ReportRecord => report.results \in Results
      BY DEF ReportRecord
    <3> QED
      BY <3>1 DEF Results
  <2> QED
    BY <1>1, <2>1, <2>2, <2>3 DEF Inv, Types, TypeOK, Receipt, ChildRecord
<1> QED
  BY <1>1, ValidationInvariant, PTL
=============================================================================
