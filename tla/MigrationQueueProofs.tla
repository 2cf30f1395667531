------------------------ MODULE MigrationQueueProofs ------------------------
(***************************************************************************)
(* Safety of MigrationQueue for every set of tasks, actors, processes and  *)
(* approvals, and every base limit: types; the validation of a task is     *)
(* exclusive, a hold keeps it blocked, lanes are bounded; and the budget.  *)
(***************************************************************************)
EXTENDS MigrationQueue, FiniteSetTheorems, TLAPS

-----------------------------------------------------------------------------
(* The operators the actions are built from                                *)

(* What a task has used, its limit and its legacy floor are numbers.       *)
LEMMA BudgetType ==
  ASSUME TypeOK, NEW t \in Task
  PROVE  /\ Used(t) \in Nat
         /\ Prior(t) \in Nat
         /\ Limit(t) \in Nat
         /\ \A c \in Nat : LegacyFloor(t, c) \in Nat
BY DEF TypeOK, Used, Prior, Limit, LegacyFloor, Larger, History, Baseline, Grant

(* Recording a baseline leaves a baseline per task.                        *)
LEMMA BaselineType ==
  ASSUME TypeOK, NEW t \in Task, EnsureBaseline(t)
  PROVE  baseline' \in [Task -> Baseline]
BY BudgetType DEF TypeOK, EnsureBaseline, Baseline

(* Logging an event leaves a call per process.                             *)
LEMMA LoggedType ==
  ASSUME TypeOK, NEW t \in Task
  PROVE  Logged(t) \in [Process -> Call]
<1>1. SUFFICES ASSUME NEW p \in Process, call[p].pc = "prepared"
               PROVE  [call[p] EXCEPT !.touched = TRUE] \in Call
  BY DEF TypeOK, Logged
<1>2. call[p] \in GrantCall
  BY <1>1 DEF TypeOK, Call, Idle, ReadCall, RunCall, DoneCall, ConfigCall, GrantCall
<1>3. [call[p] EXCEPT !.touched = TRUE] \in GrantCall
  BY <1>2 DEF GrantCall
<1> QED
  BY <1>3 DEF Call

(* The attempts of a set of linked lineages are a number.                  *)
LEMMA LinkedDebitType ==
  ASSUME NEW linked \in SUBSET Lineage
  PROVE  LinkedDebit(linked) \in Nat
<1>1. IsFiniteSet(linked)
  BY FS_Subset, FiniteAssumption
<1>2. Cardinality(linked) \in Nat
  BY <1>1, FS_CardinalityType
<1> QED
  BY <1>2, LimitAssumption DEF LinkedDebit

-----------------------------------------------------------------------------
(* Types                                                                   *)

(* A queue starts well typed.                                              *)
LEMMA InitType == Init => TypeOK
<1> SUFFICES ASSUME Init PROVE TypeOK
  OBVIOUS
<1>1. legacy \in [Task -> History]
  BY HistoryAssumption DEF Init
<1>2. /\ status \in [Task -> Status]
      /\ counter \in [Task -> Nat]
  BY <1>1 DEF Init, History, Status
<1>3. evidence \in [Task -> Evidence \cup {NoEvidence}]
  <2>1. AnOldPass \subseteq Evidence
    BY DEF AnOldPass, Evidence, Verdict
  <2> QED
    BY <2>1 DEF Init
<1>4. grant \in [Task -> Grant]
  BY LimitAssumption DEF Init, Grant, NoGrant, Bundle
<1> QED
  BY <1>1, <1>2, <1>3, <1>4 DEF Init, TypeOK, Baseline, Call

(* One step of each command preserves the types.                           *)

(* claim preserves the types.                                              *)
LEMMA ClaimType ==
  ASSUME TypeOK, NEW w \in Name, NEW t \in Task, Claim(w, t)
  PROVE  TypeOK'
BY LoggedType DEF TypeOK, Claim, row, budget, Status

(* stage preserves the types.                                              *)
LEMMA StageType ==
  ASSUME TypeOK, NEW w \in Name, NEW t \in Task, NEW b \in Bundle, Stage(w, t, b)
  PROVE  TypeOK'
BY LoggedType DEF TypeOK, Stage, row, budget

(* release preserves the types.                                            *)
LEMMA ReleaseType ==
  ASSUME TypeOK, NEW w \in Name, NEW t \in Task, NEW to \in {"queued", "blocked"},
         Release(w, t, to)
  PROVE  TypeOK'
BY LoggedType DEF TypeOK, Release, row, budget, Status

(* unblock preserves the types.                                            *)
LEMMA UnblockType ==
  ASSUME TypeOK, NEW t \in Task, Unblock(t)
  PROVE  TypeOK'
<1>1. EnsureBaseline(t) BY DEF Unblock
<1>2. baseline' \in [Task -> Baseline] BY <1>1, BaselineType
<1> QED
  BY <1>2, LoggedType, BudgetType DEF TypeOK, Unblock, row, budget, Status

(* reopen preserves the types.                                             *)
LEMMA ReopenType ==
  ASSUME TypeOK, NEW w \in Name, NEW t \in Task, NEW quarantine \in BOOLEAN,
         Reopen(w, t, quarantine)
  PROVE  TypeOK'
<1>1. EnsureBaseline(t) BY DEF Reopen
<1>2. baseline' \in [Task -> Baseline] BY <1>1, BaselineType
<1>3. (held[t] \/ quarantine) \in BOOLEAN OBVIOUS
<1>4. held' \in [Task -> BOOLEAN] BY <1>3 DEF TypeOK, Reopen
<1> QED
  BY <1>2, <1>4, LoggedType, BudgetType DEF TypeOK, Reopen, row, budget, Status

(* review preserves the types.                                             *)
LEMMA ReviewType ==
  ASSUME TypeOK, NEW w \in Name, NEW t \in Task, NEW decision \in {"accept", "reject"},
         Review(w, t, decision)
  PROVE  TypeOK'
BY LoggedType DEF TypeOK, Review, row, budget, Status

(* Reading the schemas preserves the types.                                *)
LEMMA ReadSchemasType ==
  ASSUME TypeOK, NEW p \in Process, NEW w \in Name, NEW t \in Task, ReadSchemas(p, w, t)
  PROVE  TypeOK'
<1>1. [pc |-> "schemas_read", task |-> t, worker |-> w, schemas |-> schemas] \in ReadCall
  BY DEF TypeOK, ReadSchemas, ReadCall
<1> QED
  BY <1>1 DEF TypeOK, ReadSchemas, row, budget, Call

(* Opening an attempt preserves the types.                                 *)
LEMMA BeginValidateType ==
  ASSUME TypeOK, NEW p \in Process, BeginValidate(p)
  PROVE  TypeOK'
<1> DEFINE t == call[p].task
<1>1. call[p] \in ReadCall
  BY DEF TypeOK, BeginValidate, Call, Idle, ReadCall, RunCall, DoneCall, ConfigCall, GrantCall
<1>2. t \in Task /\ call[p].schemas \in Schema
  BY <1>1 DEF ReadCall
<1>3. EnsureBaseline(t)
  BY DEF BeginValidate
<1>4. baseline' \in [Task -> Baseline]
  BY <1>2, <1>3, BaselineType
<1>5. HashOf(t) \in Input
  BY <1>2 DEF TypeOK, BeginValidate, MayValidate, Hashable, HashOf, Input
<1>6. Used(t) \in Nat /\ Logged(t) \in [Process -> Call]
  BY <1>2, BudgetType, LoggedType
<1>7. [pc |-> "running", task |-> t, schemas |-> call[p].schemas, input |-> HashOf(t),
       attempt |-> Used(t) + 1, auth |-> grant[t].id] \in RunCall
  BY <1>2, <1>5, <1>6 DEF TypeOK, RunCall, Grant
<1>8. [Logged(t) EXCEPT ![p] =
         [pc |-> "running", task |-> t, schemas |-> call[p].schemas, input |-> HashOf(t),
          attempt |-> Used(t) + 1, auth |-> grant[t].id]] \in [Process -> Call]
  BY <1>6, <1>7 DEF Call
<1>9. call' \in [Process -> Call]
  BY <1>8 DEF BeginValidate
<1>10. /\ status' \in [Task -> Status]
       /\ evidence' \in [Task -> Evidence \cup {NoEvidence}]
  BY <1>2 DEF TypeOK, BeginValidate, Status
<1>11. counter' \in [Task -> Nat] /\ starts' \in [Task -> Nat]
  BY <1>2, <1>6 DEF TypeOK, BeginValidate
<1> QED
  BY <1>4, <1>9, <1>10, <1>11 DEF TypeOK, BeginValidate, row, budget

(* The validator's answer preserves the types.                             *)
LEMMA ValidatorReturnsType ==
  ASSUME TypeOK, NEW p \in Process, NEW v \in Verdict, ValidatorReturns(p, v)
  PROVE  TypeOK'
<1>1. call[p] \in RunCall
  BY DEF TypeOK, ValidatorReturns, Call, Idle, ReadCall, RunCall, DoneCall, ConfigCall, GrantCall
<1> DEFINE e == [result |-> IF HashOf(call[p].task) = call[p].input THEN v ELSE "failed",
                 input |-> call[p].input, attempt |-> call[p].attempt,
                 auth |-> call[p].auth, schemas |-> call[p].schemas]
<1>2. e \in Evidence
  BY <1>1 DEF RunCall, Evidence, Verdict
<1>3. [pc |-> "verified", task |-> call[p].task, evidence |-> e] \in DoneCall
  BY <1>1, <1>2 DEF RunCall, DoneCall
<1> QED
  BY <1>3 DEF TypeOK, ValidatorReturns, row, budget, Call

(* The handler of validate preserves the types.                            *)
LEMMA ValidatorRaisesType ==
  ASSUME TypeOK, NEW p \in Process, ValidatorRaises(p)
  PROVE  TypeOK'
BY DEF TypeOK, ValidatorRaises, row, budget, Status, Call

(* Recording the evidence preserves the types.                             *)
LEMMA RecordValidationType ==
  ASSUME TypeOK, NEW p \in Process, RecordValidation(p)
  PROVE  TypeOK'
<1>1. call[p] \in DoneCall
  BY DEF TypeOK, RecordValidation, Call, Idle, ReadCall, RunCall, DoneCall, ConfigCall, GrantCall
<1>2. call[p].task \in Task /\ call[p].evidence \in Evidence
  BY <1>1 DEF DoneCall
<1>3. Logged(call[p].task) \in [Process -> Call]
  BY <1>2, LoggedType
<1> QED
  BY <1>2, <1>3 DEF TypeOK, RecordValidation, row, budget, Status, Call

(* Both halves of configure preserve the types.                            *)
LEMMA ConfigureType ==
  ASSUME TypeOK, NEW p \in Process, NEW s \in Schema \cup {None},
         ReadConfig(p, s) \/ WriteConfig(p)
  PROVE  TypeOK'
<1>1. CASE ReadConfig(p, s)
  <2>1. [pc |-> "config_read", schemas |-> IF s = None THEN schemas ELSE s] \in ConfigCall
    BY DEF TypeOK, ConfigCall
  <2> QED
    BY <1>1, <2>1 DEF TypeOK, ReadConfig, row, budget, Call
<1>2. CASE WriteConfig(p)
  <2>1. call[p] \in ConfigCall
    BY <1>2 DEF TypeOK, WriteConfig, Call, Idle, ReadCall, RunCall, DoneCall, ConfigCall, GrantCall
  <2> QED
    BY <1>2, <2>1 DEF TypeOK, WriteConfig, row, budget, ConfigCall, Call
<1> QED
  BY <1>1, <1>2

(* Preparing a grant preserves the types.                                  *)
LEMMA PrepareRevisionType ==
  ASSUME TypeOK, NEW p \in Process, NEW t \in Task, NEW id \in Approval,
         NEW extra \in 1..MaxExtra, NEW fresh \in SUBSET Artifact,
         NEW linked \in SUBSET Lineage, PrepareRevision(p, t, id, extra, fresh, linked)
  PROVE  TypeOK'
<1>1. [pc |-> "prepared", task |-> t, id |-> id, extra |-> extra, fresh |-> fresh,
       linked |-> linked, previous |-> sql[t], used |-> Used(t), touched |-> FALSE] \in GrantCall
  BY BudgetType DEF TypeOK, GrantCall
<1> QED
  BY <1>1 DEF TypeOK, PrepareRevision, row, budget, Call

(* Applying a grant preserves the types.                                   *)
LEMMA ApplyRevisionType ==
  ASSUME TypeOK, NEW p \in Process, ApplyRevision(p)
  PROVE  TypeOK'
<1> DEFINE t == call[p].task
           usedAt == call[p].used + LinkedDebit(call[p].linked)
<1>1. call[p] \in GrantCall
  BY DEF TypeOK, ApplyRevision, Call, Idle, ReadCall, RunCall, DoneCall, ConfigCall, GrantCall
<1>2. /\ t \in Task /\ call[p].id \in Approval /\ call[p].extra \in Nat
      /\ call[p].fresh \in SUBSET Artifact /\ call[p].linked \in SUBSET Lineage
      /\ call[p].previous \in Bundle /\ call[p].used \in Nat
  BY <1>1, LimitAssumption DEF GrantCall
<1>3. LinkedDebit(call[p].linked) \in Nat
  BY <1>2, LinkedDebitType
<1>4. usedAt \in Nat
  BY <1>2, <1>3
<1>5. EnsureBaseline(t)
  BY DEF ApplyRevision
<1>6. baseline' \in [Task -> Baseline]
  BY <1>2, <1>5, BaselineType
<1>7. [id |-> call[p].id, limit |-> usedAt + call[p].extra, usedAt |-> usedAt,
       fresh |-> call[p].fresh, previous |-> call[p].previous] \in Grant
  BY <1>2, <1>4 DEF Grant
<1>8. grant' \in [Task -> Grant]
  BY <1>2, <1>7 DEF TypeOK, ApplyRevision
<1>9. Logged(t) \in [Process -> Call]
  BY <1>2, LoggedType
<1>10. /\ debit' \in [Task -> Nat] /\ granted' \in [Task -> Nat]
       /\ counter' \in [Task -> Nat]
  BY <1>2, <1>3, <1>4 DEF TypeOK, ApplyRevision
<1> QED
  BY <1>2, <1>6, <1>8, <1>9, <1>10 DEF TypeOK, ApplyRevision, row, budget, Status, Call

(* Refusals, crashes and edits of files preserve the types.                *)
LEMMA EnvironmentType ==
  ASSUME TypeOK, Edit \/ \E p \in Process : Refuse(p) \/ Crash(p)
  PROVE  TypeOK'
BY DEF TypeOK, Edit, EditFiles, Refuse, Crash, row, budget, Call

(* A stuttering step preserves the types.                                  *)
LEMMA StutterType == TypeOK /\ UNCHANGED vars => TypeOK'
BY DEF TypeOK, vars, row, budget

(* Every step preserves the types.                                         *)
LEMMA NextType == TypeOK /\ [Next]_vars => TypeOK'
<1> SUFFICES ASSUME TypeOK, Next PROVE TypeOK'
  BY StutterType
<1>1. CASE Command
  BY <1>1, ClaimType, StageType, ReleaseType, ReopenType, ReviewType, ReadSchemasType,
     UnblockType, ConfigureType, PrepareRevisionType DEF Command
<1>2. CASE Edit \/ \E p \in Process : Crash(p)
  BY <1>2, EnvironmentType
<1>3. ASSUME NEW p \in Process, Continue(p) PROVE TypeOK'
  BY <1>3, BeginValidateType, ValidatorReturnsType, ValidatorRaisesType,
     RecordValidationType, ConfigureType, ApplyRevisionType, EnvironmentType DEF Continue
<1> QED
  BY <1>1, <1>2, <1>3 DEF Next, NextNoCrash

(* Every reachable state of every queue is well typed.                     *)
THEOREM TypeCorrect == Spec => []TypeOK
BY InitType, NextType, PTL DEF Spec

-----------------------------------------------------------------------------
(* Exclusive validation                                                    *)

InFlight(p) == call[p].pc \in {"running", "verified"}

(* Appending an event changes nothing of a call but whether a prepared     *)
(* grant has been overtaken.                                               *)
LEMMA LoggedCall ==
  ASSUME TypeOK, NEW t \in Task, NEW p \in Process
  PROVE  /\ Logged(t)[p].pc = call[p].pc
         /\ call[p].pc # "prepared" => Logged(t)[p] = call[p]
         /\ call[p].pc = "prepared" =>
              Logged(t)[p] = [call[p] EXCEPT !.touched = @ \/ call[p].task = t]
<1>1. CASE call[p].pc = "prepared"
  <2>1. call[p] \in GrantCall
    BY <1>1 DEF TypeOK, Call, Idle, ReadCall, RunCall, DoneCall, ConfigCall, GrantCall
  <2>2. call[p] = [call[p] EXCEPT !.touched = @]
    BY <2>1 DEF GrantCall
  <2> QED
    BY <1>1, <2>1, <2>2 DEF Logged, GrantCall
<1>2. CASE call[p].pc # "prepared"
  BY <1>2 DEF Logged
<1> QED
  BY <1>1, <1>2

(* The task of a call that names one is a task.                            *)
LEMMA CallTask ==
  ASSUME TypeOK, NEW p \in Process,
         call[p].pc \in {"schemas_read", "running", "verified", "prepared"}
  PROVE  call[p].task \in Task
BY DEF TypeOK, Call, Idle, ReadCall, RunCall, DoneCall, ConfigCall, GrantCall

(* A call left alone, logged against or ended is in flight only if it was. *)
LEMMA StillInFlight ==
  ASSUME TypeOK, NEW t \in Task, NEW p \in Process, InFlight(p)',
         call'[p] \in {call[p], Logged(t)[p], Idle}
  PROVE  InFlight(p) /\ call'[p] = call[p]
<1>1. call'[p] # Idle
  BY DEF InFlight, Idle
<1>2. /\ Logged(t)[p].pc = call[p].pc
      /\ call[p].pc # "prepared" => Logged(t)[p] = call[p]
  BY LoggedCall
<1> QED
  BY <1>1, <1>2 DEF InFlight

(* A step that starts no validation, keeps every validation in progress as *)
(* it is, or ends it, and takes no validated task out of `validating'.     *)
LEMMA QuietStep ==
  ASSUME ExclusiveValidation,
         \A p \in Process : InFlight(p)' =>
           InFlight(p) /\ call'[p].task = call[p].task,
         \A p \in Process : InFlight(p)' /\ status[call[p].task] = "validating"
           => status'[call[p].task] = "validating"
  PROVE  ExclusiveValidation'
BY DEF ExclusiveValidation, InFlight

(* Commands leave validations in progress exclusive.                       *)
LEMMA CommandExclusive ==
  ASSUME TypeOK, ExclusiveValidation, Command
  PROVE  ExclusiveValidation'
<1>1. ASSUME NEW w \in Name, NEW t \in Task,
             \/ Claim(w, t)
             \/ \E b \in Bundle : Stage(w, t, b)
             \/ \E to \in {"queued", "blocked"} : Release(w, t, to)
             \/ \E quarantine \in BOOLEAN : Reopen(w, t, quarantine)
             \/ \E decision \in {"accept", "reject"} : Review(w, t, decision)
      PROVE  ExclusiveValidation'
  <2>1. call' = Logged(t)
    BY <1>1 DEF Claim, Stage, Release, Reopen, Review
  <2>2. \A u \in Task : status[u] = "validating" => status'[u] = "validating"
    BY <1>1 DEF TypeOK, Claim, Stage, Release, Reopen, Review, Owns, row
  <2>3. \A p \in Process : InFlight(p)' => call'[p] = call[p]
    BY <1>1, <2>1, LoggedCall DEF InFlight
  <2> QED
    BY <2>2, <2>3, CallTask, QuietStep DEF InFlight
<1>2. ASSUME NEW t \in Task, Unblock(t) PROVE ExclusiveValidation'
  <2>1. call' = Logged(t)
    BY <1>2 DEF Unblock
  <2>2. \A u \in Task : status[u] = "validating" => status'[u] = "validating"
    BY <1>2 DEF TypeOK, Unblock
  <2>3. \A p \in Process : InFlight(p)' => call'[p] = call[p]
    BY <1>2, <2>1, LoggedCall DEF InFlight
  <2> QED
    BY <2>2, <2>3, CallTask, QuietStep DEF InFlight
<1>3. ASSUME NEW p \in Process,
             \/ \E w \in Name, t \in Task : ReadSchemas(p, w, t)
             \/ \E s \in Schema \cup {None} : ReadConfig(p, s)
             \/ \E t \in Task, id \in Approval, extra \in 1..MaxExtra,
                   fresh \in SUBSET Artifact, linked \in SUBSET Lineage :
                  PrepareRevision(p, t, id, extra, fresh, linked)
      PROVE  ExclusiveValidation'
  <2>1. status' = status
    BY <1>3 DEF ReadSchemas, ReadConfig, PrepareRevision, row
  <2>2. \A q \in Process : InFlight(q)' => call'[q] = call[q]
    BY <1>3 DEF TypeOK, InFlight, ReadSchemas, ReadConfig, PrepareRevision
  <2> QED
    BY <2>1, <2>2, QuietStep DEF InFlight
<1> QED
  BY <1>1, <1>2, <1>3 DEF Command

(* So does every step of a call in progress.                               *)
LEMMA ContinueExclusive ==
  ASSUME TypeOK, ExclusiveValidation, NEW p \in Process, Continue(p) \/ Crash(p)
  PROVE  ExclusiveValidation'
<1>1. CASE BeginValidate(p)
  <2> DEFINE t == call[p].task
  <2>1. t \in Task /\ status[t] = "claimed"
    BY <1>1, CallTask DEF BeginValidate, MayValidate, Owns
  <2>2. /\ call'[p].pc = "running" /\ call'[p].task = t
        /\ \A q \in Process \ {p} : call'[q] = Logged(t)[q]
    BY <1>1, <2>1, LoggedType DEF BeginValidate
  <2>3. \A q \in Process \ {p} : InFlight(q)' => InFlight(q) /\ call'[q] = call[q]
    BY <2>1, <2>2, StillInFlight
  <2>4. status' = [status EXCEPT ![t] = "validating"]
    BY <1>1 DEF BeginValidate
  <2>5. \A q \in Process \ {p} : InFlight(q)' =>
          /\ status[call[q].task] = "validating" /\ call[q].task # t
          /\ status'[call[q].task] = "validating"
    BY <2>1, <2>3, <2>4, CallTask DEF ExclusiveValidation, InFlight, TypeOK
  <2>6. status'[t] = "validating"
    BY <2>1, <2>4 DEF TypeOK
  <2> QED
    BY <2>2, <2>3, <2>5, <2>6 DEF ExclusiveValidation, InFlight
<1>2. CASE \E v \in Verdict : ValidatorReturns(p, v)
  <2>1. status' = status
    BY <1>2 DEF ValidatorReturns, row
  <2>2. \A q \in Process : InFlight(q)' => InFlight(q) /\ call'[q].task = call[q].task
    BY <1>2 DEF ValidatorReturns, InFlight, TypeOK
  <2> QED
    BY <2>1, <2>2, QuietStep
<1>3. CASE ValidatorRaises(p) \/ RecordValidation(p)
  <2> DEFINE t == call[p].task
  <2>1. InFlight(p) /\ t \in Task
    BY <1>3, CallTask DEF ValidatorRaises, RecordValidation, InFlight
  <2>2. /\ call'[p] = Idle
        /\ \A q \in Process \ {p} : call'[q] \in {call[q], Logged(t)[q]}
    BY <1>3, <2>1, LoggedType DEF ValidatorRaises, RecordValidation, TypeOK
  <2>3. /\ ~InFlight(p)'
        /\ \A q \in Process \ {p} : InFlight(q)' => InFlight(q) /\ call'[q] = call[q]
    BY <2>1, <2>2, StillInFlight DEF InFlight, Idle
  <2>4. \A u \in Task \ {t} : status'[u] = status[u]
    BY <1>3 DEF ValidatorRaises, RecordValidation, TypeOK
  <2>5. \A q \in Process \ {p} : InFlight(q) => call[q].task \in Task \ {t}
    BY <2>1, CallTask DEF ExclusiveValidation, InFlight
  <2> QED
    BY <2>4, <2>5, <2>3, QuietStep
<1>4. CASE WriteConfig(p) \/ Refuse(p) \/ Crash(p)
  <2>1. status' = status
    BY <1>4 DEF WriteConfig, Refuse, Crash, row
  <2>2. \A q \in Process : InFlight(q)' => call'[q] = call[q]
    BY <1>4 DEF WriteConfig, Refuse, Crash, InFlight, TypeOK, Idle
  <2> QED
    BY <2>1, <2>2, QuietStep DEF InFlight
<1>5. CASE ApplyRevision(p)
  <2> DEFINE t == call[p].task
  <2>1. t \in Task /\ status[t] = "blocked"
    BY <1>5, CallTask DEF ApplyRevision, MayGrant
  <2>2. \A q \in Process : InFlight(q)' => InFlight(q) /\ call'[q] = call[q]
    BY <1>5, <2>1, LoggedCall, LoggedType DEF ApplyRevision, InFlight, Idle
  <2>3. \A u \in Task : status[u] = "validating" => status'[u] = "validating"
    BY <1>5, <2>1 DEF ApplyRevision, TypeOK
  <2> QED
    BY <2>2, <2>3, CallTask, QuietStep DEF InFlight
<1> QED
  BY <1>1, <1>2, <1>3, <1>4, <1>5 DEF Continue

(* So does every step.                                                     *)
LEMMA NextExclusive == TypeOK /\ ExclusiveValidation /\ [Next]_vars => ExclusiveValidation'
<1> SUFFICES ASSUME TypeOK, ExclusiveValidation, [Next]_vars PROVE ExclusiveValidation'
  OBVIOUS
<1>1. CASE Edit \/ UNCHANGED vars
  BY <1>1 DEF Edit, EditFiles, vars, row, ExclusiveValidation
<1> QED
  BY <1>1, CommandExclusive, ContinueExclusive DEF Next, NextNoCrash

(* Whatever commands race, a running validation is the only one of its     *)
(* task, which is `validating' until it ends.                              *)
THEOREM ValidationIsExclusive == Spec => []ExclusiveValidation
<1>1. Init => ExclusiveValidation
  BY DEF Init, ExclusiveValidation, Idle
<1> QED
  BY <1>1, NextExclusive, TypeCorrect, PTL DEF Spec
-----------------------------------------------------------------------------
(* Holds                                                                   *)

(* Commands keep held tasks blocked.                                       *)
LEMMA CommandHold ==
  ASSUME TypeOK, HoldKeepsBlocked, Command
  PROVE  HoldKeepsBlocked'
<1>1. ASSUME NEW w \in Name, NEW t \in Task,
             \/ Claim(w, t)
             \/ \E b \in Bundle : Stage(w, t, b)
             \/ \E to \in {"queued", "blocked"} : Release(w, t, to)
             \/ \E decision \in {"accept", "reject"} : Review(w, t, decision)
      PROVE  HoldKeepsBlocked'
  BY <1>1 DEF TypeOK, HoldKeepsBlocked, Claim, Stage, Release, Review, Owns, row, budget
<1>2. ASSUME NEW w \in Name, NEW t \in Task, NEW quarantine \in BOOLEAN,
             Reopen(w, t, quarantine)
      PROVE  HoldKeepsBlocked'
  <2>1. \A u \in Task \ {t} : held'[u] = held[u] /\ status'[u] = status[u]
    BY <1>2 DEF TypeOK, Reopen
  <2>2. ~held[t]
    BY <1>2 DEF HoldKeepsBlocked, Reopen
  <2>3. CASE quarantine
    BY <1>2, <2>1, <2>3 DEF TypeOK, Reopen, HoldKeepsBlocked
  <2>4. CASE ~quarantine
    <3>1. held'[t] = FALSE
      BY <1>2, <2>2, <2>4 DEF TypeOK, Reopen
    <3> QED
      BY <2>1, <3>1 DEF HoldKeepsBlocked
  <2> QED
    BY <2>3, <2>4
<1>3. ASSUME NEW t \in Task, Unblock(t) PROVE HoldKeepsBlocked'
  BY <1>3 DEF TypeOK, HoldKeepsBlocked, Unblock, CanValidate
<1>4. ASSUME NEW p \in Process,
             \/ \E w \in Name, t \in Task : ReadSchemas(p, w, t)
             \/ \E s \in Schema \cup {None} : ReadConfig(p, s)
             \/ \E t \in Task, id \in Approval, extra \in 1..MaxExtra,
                   fresh \in SUBSET Artifact, linked \in SUBSET Lineage :
                  PrepareRevision(p, t, id, extra, fresh, linked)
      PROVE  HoldKeepsBlocked'
  BY <1>4 DEF HoldKeepsBlocked, ReadSchemas, ReadConfig, PrepareRevision, row, budget
<1> QED
  BY <1>1, <1>2, <1>3, <1>4 DEF Command

(* Calls in progress keep held tasks blocked.                              *)
LEMMA ContinueHold ==
  ASSUME TypeOK, ExclusiveValidation, HoldKeepsBlocked, NEW p \in Process,
         Continue(p) \/ Crash(p)
  PROVE  HoldKeepsBlocked'
<1>1. CASE BeginValidate(p)
  BY <1>1, CallTask
     DEF TypeOK, HoldKeepsBlocked, BeginValidate, MayValidate, CanValidate
<1>2. CASE ValidatorRaises(p) \/ RecordValidation(p)
  <2>1. call[p].task \in Task /\ status[call[p].task] = "validating"
    BY <1>2, CallTask DEF ExclusiveValidation, ValidatorRaises, RecordValidation
  <2>2. ~held[call[p].task]
    BY <2>1 DEF HoldKeepsBlocked
  <2> QED
    BY <1>2, <2>1, <2>2
       DEF TypeOK, HoldKeepsBlocked, ValidatorRaises, RecordValidation, budget
<1>3. CASE ApplyRevision(p)
  BY <1>3, CallTask DEF TypeOK, HoldKeepsBlocked, ApplyRevision
<1>4. CASE (\E v \in Verdict : ValidatorReturns(p, v)) \/ WriteConfig(p) \/ Refuse(p) \/ Crash(p)
  BY <1>4 DEF HoldKeepsBlocked, ValidatorReturns, WriteConfig, Refuse, Crash, row, budget
<1> QED
  BY <1>1, <1>2, <1>3, <1>4 DEF Continue

(* Nothing but a grant takes a quarantined task out of `blocked'.          *)
THEOREM HoldsAreKept == Spec => []HoldKeepsBlocked
<1>1. Init => HoldKeepsBlocked
  BY DEF Init, HoldKeepsBlocked
<1>2. TypeOK /\ ExclusiveValidation /\ HoldKeepsBlocked /\ [Next]_vars => HoldKeepsBlocked'
  <2> SUFFICES ASSUME TypeOK, ExclusiveValidation, HoldKeepsBlocked, [Next]_vars
               PROVE  HoldKeepsBlocked'
    OBVIOUS
  <2>1. CASE Edit \/ UNCHANGED vars
    BY <2>1 DEF Edit, EditFiles, vars, row, budget, HoldKeepsBlocked
  <2> QED
    BY <2>1, CommandHold, ContinueHold DEF Next, NextNoCrash
<1> QED
  BY <1>1, <1>2, TypeCorrect, ValidationIsExclusive, PTL DEF Spec

-----------------------------------------------------------------------------
(* Lanes                                                                   *)

(* The active tasks are finitely many.                                     *)
LEMMA ActiveFinite == IsFiniteSet(Active)
BY FS_Subset, FiniteAssumption DEF Active

(* The ceiling holds when no task becomes active.                          *)
LEMMA FewerActive ==
  ASSUME LaneCap, Active' \subseteq Active
  PROVE  LaneCap'
<1>1. Cardinality(Active') <= Cardinality(Active) /\ Cardinality(Active') \in Nat
      /\ Cardinality(Active) \in Nat
  BY ActiveFinite, FS_Subset, FS_CardinalityType
<1>2. /\ Active = {t \in Task : status[t] = "claimed" \/ status[t] = "validating"}
      /\ Active' = {t \in Task : status'[t] = "claimed" \/ status'[t] = "validating"}
  BY DEF Active
<1> QED
  BY <1>1, <1>2, LimitAssumption DEF LaneCap

(* Only a claim makes a task active that was not.                          *)
LEMMA NextActive ==
  ASSUME TypeOK, ExclusiveValidation, Next, ~ \E w \in Name, t \in Task : Claim(w, t)
  PROVE  Active' \subseteq Active
<1> SUFFICES ASSUME NEW u \in Task, status'[u] \in {"claimed", "validating"}
             PROVE  status[u] \in {"claimed", "validating"}
  BY DEF Active
<1>1. ASSUME NEW w \in Name, NEW t \in Task,
             \/ \E b \in Bundle : Stage(w, t, b)
             \/ \E to \in {"queued", "blocked"} : Release(w, t, to)
             \/ \E quarantine \in BOOLEAN : Reopen(w, t, quarantine)
             \/ \E decision \in {"accept", "reject"} : Review(w, t, decision)
             \/ \E p \in Process : ReadSchemas(p, w, t)
      PROVE  status[u] \in {"claimed", "validating"}
  BY <1>1 DEF TypeOK, Stage, Release, Reopen, Review, ReadSchemas, row
<1>2. ASSUME NEW p \in Process,
             \/ \E s \in Schema \cup {None} : ReadConfig(p, s)
             \/ \E t \in Task, id \in Approval, extra \in 1..MaxExtra,
                   fresh \in SUBSET Artifact, linked \in SUBSET Lineage :
                  PrepareRevision(p, t, id, extra, fresh, linked)
             \/ \E v \in Verdict : ValidatorReturns(p, v)
             \/ WriteConfig(p) \/ Refuse(p) \/ Crash(p)
      PROVE  status[u] \in {"claimed", "validating"}
  BY <1>2 DEF ReadConfig, PrepareRevision, ValidatorReturns, WriteConfig, Refuse, Crash, row
<1>3. ASSUME NEW p \in Process, BeginValidate(p)
      PROVE  status[u] \in {"claimed", "validating"}
  BY <1>3, CallTask DEF TypeOK, BeginValidate, MayValidate, Owns
<1>4. ASSUME NEW p \in Process, ValidatorRaises(p) \/ RecordValidation(p)
      PROVE  status[u] \in {"claimed", "validating"}
  <2>1. status[call[p].task] = "validating"
    BY <1>4 DEF ExclusiveValidation, ValidatorRaises, RecordValidation
  <2> QED
    BY <1>4, <2>1 DEF TypeOK, ValidatorRaises, RecordValidation
<1>5. ASSUME NEW p \in Process, ApplyRevision(p)
      PROVE  status[u] \in {"claimed", "validating"}
  BY <1>5, CallTask DEF TypeOK, ApplyRevision
<1>6. CASE Edit \/ \E t \in Task : Unblock(t)
  BY <1>6 DEF TypeOK, Edit, EditFiles, Unblock, row
<1> QED
  BY <1>1, <1>2, <1>3, <1>4, <1>5, <1>6 DEF Next, NextNoCrash, Command, Continue

(* However many terminals race and however many calls die, no more than    *)
(* MaxWorkers tasks are claimed or validating.                             *)
THEOREM LanesAreBounded == Spec => []LaneCap
<1>1. Init => LaneCap
  <2> SUFFICES ASSUME Init PROVE LaneCap
    OBVIOUS
  <2>1. Active = {t \in Task : status[t] = "claimed" \/ status[t] = "validating"}
    BY DEF Active
  <2> QED
    BY <2>1 DEF Init, LaneCap
<1>2. TypeOK /\ ExclusiveValidation /\ LaneCap /\ [Next]_vars => LaneCap'
  <2> SUFFICES ASSUME TypeOK, ExclusiveValidation, LaneCap, [Next]_vars PROVE LaneCap'
    OBVIOUS
  <2>1. ASSUME NEW w \in Name, NEW t \in Task, Claim(w, t) PROVE LaneCap'
    <3>1. Active' \subseteq Active \cup {t}
      BY <2>1 DEF TypeOK, Claim, Active
    <3>2. /\ IsFiniteSet(Active \cup {t})
          /\ Cardinality(Active \cup {t}) <= Cardinality(Active) + 1
      <4>1. Cardinality(Active) \in Nat
        BY ActiveFinite, FS_CardinalityType
      <4> QED
        BY <4>1, ActiveFinite, FS_AddElement
    <3>3. /\ Cardinality(Active') <= Cardinality(Active \cup {t})
          /\ Cardinality(Active') \in Nat
          /\ Cardinality(Active \cup {t}) \in Nat
          /\ Cardinality(Active) \in Nat
      BY <3>1, <3>2, ActiveFinite, FS_Subset, FS_CardinalityType
    <3>4. Active' = {u \in Task : status'[u] = "claimed" \/ status'[u] = "validating"}
      BY DEF Active
    <3>5. Cardinality(Active) < MaxWorkers
      BY <2>1 DEF Claim
    <3> QED
      BY <3>2, <3>3, <3>4, <3>5, LimitAssumption DEF LaneCap
  <2>2. CASE UNCHANGED vars
    BY <2>2 DEF vars, row, LaneCap
  <2> QED
    BY <2>1, <2>2, NextActive, FewerActive
<1> QED
  BY <1>1, <1>2, TypeCorrect, ValidationIsExclusive, PTL DEF Spec

-----------------------------------------------------------------------------
(***************************************************************************)
(* The validation budget: attempts are bounded by what was authorized,     *)
(* are never refunded, and a grant adds exactly what the user approved.    *)
(***************************************************************************)
-----------------------------------------------------------------------------
(* Which step concerns which task                                          *)

Untouched(t) ==
  /\ status'[t] = status[t] /\ worker'[t] = worker[t] /\ reviewer'[t] = reviewer[t]
  /\ evidence'[t] = evidence[t] /\ counter'[t] = counter[t] /\ legacy'[t] = legacy[t]
  /\ baseline'[t] = baseline[t] /\ starts'[t] = starts[t] /\ debit'[t] = debit[t]
  /\ granted'[t] = granted[t] /\ held'[t] = held[t] /\ grant'[t] = grant[t]

(* The steps that change the row or the history of task t.                 *)
Touched(t) ==
  \/ \E w \in Name :
       \/ Claim(w, t)
       \/ \E b \in Bundle : Stage(w, t, b)
       \/ \E to \in {"queued", "blocked"} : Release(w, t, to)
       \/ \E quarantine \in BOOLEAN : Reopen(w, t, quarantine)
       \/ \E decision \in {"accept", "reject"} : Review(w, t, decision)
  \/ Unblock(t)
  \/ \E p \in Process :
       /\ call[p].task = t
       /\ BeginValidate(p) \/ ValidatorRaises(p) \/ RecordValidation(p) \/ ApplyRevision(p)

(* A step about one task leaves every other alone.                         *)
LEMMA OthersUntouched ==
  ASSUME TypeOK, NEW u \in Task, Touched(u), NEW t \in Task \ {u}
  PROVE  Untouched(t)
<1>1. ASSUME NEW w \in Name,
             \/ Claim(w, u)
             \/ \E b \in Bundle : Stage(w, u, b)
             \/ \E to \in {"queued", "blocked"} : Release(w, u, to)
             \/ \E decision \in {"accept", "reject"} : Review(w, u, decision)
      PROVE  Untouched(t)
  BY <1>1 DEF TypeOK, Claim, Stage, Release, Review, Untouched, row, budget
<1>2. ASSUME NEW w \in Name, NEW quarantine \in BOOLEAN, Reopen(w, u, quarantine)
      PROVE  Untouched(t)
  BY <1>2 DEF TypeOK, Reopen, EnsureBaseline, Untouched
<1>3. ASSUME Unblock(u) PROVE Untouched(t)
  BY <1>3 DEF TypeOK, Unblock, EnsureBaseline, Untouched
<1>4. ASSUME NEW p \in Process, call[p].task = u, BeginValidate(p) PROVE Untouched(t)
  BY <1>4 DEF TypeOK, BeginValidate, EnsureBaseline, Untouched
<1>5. ASSUME NEW p \in Process, call[p].task = u, ValidatorRaises(p) \/ RecordValidation(p)
      PROVE  Untouched(t)
  BY <1>5 DEF TypeOK, ValidatorRaises, RecordValidation, Untouched, budget
<1>6. ASSUME NEW p \in Process, call[p].task = u, ApplyRevision(p) PROVE Untouched(t)
  BY <1>6 DEF TypeOK, ApplyRevision, EnsureBaseline, Untouched
<1> QED
  BY <1>1, <1>2, <1>3, <1>4, <1>5, <1>6 DEF Touched

(* A step is about one task or about none.                                 *)
LEMMA OneTask ==
  ASSUME TypeOK, [Next]_vars
  PROVE  (\E u \in Task : Touched(u)) \/ UNCHANGED <<row, budget>>
<1>1. ASSUME NEW p \in Process,
             \/ \E w \in Name, u \in Task : ReadSchemas(p, w, u)
             \/ \E s \in Schema \cup {None} : ReadConfig(p, s)
             \/ \E u \in Task, id \in Approval, extra \in 1..MaxExtra,
                   fresh \in SUBSET Artifact, linked \in SUBSET Lineage :
                  PrepareRevision(p, u, id, extra, fresh, linked)
             \/ \E v \in Verdict : ValidatorReturns(p, v)
             \/ WriteConfig(p) \/ Refuse(p) \/ Crash(p)
      PROVE  UNCHANGED <<row, budget>>
  BY <1>1 DEF ReadSchemas, ReadConfig, PrepareRevision, ValidatorReturns, WriteConfig,
              Refuse, Crash
<1>2. CASE Edit \/ UNCHANGED vars
  BY <1>2 DEF Edit, EditFiles, vars
<1>3. ASSUME NEW p \in Process,
             BeginValidate(p) \/ ValidatorRaises(p) \/ RecordValidation(p) \/ ApplyRevision(p)
      PROVE  \E u \in Task : Touched(u)
  <2>1. call[p].task \in Task
    BY <1>3, CallTask DEF BeginValidate, ValidatorRaises, RecordValidation, ApplyRevision
  <2> QED
    BY <1>3, <2>1 DEF Touched
<1>4. ASSUME NEW w \in Name, NEW t \in Task,
             \/ Claim(w, t)
             \/ \E b \in Bundle : Stage(w, t, b)
             \/ \E to \in {"queued", "blocked"} : Release(w, t, to)
             \/ \E quarantine \in BOOLEAN : Reopen(w, t, quarantine)
             \/ \E decision \in {"accept", "reject"} : Review(w, t, decision)
      PROVE  Touched(t)
  BY <1>4 DEF Touched
<1>5. ASSUME NEW t \in Task, Unblock(t) PROVE Touched(t)
  BY <1>5 DEF Touched
<1> QED
  BY <1>1, <1>2, <1>3, <1>4, <1>5 DEF Next, NextNoCrash, Command, Continue

(* As seen from one task: a step leaves it alone or is about it.           *)
LEMMA TouchedOrNot ==
  ASSUME TypeOK, [Next]_vars, NEW t \in Task
  PROVE  Untouched(t) \/ Touched(t)
<1>1. UNCHANGED <<row, budget>> => Untouched(t)
  BY DEF row, budget, Untouched
<1> QED
  BY <1>1, OneTask, OthersUntouched

-----------------------------------------------------------------------------
(* The budget invariant                                                    *)

Charged(t) == Prior(t) + starts[t] + debit[t]
Allowance(t) == Larger(BaseLimit, Prior(t)) + debit[t] + granted[t]

(* Before its baseline a task has its legacy counter and nothing else; the *)
(* baseline captures that counter, and from then on all that is charged    *)
(* to the task is covered by what it was allowed.                          *)
BudgetOf(t) ==
  /\ ~baseline[t].taken =>
       /\ counter[t] = legacy[t].counter
       /\ starts[t] = 0 /\ debit[t] = 0 /\ granted[t] = 0
       /\ Limit(t) = BaseLimit
  /\ baseline[t].taken =>
       /\ baseline[t].counter = legacy[t].counter
       /\ counter[t] <= Charged(t)
       /\ Charged(t) <= Allowance(t)
       /\ Limit(t) <= Allowance(t)
BudgetInv == \A t \in Task : BudgetOf(t)

(* A prepared grant that was not overtaken was computed from the attempts  *)
(* the task still has.                                                     *)
PreparedInv ==
  \A p \in Process, t \in Task :
    call[p].pc = "prepared" /\ ~call[p].touched /\ call[p].task = t
      => call[p].used = Used(t)

(* A counter is never more than the legacy floor computed from it.         *)
LEMMA FloorCovers ==
  ASSUME TypeOK, NEW t \in Task, NEW c \in Nat
  PROVE  LegacyFloor(t, c) \in Nat /\ LegacyFloor(t, c) >= c
BY DEF TypeOK, LegacyFloor, Larger, History

(* What a task has used, with and without a baseline.                      *)
LEMMA UsedIs ==
  ASSUME TypeOK, NEW t \in Task, BudgetOf(t)
  PROVE  /\ baseline[t].taken => Used(t) = Charged(t)
         /\ ~baseline[t].taken => Used(t) = LegacyFloor(t, counter[t])
<1>1. counter[t] \in Nat /\ starts[t] \in Nat /\ debit[t] \in Nat /\ Prior(t) \in Nat
  BY BudgetType DEF TypeOK
<1>2. CASE baseline[t].taken
  BY <1>1, <1>2 DEF BudgetOf, Used, Charged, Larger
<1>3. CASE ~baseline[t].taken
  BY <1>1, <1>3, FloorCovers DEF BudgetOf, Used, Larger
<1> QED
  BY <1>2, <1>3

(* Usage and limits are functions of the counter and the history.          *)
LEMMA SameBudget ==
  ASSUME NEW t \in Task, counter'[t] = counter[t], legacy'[t] = legacy[t],
         baseline'[t] = baseline[t], starts'[t] = starts[t], debit'[t] = debit[t],
         granted'[t] = granted[t], grant'[t] = grant[t]
  PROVE  /\ Used(t)' = Used(t) /\ Prior(t)' = Prior(t) /\ Limit(t)' = Limit(t)
         /\ Charged(t)' = Charged(t) /\ Allowance(t)' = Allowance(t)
         /\ BudgetOf(t) => BudgetOf(t)'
<1>1. \A c : LegacyFloor(t, c)' = LegacyFloor(t, c)
  BY DEF LegacyFloor
<1>2. Prior(t)' = Prior(t)
  BY DEF Prior, LegacyFloor
<1>3. Used(t)' = Used(t)
  BY <1>2 DEF Used, LegacyFloor
<1>4. /\ Limit(t)' = Limit(t) /\ Charged(t)' = Charged(t)
      /\ Allowance(t)' = Allowance(t)
  BY <1>2 DEF Limit, Charged, Allowance
<1> QED
  BY <1>2, <1>3, <1>4 DEF BudgetOf

(* With the baseline recorded, what was used before it is still charged,   *)
(* and still covered.                                                      *)
LEMMA Captured ==
  ASSUME TypeOK, NEW t \in Task, BudgetOf(t), EnsureBaseline(t), legacy' = legacy
  PROVE  /\ baseline'[t].taken
         /\ baseline'[t].counter = legacy[t].counter
         /\ Prior(t)' \in Nat
         /\ Prior(t)' + starts[t] + debit[t] = Used(t)
         /\ Used(t) <= Larger(BaseLimit, Prior(t)') + debit[t] + granted[t]
         /\ Limit(t) <= Larger(BaseLimit, Prior(t)') + debit[t] + granted[t]
<1>1. /\ counter[t] \in Nat /\ starts[t] \in Nat /\ debit[t] \in Nat /\ granted[t] \in Nat
      /\ Prior(t) \in Nat /\ Used(t) \in Nat
  BY BudgetType DEF TypeOK
<1>2. CASE baseline[t].taken
  <2>1. baseline' = baseline
    BY <1>2 DEF EnsureBaseline
  <2>2. Prior(t)' = Prior(t)
    BY <2>1 DEF Prior, LegacyFloor
  <2> QED
    BY <1>1, <1>2, <2>1, <2>2, UsedIs DEF BudgetOf, Charged, Allowance
<1>3. CASE ~baseline[t].taken
  <2>1. baseline'[t] = [taken |-> TRUE, used |-> Used(t), counter |-> counter[t]]
    BY <1>3 DEF EnsureBaseline, TypeOK
  <2>2. Used(t) = LegacyFloor(t, counter[t])
    BY <1>3, UsedIs
  <2>3. Prior(t)' = Used(t)
    BY <1>1, <2>1, <2>2 DEF Prior, LegacyFloor, Larger
  <2> QED
    BY <1>1, <1>3, <2>1, <2>3, LimitAssumption DEF BudgetOf, Larger
<1> QED
  BY <1>2, <1>3

(* s attempts are started, d debited and g granted, at most what the limit *)
(* and the grant cover: the invariant holds and usage grows by s + d.      *)
LEMMA Recharged ==
  ASSUME TypeOK, NEW t \in Task, BudgetOf(t), EnsureBaseline(t), legacy' = legacy,
         NEW s \in Nat, NEW d \in Nat, NEW g \in Nat,
         starts'[t] = starts[t] + s, debit'[t] = debit[t] + d, granted'[t] = granted[t] + g,
         counter'[t] = Used(t) + s + d,
         s = 0 \/ Used(t) + s <= Limit(t),
         \/ grant'[t] = grant[t]
         \/ grant'[t].limit = Used(t) + d + g
  PROVE  BudgetOf(t)' /\ Used(t)' = Used(t) + s + d
<1> DEFINE A == Larger(BaseLimit, Prior(t)') + debit[t] + granted[t]
<1>1. /\ starts[t] \in Nat /\ debit[t] \in Nat /\ granted[t] \in Nat
      /\ Used(t) \in Nat /\ Limit(t) \in Nat
  BY BudgetType DEF TypeOK
<1>2. /\ baseline'[t].taken /\ baseline'[t].counter = legacy[t].counter
      /\ Prior(t)' \in Nat /\ Prior(t)' + starts[t] + debit[t] = Used(t)
      /\ Used(t) <= A /\ Limit(t) <= A
  BY Captured
<1>3. A \in Nat
  BY <1>1, <1>2, LimitAssumption DEF Larger
<1>4. Charged(t)' = Used(t) + s + d
  BY <1>1, <1>2 DEF Charged
<1>5. Allowance(t)' = A + d + g
  BY <1>1, <1>2, LimitAssumption DEF Allowance, Larger
<1>6. Limit(t)' = Limit(t) \/ Limit(t)' = Used(t) + d + g
  BY DEF Limit
<1>7. Used(t)' = Used(t) + s + d
  BY <1>1, <1>2, <1>4 DEF Used, Charged, Larger
<1>8. Charged(t)' <= Allowance(t)' /\ Limit(t)' <= Allowance(t)'
  <2> HIDE DEF A
  <2> QED
    BY <1>1, <1>2, <1>3, <1>4, <1>5, <1>6
<1>9. counter'[t] <= Charged(t)'
  BY <1>1, <1>4
<1> QED
  BY <1>2, <1>7, <1>8, <1>9 DEF BudgetOf

(* unblock and reopen raise the counter to what was used.                  *)
LEMMA ReconcileCharges ==
  ASSUME TypeOK, NEW t \in Task, BudgetOf(t),
         Unblock(t) \/ \E w \in Name, quarantine \in BOOLEAN : Reopen(w, t, quarantine)
  PROVE  BudgetOf(t)' /\ Used(t)' = Used(t) /\ grant'[t] = grant[t]
<1>1. /\ Used(t) \in Nat /\ starts[t] \in Nat /\ debit[t] \in Nat /\ granted[t] \in Nat
  BY BudgetType DEF TypeOK
<1>2. /\ EnsureBaseline(t) /\ legacy' = legacy /\ starts' = starts /\ debit' = debit
      /\ granted' = granted /\ grant' = grant
      /\ counter'[t] = Used(t)
  BY DEF Unblock, Reopen, TypeOK
<1>3. BudgetOf(t)' /\ Used(t)' = Used(t) + 0 + 0
  BY <1>1, <1>2, Recharged
<1> QED
  BY <1>1, <1>2, <1>3

(* validate charges one attempt, within the limit, before it runs.         *)
LEMMA ValidateCharges ==
  ASSUME TypeOK, NEW p \in Process, NEW t \in Task, BudgetOf(t),
         call[p].task = t, BeginValidate(p)
  PROVE  BudgetOf(t)' /\ Used(t)' = Used(t) + 1 /\ grant'[t] = grant[t]
<1>1. /\ Used(t) \in Nat /\ Limit(t) \in Nat
      /\ starts[t] \in Nat /\ debit[t] \in Nat /\ granted[t] \in Nat
  BY BudgetType DEF TypeOK
<1>2. /\ EnsureBaseline(t) /\ legacy' = legacy /\ debit' = debit
      /\ granted' = granted /\ grant' = grant
      /\ starts'[t] = starts[t] + 1 /\ counter'[t] = Used(t) + 1
      /\ Used(t) < Limit(t)
  BY DEF BeginValidate, MayValidate, CanValidate, TypeOK
<1> DEFINE one == 1
           none == 0
<1>3. /\ one \in Nat /\ none \in Nat
      /\ starts'[t] = starts[t] + one /\ debit'[t] = debit[t] + none
      /\ granted'[t] = granted[t] + none /\ counter'[t] = Used(t) + one + none
      /\ Used(t) + one <= Limit(t) /\ grant'[t] = grant[t]
      /\ EnsureBaseline(t) /\ legacy' = legacy
  BY <1>1, <1>2
<1>4. BudgetOf(t)' /\ Used(t)' = Used(t) + one + none
  <2> HIDE DEF one, none
  <2> QED
    BY <1>3, Recharged
<1> QED
  BY <1>1, <1>2, <1>4

(* A grant charges the linked attempts and leaves exactly the approved     *)
(* ones: it was computed from the history the task still has.              *)
LEMMA GrantCharges ==
  ASSUME TypeOK, PreparedInv, NEW p \in Process, NEW t \in Task, BudgetOf(t),
         call[p].task = t, ApplyRevision(p)
  PROVE  /\ BudgetOf(t)'
         /\ Used(t)' \in Nat /\ Used(t)' >= Used(t)
         /\ Limit(t)' = Used(t)' + call[p].extra
         /\ call[p].extra \in Nat \ {0}
         /\ granted'[t] = granted[t] + call[p].extra
<1> DEFINE d == LinkedDebit(call[p].linked)
           g == call[p].extra
<1>1. /\ Used(t) \in Nat /\ starts[t] \in Nat
  BY BudgetType DEF TypeOK
<1>2. call[p] \in GrantCall
  BY DEF ApplyRevision, TypeOK, Call, Idle, ReadCall, RunCall, DoneCall, ConfigCall, GrantCall
<1>3. d \in Nat /\ g \in Nat \ {0}
  BY <1>2, LinkedDebitType, LimitAssumption DEF GrantCall
<1>4. call[p].used = Used(t)
  BY DEF PreparedInv, ApplyRevision, MayGrant
<1>5. /\ EnsureBaseline(t) /\ legacy' = legacy /\ starts' = starts
      /\ debit'[t] = debit[t] + d /\ granted'[t] = granted[t] + g
      /\ counter'[t] = Used(t) + d
      /\ grant'[t].limit = Used(t) + d + g
  BY <1>4 DEF ApplyRevision, TypeOK
<1>6. counter'[t] = Used(t) + 0 + d /\ starts'[t] = starts[t] + 0
  BY <1>1, <1>3, <1>5
<1>7. BudgetOf(t)' /\ Used(t)' = Used(t) + 0 + d
  <2>1. /\ EnsureBaseline(t) /\ legacy' = legacy /\ 0 \in Nat
        /\ debit'[t] = debit[t] + d /\ granted'[t] = granted[t] + g
        /\ grant'[t].limit = Used(t) + d + g
    BY <1>5
  <2> HIDE DEF d, g
  <2> QED
    BY <1>1, <1>3, <1>6, <2>1, Recharged
<1>8. Limit(t)' = Used(t) + d + g
  BY <1>5 DEF Limit
<1>9. granted'[t] = granted[t] + g
  BY <1>5
<1> HIDE DEF d
<1> QED
  BY <1>1, <1>3, <1>7, <1>8, <1>9

(* Every other step about a task leaves its usage and its grant alone.     *)
LEMMA OtherCharges ==
  ASSUME NEW t \in Task,
         \/ \E w \in Name :
              \/ Claim(w, t)
              \/ \E b \in Bundle : Stage(w, t, b)
              \/ \E to \in {"queued", "blocked"} : Release(w, t, to)
              \/ \E decision \in {"accept", "reject"} : Review(w, t, decision)
         \/ \E p \in Process : ValidatorRaises(p) \/ RecordValidation(p)
         \/ Untouched(t)
  PROVE  /\ BudgetOf(t) => BudgetOf(t)'
         /\ Used(t)' = Used(t) /\ Limit(t)' = Limit(t)
         /\ grant'[t] = grant[t] /\ held'[t] = held[t]
<1>1. /\ counter'[t] = counter[t] /\ legacy'[t] = legacy[t] /\ baseline'[t] = baseline[t]
      /\ starts'[t] = starts[t] /\ debit'[t] = debit[t] /\ granted'[t] = granted[t]
      /\ grant'[t] = grant[t] /\ held'[t] = held[t]
  BY DEF Claim, Stage, Release, Review, ValidatorRaises, RecordValidation, Untouched, budget
<1> QED
  BY <1>1, SameBudget

(* Every step preserves the invariant of a task and refunds nothing.       *)
LEMMA StepBudget ==
  ASSUME TypeOK, BudgetInv, PreparedInv, [Next]_vars, NEW t \in Task
  PROVE  /\ BudgetOf(t)'
         /\ Used(t)' >= Used(t)
         /\ grant'[t] # grant[t] => Limit(t)' - Used(t)' = granted'[t] - granted[t]
<1>1. BudgetOf(t) /\ Used(t) \in Nat /\ granted[t] \in Nat
  BY BudgetType DEF BudgetInv, TypeOK
<1>2. ASSUME NEW p \in Process, call[p].task = t, ApplyRevision(p)
      PROVE  /\ BudgetOf(t)' /\ Used(t)' >= Used(t)
             /\ Limit(t)' - Used(t)' = granted'[t] - granted[t]
  BY <1>1, <1>2, GrantCharges
<1> QED
  BY <1>1, <1>2, ReconcileCharges, ValidateCharges, OtherCharges, TouchedOrNot DEF Touched

(* A grant that is prepared and not overtaken after a step was so before   *)
(* the step, or has just been prepared.                                    *)
LEMMA StillPrepared ==
  ASSUME TypeOK, NEW t \in Task, NEW p \in Process,
         call'[p] \in {call[p], Logged(t)[p]},
         call'[p].pc = "prepared", ~call'[p].touched
  PROVE  call'[p] = call[p]
<1> SUFFICES ASSUME call'[p] = Logged(t)[p], call[p].pc = "prepared" PROVE call[p].task # t
  BY LoggedCall DEF Logged
<1>1. call[p] \in GrantCall
  BY DEF TypeOK, Call, Idle, ReadCall, RunCall, DoneCall, ConfigCall, GrantCall
<1>2. call[p].task = t => call'[p] = [call[p] EXCEPT !.touched = TRUE]
  BY DEF Logged
<1> QED
  BY <1>1, <1>2 DEF GrantCall

(* Where a prepared grant comes from: it was so before, or has just been.  *)
LEMMA PreparedOrigin ==
  ASSUME TypeOK, [Next]_vars, NEW p \in Process,
         call'[p].pc = "prepared", ~call'[p].touched
  PROVE  \/ call'[p] = call[p]
         \/ \E t \in Task, id \in Approval, extra \in 1..MaxExtra,
               fresh \in SUBSET Artifact, linked \in SUBSET Lineage :
              PrepareRevision(p, t, id, extra, fresh, linked)
<1>1. ASSUME NEW w \in Name, NEW t \in Task,
             \/ Claim(w, t)
             \/ \E b \in Bundle : Stage(w, t, b)
             \/ \E to \in {"queued", "blocked"} : Release(w, t, to)
             \/ \E quarantine \in BOOLEAN : Reopen(w, t, quarantine)
             \/ \E decision \in {"accept", "reject"} : Review(w, t, decision)
      PROVE  call'[p] = call[p]
  BY <1>1, StillPrepared DEF Claim, Stage, Release, Reopen, Review
<1>2. ASSUME NEW t \in Task, Unblock(t) PROVE call'[p] = call[p]
  BY <1>2, StillPrepared DEF Unblock
<1>3. ASSUME NEW q \in Process, BeginValidate(q) \/ RecordValidation(q) \/ ApplyRevision(q)
      PROVE  call'[p] = call[p]
  <2>1. call[q].task \in Task
    BY <1>3, CallTask DEF BeginValidate, RecordValidation, ApplyRevision
  <2>2. p # q
    BY <1>3, <2>1, LoggedType DEF BeginValidate, RecordValidation, ApplyRevision, Idle
  <2>3. call'[p] = Logged(call[q].task)[p]
    BY <1>3, <2>1, <2>2, LoggedType DEF BeginValidate, RecordValidation, ApplyRevision
  <2> QED
    BY <2>1, <2>3, StillPrepared
<1>4. ASSUME NEW q \in Process,
             \/ \E v \in Verdict : ValidatorReturns(q, v)
             \/ ValidatorRaises(q) \/ WriteConfig(q) \/ Refuse(q) \/ Crash(q)
             \/ \E w \in Name, t \in Task : ReadSchemas(q, w, t)
             \/ \E s \in Schema \cup {None} : ReadConfig(q, s)
      PROVE  call'[p] = call[p]
  BY <1>4 DEF TypeOK, ValidatorReturns, ValidatorRaises, WriteConfig, Refuse, Crash,
              ReadSchemas, ReadConfig, Idle
<1>5. ASSUME NEW q \in Process, NEW t \in Task, NEW id \in Approval,
             NEW extra \in 1..MaxExtra, NEW fresh \in SUBSET Artifact,
             NEW linked \in SUBSET Lineage, PrepareRevision(q, t, id, extra, fresh, linked)
      PROVE  p = q \/ call'[p] = call[p]
  BY <1>5 DEF TypeOK, PrepareRevision
<1>6. CASE Edit \/ UNCHANGED vars
  BY <1>6 DEF Edit, EditFiles, vars
<1> QED
  BY <1>1, <1>2, <1>3, <1>4, <1>5, <1>6 DEF Next, NextNoCrash, Command, Continue

(* A step about a task overtakes every grant prepared for it, or leaves    *)
(* what the task has used as it was.                                       *)
LEMMA StepPrepared ==
  ASSUME TypeOK, BudgetInv, PreparedInv, [Next]_vars
  PROVE  PreparedInv'
<1> SUFFICES ASSUME NEW p \in Process, NEW t \in Task, call'[p].task = t,
                    call'[p].pc = "prepared", ~call'[p].touched
             PROVE  call'[p].used = Used(t)'
  BY DEF PreparedInv
<1>1. CASE \E u \in Task, id \in Approval, extra \in 1..MaxExtra,
              fresh \in SUBSET Artifact, linked \in SUBSET Lineage :
             PrepareRevision(p, u, id, extra, fresh, linked)
  <2>1. call'[p].used = Used(t)
    BY <1>1 DEF PrepareRevision, TypeOK
  <2>2. UNCHANGED <<row, budget>>
    BY <1>1 DEF PrepareRevision
  <2> QED
    BY <2>1, <2>2, SameBudget DEF row, budget
<1>2. CASE call'[p] = call[p]
  <2>1. call[p].task = t /\ call[p].used = Used(t)
    BY <1>2 DEF PreparedInv
  <2>2. CASE Untouched(t) \/ \E q \in Process : ValidatorRaises(q)
    BY <2>1, <2>2, <1>2, SameBudget DEF Untouched, ValidatorRaises, budget
  <2>3. Logged(t)[p].touched /\ Logged(t)[p].pc = "prepared"
    <3>1. call[p] \in GrantCall
      BY <1>2 DEF TypeOK, Call, Idle, ReadCall, RunCall, DoneCall, ConfigCall, GrantCall
    <3> QED
      BY <1>2, <3>1 DEF Logged, GrantCall
  <2>4. CASE \/ \E w \in Name :
                  \/ Claim(w, t)
                  \/ \E b \in Bundle : Stage(w, t, b)
                  \/ \E to \in {"queued", "blocked"} : Release(w, t, to)
                  \/ \E quarantine \in BOOLEAN : Reopen(w, t, quarantine)
                  \/ \E decision \in {"accept", "reject"} : Review(w, t, decision)
             \/ Unblock(t)
    BY <2>3, <2>4 DEF Claim, Stage, Release, Reopen, Review, Unblock
  <2>5. ASSUME NEW q \in Process, call[q].task = t,
               BeginValidate(q) \/ RecordValidation(q) \/ ApplyRevision(q)
        PROVE  FALSE
    <3>1. p # q
      BY <2>1, <2>5, <1>2, LoggedType DEF BeginValidate, RecordValidation, ApplyRevision, Idle
    <3>2. call'[p] = Logged(t)[p]
      BY <2>1, <2>5, <3>1, LoggedType DEF BeginValidate, RecordValidation, ApplyRevision
    <3> QED
      BY <2>3, <3>2
  <2> QED
    BY <2>1, <2>2, <2>4, <2>5, TouchedOrNot DEF Touched
<1> QED
  BY <1>1, <1>2, PreparedOrigin

-----------------------------------------------------------------------------
(* What is guaranteed of the budget                                        *)

(* The inductive invariant: no task is charged more than it was allowed, and *)
(* a grant not overtaken was computed from the usage its task still has.   *)
THEOREM BudgetCorrect == Spec => [](BudgetInv /\ PreparedInv)
<1>1. Init => BudgetInv /\ PreparedInv
  BY DEF Init, BudgetInv, BudgetOf, PreparedInv, Idle, NoGrant, Limit
<1>2. TypeOK /\ BudgetInv /\ PreparedInv /\ [Next]_vars => BudgetInv' /\ PreparedInv'
  BY StepBudget, StepPrepared DEF BudgetInv
<1> QED
  BY <1>1, <1>2, TypeCorrect, PTL DEF Spec

(* What the invariant says of the validations started.                     *)
LEMMA Covered == TypeOK /\ BudgetInv => SpendBounded
<1> SUFFICES ASSUME TypeOK, BudgetInv, NEW t \in Task
             PROVE  starts[t] <= (IF LegacyFloor(t, legacy[t].counter) >= BaseLimit THEN 0
                                  ELSE BaseLimit - LegacyFloor(t, legacy[t].counter))
                                 + granted[t]
  BY DEF SpendBounded
<1> DEFINE f == LegacyFloor(t, legacy[t].counter)
<1>1. legacy[t].counter \in Nat
  BY DEF TypeOK, History
<1>2. /\ f \in Nat /\ Prior(t) \in Nat /\ starts[t] \in Nat /\ debit[t] \in Nat
      /\ granted[t] \in Nat /\ baseline[t].used \in Nat
  BY <1>1, BudgetType DEF TypeOK, Baseline
<1>3. CASE ~baseline[t].taken
  BY <1>2, <1>3, LimitAssumption DEF BudgetInv, BudgetOf
<1>4. CASE baseline[t].taken
  <2>1. Prior(t) >= f
    BY <1>2, <1>4 DEF BudgetInv, BudgetOf, Prior, Larger
  <2>2. Prior(t) + starts[t] + debit[t] <= Larger(BaseLimit, Prior(t)) + debit[t] + granted[t]
    BY <1>4 DEF BudgetInv, BudgetOf, Charged, Allowance
  <2> HIDE DEF f
  <2>3. starts[t] <= (IF f >= BaseLimit THEN 0 ELSE BaseLimit - f) + granted[t]
    BY <1>2, <2>1, <2>2, LimitAssumption DEF Larger
  <2> QED
    BY <2>3 DEF f
<1> QED
  BY <1>3, <1>4

(* No interleaving, interruption, crash, legacy reset or grant lets the    *)
(* validator start more often than the base limit and the user allow.      *)
THEOREM SpendIsBounded == Spec => []SpendBounded
BY Covered, BudgetCorrect, TypeCorrect, PTL

(* No step lowers the attempts a task has used.                            *)
THEOREM NothingIsRefunded == Spec => SpentNeverRefunded
<1>1. TypeOK /\ BudgetInv /\ PreparedInv /\ [Next]_vars
        => [\A t \in Task : Used(t)' >= Used(t)]_vars
  BY StepBudget
<1> QED
  BY <1>1, BudgetCorrect, TypeCorrect, PTL DEF Spec, SpentNeverRefunded

(* A grant, however late it is applied, leaves exactly the attempts the    *)
(* user approved.                                                          *)
THEOREM GrantsAreExact == Spec => GrantIsExact
<1>1. TypeOK /\ BudgetInv /\ PreparedInv /\ [Next]_vars
        => [\A t \in Task : grant'[t] # grant[t]
              => Limit(t)' - Used(t)' = granted'[t] - granted[t]]_vars
  BY StepBudget
<1> QED
  BY <1>1, BudgetCorrect, TypeCorrect, PTL DEF Spec, GrantIsExact
-----------------------------------------------------------------------------
(* Linked lineages                                                         *)

(* Two disjoint sets of lineages used together what each of them used.     *)
LEMMA DebitsAdd ==
  ASSUME NEW S \in SUBSET Lineage, NEW T \in SUBSET Lineage, S \cap T = {}
  PROVE  LinkedDebit(S \cup T) = LinkedDebit(S) + LinkedDebit(T)
<1>1. IsFiniteSet(S) /\ IsFiniteSet(T)
  BY FS_Subset, FiniteAssumption
<1>2. /\ Cardinality(S \cup T) = Cardinality(S) + Cardinality(T) - Cardinality({})
      /\ Cardinality({}) = 0
  BY <1>1, FS_Union, FS_EmptySet
<1>3. Cardinality(S) \in Nat /\ Cardinality(T) \in Nat
  BY <1>1, FS_CardinalityType
<1>4. Cardinality(S \cup T) = Cardinality(S) + Cardinality(T)
  BY <1>2, <1>3
<1>5. LineageUsed * (Cardinality(S) + Cardinality(T))
        = LineageUsed * Cardinality(S) + LineageUsed * Cardinality(T)
  BY <1>3, LimitAssumption
<1> QED
  BY <1>4, <1>5 DEF LinkedDebit

LEMMA NoDebit == LinkedDebit({}) = 0
BY FS_EmptySet, LimitAssumption DEF LinkedDebit

(* Only a grant debits, and it debits what no grant had debited.           *)
LEMMA WhoDebits ==
  ASSUME TypeOK, [Next]_vars
  PROVE  \/ UNCHANGED <<debit, debited>>
         \/ \E t \in Task, linked \in SUBSET (Lineage \ debited) :
              /\ debit' = [debit EXCEPT ![t] = @ + LinkedDebit(linked)]
              /\ debited' = debited \cup linked
<1>1. ASSUME NEW p \in Process, ApplyRevision(p)
      PROVE  \E t \in Task, linked \in SUBSET (Lineage \ debited) :
               /\ debit' = [debit EXCEPT ![t] = @ + LinkedDebit(linked)]
               /\ debited' = debited \cup linked
  <2>1. call[p] \in GrantCall
    BY <1>1 DEF TypeOK, ApplyRevision, Call, Idle, ReadCall, RunCall, DoneCall, ConfigCall,
                GrantCall
  <2>2. call[p].task \in Task /\ call[p].linked \in SUBSET Lineage
    BY <2>1 DEF GrantCall
  <2>3. call[p].linked \in SUBSET (Lineage \ debited)
    BY <1>1, <2>2 DEF ApplyRevision, MayGrant
  <2> QED
    BY <1>1, <2>2, <2>3 DEF ApplyRevision
<1>2. ASSUME NEW w \in Name, NEW t \in Task,
             \/ Claim(w, t)
             \/ \E b \in Bundle : Stage(w, t, b)
             \/ \E to \in {"queued", "blocked"} : Release(w, t, to)
             \/ \E quarantine \in BOOLEAN : Reopen(w, t, quarantine)
             \/ \E decision \in {"accept", "reject"} : Review(w, t, decision)
             \/ \E p \in Process : ReadSchemas(p, w, t)
      PROVE  UNCHANGED <<debit, debited>>
  BY <1>2 DEF Claim, Stage, Release, Reopen, Review, ReadSchemas, budget
<1>3. ASSUME NEW t \in Task, Unblock(t) PROVE UNCHANGED <<debit, debited>>
  BY <1>3 DEF Unblock, budget
<1>4. ASSUME NEW p \in Process,
             \/ \E s \in Schema \cup {None} : ReadConfig(p, s)
             \/ \E t \in Task, id \in Approval, extra \in 1..MaxExtra,
                   fresh \in SUBSET Artifact, linked \in SUBSET Lineage :
                  PrepareRevision(p, t, id, extra, fresh, linked)
      PROVE  UNCHANGED <<debit, debited>>
  BY <1>4 DEF ReadConfig, PrepareRevision, budget
<1>5. ASSUME NEW p \in Process,
             \/ BeginValidate(p) \/ (\E v \in Verdict : ValidatorReturns(p, v))
             \/ ValidatorRaises(p) \/ RecordValidation(p)
             \/ WriteConfig(p) \/ Refuse(p) \/ Crash(p)
      PROVE  UNCHANGED <<debit, debited>>
  BY <1>5 DEF BeginValidate, ValidatorReturns, ValidatorRaises,
              RecordValidation, WriteConfig, Refuse, Crash, budget
<1>6. ASSUME Edit \/ UNCHANGED vars PROVE UNCHANGED <<debit, debited>>
  BY <1>6 DEF Edit, EditFiles, vars, budget
<1>7. CASE \E p \in Process : ApplyRevision(p)
  BY <1>1, <1>7
<1>8. ASSUME ~\E p \in Process : ApplyRevision(p) PROVE UNCHANGED <<debit, debited>>
  <2>1. CASE Command
    BY <1>2, <1>3, <1>4, <2>1 DEF Command
  <2>2. CASE Edit \/ UNCHANGED vars
    BY <1>6, <2>2
  <2>3. CASE \E p \in Process : Continue(p) \/ Crash(p)
    BY <1>5, <1>8, <2>3 DEF Continue
  <2> QED
    BY <2>1, <2>2, <2>3 DEF Next, NextNoCrash
<1> QED
  BY <1>7, <1>8

(* A grant gives the lineages it debits to its task; all others stay with  *)
(* the task they had been debited to.                                      *)
LEMMA StepDebits ==
  ASSUME TypeOK, LineageDebitedOnce, [Next]_vars
  PROVE  LineageDebitedOnce'
<1>1. PICK owner \in [debited -> Task] :
        \A t \in Task : debit[t] = LinkedDebit({l \in debited : owner[l] = t})
  BY DEF LineageDebitedOnce
<1>2. CASE UNCHANGED <<debit, debited>>
  BY <1>1, <1>2 DEF LineageDebitedOnce, LinkedDebit
<1>3. ASSUME NEW t \in Task, NEW linked \in SUBSET (Lineage \ debited),
             debit' = [debit EXCEPT ![t] = @ + LinkedDebit(linked)],
             debited' = debited \cup linked
      PROVE  LineageDebitedOnce'
  <2> DEFINE Of(u) == {l \in debited : owner[l] = u}
  <2>1. PICK next \in [debited' -> Task] :
          \A l \in debited' : next[l] = IF l \in linked THEN t ELSE owner[l]
    <3> DEFINE f == [l \in debited' |-> IF l \in linked THEN t ELSE owner[l]]
    <3>1. f \in [debited' -> Task] /\ \A l \in debited' : f[l] = IF l \in linked THEN t ELSE owner[l]
      BY <1>1, <1>3
    <3> QED
      BY <3>1
  <2>2. ASSUME NEW u \in Task
        PROVE  debit'[u] = LinkedDebit({l \in debited' : next[l] = u})
    <3>1. debit[u] = LinkedDebit(Of(u)) /\ debit[u] \in Nat
      BY <1>1 DEF TypeOK
    <3>2. CASE u # t
      <4>1. {l \in debited' : next[l] = u} = Of(u)
        BY <1>3, <2>1, <3>2
      <4> QED
        BY <1>3, <3>1, <3>2, <4>1 DEF TypeOK
    <3>3. CASE u = t
      <4>1. {l \in debited' : next[l] = u} = Of(u) \cup linked
        BY <1>3, <2>1, <3>3
      <4>2. /\ Of(u) \in SUBSET Lineage /\ linked \in SUBSET Lineage
            /\ Of(u) \cap linked = {}
        BY <1>3 DEF TypeOK
      <4>3. LinkedDebit(Of(u) \cup linked) = LinkedDebit(Of(u)) + LinkedDebit(linked)
        BY <4>2, DebitsAdd
      <4>4. debit'[u] = debit[u] + LinkedDebit(linked)
        BY <1>3, <3>3 DEF TypeOK
      <4> QED
        BY <3>1, <4>1, <4>3, <4>4
    <3> QED
      BY <3>2, <3>3
  <2> QED
    BY <2>1, <2>2 DEF LineageDebitedOnce, LinkedDebit
<1> QED
  BY <1>2, <1>3, WhoDebits

(* No two approvals, in whatever order they are prepared and applied,      *)
(* debit the attempts of one linked lineage twice.                         *)
THEOREM LineagesAreDebitedOnce == Spec => []LineageDebitedOnce
<1>1. Init => LineageDebitedOnce
  <2> SUFFICES ASSUME Init PROVE LineageDebitedOnce
    OBVIOUS
  <2>1. debited = {} /\ \A t \in Task : debit[t] = 0
    BY DEF Init
  <2>2. [l \in {} |-> {}] \in [debited -> Task]
    BY <2>1
  <2>3. \A t \in Task : {l \in debited : [x \in {} |-> {}][l] = t} = {}
    BY <2>1
  <2> QED
    BY <2>1, <2>2, <2>3, NoDebit DEF LineageDebitedOnce
<1>2. TypeOK /\ LineageDebitedOnce /\ [Next]_vars => LineageDebitedOnce'
  BY StepDebits
<1> QED
  BY <1>1, <1>2, TypeCorrect, PTL DEF Spec
=============================================================================
