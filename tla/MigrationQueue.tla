--------------------------- MODULE MigrationQueue ---------------------------
(***************************************************************************)
(* The resumable work queue of tools/migration_team (queue.py), together   *)
(* with the operator command that grants further validation attempts       *)
(* (budget_admin.py).                                                      *)
(*                                                                         *)
(* A queue is one SQLite file.  A command is a CLI process; most commands  *)
(* are one BEGIN IMMEDIATE transaction and so one action here.  Three      *)
(* commands read something before their transaction or act after it, and   *)
(* are calls of several steps: `validate', `configure' and the budget      *)
(* grant.  The staged SQL lives outside the database, where anything may   *)
(* edit it between two steps.                                              *)
(*                                                                         *)
(* The events table is represented by what the code computes from it: the  *)
(* legacy history, the baseline, the number of attempts started since, the *)
(* attempts debited, whether a quarantine is later than the last grant,    *)
(* and the last grant.  A SHA-256 is represented by what it is taken of.   *)
(***************************************************************************)
EXTENDS Naturals, FiniteSets

CONSTANTS
  Task,          \* source objects that need work
  Name,          \* worker, reviewer and actor labels, as typed
  Fold,          \* Fold[n]: the label n after casefold and strip
  Process,       \* concurrently running CLI processes
  Artifact,      \* the SQL files of a task
  Optional,      \* those that may be absent (dependencies.sql)
  Content,       \* what a file may hold
  Schema,        \* target schema configurations
  Approval,      \* identifiers of the user's approvals
  Lineage,       \* quarantined tasks of other queues an approval may link
  LineageUsed,   \* attempts recorded in each of them
  LegacyHistory, \* what an older release may have left of a task
  BaseLimit,     \* lifetime attempts without a grant (3 in the code)
  MaxExtra,      \* most attempts one approval may add (3 in the code)
  MaxWorkers,    \* active lanes
  None           \* SQL NULL, an absent file, no configuration

Status == {"queued", "claimed", "validating", "pending_review", "reviewed", "blocked"}
History == [before: Nat, after: Nat, counter: Nat, status: Status]
NoHistory == [before |-> 0, after |-> 0, counter |-> 0, status |-> "queued"]

ASSUME FoldAssumption == Fold \in [Name -> Name]
ASSUME ArtifactAssumption == Optional \subseteq Artifact
ASSUME FiniteAssumption == IsFiniteSet(Task) /\ IsFiniteSet(Lineage)
ASSUME LimitAssumption ==
  BaseLimit \in Nat /\ MaxExtra \in Nat /\ MaxWorkers \in Nat /\ LineageUsed \in Nat
ASSUME HistoryAssumption == LegacyHistory \subseteq History
ASSUME NoneAssumption == None \notin Name \cup Content \cup Schema \cup Approval

VARIABLES
  (* columns of the tasks table *)
  status, worker, reviewer, evidence,
  counter,     \* validation_attempts
  (* what validation_budget reads in the events table *)
  legacy,      \* events and counter written before budgets were governed
  baseline,    \* the validation-budget-baseline event
  starts,      \* validate-start events after it
  debit,       \* attempts of linked lineages debited by grants
  granted,     \* attempts added by grants
  held,        \* a quarantine-review later than the last grant
  grant,       \* the last user-authorized-revision
  consumed,    \* approvals recorded in this queue
  debited,     \* linked lineages recorded in this queue
  (* outside those tables *)
  schemas,     \* target_schemas in the metadata table
  sql,         \* the staged files
  call         \* the multi-step command each process is executing

row == <<status, worker, reviewer, evidence, counter>>
budget == <<legacy, baseline, starts, debit, granted, held, grant, consumed, debited>>
vars == <<row, budget, schemas, sql, call>>

-----------------------------------------------------------------------------
(* Types                                                                   *)

Bundle == [Artifact -> Content \cup {None}]
Input == [sql: Bundle, config: Schema]
Verdict == {"passed", "failed"}    \* "failed" also stands for a blocked validation
Evidence == [result: Verdict, input: Input, attempt: Nat,
             auth: Approval \cup {None}, schemas: Schema]
NoEvidence == [result |-> "none"]
Baseline == [taken: BOOLEAN, used: Nat, counter: Nat]
Grant == [id: Approval \cup {None}, limit: Nat, usedAt: Nat,
          fresh: SUBSET Artifact, previous: Bundle]

Idle == [pc |-> "idle"]
ReadCall == [pc: {"schemas_read"}, task: Task, worker: Name, schemas: Schema]
RunCall == [pc: {"running"}, task: Task, schemas: Schema, input: Input,
            attempt: Nat, auth: Approval \cup {None}]
DoneCall == [pc: {"verified"}, task: Task, evidence: Evidence]
ConfigCall == [pc: {"config_read"}, schemas: Schema \cup {None}]
GrantCall == [pc: {"prepared"}, task: Task, id: Approval, extra: 1..MaxExtra,
              fresh: SUBSET Artifact, linked: SUBSET Lineage,
              previous: Bundle, used: Nat, touched: BOOLEAN]
Call == {Idle} \cup ReadCall \cup RunCall \cup DoneCall \cup ConfigCall \cup GrantCall

-----------------------------------------------------------------------------
(* Validation budget                                                       *)

Larger(m, n) == IF m >= n THEN m ELSE n

(* The counter belongs to the last reset period: attempts completed before *)
(* the last legacy reset are added to it.                                  *)
LegacyFloor(t, c) == legacy[t].before + Larger(c, legacy[t].after)

Prior(t) == Larger(baseline[t].used, LegacyFloor(t, baseline[t].counter))

(* Mutant: usage rebuilt from the raw counter a baseline captured.         *)
UsedFromCounter(t) ==
  IF baseline[t].taken
  THEN baseline[t].counter + starts[t] + debit[t]
  ELSE Larger(counter[t], LegacyFloor(t, counter[t]) + debit[t])

Used(t) ==
  IF baseline[t].taken
  THEN Larger(counter[t], Prior(t) + starts[t] + debit[t])
  ELSE Larger(counter[t], LegacyFloor(t, counter[t]) + debit[t])

NoGrant == [id |-> None, limit |-> BaseLimit, usedAt |-> 0, fresh |-> {},
            previous |-> [a \in Artifact |-> None]]
Limit(t) == grant[t].limit

(* Mutant: the limit is off by one.                                        *)
CanValidateAtLimit(t) == Used(t) <= Limit(t) /\ ~held[t]

(* Mutant: attempts that remain are enough.                                *)
CanValidateHeld(t) == Used(t) < Limit(t)

CanValidate(t) == Used(t) < Limit(t) /\ ~held[t]

(* Evidence of an attempt made under the last grant, if there is one.      *)
FreshEvidence(t) ==
  grant[t].id # None =>
    /\ evidence[t].result # "none"
    /\ evidence[t].auth = grant[t].id
    /\ evidence[t].attempt > grant[t].usedAt

ReviewEligible(t) == Used(t) <= Limit(t) /\ ~held[t] /\ FreshEvidence(t)

EnsureBaseline(t) ==
  baseline' = IF baseline[t].taken THEN baseline
              ELSE [baseline EXCEPT ![t] =
                      [taken |-> TRUE, used |-> Used(t), counter |-> counter[t]]]

-----------------------------------------------------------------------------
(* Staged files, hashes and calls in progress                              *)

Unstaged == [a \in Artifact |-> None]
Complete(b) == \A a \in Artifact \ Optional : b[a] # None
Hashable(t) == schemas # None /\ Complete(sql[t])
HashOf(t) == [sql |-> sql[t], config |-> schemas]

(* Mutant: ownership by name alone, whatever the status.                   *)
OwnsByName(w, t) == worker[t] = w

Owns(w, t) == worker[t] = w /\ status[t] = "claimed"
(* Mutant: a task being validated does not occupy a lane.                  *)
ActiveClaimed == {t \in Task : status[t] = "claimed"}

Active == {t \in Task : status[t] \in {"claimed", "validating"}}
(* Mutant: labels compared as typed.                                       *)
SameLabel(m, n) == m = n
SameActor(m, n) == Fold[m] = Fold[n]

(* Mutant: a prepared grant does not notice what was logged.               *)
LoggedUnnoticed(t) == call

(* The calls once an event of task t has been appended: a grant prepared   *)
(* from an earlier audit of t will find a later sequence number.           *)
Logged(t) ==
  [p \in Process |->
     IF call[p].pc = "prepared" /\ call[p].task = t
     THEN [call[p] EXCEPT !.touched = TRUE] ELSE call[p]]

-----------------------------------------------------------------------------
(* A queue just initialized, or one that an older release has worked on.   *)
(* That release kept no count over its resets: what it has up for review,  *)
(* or has accepted, may be over the limit.                                 *)
AnOldPass == [result: {"passed"}, input: Input, attempt: {0}, auth: {None}, schemas: Schema]

Left(t) ==
  /\ worker[t] # None <=> status[t] \notin {"queued", "blocked"}
  /\ sql[t] # Unstaged => worker[t] # None
  /\ reviewer[t] # None <=> status[t] = "reviewed"
  /\ status[t] = "reviewed" => Fold[reviewer[t]] # Fold[worker[t]]
  /\ evidence[t].result = "passed" <=> status[t] \in {"pending_review", "reviewed"}
  /\ evidence[t].result = "passed" =>
       schemas # None /\ evidence[t].schemas = evidence[t].input.config

Init ==
  /\ schemas \in Schema \cup {None}
  /\ legacy \in [Task -> LegacyHistory]
  /\ status = [t \in Task |-> legacy[t].status]
  /\ Cardinality(Active) <= MaxWorkers
  /\ worker \in [Task -> Name \cup {None}]
  /\ sql \in [Task -> Bundle]
  /\ reviewer \in [Task -> Name \cup {None}]
  /\ evidence \in [Task -> {NoEvidence} \cup AnOldPass]
  /\ \A t \in Task : Left(t)
  /\ counter = [t \in Task |-> legacy[t].counter]
  /\ baseline = [t \in Task |-> [taken |-> FALSE, used |-> 0, counter |-> 0]]
  /\ starts = [t \in Task |-> 0]
  /\ debit = [t \in Task |-> 0]
  /\ granted = [t \in Task |-> 0]
  /\ held = [t \in Task |-> FALSE]
  /\ grant = [t \in Task |-> NoGrant]
  /\ consumed = {}
  /\ debited = {}
  /\ call = [p \in Process |-> Idle]

-----------------------------------------------------------------------------
(* Single-transaction commands                                             *)

(* claim, by id or the first queued task: both take a queued task.         *)
Claim(w, t) ==
  /\ Cardinality(Active) < MaxWorkers
  /\ status[t] = "queued"
  /\ CanValidate(t)
  /\ status' = [status EXCEPT ![t] = "claimed"]
  /\ worker' = [worker EXCEPT ![t] = w]
  /\ reviewer' = [reviewer EXCEPT ![t] = None]
  /\ evidence' = [evidence EXCEPT ![t] = NoEvidence]
  /\ call' = Logged(t)
  /\ UNCHANGED <<counter, budget, schemas, sql>>

(* Every required file is supplied; an omitted optional one is unlinked.   *)
Stage(w, t, b) ==
  /\ Owns(w, t)
  /\ Complete(b)
  /\ sql' = [sql EXCEPT ![t] = b]
  /\ evidence' = [evidence EXCEPT ![t] = NoEvidence]
  /\ call' = Logged(t)
  /\ UNCHANGED <<status, worker, reviewer, counter, budget, schemas>>

Release(w, t, to) ==
  /\ Owns(w, t)
  /\ status' = [status EXCEPT ![t] = to]
  /\ worker' = [worker EXCEPT ![t] = None]
  /\ evidence' = [evidence EXCEPT ![t] = NoEvidence]
  /\ call' = Logged(t)
  /\ UNCHANGED <<reviewer, counter, budget, schemas, sql>>

Unblock(t) ==
  /\ status[t] = "blocked"
  /\ CanValidate(t)
  /\ EnsureBaseline(t)
  /\ status' = [status EXCEPT ![t] = "queued"]
  /\ counter' = [counter EXCEPT ![t] = Used(t)]
  /\ call' = Logged(t)
  /\ UNCHANGED <<worker, reviewer, evidence, legacy, starts, debit, granted, held,
                 grant, consumed, debited, schemas, sql>>

Reopen(actor, t, quarantine) ==
  /\ status[t] = "reviewed"
  /\ ~SameActor(actor, worker[t])
  /\ EnsureBaseline(t)
  /\ status' = [status EXCEPT ![t] =
                  IF CanValidate(t) /\ ~quarantine THEN "queued" ELSE "blocked"]
  /\ worker' = [worker EXCEPT ![t] = None]
  /\ reviewer' = [reviewer EXCEPT ![t] = None]
  /\ evidence' = [evidence EXCEPT ![t] = NoEvidence]
  /\ counter' = [counter EXCEPT ![t] = Used(t)]
  /\ held' = [held EXCEPT ![t] = @ \/ quarantine]
  /\ call' = Logged(t)
  /\ UNCHANGED <<legacy, starts, debit, granted, grant, consumed, debited, schemas, sql>>

(* Mutant: acceptance without looking at the budget.                       *)
MayAcceptPassing(t) ==
  /\ evidence[t].result = "passed"
  /\ Hashable(t) /\ evidence[t].input = HashOf(t)

(* Mutant: the staged files are not hashed again.                          *)
MayAcceptStale(t) == ReviewEligible(t) /\ evidence[t].result = "passed"

MayAccept(t) ==
  /\ ReviewEligible(t)
  /\ evidence[t].result = "passed"
  /\ Hashable(t) /\ evidence[t].input = HashOf(t)

Review(r, t, decision) ==
  /\ status[t] = "pending_review"
  /\ ~SameActor(r, worker[t])
  /\ decision = "accept" => MayAccept(t)
  /\ status' = [status EXCEPT ![t] = IF decision = "accept" THEN "reviewed"
                                     ELSE IF CanValidate(t) THEN "queued" ELSE "blocked"]
  /\ reviewer' = [reviewer EXCEPT ![t] = r]
  /\ call' = Logged(t)
  /\ UNCHANGED <<worker, evidence, counter, budget, schemas, sql>>

-----------------------------------------------------------------------------
(* validate: schemas are read, then a transaction opens the attempt, then  *)
(* the validator runs and the files are hashed again, then a transaction   *)
(* records the evidence.                                                   *)

ReadSchemas(p, w, t) ==
  /\ call[p] = Idle
  /\ schemas # None
  /\ call' = [call EXCEPT ![p] =
                [pc |-> "schemas_read", task |-> t, worker |-> w, schemas |-> schemas]]
  /\ UNCHANGED <<row, budget, schemas, sql>>

(* Mutant: the files a grant requires to change are not compared.          *)
MayValidateUnchanged(w, t) == Owns(w, t) /\ Hashable(t) /\ CanValidate(t)

MayValidate(w, t) ==
  /\ Owns(w, t)
  /\ Hashable(t)
  /\ CanValidate(t)
  /\ \A a \in grant[t].fresh : sql[t][a] # grant[t].previous[a]

BeginValidate(p) ==
  /\ call[p].pc = "schemas_read"
  /\ LET t == call[p].task IN
     /\ MayValidate(call[p].worker, t)
     /\ EnsureBaseline(t)
     /\ status' = [status EXCEPT ![t] = "validating"]
     /\ evidence' = [evidence EXCEPT ![t] = NoEvidence]
     /\ counter' = [counter EXCEPT ![t] = Used(t) + 1]
     /\ starts' = [starts EXCEPT ![t] = @ + 1]
     /\ call' = [Logged(t) EXCEPT ![p] =
                   [pc |-> "running", task |-> t, schemas |-> call[p].schemas,
                    input |-> HashOf(t), attempt |-> Used(t) + 1, auth |-> grant[t].id]]
  /\ UNCHANGED <<worker, reviewer, legacy, debit, granted, held, grant, consumed,
                 debited, schemas, sql>>

(* The validator answers v; inputs that no longer hash the same fail it.   *)
ValidatorReturns(p, v) ==
  /\ call[p].pc = "running"
  /\ Hashable(call[p].task)
  /\ call' = [call EXCEPT ![p] =
       [pc |-> "verified", task |-> call[p].task,
        evidence |-> [result |-> IF HashOf(call[p].task) = call[p].input THEN v ELSE "failed",
                      input |-> call[p].input, attempt |-> call[p].attempt,
                      auth |-> call[p].auth, schemas |-> call[p].schemas]]]
  /\ UNCHANGED <<row, budget, schemas, sql>>

(* Mutants: the handler writes a status nothing knows; it writes none.     *)
ValidatorRaisesFailed(p) ==
  /\ call[p].pc = "running"
  /\ status' = [status EXCEPT ![call[p].task] = "failed"]
  /\ call' = [call EXCEPT ![p] = Idle]
  /\ UNCHANGED <<worker, reviewer, evidence, counter, budget, schemas, sql>>
ValidatorRaisesUnhandled(p) ==
  /\ call[p].pc = "running"
  /\ call' = [call EXCEPT ![p] = Idle]
  /\ UNCHANGED <<row, budget, schemas, sql>>

(* The validator or the second hash raises, or the user interrupts.        *)
ValidatorRaises(p) ==
  /\ call[p].pc = "running"
  /\ status' = [status EXCEPT ![call[p].task] = "claimed"]
  /\ call' = [call EXCEPT ![p] = Idle]
  /\ UNCHANGED <<worker, reviewer, evidence, counter, budget, schemas, sql>>

RecordValidation(p) ==
  /\ call[p].pc = "verified"
  /\ LET t == call[p].task IN
     /\ status' = [status EXCEPT ![t] = IF call[p].evidence.result = "passed"
                                        THEN "pending_review" ELSE "claimed"]
     /\ evidence' = [evidence EXCEPT ![t] = call[p].evidence]
     /\ call' = [Logged(t) EXCEPT ![p] = Idle]
  /\ UNCHANGED <<worker, reviewer, counter, budget, schemas, sql>>

-----------------------------------------------------------------------------
(* configure: the metadata is read before the transaction that writes it.  *)
(* s = None leaves the schemas as they were read.                          *)

ReadConfig(p, s) ==
  /\ call[p] = Idle
  /\ call' = [call EXCEPT ![p] =
                [pc |-> "config_read", schemas |-> IF s = None THEN schemas ELSE s]]
  /\ UNCHANGED <<row, budget, schemas, sql>>

WriteConfig(p) ==
  /\ call[p].pc = "config_read"
  /\ schemas' = call[p].schemas
  /\ call' = [call EXCEPT ![p] = Idle]
  /\ UNCHANGED <<row, budget, sql>>

-----------------------------------------------------------------------------
(* The operator's grant: the audit and the hashes are read, then a         *)
(* transaction checks that nothing was logged since and applies it.        *)

PrepareRevision(p, t, id, extra, fresh, linked) ==
  /\ call[p] = Idle
  /\ status[t] = "blocked"
  /\ Hashable(t)
  /\ call' = [call EXCEPT ![p] =
       [pc |-> "prepared", task |-> t, id |-> id, extra |-> extra, fresh |-> fresh,
        linked |-> linked, previous |-> sql[t], used |-> Used(t), touched |-> FALSE]]
  /\ UNCHANGED <<row, budget, schemas, sql>>

(* Mutant: a linked lineage may be debited again.                          *)
MayGrantLinkedTwice(p) ==
  /\ status[call[p].task] = "blocked"
  /\ ~call[p].touched
  /\ call[p].id \notin consumed

MayGrant(p) ==
  /\ status[call[p].task] = "blocked"
  /\ ~call[p].touched
  /\ call[p].id \notin consumed
  /\ call[p].linked \cap debited = {}

LinkedDebit(linked) == LineageUsed * Cardinality(linked)

ApplyRevision(p) ==
  /\ call[p].pc = "prepared"
  /\ MayGrant(p)
  /\ LET t == call[p].task
         usedAt == call[p].used + LinkedDebit(call[p].linked)
     IN
     /\ EnsureBaseline(t)
     /\ grant' = [grant EXCEPT ![t] =
          [id |-> call[p].id, limit |-> usedAt + call[p].extra, usedAt |-> usedAt,
           fresh |-> call[p].fresh, previous |-> call[p].previous]]
     /\ debit' = [debit EXCEPT ![t] = @ + LinkedDebit(call[p].linked)]
     /\ granted' = [granted EXCEPT ![t] = @ + call[p].extra]
     /\ held' = [held EXCEPT ![t] = FALSE]
     /\ consumed' = consumed \cup {call[p].id}
     /\ debited' = debited \cup call[p].linked
     /\ status' = [status EXCEPT ![t] = "queued"]
     /\ worker' = [worker EXCEPT ![t] = None]
     /\ reviewer' = [reviewer EXCEPT ![t] = None]
     /\ evidence' = [evidence EXCEPT ![t] = NoEvidence]
     /\ counter' = [counter EXCEPT ![t] = usedAt]
     /\ call' = [Logged(t) EXCEPT ![p] = Idle]
  /\ UNCHANGED <<legacy, starts, schemas, sql>>

-----------------------------------------------------------------------------
(* A call whose transaction finds its guard false rolls back and exits.    *)
Refuse(p) ==
  /\ \/ call[p].pc = "schemas_read" /\ ~MayValidate(call[p].worker, call[p].task)
     \/ call[p].pc = "prepared" /\ ~MayGrant(p)
  /\ call' = [call EXCEPT ![p] = Idle]
  /\ UNCHANGED <<row, budget, schemas, sql>>

(* The process dies between two steps of its call: SIGKILL, host restart,  *)
(* or the closing transaction failing on a locked database.                *)
Crash(p) ==
  /\ call[p] # Idle
  /\ call' = [call EXCEPT ![p] = Idle]
  /\ UNCHANGED <<row, budget, schemas, sql>>

(* Anything may rewrite or remove the staged files.                        *)
EditFiles(t, b) ==
  /\ sql[t] # b
  /\ sql' = [sql EXCEPT ![t] = b]
  /\ UNCHANGED <<row, budget, schemas, call>>

-----------------------------------------------------------------------------
Command ==
  \/ \E w \in Name, t \in Task :
       \/ Claim(w, t)
       \/ \E b \in Bundle : Stage(w, t, b)
       \/ \E to \in {"queued", "blocked"} : Release(w, t, to)
       \/ \E quarantine \in BOOLEAN : Reopen(w, t, quarantine)
       \/ \E decision \in {"accept", "reject"} : Review(w, t, decision)
       \/ \E p \in Process : ReadSchemas(p, w, t)
  \/ \E t \in Task : Unblock(t)
  \/ \E p \in Process, s \in Schema \cup {None} : ReadConfig(p, s)
  \/ \E p \in Process, t \in Task, id \in Approval, extra \in 1..MaxExtra,
        fresh \in SUBSET Artifact, linked \in SUBSET Lineage :
       PrepareRevision(p, t, id, extra, fresh, linked)

Continue(p) ==
  \/ BeginValidate(p)
  \/ \E v \in Verdict : ValidatorReturns(p, v)
  \/ ValidatorRaises(p)
  \/ RecordValidation(p)
  \/ WriteConfig(p)
  \/ ApplyRevision(p)
  \/ Refuse(p)

Edit == \E t \in Task, b \in Bundle : EditFiles(t, b)

NextNoCrash == Command \/ Edit \/ \E p \in Process : Continue(p)
Next == NextNoCrash \/ \E p \in Process : Crash(p)

Spec == Init /\ [][Next]_vars

(* A live process carries its call to the end: every step it waits for is  *)
(* its own, and the validator runs under a deadline.                       *)
Fairness == \A p \in Process : WF_vars(Continue(p))
LiveSpec == Init /\ [][NextNoCrash]_vars /\ Fairness
CrashSpec == Spec /\ Fairness

-----------------------------------------------------------------------------
(* Properties                                                              *)

(* Every column, counter, file and call in progress has its type.          *)
TypeOK ==
  /\ status \in [Task -> Status]
  /\ worker \in [Task -> Name \cup {None}]
  /\ reviewer \in [Task -> Name \cup {None}]
  /\ evidence \in [Task -> Evidence \cup {NoEvidence}]
  /\ counter \in [Task -> Nat]
  /\ legacy \in [Task -> History]
  /\ baseline \in [Task -> Baseline]
  /\ starts \in [Task -> Nat]
  /\ debit \in [Task -> Nat]
  /\ granted \in [Task -> Nat]
  /\ held \in [Task -> BOOLEAN]
  /\ grant \in [Task -> Grant]
  /\ consumed \subseteq Approval
  /\ debited \subseteq Lineage
  /\ schemas \in Schema \cup {None}
  /\ sql \in [Task -> Bundle]
  /\ call \in [Process -> Call]

(* The lane ceiling: whatever terminals race, crash or are interrupted, no *)
(* more than MaxWorkers tasks are claimed or validating (claim).           *)
LaneCap ==
  Cardinality({t \in Task : status[t] = "claimed" \/ status[t] = "validating"}) <= MaxWorkers

(* An authorization hold cannot be walked around: from the quarantine on,  *)
(* until a grant, the task is blocked (reopen, unblock, claim).            *)
HoldKeepsBlocked == \A t \in Task : held[t] => status[t] = "blocked"

(* The validator is never started more often than the base limit leaves    *)
(* after the legacy attempts, plus what the user authorized; interrupted,  *)
(* crashed and failed runs count (validation_budget, validate).            *)
SpendBounded ==
  \A t \in Task :
    LET left == IF LegacyFloor(t, legacy[t].counter) >= BaseLimit THEN 0
                ELSE BaseLimit - LegacyFloor(t, legacy[t].counter)
    IN starts[t] <= left + granted[t]

(* The attempts of a linked lineage are debited once, to one task, however *)
(* many approvals name it and however they race: what a task was debited   *)
(* is what the lineages it owns had used (apply_revision).                 *)
LineageDebitedOnce ==
  \E owner \in [debited -> Task] :
    \A t \in Task : debit[t] = LinkedDebit({l \in debited : owner[l] = t})

(* The closing transactions of validate update the row without looking at  *)
(* it.  That is right only because the task is still `validating' under    *)
(* that call, and under no other.                                          *)
ExclusiveValidation ==
  \A p \in Process : call[p].pc \in {"running", "verified"} =>
    /\ status[call[p].task] = "validating"
    /\ \A q \in Process \ {p} :
         call[q].pc \in {"running", "verified"} => call[q].task # call[p].task

(* What is up for review, or reviewed, is the outcome of the last attempt  *)
(* that was ever started, not of an earlier one.                           *)
EvidenceOfLatestAttempt ==
  \A t \in Task :
    status[t] \in {"pending_review", "reviewed"} /\ starts[t] > 0
      => evidence[t].result # "none" /\ evidence[t].attempt = Used(t)

(* The review is of an older release, which may have overlooked the limit. *)
LeftReviewed(t) == legacy[t].status = "reviewed" /\ ~baseline[t].taken

(* As long as a task is reviewed it stays so by right: passing evidence,   *)
(* another actor's review, no hold, history within the limit, and          *)
(* evidence gathered under the last grant.  What an older release accepted *)
(* over the limit keeps its status, and is back within the limit, under a  *)
(* grant, before it is ever accepted again (review, validation_budget).    *)
ReviewStands ==
  \A t \in Task : status[t] = "reviewed" =>
    /\ LeftReviewed(t) \/ ReviewEligible(t)
    /\ ~held[t]
    /\ evidence[t].result = "passed"
    /\ Fold[reviewer[t]] # Fold[worker[t]]

(* A revision authorized on condition that some files change is not        *)
(* reviewed with those files as they were (validate, budget_admin).        *)
FreshInputsReviewed ==
  \A t \in Task : status[t] \in {"pending_review", "reviewed"} =>
    \A a \in grant[t].fresh : evidence[t].input.sql[a] # grant[t].previous[a]

(* Nothing gives attempts back: neither unblock nor reopen nor a grant nor *)
(* the recording of a baseline lowers what a task has used.                *)
SpentNeverRefunded == [][\A t \in Task : Used(t)' >= Used(t)]_vars

(* A grant leaves exactly the attempts the user approved: it is computed   *)
(* from the history as it is when it is applied, not as it was when the    *)
(* operator prepared it.                                                   *)
GrantIsExact ==
  [][\A t \in Task : grant'[t] # grant[t]
       => Limit(t)' - Used(t)' = granted'[t] - granted[t]]_vars

(* The queue keeps the promise of AttemptLedger.                           *)
Ledger == INSTANCE AttemptLedger WITH
  Warrant <- Approval,
  spent <- [t \in Task |-> Used(t)],
  limit <- [t \in Task |-> Limit(t)],
  hold <- held,
  certified <- [t \in Task |-> status[t] = "reviewed"],
  used <- consumed

(* Every step of the queue is a step of the ledger or changes nothing of   *)
(* what it promises.                                                       *)
KeepsLedger == Ledger!Spec

(* What `mt show' answers about a task.                                    *)
ShownStatus(t) == IF status[t] \in {"claimed", "validating"} THEN "active" ELSE status[t]
Current(t) ==
  /\ status[t] = "reviewed"
  /\ evidence[t].result # "none"
  /\ Hashable(t) /\ evidence[t].input = HashOf(t)
Shown ==
  [t \in Task |-> [status |-> ShownStatus(t), used |-> Used(t), fresh |-> Current(t),
                  eligible |-> status[t] = "reviewed" /\ ReviewEligible(t)]]

View == INSTANCE QueueView WITH shown <- Shown

(* Who reads the queue while others work on it sees tasks move only as     *)
(* QueueView says: never into `reviewed' but with fresh evidence of an     *)
(* attempt that was charged, and within budget; never with attempts given  *)
(* back (show, as the controller relies on it).                            *)
ShowsQueueView == View!Spec

(* A validation that has begun ends: its task leaves `validating'.         *)
ValidatingEnds ==
  \A t \in Task : status[t] = "validating" ~> status[t] # "validating"

(* What queue.py says of the configuration: changing it invalidates a      *)
(* prior review, so an accepted repair was validated against the very      *)
(* configuration its evidence names.                                       *)
ReviewedAsConfigured ==
  \A t \in Task : status[t] = "reviewed" =>
    evidence[t].schemas = evidence[t].input.config
=============================================================================
