------------------------ MODULE MigrationQueueReview ------------------------
(***************************************************************************)
(* What an accepted review stands for, and that the queue implements       *)
(* AttemptLedger.                                                          *)
(***************************************************************************)
EXTENDS MigrationQueueProofs

-----------------------------------------------------------------------------
(* A validation in progress                                                *)

(* What a validation in progress will record.                              *)
Outcome(p) == IF call[p].pc = "running" THEN call[p] ELSE call[p].evidence

(* It will record the attempt its task was charged last, and inputs that   *)
(* are fresh where the grant requires it.                                  *)
OutcomeInv ==
  \A p \in Process, t \in Task :
    InFlight(p) /\ call[p].task = t =>
      /\ Outcome(p).attempt = Used(t)
      /\ \A a \in grant[t].fresh : Outcome(p).input.sql[a] # grant[t].previous[a]

(* A validation that goes on leaves its task alone: only it may touch it.  *)
LEMMA OwnTask ==
  ASSUME TypeOK, ExclusiveValidation, [Next]_vars, NEW p \in Process, NEW t \in Task,
         InFlight(p), call[p].task = t, call'[p] = call[p]
  PROVE  Untouched(t)
<1>1. status[t] = "validating"
  BY DEF ExclusiveValidation, InFlight
<1>2. \A q \in Process \ {p} : InFlight(q) => call[q].task # t
  BY DEF ExclusiveValidation, InFlight
<1>3. ASSUME NEW q \in Process, call[q].task = t, ValidatorRaises(q) \/ RecordValidation(q)
      PROVE  FALSE
  <2>1. InFlight(q)
    BY <1>3 DEF ValidatorRaises, RecordValidation, InFlight
  <2>2. q = p
    BY <1>2, <1>3, <2>1
  <2>3. call'[p] = Idle
    BY <1>3, <2>2, LoggedType DEF ValidatorRaises, RecordValidation, TypeOK
  <2> QED
    BY <2>3 DEF InFlight, Idle
<1>4. ~Touched(t)
  BY <1>1, <1>3 DEF Touched, Claim, Stage, Release, Reopen, Review, Unblock,
     BeginValidate, MayValidate, Owns, ApplyRevision, MayGrant
<1> QED
  BY <1>4, TouchedOrNot

(* Where a call in flight comes from.                                      *)
LEMMA InFlightOrigin ==
  ASSUME TypeOK, [Next]_vars, NEW p \in Process, InFlight(p)'
  PROVE  \/ BeginValidate(p)
         \/ \E v \in Verdict : ValidatorReturns(p, v)
         \/ InFlight(p) /\ call'[p] = call[p]
<1>1. ASSUME NEW w \in Name, NEW t \in Task,
             \/ Claim(w, t)
             \/ \E b \in Bundle : Stage(w, t, b)
             \/ \E to \in {"queued", "blocked"} : Release(w, t, to)
             \/ \E quarantine \in BOOLEAN : Reopen(w, t, quarantine)
             \/ \E decision \in {"accept", "reject"} : Review(w, t, decision)
      PROVE  InFlight(p) /\ call'[p] = call[p]
  BY <1>1, StillInFlight DEF Claim, Stage, Release, Reopen, Review
<1>2. ASSUME NEW t \in Task, Unblock(t) PROVE InFlight(p) /\ call'[p] = call[p]
  BY <1>2, StillInFlight DEF Unblock
<1>3. ASSUME NEW q \in Process,
             (BeginValidate(q) /\ q # p) \/ RecordValidation(q) \/ ApplyRevision(q)
      PROVE  InFlight(p) /\ call'[p] = call[p]
  <2>1. call[q].task \in Task
    BY <1>3, CallTask DEF BeginValidate, RecordValidation, ApplyRevision
  <2>2. call'[p] \in {Logged(call[q].task)[p], Idle}
    BY <1>3, <2>1, LoggedType DEF BeginValidate, RecordValidation, ApplyRevision
  <2> QED
    BY <2>1, <2>2, StillInFlight
<1>4. ASSUME NEW q \in Process,
             \/ q # p /\ \E v \in Verdict : ValidatorReturns(q, v)
             \/ ValidatorRaises(q) \/ WriteConfig(q) \/ Refuse(q) \/ Crash(q)
             \/ \E w \in Name, t \in Task : ReadSchemas(q, w, t)
             \/ \E s \in Schema \cup {None} : ReadConfig(q, s)
             \/ \E t \in Task, id \in Approval, extra \in 1..MaxExtra,
                   fresh \in SUBSET Artifact, linked \in SUBSET Lineage :
                  PrepareRevision(q, t, id, extra, fresh, linked)
      PROVE  InFlight(p) /\ call'[p] = call[p]
  BY <1>4 DEF TypeOK, ValidatorReturns, ValidatorRaises, WriteConfig, Refuse, Crash,
              ReadSchemas, ReadConfig, PrepareRevision, Idle, InFlight
<1>5. CASE Edit \/ UNCHANGED vars
  BY <1>5 DEF Edit, EditFiles, vars, InFlight
<1> QED
  BY <1>1, <1>2, <1>3, <1>4, <1>5 DEF Next, NextNoCrash, Command, Continue

(* Every step keeps the outcomes of the validations in flight sound.       *)
LEMMA StepOutcome ==
  ASSUME TypeOK, ExclusiveValidation, BudgetInv, OutcomeInv, [Next]_vars
  PROVE  OutcomeInv'
<1> SUFFICES ASSUME NEW p \in Process, NEW t \in Task, InFlight(p)', call'[p].task = t
             PROVE  /\ Outcome(p)'.attempt = Used(t)'
                    /\ \A a \in grant'[t].fresh :
                         Outcome(p)'.input.sql[a] # grant'[t].previous[a]
  BY DEF OutcomeInv
<1>1. CASE BeginValidate(p)
  <2>1. /\ call[p].task = t
        /\ call'[p].pc = "running" /\ call'[p].attempt = Used(t) + 1
        /\ call'[p].input = HashOf(t)
    BY <1>1, CallTask, LoggedType DEF BeginValidate
  <2>2. Used(t)' = Used(t) + 1 /\ grant'[t] = grant[t]
    BY <1>1, <2>1, ValidateCharges DEF BudgetInv
  <2>3. \A a \in grant[t].fresh : sql[t][a] # grant[t].previous[a]
    BY <1>1, <2>1 DEF BeginValidate, MayValidate
  <2> QED
    BY <2>1, <2>2, <2>3 DEF Outcome, HashOf
<1>2. ASSUME NEW v \in Verdict, ValidatorReturns(p, v)
      PROVE  /\ Outcome(p)'.attempt = Used(t)'
             /\ \A a \in grant'[t].fresh :
                  Outcome(p)'.input.sql[a] # grant'[t].previous[a]
  <2>1. /\ call[p].pc = "running" /\ call[p].task = t
        /\ call'[p].pc = "verified"
        /\ call'[p].evidence.attempt = call[p].attempt
        /\ call'[p].evidence.input = call[p].input
    BY <1>2 DEF ValidatorReturns, TypeOK
  <2>2. /\ call[p].attempt = Used(t)
        /\ \A a \in grant[t].fresh : call[p].input.sql[a] # grant[t].previous[a]
    BY <2>1 DEF OutcomeInv, InFlight, Outcome
  <2>3. Untouched(t)
    BY <1>2 DEF ValidatorReturns, Untouched, row, budget
  <2>4. Used(t)' = Used(t) /\ grant'[t] = grant[t]
    BY <2>3, OtherCharges
  <2> QED
    BY <2>1, <2>2, <2>4 DEF Outcome
<1>3. CASE InFlight(p) /\ call'[p] = call[p]
  <2>1. Untouched(t)
    BY <1>3, OwnTask
  <2>2. Used(t)' = Used(t) /\ grant'[t] = grant[t]
    BY <2>1, OtherCharges
  <2>3. Outcome(p)' = Outcome(p)
    BY <1>3 DEF Outcome
  <2> QED
    BY <1>3, <2>2, <2>3 DEF OutcomeInv
<1> QED
  BY <1>1, <1>2, <1>3, InFlightOrigin
-----------------------------------------------------------------------------
(* What stands for review                                                  *)

(* How a task comes to be up for review or reviewed.                       *)
LEMMA UpForReview ==
  ASSUME TypeOK, [Next]_vars, NEW t \in Task,
         status'[t] \in {"pending_review", "reviewed"}
  PROVE  /\ \/ Untouched(t)
            \/ /\ status'[t] = "pending_review"
               /\ \E p \in Process : /\ call[p].pc = "verified" /\ call[p].task = t
                                     /\ evidence'[t] = call[p].evidence
            \/ /\ status[t] = "pending_review" /\ evidence'[t] = evidence[t]
               /\ status'[t] = "reviewed"
               /\ MayAccept(t) /\ ~SameActor(reviewer'[t], worker'[t])
         /\ Used(t)' = Used(t) /\ Limit(t)' = Limit(t)
         /\ grant'[t] = grant[t] /\ held'[t] = held[t] /\ starts'[t] = starts[t]
<1>1. ASSUME Touched(t)
      PROVE  \/ \E p \in Process : RecordValidation(p) /\ call[p].task = t
             \/ \E w \in Name : Review(w, t, "accept")
  <2>1. ASSUME NEW w \in Name, Claim(w, t) PROVE FALSE
    BY <2>1 DEF Claim, TypeOK
  <2>2. ASSUME NEW w \in Name, NEW b \in Bundle, Stage(w, t, b) PROVE FALSE
    BY <2>2 DEF Stage, Owns, TypeOK, row
  <2>3. ASSUME NEW w \in Name, NEW to \in {"queued", "blocked"}, Release(w, t, to) PROVE FALSE
    BY <2>3 DEF Release, TypeOK
  <2>4. ASSUME NEW w \in Name, NEW quarantine \in BOOLEAN, Reopen(w, t, quarantine) PROVE FALSE
    BY <2>4 DEF Reopen, TypeOK
  <2>5. ASSUME NEW w \in Name, Review(w, t, "reject") PROVE FALSE
    BY <2>5 DEF Review, TypeOK
  <2>6. CASE Unblock(t)
    BY <2>6 DEF Unblock, TypeOK
  <2>7. ASSUME NEW p \in Process, call[p].task = t,
               BeginValidate(p) \/ ValidatorRaises(p) \/ ApplyRevision(p)
        PROVE  FALSE
    <3>1. CASE BeginValidate(p)
      BY <2>7, <3>1 DEF BeginValidate, TypeOK
    <3>2. CASE ValidatorRaises(p)
      BY <2>7, <3>2 DEF ValidatorRaises, TypeOK
    <3>3. CASE ApplyRevision(p)
      BY <2>7, <3>3 DEF ApplyRevision, TypeOK
    <3> QED
      BY <2>7, <3>1, <3>2, <3>3
  <2> QED
    BY <1>1, <2>1, <2>2, <2>3, <2>4, <2>5, <2>6, <2>7 DEF Touched
<1>2. ASSUME NEW p \in Process, RecordValidation(p), call[p].task = t
      PROVE  /\ call[p].pc = "verified" /\ evidence'[t] = call[p].evidence
             /\ status'[t] = "pending_review" /\ starts'[t] = starts[t]
  BY <1>2 DEF RecordValidation, TypeOK, budget
<1>3. ASSUME NEW w \in Name, Review(w, t, "accept")
      PROVE  /\ status[t] = "pending_review" /\ evidence'[t] = evidence[t]
             /\ status'[t] = "reviewed" /\ starts'[t] = starts[t]
             /\ MayAccept(t) /\ ~SameActor(reviewer'[t], worker'[t])
  BY <1>3 DEF Review, TypeOK, budget
<1>4. Untouched(t) => starts'[t] = starts[t]
  BY DEF Untouched
<1> QED
  BY <1>1, <1>2, <1>3, <1>4, OtherCharges, TouchedOrNot

(* Every step keeps what is reviewed reviewed by right.                    *)
LEMMA StepReviewStands ==
  ASSUME TypeOK, ReviewStands, [Next]_vars
  PROVE  ReviewStands'
<1> SUFFICES ASSUME NEW t \in Task, status'[t] = "reviewed"
             PROVE  /\ LeftReviewed(t)' \/ ReviewEligible(t)'
                    /\ held'[t] = FALSE
                    /\ evidence'[t].result = "passed"
                    /\ ~SameActor(reviewer'[t], worker'[t])
  BY DEF ReviewStands, SameActor
<1>1. /\ Used(t)' = Used(t) /\ Limit(t)' = Limit(t)
      /\ grant'[t] = grant[t] /\ held'[t] = held[t]
  BY UpForReview
<1>2. evidence'[t] = evidence[t] => (ReviewEligible(t) <=> ReviewEligible(t)')
  BY <1>1 DEF ReviewEligible, FreshEvidence
<1>3. CASE Untouched(t)
  <2>1. LeftReviewed(t) <=> LeftReviewed(t)'
    BY <1>3 DEF Untouched, LeftReviewed
  <2>2. held[t] \in BOOLEAN
    BY DEF TypeOK
  <2> QED
    BY <1>1, <1>2, <1>3, <2>1, <2>2 DEF Untouched, ReviewStands, SameActor
<1>4. CASE ~Untouched(t)
  <2>1. MayAccept(t) /\ ~SameActor(reviewer'[t], worker'[t]) /\ evidence'[t] = evidence[t]
    BY <1>4, UpForReview
  <2>2. held[t] \in BOOLEAN
    BY DEF TypeOK
  <2> QED
    BY <1>1, <1>2, <2>1, <2>2 DEF MayAccept, ReviewEligible
<1> QED
  BY <1>3, <1>4

(* Every step keeps the evidence that of the last attempt.                 *)
LEMMA StepLatestAttempt ==
  ASSUME TypeOK, OutcomeInv, EvidenceOfLatestAttempt, [Next]_vars
  PROVE  EvidenceOfLatestAttempt'
<1> SUFFICES ASSUME NEW t \in Task, status'[t] \in {"pending_review", "reviewed"},
                    starts'[t] > 0
             PROVE  evidence'[t].result # "none" /\ evidence'[t].attempt = Used(t)'
  BY DEF EvidenceOfLatestAttempt
<1>1. Used(t)' = Used(t) /\ starts'[t] = starts[t]
  BY UpForReview
<1>2. ASSUME NEW p \in Process, call[p].pc = "verified", call[p].task = t,
             evidence'[t] = call[p].evidence
      PROVE  evidence'[t].result # "none" /\ evidence'[t].attempt = Used(t)
  <2>1. call[p].evidence.result \in Verdict
    BY <1>2 DEF TypeOK, Call, Idle, ReadCall, RunCall, DoneCall, ConfigCall, GrantCall, Evidence
  <2> QED
    BY <1>2, <2>1 DEF OutcomeInv, Outcome, InFlight, Verdict
<1>3. CASE Untouched(t)
  BY <1>1, <1>3 DEF Untouched, EvidenceOfLatestAttempt
<1>4. CASE status[t] = "pending_review" /\ evidence'[t] = evidence[t]
  BY <1>1, <1>4 DEF EvidenceOfLatestAttempt
<1> QED
  BY <1>1, <1>2, <1>3, <1>4, UpForReview

(* Every step keeps reviewed inputs fresh.                                 *)
LEMMA StepFreshInputs ==
  ASSUME TypeOK, OutcomeInv, FreshInputsReviewed, [Next]_vars
  PROVE  FreshInputsReviewed'
<1> SUFFICES ASSUME NEW t \in Task, status'[t] \in {"pending_review", "reviewed"}
             PROVE  \A a \in grant'[t].fresh :
                      evidence'[t].input.sql[a] # grant'[t].previous[a]
  BY DEF FreshInputsReviewed
<1>1. grant'[t] = grant[t]
  BY UpForReview
<1>2. ASSUME NEW p \in Process, call[p].pc = "verified", call[p].task = t,
             evidence'[t] = call[p].evidence
      PROVE  \A a \in grant[t].fresh : evidence'[t].input.sql[a] # grant[t].previous[a]
  BY <1>2 DEF OutcomeInv, Outcome, InFlight
<1>3. CASE Untouched(t)
  BY <1>1, <1>3 DEF Untouched, FreshInputsReviewed
<1>4. CASE status[t] = "pending_review" /\ evidence'[t] = evidence[t]
  BY <1>1, <1>4 DEF FreshInputsReviewed
<1> QED
  BY <1>1, <1>2, <1>3, <1>4, UpForReview

ReviewInv == OutcomeInv /\ ReviewStands /\ EvidenceOfLatestAttempt /\ FreshInputsReviewed

(* The three guarantees, with the invariant about validations in flight.   *)
LEMMA ReviewCorrect == Spec => []ReviewInv
<1>1. Init => ReviewInv
  <2> SUFFICES ASSUME Init PROVE ReviewInv
    OBVIOUS
  <2>1. \A t \in Task :
          /\ status[t] = legacy[t].status /\ ~baseline[t].taken /\ ~held[t] /\ starts[t] = 0
          /\ Left(t)
    BY DEF Init
  <2>2. OutcomeInv
    BY DEF Init, OutcomeInv, InFlight, Idle
  <2>3. ReviewStands /\ EvidenceOfLatestAttempt
    BY <2>1 DEF Left, LeftReviewed, ReviewStands, EvidenceOfLatestAttempt
  <2>4. FreshInputsReviewed
    BY DEF Init, FreshInputsReviewed, NoGrant
  <2> QED
    BY <2>2, <2>3, <2>4 DEF ReviewInv
<1>2. TypeOK /\ ExclusiveValidation /\ BudgetInv /\ ReviewInv /\ [Next]_vars => ReviewInv'
  BY StepOutcome, StepReviewStands, StepLatestAttempt, StepFreshInputs DEF ReviewInv
<1> QED
  BY <1>1, <1>2, TypeCorrect, ValidationIsExclusive, BudgetCorrect, PTL DEF Spec

(* While a task is reviewed it passed, no hold is on it, someone other     *)
(* than its author accepted it, and its budget allows it, unless it is an  *)
(* older release's review that was never reopened.                         *)
THEOREM ReviewsStand == Spec => []ReviewStands
BY ReviewCorrect, PTL DEF ReviewInv

(* What is up for review or reviewed is the outcome of the last attempt.   *)
THEOREM EvidenceIsLatest == Spec => []EvidenceOfLatestAttempt
BY ReviewCorrect, PTL DEF ReviewInv

(* Nothing is reviewed with the inputs a grant required to change.         *)
THEOREM InputsAreFresh == Spec => []FreshInputsReviewed
BY ReviewCorrect, PTL DEF ReviewInv
-----------------------------------------------------------------------------
(* The queue implements the ledger                                         *)

(* The ledger's view of a task that a step leaves as it was.               *)
SameView(t) ==
  /\ Used(t)' = Used(t) /\ Limit(t)' = Limit(t) /\ held'[t] = held[t]
  /\ (status'[t] = "reviewed") = (status[t] = "reviewed")

(* A step that leaves a task alone leaves its line of the ledger alone.    *)
LEMMA UntouchedView ==
  ASSUME NEW t \in Task, Untouched(t)
  PROVE  SameView(t)
BY OtherCharges DEF Untouched, SameView

(* A step that no task of the ledger notices is a stutter of it.           *)
LEMMA LedgerStutter ==
  ASSUME TypeOK, TypeOK', consumed' = consumed, \A t \in Task : SameView(t)
  PROVE  UNCHANGED Ledger!vars
<1>1. held' = held
  BY DEF TypeOK, SameView
<1>2. [t \in Task |-> Used(t)]' = [t \in Task |-> Used(t)]
  BY DEF SameView
<1>3. [t \in Task |-> Limit(t)]' = [t \in Task |-> Limit(t)]
  BY DEF SameView
<1>4. [t \in Task |-> status[t] = "reviewed"]' = [t \in Task |-> status[t] = "reviewed"]
  BY DEF SameView
<1> QED
  BY <1>1, <1>2, <1>3, <1>4 DEF Ledger!vars

(* Steps about one task that the ledger does not notice.                   *)
LEMMA QuietView ==
  ASSUME TypeOK, ExclusiveValidation, BudgetInv, NEW t \in Task,
         \/ \E w \in Name :
              \/ Claim(w, t)
              \/ \E b \in Bundle : Stage(w, t, b)
              \/ \E to \in {"queued", "blocked"} : Release(w, t, to)
              \/ Review(w, t, "reject")
         \/ Unblock(t)
         \/ \E p \in Process :
              call[p].task = t /\ (ValidatorRaises(p) \/ RecordValidation(p))
  PROVE  SameView(t)
<1>1. CASE Unblock(t)
  <2>1. Used(t)' = Used(t) /\ grant'[t] = grant[t]
    BY <1>1, ReconcileCharges DEF BudgetInv
  <2> QED
    BY <1>1, <2>1 DEF Unblock, Limit, SameView, TypeOK
<1>2. CASE \E w \in Name :
             \/ Claim(w, t)
             \/ \E b \in Bundle : Stage(w, t, b)
             \/ \E to \in {"queued", "blocked"} : Release(w, t, to)
             \/ Review(w, t, "reject")
  BY <1>2, OtherCharges DEF Claim, Stage, Release, Review, Owns, SameView, TypeOK, row
<1>3. ASSUME NEW p \in Process, call[p].task = t, ValidatorRaises(p) \/ RecordValidation(p)
      PROVE  SameView(t)
  <2>1. status[t] = "validating"
    BY <1>3 DEF ExclusiveValidation, ValidatorRaises, RecordValidation
  <2>2. status'[t] \in {"claimed", "pending_review"}
    BY <1>3 DEF ValidatorRaises, RecordValidation, TypeOK
  <2> QED
    BY <1>3, <2>1, <2>2, OtherCharges DEF SameView
<1> QED
  BY <1>1, <1>2, <1>3

(* The ledger's four functions after a step about one task.                *)
LEMMA LedgerStep ==
  ASSUME TypeOK, TypeOK', NEW t \in Task, Touched(t)
  PROVE  /\ [u \in Task |-> Used(u)]' =
              [[u \in Task |-> Used(u)] EXCEPT ![t] = Used(t)']
         /\ [u \in Task |-> Limit(u)]' =
              [[u \in Task |-> Limit(u)] EXCEPT ![t] = Limit(t)']
         /\ held' = [held EXCEPT ![t] = held'[t]]
         /\ [u \in Task |-> status[u] = "reviewed"]' =
              [[u \in Task |-> status[u] = "reviewed"] EXCEPT ![t] = (status'[t] = "reviewed")]
<1>1. \A u \in Task \ {t} : SameView(u)
  BY OthersUntouched, UntouchedView
<1>2. held' = [held EXCEPT ![t] = held'[t]]
  BY <1>1 DEF TypeOK, SameView
<1>3. [u \in Task |-> Used(u)]' = [[u \in Task |-> Used(u)] EXCEPT ![t] = Used(t)']
  BY <1>1 DEF SameView
<1>4. [u \in Task |-> Limit(u)]' = [[u \in Task |-> Limit(u)] EXCEPT ![t] = Limit(t)']
  BY <1>1 DEF SameView
<1>5. [u \in Task |-> status[u] = "reviewed"]' =
        [[u \in Task |-> status[u] = "reviewed"] EXCEPT ![t] = (status'[t] = "reviewed")]
  BY <1>1 DEF SameView
<1> QED
  BY <1>2, <1>3, <1>4, <1>5

(* Only a grant uses up an approval.                                       *)
LEMMA WhoConsumes ==
  ASSUME NEW t \in Task, Touched(t)
  PROVE  \/ consumed' = consumed
         \/ \E p \in Process : call[p].task = t /\ ApplyRevision(p)
BY DEF Touched, Claim, Stage, Release, Unblock, Reopen, Review, BeginValidate,
       ValidatorRaises, RecordValidation, EnsureBaseline, budget

(* Opening an attempt is a Spend of the ledger.                            *)
LEMMA SpendStep ==
  ASSUME TypeOK, TypeOK', BudgetInv, NEW p \in Process, NEW t \in Task,
         call[p].task = t, BeginValidate(p)
  PROVE  Ledger!Spend(t)
<1>1. Used(t)' = Used(t) + 1 /\ Limit(t)' = Limit(t)
  BY ValidateCharges DEF BudgetInv, Limit
<1>2. /\ status[t] = "claimed" /\ status'[t] = "validating" /\ held' = held
      /\ Used(t) < Limit(t) /\ ~held[t] /\ consumed' = consumed
  BY DEF BeginValidate, MayValidate, CanValidate, Owns, TypeOK
<1>3. Touched(t)
  BY DEF Touched
<1>4. UNCHANGED <<[u \in Task |-> Limit(u)], [u \in Task |-> status[u] = "reviewed"]>>
  BY <1>1, <1>2, <1>3, LedgerStep
<1>5. [u \in Task |-> Used(u)]' = [[u \in Task |-> Used(u)] EXCEPT ![t] = @ + 1]
  BY <1>1, <1>3, LedgerStep
<1> QED
  BY <1>2, <1>4, <1>5 DEF Ledger!Spend

(* Accepting a review is a Certify.                                        *)
LEMMA CertifyStep ==
  ASSUME TypeOK, TypeOK', NEW w \in Name, NEW t \in Task, Review(w, t, "accept")
  PROVE  Ledger!Certify(t)
<1>1. Used(t)' = Used(t) /\ Limit(t)' = Limit(t)
  BY OtherCharges
<1>2. /\ status[t] = "pending_review" /\ status'[t] = "reviewed" /\ held' = held
      /\ Used(t) <= Limit(t) /\ ~held[t] /\ consumed' = consumed
  BY DEF Review, MayAccept, ReviewEligible, TypeOK, budget
<1>3. Touched(t)
  BY DEF Touched
<1>4. UNCHANGED <<[u \in Task |-> Used(u)], [u \in Task |-> Limit(u)]>>
  BY <1>1, <1>3, LedgerStep
<1>5. [u \in Task |-> status[u] = "reviewed"]' =
        [[u \in Task |-> status[u] = "reviewed"] EXCEPT ![t] = TRUE]
  BY <1>2, <1>3, LedgerStep
<1> QED
  BY <1>2, <1>4, <1>5 DEF Ledger!Certify

(* Reopening a review is a Revoke.                                         *)
LEMMA RevokeStep ==
  ASSUME TypeOK, TypeOK', BudgetInv, HoldKeepsBlocked, NEW w \in Name, NEW t \in Task,
         NEW quarantine \in BOOLEAN, Reopen(w, t, quarantine)
  PROVE  Ledger!Revoke(t)
<1>1. Used(t)' = Used(t) /\ Limit(t)' = Limit(t)
  BY ReconcileCharges DEF BudgetInv, Limit
<1>2. status[t] = "reviewed" /\ status'[t] # "reviewed" /\ held[t] = FALSE
      /\ consumed' = consumed
  BY DEF Reopen, TypeOK, HoldKeepsBlocked
<1>3. Touched(t)
  BY DEF Touched
<1>4. UNCHANGED <<[u \in Task |-> Used(u)], [u \in Task |-> Limit(u)]>>
  BY <1>1, <1>3, LedgerStep
<1>5. [u \in Task |-> status[u] = "reviewed"]' =
        [[u \in Task |-> status[u] = "reviewed"] EXCEPT ![t] = FALSE]
  BY <1>2, <1>3, LedgerStep
<1>6. held' \in {held, [held EXCEPT ![t] = TRUE]}
  <2>1. held' = [held EXCEPT ![t] = held[t] \/ quarantine]
    BY DEF Reopen
  <2>2. CASE quarantine
    BY <2>1, <2>2
  <2>3. CASE ~quarantine
    <3>1. (held[t] \/ quarantine) = held[t]
      BY <1>2, <2>3
    <3> QED
      BY <2>1, <3>1 DEF TypeOK
  <2> QED
    BY <2>2, <2>3
<1> QED
  BY <1>2, <1>4, <1>5, <1>6 DEF Ledger!Revoke

(* Applying a grant is an Authorize.                                       *)
LEMMA AuthorizeStep ==
  ASSUME TypeOK, TypeOK', BudgetInv, PreparedInv, NEW p \in Process, NEW t \in Task,
         call[p].task = t, ApplyRevision(p)
  PROVE  Ledger!Authorize(t)
<1>1. /\ Used(t)' >= Used(t) /\ Used(t)' \in Nat
      /\ call[p].extra \in Nat \ {0} /\ Limit(t)' = Used(t)' + call[p].extra
  BY GrantCharges DEF BudgetInv
<1>2. Limit(t)' > Used(t)'
  BY <1>1
<1>3. /\ status[t] = "blocked" /\ status'[t] = "queued"
      /\ held' = [held EXCEPT ![t] = FALSE]
  BY DEF ApplyRevision, MayGrant, TypeOK
<1>4. Touched(t)
  BY DEF Touched
<1>5. UNCHANGED [u \in Task |-> status[u] = "reviewed"]
  BY <1>3, <1>4, LedgerStep
<1> DEFINE spent == [u \in Task |-> Used(u)]
           limit == [u \in Task |-> Limit(u)]
<1>6. /\ spent[t] = Used(t) /\ limit[t] = Limit(t)
      /\ spent'[t] = Used(t)' /\ limit'[t] = Limit(t)'
  OBVIOUS
<1>7. /\ spent' = [spent EXCEPT ![t] = spent'[t]]
      /\ limit' = [limit EXCEPT ![t] = limit'[t]]
  BY <1>4, <1>6, LedgerStep
<1>8. spent'[t] >= spent[t] /\ limit'[t] > spent'[t]
  BY <1>1, <1>2, <1>6
<1>9. ~[u \in Task |-> status[u] = "reviewed"][t]
  BY <1>3
<1>10. \E id \in Approval \ consumed : consumed' = consumed \cup {id}
  <2>1. call[p].id \in Approval
    BY DEF ApplyRevision, TypeOK, Call, Idle, ReadCall, RunCall, DoneCall, ConfigCall, GrantCall
  <2> QED
    BY <2>1 DEF ApplyRevision, MayGrant
<1> QED
  BY <1>3, <1>5, <1>7, <1>8, <1>9, <1>10 DEF Ledger!Authorize

(* Every step of the queue is a step of the ledger or a stutter.           *)
LEMMA Simulation ==
  TypeOK /\ TypeOK' /\ ExclusiveValidation /\ HoldKeepsBlocked /\ BudgetInv /\ PreparedInv
    /\ [Next]_vars
  => [Ledger!Next]_Ledger!vars
<1> SUFFICES ASSUME TypeOK, TypeOK', ExclusiveValidation, HoldKeepsBlocked, BudgetInv,
                    PreparedInv, [Next]_vars
             PROVE  [Ledger!Next]_Ledger!vars
  OBVIOUS
<1>1. CASE UNCHANGED <<row, budget>>
  <2>1. \A t \in Task : Untouched(t)
    BY <1>1 DEF row, budget, Untouched
  <2> QED
    BY <1>1, <2>1, UntouchedView, LedgerStutter DEF budget
<1>2. ASSUME NEW t \in Task, Touched(t) PROVE [Ledger!Next]_Ledger!vars
  <2>1. CASE SameView(t) /\ consumed' = consumed
    <3>1. \A u \in Task : SameView(u)
      BY <1>2, <2>1, OthersUntouched, UntouchedView
    <3> QED
      BY <2>1, <3>1, LedgerStutter
  <2>2. CASE ~(SameView(t) /\ consumed' = consumed)
    <3>1. \/ \E w \in Name : Review(w, t, "accept")
          \/ \E w \in Name, quarantine \in BOOLEAN : Reopen(w, t, quarantine)
          \/ \E p \in Process : call[p].task = t /\ (BeginValidate(p) \/ ApplyRevision(p))
      BY <1>2, <2>2, QuietView, WhoConsumes DEF Touched
    <3>2. Ledger!Spend(t) \/ Ledger!Certify(t) \/ Ledger!Revoke(t) \/ Ledger!Authorize(t)
      BY <3>1, SpendStep, CertifyStep, RevokeStep, AuthorizeStep
    <3> QED
      BY <3>2 DEF Ledger!Next
  <2> QED
    BY <2>1, <2>2
<1> QED
  BY <1>1, <1>2, OneTask

(* Every behaviour of the queue is a behaviour of AttemptLedger.           *)
THEOREM QueueImplementsLedger == Spec => KeepsLedger
<1>1. Init /\ TypeOK => Ledger!Init
  <2> SUFFICES ASSUME Init, TypeOK PROVE Ledger!Init
    OBVIOUS
  <2>1. grant = [t \in Task |-> NoGrant]
    BY DEF Init
  <2>2. \A t \in Task : Used(t) \in Nat /\ Limit(t) = BaseLimit
    BY <2>1, BudgetType DEF Limit, NoGrant
  <2>3. held = [t \in Task |-> FALSE] /\ consumed = {}
    BY DEF Init
  <2> QED
    BY <2>2, <2>3 DEF Ledger!Init
<1> QED
  BY <1>1, Simulation, TypeCorrect, ValidationIsExclusive, HoldsAreKept, BudgetCorrect, PTL
     DEF Spec, KeepsLedger, Ledger!Spec

-----------------------------------------------------------------------------
(* What the queue shows                                                    *)

(* A validation that is running has been charged.                          *)
ChargedInv ==
  \A p \in Process, t \in Task : InFlight(p) /\ call[p].task = t => Used(t) > 0

LEMMA StepCharged ==
  ASSUME TypeOK, ExclusiveValidation, BudgetInv, ChargedInv, [Next]_vars
  PROVE  ChargedInv'
<1> SUFFICES ASSUME NEW p \in Process, NEW t \in Task, InFlight(p)', call'[p].task = t
             PROVE  Used(t)' > 0
  BY DEF ChargedInv
<1>1. Used(t) \in Nat /\ BudgetOf(t)
  BY BudgetType DEF BudgetInv
<1>2. CASE BeginValidate(p)
  <2>1. call[p].task = t
    BY <1>2, CallTask, LoggedType DEF BeginValidate
  <2>2. Used(t)' = Used(t) + 1
    BY <1>1, <1>2, <2>1, ValidateCharges
  <2> QED
    BY <1>1, <2>2
<1>3. ASSUME NEW v \in Verdict, ValidatorReturns(p, v) PROVE Used(t)' > 0
  <2>1. call[p].pc = "running" /\ call[p].task = t
    BY <1>3 DEF ValidatorReturns, TypeOK
  <2>2. Untouched(t)
    BY <1>3 DEF ValidatorReturns, Untouched, row, budget
  <2>3. Used(t)' = Used(t)
    BY <2>2, OtherCharges
  <2> QED
    BY <2>1, <2>3 DEF ChargedInv, InFlight
<1>4. CASE InFlight(p) /\ call'[p] = call[p]
  <2>1. Untouched(t)
    BY <1>4, OwnTask
  <2>2. Used(t)' = Used(t)
    BY <2>1, OtherCharges
  <2> QED
    BY <1>4, <2>2 DEF ChargedInv
<1> QED
  BY <1>2, <1>3, <1>4, InFlightOrigin

Eligible(t) == status[t] = "reviewed" /\ ReviewEligible(t)

(* What is shown of a task, one column at a time.                          *)
LEMMA ShownIs ==
  ASSUME NEW t \in Task
  PROVE  /\ Shown[t].status = ShownStatus(t) /\ Shown[t].used = Used(t)
         /\ Shown[t].fresh = Current(t)
         /\ Shown'[t].status = ShownStatus(t)' /\ Shown'[t].used = Used(t)'
         /\ Shown'[t].fresh = Current(t)'
         /\ Shown[t].eligible = Eligible(t) /\ Shown'[t].eligible = Eligible(t)'
         /\ Current(t) \in BOOLEAN /\ Current(t)' \in BOOLEAN
         /\ Eligible(t) \in BOOLEAN /\ Eligible(t)' \in BOOLEAN
BY DEF Shown, Current, Eligible

(* A step that leaves the row of a task alone leaves its eligibility.      *)
LEMMA SameEligible ==
  ASSUME NEW t \in Task, Untouched(t)
  PROVE  Eligible(t)' = Eligible(t)
<1>1. Used(t)' = Used(t)
  BY OtherCharges
<1>2. ReviewEligible(t)' <=> ReviewEligible(t)
  BY <1>1 DEF Untouched, ReviewEligible, FreshEvidence, Limit
<1> QED
  BY <1>2 DEF Untouched, Eligible

(* A step that leaves the row, the files and the configuration of a task   *)
(* alone does not show.                                                    *)
LEMMA SameShown ==
  ASSUME NEW t \in Task, Untouched(t), sql'[t] = sql[t], schemas' = schemas
  PROVE  Shown'[t] = Shown[t]
<1>1. Used(t)' = Used(t)
  BY OtherCharges
<1>2. ShownStatus(t)' = ShownStatus(t)
  BY DEF Untouched, ShownStatus
<1>3. Current(t)' = Current(t)
  BY DEF Untouched, Current, Hashable, HashOf
<1>4. Eligible(t)' = Eligible(t)
  BY SameEligible
<1> QED
  BY <1>1, <1>2, <1>3, <1>4 DEF Shown, Eligible

(* One that leaves the row alone shows, if at all, in the freshness.       *)
LEMMA OnlyDrifts ==
  ASSUME NEW t \in Task, Untouched(t)
  PROVE  View!Drifts(Shown[t], Shown'[t])
<1>1. Used(t)' = Used(t)
  BY OtherCharges
<1>2. ShownStatus(t)' = ShownStatus(t)
  BY DEF Untouched, ShownStatus
<1>3. Shown'[t] = [Shown[t] EXCEPT !.fresh = Shown'[t].fresh]
  <2>1. Eligible(t)' = Eligible(t)
    BY SameEligible
  <2> QED
    BY <1>1, <1>2, <2>1 DEF Shown, Eligible
<1>4. Current(t)' => ShownStatus(t) = "reviewed"
  BY <1>2 DEF Current, ShownStatus
<1> QED
  BY <1>3, <1>4, ShownIs DEF View!Drifts

(* A step about a task moves it along an edge of the view.                 *)
LEMMA MovesAlong ==
  ASSUME TypeOK, ExclusiveValidation, NEW t \in Task, Touched(t)
  PROVE  <<ShownStatus(t), ShownStatus(t)'>> \in View!Edges
<1>1. ASSUME NEW w \in Name,
             \/ Claim(w, t)
             \/ \E b \in Bundle : Stage(w, t, b)
             \/ \E to \in {"queued", "blocked"} : Release(w, t, to)
             \/ \E quarantine \in BOOLEAN : Reopen(w, t, quarantine)
             \/ \E decision \in {"accept", "reject"} : Review(w, t, decision)
      PROVE  <<ShownStatus(t), ShownStatus(t)'>> \in View!Edges
  BY <1>1 DEF Claim, Stage, Release, Reopen, Review, Owns, TypeOK, ShownStatus, View!Edges
<1>2. CASE Unblock(t)
  BY <1>2 DEF Unblock, TypeOK, ShownStatus, View!Edges
<1>3. ASSUME NEW p \in Process, call[p].task = t, BeginValidate(p) \/ ApplyRevision(p)
      PROVE  <<ShownStatus(t), ShownStatus(t)'>> \in View!Edges
  BY <1>3 DEF BeginValidate, ApplyRevision, MayValidate, Owns, MayGrant, TypeOK, ShownStatus,
              View!Edges
<1>4. ASSUME NEW p \in Process, call[p].task = t, ValidatorRaises(p) \/ RecordValidation(p)
      PROVE  <<ShownStatus(t), ShownStatus(t)'>> \in View!Edges
  <2>1. status[t] = "validating"
    BY <1>4 DEF ExclusiveValidation, ValidatorRaises, RecordValidation
  <2> QED
    BY <1>4, <2>1 DEF ValidatorRaises, RecordValidation, TypeOK, ShownStatus, View!Edges
<1> QED
  BY <1>1, <1>2, <1>3, <1>4 DEF Touched

LEMMA TouchedMoves ==
  ASSUME TypeOK, ExclusiveValidation, BudgetInv, PreparedInv, ChargedInv, [Next]_vars,
         NEW t \in Task, Touched(t)
  PROVE  View!Moves(Shown[t], Shown'[t])
<1>1. Used(t) \in Nat /\ BudgetOf(t) /\ Used(t)' >= Used(t)
  BY BudgetType, StepBudget DEF BudgetInv
<1>2. Used(t)' # Used(t) => <<ShownStatus(t), ShownStatus(t)'>> \in
                              {<<"active", "active">>, <<"blocked", "queued">>}
  <2>1. ASSUME NEW p \in Process, call[p].task = t, BeginValidate(p) \/ ApplyRevision(p)
        PROVE  <<ShownStatus(t), ShownStatus(t)'>> \in
                 {<<"active", "active">>, <<"blocked", "queued">>}
    BY <2>1 DEF BeginValidate, ApplyRevision, MayValidate, Owns, MayGrant, TypeOK, ShownStatus
  <2> QED
    BY <1>1, <2>1, ReconcileCharges, OtherCharges DEF Touched
<1>3. ShownStatus(t)' = "pending_review" => Used(t)' > 0
  <2> SUFFICES ASSUME status'[t] = "pending_review" PROVE Used(t)' > 0
    BY DEF ShownStatus
  <2>1. \E p \in Process : RecordValidation(p) /\ call[p].task = t
    BY DEF Touched, TypeOK, Claim, Stage, Release, Reopen, Review, Unblock, Owns,
       BeginValidate, MayValidate, ValidatorRaises, ApplyRevision, row
  <2>2. \E p \in Process : InFlight(p) /\ call[p].task = t
    BY <2>1 DEF InFlight, RecordValidation
  <2>3. Used(t)' = Used(t)
    BY <2>1, OtherCharges
  <2> QED
    BY <2>2, <2>3 DEF ChargedInv
<1>4. Current(t)' = (ShownStatus(t)' = "reviewed")
  <2>1. Current(t)' => status'[t] = "reviewed"
    BY DEF Current
  <2>2. ASSUME status'[t] = "reviewed" PROVE Current(t)'
    <3>1. \E w \in Name : Review(w, t, "accept")
      BY <2>2 DEF Touched, TypeOK, Claim, Stage, Release, Reopen, Review, Unblock, Owns,
         BeginValidate, MayValidate, ValidatorRaises, RecordValidation, ApplyRevision
    <3> QED
      BY <2>2, <3>1 DEF Review, MayAccept, Current, Hashable, HashOf
  <2>3. ShownStatus(t)' = "reviewed" <=> status'[t] = "reviewed"
    BY DEF ShownStatus
  <2> QED
    BY <2>1, <2>2, <2>3, ShownIs
<1>5. Eligible(t)' = (ShownStatus(t)' = "reviewed")
  <2>1. Eligible(t)' => ShownStatus(t)' = "reviewed"
    BY DEF Eligible, ShownStatus
  <2>2. ASSUME status'[t] = "reviewed" PROVE ReviewEligible(t)'
    <3>1. PICK w \in Name : Review(w, t, "accept")
      BY <2>2 DEF Touched, TypeOK, Claim, Stage, Release, Reopen, Review, Unblock, Owns,
         BeginValidate, MayValidate, ValidatorRaises, RecordValidation, ApplyRevision
    <3>2. /\ Used(t)' = Used(t) /\ Limit(t)' = Limit(t)
          /\ grant'[t] = grant[t] /\ held'[t] = held[t]
      BY <2>2, UpForReview
    <3>3. evidence'[t] = evidence[t] /\ ReviewEligible(t)
      BY <3>1 DEF Review, MayAccept
    <3> QED
      BY <3>2, <3>3 DEF ReviewEligible, FreshEvidence
  <2>3. ShownStatus(t)' = "reviewed" <=> status'[t] = "reviewed"
    BY DEF ShownStatus
  <2> QED
    BY <2>1, <2>2, <2>3, ShownIs DEF Eligible
<1> QED
  BY <1>1, <1>2, <1>3, <1>4, <1>5, MovesAlong, ShownIs DEF View!Moves

LEMMA StepShown ==
  TypeOK /\ ExclusiveValidation /\ BudgetInv /\ PreparedInv /\ ChargedInv /\ [Next]_vars
  => [View!Next]_Shown
<1> SUFFICES ASSUME TypeOK, ExclusiveValidation, BudgetInv, PreparedInv, ChargedInv, [Next]_vars
             PROVE  [View!Next]_Shown
  OBVIOUS
<1>1. DOMAIN Shown = Task /\ DOMAIN Shown' = Task /\ Shown = [t \in Task |-> Shown[t]]
        /\ Shown' = [t \in Task |-> Shown'[t]]
  BY DEF Shown
<1>2. CASE UNCHANGED <<row, budget>>
  <2>1. \A t \in Task : View!Drifts(Shown[t], Shown'[t])
    BY <1>2, OnlyDrifts DEF row, budget, Untouched
  <2> QED
    BY <1>1, <2>1 DEF View!Next
<1>3. ASSUME NEW t \in Task, Touched(t) PROVE View!Next
  <2>1. schemas' = schemas /\ \A u \in Task \ {t} : sql'[u] = sql[u]
    BY <1>3 DEF Touched, TypeOK, Claim, Stage, Release, Reopen, Review, Unblock,
       BeginValidate, ValidatorRaises, RecordValidation, ApplyRevision
  <2>2. \A u \in Task \ {t} : Shown'[u] = Shown[u]
    BY <1>3, <2>1, OthersUntouched, SameShown
  <2>3. Shown' = [Shown EXCEPT ![t] = Shown'[t]]
    BY <1>1, <2>2
  <2> QED
    BY <1>3, <2>3, TouchedMoves DEF View!Next
<1> QED
  BY <1>2, <1>3, OneTask

(* What somebody sees who looks at the queue while others work on it is    *)
(* QueueView: the controller's model of a queue is one this queue keeps.   *)
THEOREM QueueShowsView == Spec => ShowsQueueView
<1>1. Init /\ TypeOK => View!Init /\ ChargedInv
  <2> SUFFICES ASSUME Init, TypeOK PROVE View!Init /\ ChargedInv
    OBVIOUS
  <2>1. \A t \in Task : Used(t) \in Nat
    BY BudgetType
  <2>2. \A t \in Task : /\ ShownStatus(t) \in View!ShownStatus
                        /\ Current(t) \/ Eligible(t) => ShownStatus(t) = "reviewed"
    BY DEF TypeOK, Status, ShownStatus, View!ShownStatus, Current, Eligible
  <2>3. DOMAIN Shown = Task
    BY DEF Shown
  <2>4. ChargedInv
    BY DEF Init, ChargedInv, InFlight, Idle
  <2> QED
    BY <2>1, <2>2, <2>3, <2>4, ShownIs DEF View!Init
<1>2. TypeOK /\ ExclusiveValidation /\ BudgetInv /\ ChargedInv /\ [Next]_vars => ChargedInv'
  BY StepCharged
<1> QED
  BY <1>1, <1>2, StepShown, TypeCorrect, ValidationIsExclusive, BudgetCorrect, PTL
     DEF Spec, ShowsQueueView, View!Spec
-----------------------------------------------------------------------------
(* When the evidence is of the configuration it names                      *)

(* No configuration commits while a validation has read the schemas and    *)
(* not yet opened its attempt.  The code does not see to it (the run       *)
(* queue_config_race); it is what reading them in the transaction would.   *)
ConfiguresApart ==
  [][schemas' # schemas => \A p \in Process : call[p].pc # "schemas_read"]_vars

(* A call holds the schemas as they are until it opens its attempt, what   *)
(* it will record is of the configuration in its hashes, and so is what is *)
(* recorded.                                                               *)
ReadInv == \A p \in Process : call[p].pc = "schemas_read" => call[p].schemas = schemas
RunInv == \A p \in Process : InFlight(p) => Outcome(p).schemas = Outcome(p).input.config
RecordInv ==
  \A t \in Task : evidence[t].result # "none" => evidence[t].schemas = evidence[t].input.config
ConfiguredInv == ReadInv /\ RunInv /\ RecordInv

(* A call left alone, logged against or ended has read the schemas only if *)
(* it had.                                                                 *)
LEMMA StillRead ==
  ASSUME TypeOK, NEW t \in Task, NEW p \in Process, call'[p].pc = "schemas_read",
         call'[p] \in {call[p], Logged(t)[p], Idle}
  PROVE  call'[p] = call[p]
<1>1. call'[p] # Idle
  BY DEF Idle
<1>2. /\ Logged(t)[p].pc = call[p].pc
      /\ call[p].pc # "prepared" => Logged(t)[p] = call[p]
  BY LoggedCall
<1> QED
  BY <1>1, <1>2

(* Where a call that has read the schemas comes from.                      *)
LEMMA ReadOrigin ==
  ASSUME TypeOK, [Next]_vars, NEW p \in Process, call'[p].pc = "schemas_read"
  PROVE  \/ \E w \in Name, t \in Task : ReadSchemas(p, w, t)
         \/ call'[p] = call[p]
<1>1. ASSUME NEW w \in Name, NEW t \in Task,
             \/ Claim(w, t)
             \/ \E b \in Bundle : Stage(w, t, b)
             \/ \E to \in {"queued", "blocked"} : Release(w, t, to)
             \/ \E quarantine \in BOOLEAN : Reopen(w, t, quarantine)
             \/ \E decision \in {"accept", "reject"} : Review(w, t, decision)
      PROVE  call'[p] = call[p]
  BY <1>1, StillRead DEF Claim, Stage, Release, Reopen, Review
<1>2. ASSUME NEW t \in Task, Unblock(t) PROVE call'[p] = call[p]
  BY <1>2, StillRead DEF Unblock
<1>3. ASSUME NEW q \in Process, BeginValidate(q) \/ RecordValidation(q) \/ ApplyRevision(q)
      PROVE  call'[p] = call[p]
  <2>1. call[q].task \in Task
    BY <1>3, CallTask DEF BeginValidate, RecordValidation, ApplyRevision
  <2>2. CASE BeginValidate(q)
    <3>1. q = p => call'[p].pc = "running"
      BY <2>1, <2>2, LoggedType DEF BeginValidate
    <3>2. q # p => call'[p] = Logged(call[q].task)[p]
      BY <2>1, <2>2, LoggedType DEF BeginValidate
    <3> QED
      BY <2>1, <3>1, <3>2, StillRead
  <2>3. CASE RecordValidation(q) \/ ApplyRevision(q)
    <3>1. call'[p] \in {Logged(call[q].task)[p], Idle}
      BY <2>1, <2>3, LoggedType DEF RecordValidation, ApplyRevision
    <3> QED
      BY <2>1, <3>1, StillRead
  <2> QED
    BY <1>3, <2>2, <2>3
<1>4. ASSUME NEW q \in Process,
             \/ \E v \in Verdict : ValidatorReturns(q, v)
             \/ ValidatorRaises(q) \/ WriteConfig(q) \/ Refuse(q) \/ Crash(q)
             \/ \E s \in Schema \cup {None} : ReadConfig(q, s)
             \/ \E t \in Task, id \in Approval, extra \in 1..MaxExtra,
                   fresh \in SUBSET Artifact, linked \in SUBSET Lineage :
                  PrepareRevision(q, t, id, extra, fresh, linked)
             \/ q # p /\ \E w \in Name, t \in Task : ReadSchemas(q, w, t)
      PROVE  call'[p] = call[p]
  BY <1>4 DEF TypeOK, ValidatorReturns, ValidatorRaises, WriteConfig, Refuse, Crash,
              ReadSchemas, ReadConfig, PrepareRevision, Idle
<1>5. CASE Edit \/ UNCHANGED vars
  BY <1>5 DEF Edit, EditFiles, vars
<1> QED
  BY <1>1, <1>2, <1>3, <1>4, <1>5 DEF Next, NextNoCrash, Command, Continue

(* Without a configuration in between, what was read stays as it is.       *)
LEMMA StepRead ==
  ASSUME TypeOK, ReadInv, [Next]_vars,
         schemas' # schemas => \A p \in Process : call[p].pc # "schemas_read"
  PROVE  ReadInv'
<1> SUFFICES ASSUME NEW p \in Process, call'[p].pc = "schemas_read"
             PROVE  call'[p].schemas = schemas'
  BY DEF ReadInv
<1>1. ASSUME NEW w \in Name, NEW t \in Task, ReadSchemas(p, w, t)
      PROVE  call'[p].schemas = schemas'
  BY <1>1 DEF ReadSchemas, TypeOK
<1>2. CASE call'[p] = call[p]
  BY <1>2 DEF ReadInv
<1> QED
  BY <1>1, <1>2, ReadOrigin

(* The attempt is opened on what was read, which the digest is taken of.   *)
LEMMA StepRun ==
  ASSUME TypeOK, ReadInv, RunInv, [Next]_vars
  PROVE  RunInv'
<1> SUFFICES ASSUME NEW p \in Process, InFlight(p)'
             PROVE  Outcome(p)'.schemas = Outcome(p)'.input.config
  BY DEF RunInv
<1>1. CASE BeginValidate(p)
  <2>1. call[p].task \in Task /\ call[p].schemas = schemas
    BY <1>1, CallTask DEF BeginValidate, ReadInv
  <2>2. /\ call'[p].pc = "running" /\ call'[p].schemas = call[p].schemas
        /\ call'[p].input = HashOf(call[p].task)
    BY <1>1, <2>1, LoggedType DEF BeginValidate
  <2> QED
    BY <2>1, <2>2 DEF Outcome, HashOf
<1>2. ASSUME NEW v \in Verdict, ValidatorReturns(p, v)
      PROVE  Outcome(p)'.schemas = Outcome(p)'.input.config
  <2>1. /\ call[p].pc = "running" /\ call'[p].pc = "verified"
        /\ call'[p].evidence.schemas = call[p].schemas
        /\ call'[p].evidence.input = call[p].input
    BY <1>2 DEF ValidatorReturns, TypeOK
  <2> QED
    BY <2>1 DEF RunInv, InFlight, Outcome
<1>3. CASE InFlight(p) /\ call'[p] = call[p]
  BY <1>3 DEF RunInv, Outcome
<1> QED
  BY <1>1, <1>2, <1>3, InFlightOrigin

(* Evidence is kept, dropped, or what a validation in flight came to.      *)
LEMMA StepRecord ==
  ASSUME TypeOK, RunInv, RecordInv, [Next]_vars
  PROVE  RecordInv'
<1> SUFFICES ASSUME NEW t \in Task, evidence'[t].result # "none"
             PROVE  evidence'[t].schemas = evidence'[t].input.config
  BY DEF RecordInv
<1>1. CASE evidence'[t] = evidence[t]
  BY <1>1 DEF RecordInv
<1>2. ASSUME NEW p \in Process, call[p].task = t, RecordValidation(p)
      PROVE  evidence'[t].schemas = evidence'[t].input.config
  <2>1. call[p].pc = "verified" /\ evidence'[t] = call[p].evidence
    BY <1>2 DEF RecordValidation, TypeOK
  <2> QED
    BY <2>1 DEF RunInv, InFlight, Outcome
<1>3. ASSUME \/ \E w \in Name :
                  \/ Claim(w, t)
                  \/ \E b \in Bundle : Stage(w, t, b)
                  \/ \E to \in {"queued", "blocked"} : Release(w, t, to)
                  \/ \E quarantine \in BOOLEAN : Reopen(w, t, quarantine)
             \/ \E p \in Process : call[p].task = t /\ (BeginValidate(p) \/ ApplyRevision(p))
      PROVE  FALSE
  <2>1. evidence'[t] = NoEvidence
    BY <1>3 DEF TypeOK, Claim, Stage, Release, Reopen, BeginValidate, ApplyRevision
  <2> QED
    BY <2>1 DEF NoEvidence
<1>4. ASSUME \/ \E w \in Name, decision \in {"accept", "reject"} : Review(w, t, decision)
             \/ Unblock(t)
             \/ \E p \in Process : ValidatorRaises(p)
      PROVE  evidence'[t] = evidence[t]
  BY <1>4 DEF Review, Unblock, ValidatorRaises
<1> QED
  BY <1>1, <1>2, <1>3, <1>4, TouchedOrNot DEF Touched, Untouched

(* As long as no configuration commits between the two, whatever else      *)
(* races, crashes or is edited: an accepted repair was validated against   *)
(* the very configuration its evidence names.  The read before the         *)
(* transaction is the one way in which that is lost (queue.py:526).        *)
THEOREM ReviewedAsConfiguredApart == Spec /\ ConfiguresApart => []ReviewedAsConfigured
<1>1. Init => ConfiguredInv
  <2> SUFFICES ASSUME Init PROVE ConfiguredInv
    OBVIOUS
  <2>1. ReadInv /\ RunInv
    BY DEF Init, ReadInv, RunInv, InFlight, Idle
  <2>2. ASSUME NEW t \in Task, evidence[t].result # "none"
        PROVE  evidence[t].schemas = evidence[t].input.config
    <3>1. evidence[t] \in AnOldPass /\ Left(t)
      BY <2>2 DEF Init, NoEvidence
    <3> QED
      BY <3>1 DEF AnOldPass, Left
  <2> QED
    BY <2>1, <2>2 DEF ConfiguredInv, RecordInv
<1>2. ASSUME TypeOK, ConfiguredInv, [Next]_vars,
             [schemas' # schemas => \A p \in Process : call[p].pc # "schemas_read"]_vars
      PROVE  ConfiguredInv'
  <2>1. schemas' # schemas => \A p \in Process : call[p].pc # "schemas_read"
    BY <1>2 DEF vars
  <2> QED
    BY <1>2, <2>1, StepRead, StepRun, StepRecord DEF ConfiguredInv
<1>3. ConfiguredInv /\ ReviewStands => ReviewedAsConfigured
  BY DEF ConfiguredInv, RecordInv, ReviewStands, ReviewedAsConfigured
<1> QED
  BY <1>1, <1>2, <1>3, TypeCorrect, ReviewsStand, PTL DEF Spec, ConfiguresApart
=============================================================================
