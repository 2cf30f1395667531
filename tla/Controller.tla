----------------------------- MODULE Controller -----------------------------
(***************************************************************************)
(* The full-run controller (full_run.py): a ledger of work units in one    *)
(* JSON file, and the commands an operator gives it, over live queues that *)
(* agents and other teams keep working on.                                 *)
(*                                                                         *)
(* A command loads the ledger, looks at tasks one `mt show' at a time, and *)
(* writes the whole ledger back; it holds nothing meanwhile.  What happens *)
(* in the queues between two looks is QueueView, which MigrationQueue      *)
(* implements.  What is left out: receipts, previews and reports, which    *)
(* nothing reads back; the gates of `run' (authorization, target profile,  *)
(* unchanged inputs), which only keep it from starting.                    *)
(***************************************************************************)
EXTENDS Naturals, FiniteSets

CONSTANTS
  Operator,   \* terminals that may give a command
  Queue,      \* queue directories
  Coordinated,\* those of other teams, which exist from the start
  Task,       \* task identities
  Unit,       \* work units of the plan
  Foreign,    \* units that other teams work on (schema foundation)
  TasksOf,    \* TasksOf[u]: task_ids of the unit
  DependsOn,  \* DependsOn[u]: depends_on, within the plan
  HeldTask,   \* QUARANTINED_LINEAGE
  HeldUnit,   \* units whose name tells of a quarantined lineage
  Granted,    \* tasks reviewed under a recorded grant for them
  MaxUsed,    \* bound: attempts of a task in one queue
  MaxLanes,   \* MAX_ACTIVE_LANES
  Reserved,   \* --reserved-external-lanes
  TheirLanes, \* max_workers of each queue of another team
  Absent      \* `mt show' fails: the queue does not have the task, or is not there

(* Only of a reviewed task is it told whether the review is fresh and      *)
(* eligible: nobody asks it of another.                                    *)
View ==
  {v \in [status: {"queued", "active", "pending_review", "reviewed", "blocked"},
          used: 0..MaxUsed, fresh: BOOLEAN, eligible: BOOLEAN] :
     v.fresh \/ v.eligible => v.status = "reviewed"}

ASSUME PlanAssumption ==
  /\ Coordinated \subseteq Queue /\ IsFiniteSet(Queue)
  /\ Foreign \subseteq Unit /\ IsFiniteSet(Task)
  /\ TasksOf \in [Unit -> SUBSET Task]
  /\ \A u, v \in Unit : u # v => TasksOf[u] \cap TasksOf[v] = {}
  /\ DependsOn \in [Unit -> SUBSET Unit]
ASSUME BoundAssumption ==
  MaxUsed \in Nat /\ MaxLanes \in Nat /\ Reserved \in Nat /\ TheirLanes \in Nat
ASSUME AbsentAssumption == Absent \notin View \cup Nat

VARIABLES
  queue,      \* queue[k][t]: what `mt show' answers
  workers,    \* max_workers of each queue, fixed by `mt init', or Absent before it
  accepted,   \* history: <<k, t>> with a review of t once accepted in k, in budget
  ledger,     \* controller-manifest.json
  call        \* the command each operator is executing

vars == <<queue, workers, accepted, ledger, call>>

Pair == Queue \X Task
State == {"unstarted", "repairing", "pending_review", "blocked",
          "partially_reviewed", "reviewed", "superseded_needs_fresh_review"}
Record == [state: State, reviewed: SUBSET Task, evidence: SUBSET Pair,
           attempted: BOOLEAN,    \* run_state_history has a prior attempt
           lifetime: BOOLEAN]     \* lifetime_attempts_used > 0
Ledger == [Unit -> Record]
NoRecord == [state |-> "unstarted", reviewed |-> {}, evidence |-> {},
             attempted |-> FALSE, lifetime |-> FALSE]

Kind == {"session", "ingest", "evidence", "reverify", "supersede", "manifest", "seed"}
Idle == [kind |-> "idle"]

(* A command: the ledger as it was loaded, what it is about, the tasks     *)
(* still to be looked at, and what was seen of the others.                 *)
Command(kind, k, units, todo) ==
  [kind |-> kind, man |-> ledger, queue |-> k, units |-> units, todo |-> todo,
   seen |-> [x \in {} |-> Absent]]

-----------------------------------------------------------------------------
(* What a look at a task is worth                                          *)

(* Mutant: whatever is reviewed is within its budget.                      *)
CreditableOverBudget(u, t, v) ==
  /\ v # Absent
  /\ v.status = "reviewed" /\ v.fresh
  /\ t \in HeldTask \/ u \in HeldUnit => t \in Granted

(* Reviewed, of inputs that have not changed since, within its budget, and *)
(* a quarantined lineage only under a recorded grant.  The actors are      *)
(* right of whatever a queue shows as reviewed (MigrationQueue,            *)
(* ReviewStands); the budget is not, if an older release reviewed it.      *)
Creditable(u, t, v) ==
  /\ v # Absent
  /\ v.status = "reviewed" /\ v.fresh /\ v.eligible
  /\ t \in HeldTask \/ u \in HeldUnit => t \in Granted

Tried(r) == r.reviewed # {} \/ r.evidence # {} \/ r.lifetime \/ r.attempted
Credited(r) == r.state \in {"reviewed", "partially_reviewed"}

-----------------------------------------------------------------------------
(* What each command makes of the ledger it loaded                         *)

(* Mutant: the run history is not carried over.                            *)
RebuiltForgetful(man) ==
  [u \in Unit |-> [man[u] EXCEPT !.lifetime = FALSE, !.attempted = FALSE, !.evidence = {}]]

(* build_manifest carries over state, reviews, evidence and history; it    *)
(* does not carry over the count of lifetime attempts.                     *)
Rebuilt(man) == [u \in Unit |-> [man[u] EXCEPT !.lifetime = FALSE]]

Superseded(r) == [r EXCEPT !.state = "superseded_needs_fresh_review", !.reviewed = {}]

StatusSeen(t, k, seen) == IF seen[<<k, t>>] = Absent THEN "error" ELSE seen[<<k, t>>].status

(* Mutant: one reviewed task is enough.                                    *)
AnyReviewed(u, k, seen) == \E t \in TasksOf[u] : Creditable(u, t, seen[<<k, t>>])

AllReviewed(u, k, seen) ==
  TasksOf[u] # {} /\ \A t \in TasksOf[u] : Creditable(u, t, seen[<<k, t>>])

(* Mutant: the status of the tasks is written down as they show it.        *)
StateSeenRaw(u, k, r, seen) ==
  LET statuses == {StatusSeen(t, k, seen) : t \in TasksOf[u]}
  IN IF AllReviewed(u, k, seen) THEN "reviewed"
     ELSE IF Cardinality(statuses) = 1 THEN CHOOSE s \in statuses : TRUE
     ELSE r.state

(* ingest_queue_state, for a unit whose tasks were seen in queue k.        *)
StateSeen(u, k, r, seen) ==
  LET statuses == {StatusSeen(t, k, seen) : t \in TasksOf[u]}
  IN IF AllReviewed(u, k, seen) THEN "reviewed"
     ELSE IF "blocked" \in statuses THEN "blocked"
     ELSE IF "pending_review" \in statuses THEN "pending_review"
     ELSE IF "active" \in statuses THEN "repairing"
     ELSE IF statuses = {"queued"} THEN "unstarted"
     ELSE r.state

Ingested(u, k, r, seen) ==
  LET tasks == TasksOf[u]
      credit == AllReviewed(u, k, seen)
      spent == \E t \in tasks : seen[<<k, t>>] # Absent /\ seen[<<k, t>>].used > 0
  IN [state |-> StateSeen(u, k, r, seen),
      reviewed |-> IF credit THEN tasks ELSE r.reviewed,
      evidence |-> IF credit THEN r.evidence \cup ({k} \X tasks) ELSE r.evidence,
      attempted |-> r.attempted \/ spent \/ \E t \in tasks : StatusSeen(t, k, seen) # "queued",
      lifetime |-> r.lifetime \/ spent]

(* ingest_evidence: each record credits its task.                          *)
WithEvidence(u, r, seen) ==
  LET good == {x \in DOMAIN seen : x[2] \in TasksOf[u] /\ Creditable(u, x[2], seen[x])}
      reviewed == r.reviewed \cup {x[2] : x \in good}
  IN IF good = {} THEN r
     ELSE [r EXCEPT !.reviewed = reviewed, !.evidence = @ \cup good,
                    !.state = IF TasksOf[u] \subseteq reviewed THEN "reviewed"
                              ELSE "partially_reviewed"]

(* reverify_ledger: every piece of evidence must show as reviewed and      *)
(* fresh, and none be of a quarantined lineage, granted or not.            *)
Reverified(u, r, seen) ==
  IF Credited(r) /\ \/ r.evidence = {}
                    \/ \E x \in r.evidence :
                         \/ x[2] \in HeldTask \/ u \in HeldUnit
                         \/ ~Creditable(u, x[2], seen[x])
  THEN Superseded(r) ELSE r

Result(c) ==
  [u \in Unit |->
     CASE c.kind = "ingest" /\ u \in c.units -> Ingested(u, c.queue, c.man[u], c.seen)
       [] c.kind = "evidence" -> WithEvidence(u, c.man[u], c.seen)
       [] c.kind = "reverify" -> Reverified(u, c.man[u], c.seen)
       [] c.kind = "supersede" /\ u \in c.units -> Superseded(c.man[u])
       [] c.kind = "manifest" -> Rebuilt(c.man)[u]
       [] OTHER -> c.man[u]]

-----------------------------------------------------------------------------
JustSeeded == [status |-> "queued", used |-> 0, fresh |-> FALSE, eligible |-> FALSE]

(* The tasks of another team may long be reviewed, and by an older release *)
(* over the budget.                                                        *)
Theirs == {JustSeeded} \cup {v \in View : v.status = "reviewed" /\ v.used > 0}

Init ==
  /\ queue \in [Queue -> [Task -> Theirs \cup {Absent}]]
  /\ \A k \in Queue, t \in Task :
       queue[k][t] # Absent <=> k \in Coordinated /\ \E u \in Foreign : t \in TasksOf[u]
  /\ workers = [k \in Queue |-> IF k \in Coordinated THEN TheirLanes ELSE Absent]
  /\ accepted = {x \in Pair : queue[x[1]][x[2]] # Absent /\ queue[x[1]][x[2]].eligible}
  /\ ledger = [u \in Unit |-> NoRecord]
  /\ call = [p \in Operator |-> Idle]

Begin(p, c) == call[p] = Idle /\ call' = [call EXCEPT ![p] = c]

-----------------------------------------------------------------------------
(* Commands                                                                *)

(* manifest, supersede: nothing is looked at.                              *)
Manifest(p) ==
  /\ Begin(p, Command("manifest", Absent, {}, {}))
  /\ UNCHANGED <<queue, workers, accepted, ledger>>

Supersede(p, u) ==
  /\ Begin(p, Command("supersede", Absent, {u}, {}))
  /\ UNCHANGED <<queue, workers, accepted, ledger>>

(* ingest-evidence: a peer's file names a task and the queue it is in.     *)
IngestEvidence(p, x) ==
  /\ Begin(p, Command("evidence", Absent, {}, {x}))
  /\ UNCHANGED <<queue, workers, accepted, ledger>>

Reverify(p) ==
  /\ Begin(p, Command("reverify", Absent, {},
                     UNION {ledger[u].evidence : u \in {v \in Unit : Credited(ledger[v])}}))
  /\ UNCHANGED <<queue, workers, accepted, ledger>>

(* seed: only units that were never tried, into a queue that is not there. *)
Seedable(u) ==
  u \notin Foreign \cup HeldUnit /\ ledger[u].state = "unstarted" /\ ~Tried(ledger[u])

Seed(p, k, units) ==
  /\ Begin(p, Command("seed", k, units, {}))
  /\ units # {} /\ \A u \in units : Seedable(u)
  /\ UNCHANGED <<queue, workers, accepted, ledger>>

(* Mutant: dependencies need only have been worked on.                     *)
FrontierStarted ==
  {u \in Unit \ Foreign :
               /\ ledger[u].state \in {"unstarted", "superseded_needs_fresh_review"}
               /\ \A d \in DependsOn[u] : ledger[d].state # "unstarted"}

(* The frontier of compute_next_ready that is the controller's to drive:   *)
(* not credited, not in repair, with every dependency reviewed.            *)
Frontier ==
  {u \in Unit \ Foreign :
               /\ ledger[u].state \in {"unstarted", "superseded_needs_fresh_review"}
               /\ \A d \in DependsOn[u] : ledger[d].state = "reviewed"}

Active(k) == {t \in Task : queue[k][t] # Absent /\ queue[k][t].status = "active"}
External == Cardinality({x \in Coordinated \X Task : x[2] \in Active(x[1])})

(* _queue_max_workers: a queue that does not answer counts for all lanes.  *)
Lanes(k) == IF workers[k] = Absent THEN MaxLanes ELSE workers[k]

(* Mutant: the lanes that happen to be taken, not those reserved.          *)
LaneBudgetLive(k) == External < MaxLanes /\ Lanes(k) <= MaxLanes - External

LaneBudget(k) ==
  LET taken == IF External >= Reserved THEN External ELSE Reserved
  IN taken < MaxLanes /\ Lanes(k) <= MaxLanes - taken

(* run: a batch of the frontier, nothing quarantined in it, within the     *)
(* lanes that coordinated queues leave; an agents' session then works on   *)
(* the run queue.                                                          *)
Launch(p, k, units) ==
  /\ Begin(p, Command("session", k, units, {}))
  /\ units # {} /\ units \subseteq Frontier
  /\ units \cap HeldUnit = {}
  /\ LaneBudget(k)
  /\ UNCHANGED <<queue, workers, accepted, ledger>>

(* It ends by itself, by the timeout, or because it never started; the     *)
(* ledger is loaded only now, to take in what it left.                     *)
SessionEnds(p) ==
  /\ call[p].kind = "session"
  /\ call' = [call EXCEPT ![p] =
       Command("ingest", call[p].queue, call[p].units,
               {call[p].queue} \X UNION {TasksOf[u] : u \in call[p].units})]
  /\ UNCHANGED <<queue, workers, accepted, ledger>>

Look(p, x) ==
  /\ call[p] # Idle /\ x \in call[p].todo
  /\ call' = [call EXCEPT ![p].todo = @ \ {x},
                          ![p].seen = [y \in DOMAIN @ \cup {x} |->
                                         IF y = x THEN queue[x[1]][x[2]] ELSE @[y]]]
  /\ UNCHANGED <<queue, workers, accepted, ledger>>

WriteLedger(p) ==
  /\ call[p].kind \notin {"idle", "session", "seed"} /\ call[p].todo = {}
  /\ ledger' = Result(call[p])
  /\ call' = [call EXCEPT ![p] = Idle]
  /\ UNCHANGED <<queue, workers, accepted>>

(* mt init refuses a directory that has something in it.                   *)
InitQueue(p, lanes) ==
  /\ call[p].kind = "seed"
  /\ LET k == call[p].queue
         tasks == UNION {TasksOf[u] : u \in call[p].units}
     IN IF workers[k] = Absent
        THEN /\ queue' = [queue EXCEPT ![k] =
                  [t \in Task |-> IF t \in tasks THEN JustSeeded ELSE Absent]]
             /\ workers' = [workers EXCEPT ![k] = lanes]
        ELSE UNCHANGED <<queue, workers>>
  /\ call' = [call EXCEPT ![p] = Idle]
  /\ UNCHANGED <<accepted, ledger>>

(* Killed, or an exception: what was not written is not written.           *)
Crash(p) ==
  /\ call[p] # Idle
  /\ call' = [call EXCEPT ![p] = Idle]
  /\ UNCHANGED <<queue, workers, accepted, ledger>>

-----------------------------------------------------------------------------
(* The queues                                                              *)

Queues(k) == INSTANCE QueueView WITH shown <- queue[k]

(* Agents work on t, within the lanes of the queue.  In a run queue only   *)
(* those of a session claim a task; what they claimed may outlast it.      *)
InSession(k) == \E p \in Operator : call[p].kind = "session" /\ call[p].queue = k

Work(k, t, v) ==
  /\ queue[k][t] # Absent
  /\ Queues(k)!Moves(queue[k][t], v)
  /\ t \notin Active(k) /\ v.status = "active" =>
       Cardinality(Active(k)) < Lanes(k) /\ (k \in Coordinated \/ InSession(k))
  /\ queue' = [queue EXCEPT ![k][t] = v]
  /\ accepted' = IF v.status = "reviewed" THEN accepted \cup {<<k, t>>} ELSE accepted
  /\ UNCHANGED <<workers, ledger, call>>

(* Its files or the configuration change, or change back.                  *)
Drift(k, t) ==
  /\ queue[k][t] # Absent /\ queue[k][t].status = "reviewed"
  /\ queue' = [queue EXCEPT ![k][t].fresh = ~@]
  /\ UNCHANGED <<workers, accepted, ledger, call>>

-----------------------------------------------------------------------------
Start(p) ==
  \/ Manifest(p) \/ Reverify(p)
  \/ \E u \in Unit : Supersede(p, u)
  \/ \E x \in Pair : IngestEvidence(p, x)
  \/ \E k \in Queue \ Coordinated, units \in SUBSET Unit : Seed(p, k, units) \/ Launch(p, k, units)

Continue(p) == SessionEnds(p) \/ WriteLedger(p) \/ (\E lanes \in 1..2 : InitQueue(p, lanes)) \/ \E x \in Pair : Look(p, x)

Next ==
  \/ \E p \in Operator : Start(p) \/ Continue(p) \/ Crash(p)
  \/ \E k \in Queue, t \in Task : Drift(k, t) \/ \E v \in View : Work(k, t, v)

Spec == Init /\ [][Next]_vars

-----------------------------------------------------------------------------
(* Properties                                                              *)

(* Ledger, queues, history and commands have their types.                  *)
TypeOK ==
  /\ queue \in [Queue -> [Task -> View \cup {Absent}]]
  /\ workers \in [Queue -> Nat \cup {Absent}]
  /\ accepted \subseteq Pair
  /\ ledger \in Ledger
  /\ \A p \in Operator :
       \/ call[p] = Idle
       \/ /\ call[p].kind \in Kind
          /\ call[p].man \in Ledger
          /\ call[p].queue \in Queue \cup {Absent}
          /\ call[p].units \subseteq Unit
          /\ call[p].todo \subseteq Pair
          /\ DOMAIN call[p].seen \subseteq Pair
          /\ \A x \in DOMAIN call[p].seen : call[p].seen[x] \in View \cup {Absent}

(* No sequence of commands, however they race, crash or overwrite each     *)
(* other, credits a unit of which a task was never accepted in a review    *)
(* within its budget, or is of a quarantined lineage without a grant       *)
(* (ingest, reverify, manifest: never on a label the controller wrote      *)
(* itself).                                                                *)
CreditEarned ==
  \A u \in Unit : ledger[u].state = "reviewed" =>
    /\ TasksOf[u] # {}
    /\ \A t \in TasksOf[u] :
         /\ \E k \in Queue : <<k, t>> \in accepted
         /\ t \in HeldTask \/ u \in HeldUnit => t \in Granted

(* Once the ledger knows of an attempt or a credit of a unit, it knows it  *)
(* for good, so that the unit is never seeded into a queue where its       *)
(* budget would begin again (_has_prior_attempts, build_manifest).         *)
AttemptNeverForgotten ==
  [][\A u \in Unit : Tried(ledger[u]) => Tried(ledger'[u])]_vars

(* As long as the lanes of the other teams are reserved, no more agents    *)
(* work at a time than MAX_ACTIVE_LANES (the reservation in cmd_run).      *)
LanesReserved ==
  Cardinality({x \in Pair : x[2] \in Active(x[1])}) <= MaxLanes

(* Nothing is put before the agents that rests on work nobody accepted:    *)
(* when a batch is launched, every task of every unit it depends on has    *)
(* been reviewed within its budget, here or by another team                *)
(* (compute_next_ready).                                                   *)
LaunchedOnReviewedBase ==
  \A p \in Operator : call[p].kind = "session" =>
    \A u \in call[p].units : \A d \in DependsOn[u] : \A t \in TasksOf[d] :
      \E k \in Queue : <<k, t>> \in accepted
=============================================================================
