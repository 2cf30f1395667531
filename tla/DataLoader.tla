----------------------------- MODULE DataLoader -----------------------------
(***************************************************************************)
(* The snapshot loader (data_loader.py) against one PostgreSQL schema, and *)
(* what the controller makes of its exit (full_run.py).                    *)
(*                                                                         *)
(* A run of the loader is one process and, up to its commit, one           *)
(* transaction: it locks its target tables in the order of their names,    *)
(* looks whether they are empty, drops foreign keys, loads, restores,      *)
(* verifies, commits, and then moves the owned sequences, without locks.   *)
(* What a transaction has written is seen by nobody before its commit, so  *)
(* the work between the last lock and the commit is one step.  Others      *)
(* write to empty tables, before a load; what users do to loaded tables is *)
(* not the loader's.                                                       *)
(***************************************************************************)
EXTENDS Naturals

CONSTANTS
  Run,      \* runs of the loader, retries included
  Table,    \* tables of the target schema
  Plan,     \* Plan[r]: target tables of the run's manifest
  Content,  \* Content[r]: those its snapshot has rows for
  Owning,   \* tables with an owned sequence
  Refs,     \* <<t, u>>: a foreign key of t references u
  Rank,     \* Rank[t]: the place of t in the order of names
  Other,    \* anybody else who writes to the schema
  None

ASSUME PlanAssumption ==
  /\ Plan \in [Run -> SUBSET Table]
  /\ Content \in [Run -> SUBSET Table]
  /\ \A r \in Run : Content[r] \subseteq Plan[r]
ASSUME RankAssumption ==
  Rank \in [Table -> Nat] /\ \A t, u \in Table : Rank[t] = Rank[u] => t = u
ASSUME NoneAssumption == Other \notin Run /\ None \notin Run /\ Other # None

VARIABLES
  (* the database *)
  rows,        \* rows[t]: whose committed rows t holds
  behind,      \* its sequence will hand out keys that t already holds
  lock,        \* who holds t: a run in ACCESS EXCLUSIVE mode, or a writer
  (* each process *)
  pc,
  outcome,     \* the code run() returns, or 2 for a LoaderError
  applied,     \* `applied' of the report
  receipt,     \* receipt[r][t]: sequence receipts of the report
  enumerated,  \* `sequence_finalization.enumerated' of the report
  (* what is left of it *)
  exit,        \* the exit code seen by who started it
  reported     \* whether the report was written

database == <<rows, behind, lock>>
report == <<outcome, applied, receipt, enumerated>>
ended == <<exit, reported>>
vars == <<database, pc, report, ended>>

Phase == {"idle", "locking", "dropping", "committing", "committed", "finalizing",
          "reporting", "ended"}
Receipt == {"none", "pending", "completed", "skipped", "error"}

-----------------------------------------------------------------------------
(* Locks                                                                   *)

Held(r) == {t \in Table : lock[t] = r}
Take(r, t) == lock[t] = None /\ lock' = [lock EXCEPT ![t] = r]
Freed(r) == [t \in Table |-> IF lock[t] = r THEN None ELSE lock[t]]

(* Mutant: tables are locked in any order.                                 *)
NextAnyOrder(r, t) == t \in Plan[r] \ Held(r)

(* The targets are locked in the order of their names.                     *)
NextLock(r, t) ==
  /\ t \in Plan[r] \ Held(r)
  /\ \A u \in Plan[r] \ Held(r) : Rank[t] <= Rank[u]

(* Dropping a foreign key locks the table it references as well.           *)
Referenced(r) == {u \in Table \ Held(r) : \E t \in Plan[r] : <<t, u>> \in Refs}

(* The tables a run may be waiting for.                                    *)
Needs(r) ==
  {t \in Table : \/ pc[r] = "locking" /\ NextLock(r, t)
                 \/ pc[r] = "dropping" /\ t \in Referenced(r)}

-----------------------------------------------------------------------------
Init ==
  /\ rows \in [Table -> {{}, {Other}}]
  /\ behind = [t \in Table |-> FALSE]
  /\ lock = [t \in Table |-> None]
  /\ pc = [r \in Run |-> "idle"]
  /\ outcome = [r \in Run |-> None]
  /\ applied = [r \in Run |-> "none"]
  /\ receipt = [r \in Run |-> [t \in Table |-> "none"]]
  /\ enumerated = [r \in Run |-> TRUE]
  /\ exit = [r \in Run |-> None]
  /\ reported = [r \in Run |-> FALSE]

(* The run goes on to write a report that says a of the rows.              *)
Conclude(r, code, a) ==
  /\ pc' = [pc EXCEPT ![r] = "reporting"]
  /\ outcome' = [outcome EXCEPT ![r] = code]
  /\ applied' = [applied EXCEPT ![r] = a]

(* It ends without one.                                                    *)
End(r, code) ==
  /\ pc' = [pc EXCEPT ![r] = "ended"]
  /\ exit' = [exit EXCEPT ![r] = code]

-----------------------------------------------------------------------------
(* Before the locks                                                        *)

(* The plan is built from the manifest and the catalog, which touches no   *)
(* target: apply may go on, the run is a dry run that counts rows, it is   *)
(* blocked, or it is fatal (another database).                             *)
Start(r) ==
  /\ pc[r] = "idle"
  /\ \/ pc' = [pc EXCEPT ![r] = "locking"] /\ UNCHANGED report
     \/ /\ \/ Conclude(r, IF \E t \in Plan[r] : rows[t] # {} THEN 1 ELSE 0, "none")
           \/ Conclude(r, 1, "none")
           \/ Conclude(r, 1, "no")
           \/ Conclude(r, 2, "none")
        /\ UNCHANGED <<receipt, enumerated>>
  /\ UNCHANGED <<database, ended>>

-----------------------------------------------------------------------------
(* The transaction                                                         *)

LockTarget(r) ==
  /\ pc[r] = "locking"
  /\ \E t \in Table : NextLock(r, t) /\ Take(r, t)
  /\ UNCHANGED <<rows, behind, pc, report, ended>>

(* Mutant: only a deadlock between runs ends a wait.                       *)
LockDeadlockOnly(r) ==
  /\ pc[r] = "locking"
  /\ \E t \in Table : NextLock(r, t) /\ lock[t] \in Run
  /\ lock' = Freed(r)
  /\ Conclude(r, 1, "no")
  /\ UNCHANGED <<rows, behind, receipt, enumerated, ended>>

(* lock_timeout expires on a target that somebody else holds.              *)
LockTimeout(r) ==
  /\ pc[r] = "locking"
  /\ \E t \in Table : NextLock(r, t) /\ lock[t] # None
  /\ lock' = Freed(r)
  /\ Conclude(r, 1, "no")
  /\ UNCHANGED <<rows, behind, receipt, enumerated, ended>>

(* Mutant: the rows are not counted again under the locks.                 *)
EmptyUnchecked(r) == TRUE
EmptyTargets(r) == \A t \in Plan[r] : rows[t] = {}

Recheck(r) ==
  /\ pc[r] = "locking"
  /\ Plan[r] \subseteq Held(r)
  /\ IF EmptyTargets(r)
     THEN /\ pc' = [pc EXCEPT ![r] = "dropping"]
          /\ UNCHANGED <<lock, outcome, applied>>
     ELSE lock' = Freed(r) /\ Conclude(r, 1, "no")
  /\ UNCHANGED <<rows, behind, receipt, enumerated, ended>>

DropForeignKey(r) ==
  /\ pc[r] = "dropping"
  /\ \E t \in Referenced(r) : Take(r, t)
  /\ UNCHANGED <<rows, behind, pc, report, ended>>

(* Triggers off, rows in, triggers and keys back, counts verified.         *)
LoadAndVerify(r) ==
  /\ pc[r] = "dropping"
  /\ Referenced(r) = {}
  /\ pc' = [pc EXCEPT ![r] = "committing"]
  /\ UNCHANGED <<database, report, ended>>

RollBack(r) ==
  /\ lock' = Freed(r)
  /\ Conclude(r, 2, "none")
  /\ UNCHANGED <<rows, behind, receipt, enumerated, ended>>

(* lock_timeout holds for the whole transaction.                           *)
DropTimeout(r) ==
  /\ pc[r] = "dropping"
  /\ \E t \in Referenced(r) : lock[t] # None
  /\ RollBack(r)

(* Any statement may fail: a key that does not hold, a count that differs, *)
(* a deadlock that the server resolves.                                    *)
ApplyFails(r) == pc[r] = "dropping" /\ RollBack(r)

-----------------------------------------------------------------------------
(* The commit                                                              *)

(* Mutant: every table is committed by itself.                             *)
DurableInPart(r) ==
  /\ \E t \in Content[r] : rows' = [rows EXCEPT ![t] = @ \cup {r}]
  /\ UNCHANGED behind

Durable(r) ==
  /\ rows' = [t \in Table |-> IF t \in Content[r] THEN rows[t] \cup {r} ELSE rows[t]]
  /\ behind' = [t \in Table |-> behind[t] \/ t \in Content[r] \cap Owning]

Commit(r) ==
  /\ pc[r] = "committing"
  /\ Durable(r)
  /\ lock' = Freed(r)
  /\ pc' = [pc EXCEPT ![r] = "committed"]
  /\ applied' = [applied EXCEPT ![r] = "yes"]
  /\ UNCHANGED <<outcome, receipt, enumerated, ended>>

(* The server says no: a deferred constraint.                              *)
CommitAborts(r) == pc[r] = "committing" /\ RollBack(r)

(* Mutant: every error of commit() is taken for an abort.                  *)
AckLostIsAbort(r) ==
  /\ pc[r] = "committing"
  /\ Durable(r) \/ UNCHANGED <<rows, behind>>
  /\ lock' = Freed(r)
  /\ Conclude(r, 2, "none")
  /\ UNCHANGED <<receipt, enumerated, ended>>

(* The connection is gone, with the commit done or not.                    *)
AckLost(r) ==
  /\ pc[r] = "committing"
  /\ Durable(r) \/ UNCHANGED <<rows, behind>>
  /\ lock' = Freed(r)
  /\ Conclude(r, 4, "unknown")
  /\ UNCHANGED <<receipt, enumerated, ended>>

-----------------------------------------------------------------------------
(* Owned sequences, after the commit                                       *)

(* Mutant: a report that lists nothing passes for a complete list.         *)
NotEnumeratedSilently(r) ==
  /\ pc[r] = "committed"
  /\ Conclude(r, 3, "yes")
  /\ UNCHANGED <<database, receipt, enumerated, ended>>

(* The connection does not even switch to autocommit: nothing is listed.   *)
NotEnumerated(r) ==
  /\ pc[r] = "committed"
  /\ enumerated' = [enumerated EXCEPT ![r] = FALSE]
  /\ Conclude(r, 3, "yes")
  /\ UNCHANGED <<database, receipt, ended>>

(* The sequences of the tables in missed could not be listed.              *)
Discover(r, missed) ==
  /\ pc[r] = "committed"
  /\ receipt' = [receipt EXCEPT ![r] =
       [t \in Table |-> IF t \in missed THEN "error"
                        ELSE IF t \in Plan[r] \cap Owning THEN "pending" ELSE "none"]]
  /\ enumerated' = [enumerated EXCEPT ![r] = (missed = {})]
  /\ pc' = [pc EXCEPT ![r] = "finalizing"]
  /\ UNCHANGED <<database, outcome, applied, ended>>

Receive(r, t, result) == receipt' = [receipt EXCEPT ![r][t] = result]

(* max() waits for a run that has the table locked; nothing bounds that.   *)
SetVal(r, t) ==
  /\ pc[r] = "finalizing"
  /\ receipt[r][t] = "pending"
  /\ lock[t] \notin Run
  /\ \/ rows[t] = {} /\ Receive(r, t, "skipped") /\ UNCHANGED behind
     \/ rows[t] # {} /\ Receive(r, t, "completed") /\ behind' = [behind EXCEPT ![t] = FALSE]
  /\ UNCHANGED <<rows, lock, pc, outcome, applied, enumerated, ended>>

(* Mutant: the receipt has the status of the whole finalization.           *)
SetValFailed(r, t) ==
  /\ pc[r] = "finalizing"
  /\ receipt[r][t] = "pending"
  /\ Receive(r, t, "failed")
  /\ UNCHANGED <<database, pc, outcome, applied, enumerated, ended>>

SetValFails(r, t) ==
  /\ pc[r] = "finalizing"
  /\ receipt[r][t] = "pending"
  /\ Receive(r, t, "error")
  /\ UNCHANGED <<database, pc, outcome, applied, enumerated, ended>>

Finish(r) ==
  /\ pc[r] = "finalizing"
  /\ \A t \in Table : receipt[r][t] # "pending"
  /\ Conclude(r, IF \E t \in Table : receipt[r][t] = "error" THEN 3 ELSE 0, "yes")
  /\ UNCHANGED <<database, receipt, enumerated, ended>>

-----------------------------------------------------------------------------
(* The end of the process                                                  *)

Report(r) ==
  /\ pc[r] = "reporting"
  /\ End(r, outcome[r])
  /\ reported' = [reported EXCEPT ![r] = TRUE]
  /\ UNCHANGED <<database, report>>

(* An exception main() does not catch ends Python with 1 and no report: an *)
(* error other than a timeout while locking, a rollback on a connection    *)
(* that is gone, or a report that cannot be written.                       *)
Uncaught(r) ==
  /\ pc[r] \in {"idle", "locking", "dropping", "reporting"}
  /\ lock' = Freed(r)
  /\ End(r, 1)
  /\ UNCHANGED <<rows, behind, report, reported>>

(* The process is killed; the server rolls back what it has not committed. *)
Kill(r) ==
  /\ pc[r] \notin {"idle", "ended"}
  /\ \/ pc[r] = "committing" /\ Durable(r)
     \/ UNCHANGED <<rows, behind>>
  /\ lock' = Freed(r)
  /\ End(r, None)
  /\ UNCHANGED <<report, reported>>

-----------------------------------------------------------------------------
(* Others                                                                  *)

(* A receipt may be an error of the table, which names no sequence.        *)
ResumeOf(r) ==
  IF reported[r] /\ exit[r] = 3
  THEN IF enumerated[r] THEN {t \in Table : receipt[r][t] \in {"error", "pending"}}
       ELSE Plan[r]
  ELSE {}

(* The operator follows the controller's plan: setval, unless t is empty.  *)
Resume(r, t) ==
  /\ t \in ResumeOf(r)
  /\ behind[t]
  /\ behind' = [behind EXCEPT ![t] = FALSE]
  /\ UNCHANGED <<rows, lock, pc, report, ended>>

(* Another session writes to an empty table, for as long as it likes, and  *)
(* commits or not.                                                         *)
OtherBegins(t) ==
  /\ lock[t] = None
  /\ rows[t] = {}
  /\ lock' = [lock EXCEPT ![t] = Other]
  /\ UNCHANGED <<rows, behind, pc, report, ended>>

OtherEnds(t) ==
  /\ lock[t] = Other
  /\ rows' \in {rows, [rows EXCEPT ![t] = {Other}]}
  /\ lock' = [lock EXCEPT ![t] = None]
  /\ UNCHANGED <<behind, pc, report, ended>>

-----------------------------------------------------------------------------
(* What a run that meets no error does next.                               *)
Step(r) ==
  \/ LockTarget(r) \/ LockTimeout(r) \/ Recheck(r)
  \/ DropForeignKey(r) \/ DropTimeout(r) \/ LoadAndVerify(r) \/ Commit(r)
  \/ \E missed \in SUBSET Plan[r] : Discover(r, missed)
  \/ \E t \in Table : SetVal(r, t)
  \/ Finish(r) \/ Report(r)

Failure(r) ==
  \/ ApplyFails(r) \/ CommitAborts(r) \/ AckLost(r) \/ NotEnumerated(r)
  \/ \E t \in Table : SetValFails(r, t)
  \/ Uncaught(r) \/ Kill(r)

Next ==
  \/ \E r \in Run : Start(r) \/ Step(r) \/ Failure(r)
  \/ \E r \in Run, t \in Table : Resume(r, t)
  \/ \E t \in Table : OtherBegins(t) \/ OtherEnds(t)

Spec == Init /\ [][Next]_vars

(* A process that has begun goes on, and lock_timeout ends its waits.      *)
(* Nobody else has to go on: a session may keep its locks for ever.        *)
Fairness == \A r \in Run : WF_vars(Step(r))
LiveSpec == Spec /\ Fairness

-----------------------------------------------------------------------------
(* Properties                                                              *)

(* Every table, lock, report and process has its type.                     *)
TypeOK ==
  /\ rows \in [Table -> SUBSET (Run \cup {Other})]
  /\ behind \in [Table -> BOOLEAN]
  /\ lock \in [Table -> Run \cup {None, Other}]
  /\ pc \in [Run -> Phase]
  /\ outcome \in [Run -> 0..4 \cup {None}]
  /\ applied \in [Run -> {"none", "no", "yes", "unknown"}]
  /\ receipt \in [Run -> [Table -> Receipt]]
  /\ enumerated \in [Run -> BOOLEAN]
  /\ exit \in [Run -> 0..4 \cup {None}]
  /\ reported \in [Run -> BOOLEAN]

Loaded(r) == \A t \in Content[r] : r \in rows[t]
Untouched(r) == \A t \in Table : r \notin rows[t]

(* No table ever holds rows of two runs, or of a run and of somebody else, *)
(* however runs, retries, timeouts and inserts race (empty targets are     *)
(* checked again under the locks).                                         *)
NeverMixed == \A t \in Table : \A x, y \in rows[t] : x = y

(* Who reads exit code and report is not misled: `applied' means that all  *)
(* rows are there, a refusal or rollback that none is; only code 4 leaves  *)
(* it open (the three-way classification of the commit).                   *)
HonestReport ==
  \A r \in Run : reported[r] =>
    /\ applied[r] = "yes" => Loaded(r) /\ exit[r] \in {0, 3}
    /\ applied[r] \in {"none", "no"} => Untouched(r) /\ exit[r] \in {0, 1, 2}
    /\ applied[r] = "unknown" => exit[r] = 4

(* After a reported load every sequence that would hand out keys in use is *)
(* one that the controller's plan tells the operator to move, or that the  *)
(* operator has moved (data_loader's receipts, full_run's resume plan).    *)
NoSequenceForgotten ==
  \A r \in Run : reported[r] /\ applied[r] = "yes" =>
    {t \in Content[r] : behind[t]} \subseteq ResumeOf(r)

(* The loader keeps LoadPromise.                                           *)
Verdict(r) ==
  IF reported[r]
  THEN CASE applied[r] = "yes" -> "loaded"
         [] applied[r] = "unknown" -> "unknown"
         [] OTHER -> "nothing"
  ELSE IF pc[r] = "ended" THEN "silent" ELSE "pending"

Promise == INSTANCE LoadPromise WITH verdict <- [r \in Run |-> Verdict(r)]

(* Every step of every run is a step of LoadPromise or none.               *)
KeepsLoadPromise == Promise!Spec

(* A run that has begun ends, whoever keeps the tables it waits for (the   *)
(* bounded wait of _lock_and_recheck_empty and what follows under it).     *)
RunsEnd == \A r \in Run : pc[r] = "locking" ~> pc[r] = "ended"

WaitsFor(r, s) == \E t \in Needs(r) : lock[t] = s

(* No chain of runs that lock their targets closes, however long: the      *)
(* holder of a target that a run waits for, if it waits in turn, waits for *)
(* a later one (targets are locked in one order).                          *)
TargetsNeverDeadlock ==
  \A r, s \in Run : r # s /\ pc[r] = "locking" /\ pc[s] = "locking" =>
    \A t \in Needs(r), u \in Needs(s) : lock[t] = s => Rank[t] < Rank[u]

(* What the loader says of its locks: taken once up front, in one order,   *)
(* never upgraded, so that competing runs never deadlock.                  *)
NoDeadlock ==
  \A r, s \in Run : r # s => ~ (WaitsFor(r, s) /\ WaitsFor(s, r))
=============================================================================
