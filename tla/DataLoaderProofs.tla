-------------------------- MODULE DataLoaderProofs --------------------------
(***************************************************************************)
(* Proofs that DataLoader is type correct, keeps runs apart and tells the  *)
(* truth about them, for any runs, tables, plans, snapshots, sequences and *)
(* foreign keys, and so implements LoadPromise.  A run that has passed its *)
(* check holds its targets and finds them empty; everything else follows   *)
(* from that and from what each run knows.                                 *)
(***************************************************************************)
EXTENDS DataLoader, TLAPS

-----------------------------------------------------------------------------
(* Types                                                                   *)

(* Initial values have their types (data_loader before any run).           *)
LEMMA TypeInit == Init => TypeOK
BY NoneAssumption DEF Init, TypeOK, Phase, Receipt

(* Every step of every run and of others keeps the types.                  *)
LEMMA TypeStep == TypeOK /\ [Next]_vars => TypeOK'
<1> SUFFICES ASSUME TypeOK, [Next]_vars PROVE TypeOK'
  OBVIOUS
<1> USE PlanAssumption, NoneAssumption DEF TypeOK, Phase, Receipt
<1>f. ASSUME NEW r \in Run PROVE Freed(r) \in [Table -> Run \cup {None, Other}]
  BY DEF Freed
<1>d. ASSUME NEW r \in Run, Durable(r)
      PROVE  rows' \in [Table -> SUBSET (Run \cup {Other})] /\ behind' \in [Table -> BOOLEAN]
  BY <1>d DEF Durable
<1>1. ASSUME NEW r \in Run, Start(r) PROVE TypeOK'
  <2>1. ASSUME NEW code \in 0..4, NEW a \in {"none", "no", "yes", "unknown"},
               Conclude(r, code, a)
        PROVE  /\ pc' \in [Run -> Phase]
               /\ outcome' \in [Run -> 0..4 \cup {None}]
               /\ applied' \in [Run -> {"none", "no", "yes", "unknown"}]
    BY <2>1 DEF Conclude
  <2>2. (IF \E t \in Plan[r] : rows[t] # {} THEN 1 ELSE 0) \in 0..4
    OBVIOUS
  <2>3. 1 \in 0..4 /\ 2 \in 0..4
    OBVIOUS
  <2>4. UNCHANGED <<rows, behind, lock, exit, reported, receipt, enumerated>>
    BY <1>1 DEF Start, database, report, ended
  <2>5. CASE pc' = [pc EXCEPT ![r] = "locking"] /\ UNCHANGED report
    BY <2>4, <2>5 DEF report
  <2>6. CASE Conclude(r, IF \E t \in Plan[r] : rows[t] # {} THEN 1 ELSE 0, "none")
    BY <2>1, <2>2, <2>4, <2>6
  <2>7. CASE Conclude(r, 1, "none")
    BY <2>1, <2>3, <2>4, <2>7
  <2>8. CASE Conclude(r, 1, "no")
    BY <2>1, <2>3, <2>4, <2>8
  <2>9. CASE Conclude(r, 2, "none")
    BY <2>1, <2>3, <2>4, <2>9
  <2> QED
    BY <1>1, <2>5, <2>6, <2>7, <2>8, <2>9 DEF Start
<1>2. ASSUME NEW r \in Run, Step(r) PROVE TypeOK'
  <2>1. CASE LockTarget(r)
    BY <2>1 DEF LockTarget, Take, report, ended
  <2>2. CASE LockTimeout(r)
    BY <2>2, <1>f DEF LockTimeout, Conclude, report, ended
  <2>3. CASE Recheck(r)
    <3>1. CASE EmptyTargets(r)
      BY <2>3, <3>1 DEF Recheck, report, ended
    <3>2. CASE ~EmptyTargets(r)
      <4>1. /\ lock' = Freed(r)
            /\ Conclude(r, 1, "no")
            /\ UNCHANGED <<rows, behind, receipt, enumerated, exit, reported>>
        BY <2>3, <3>2 DEF Recheck, ended
      <4> QED
        BY <4>1, <1>f DEF Conclude
    <3> QED
      BY <3>1, <3>2
  <2>4. CASE DropForeignKey(r)
    BY <2>4 DEF DropForeignKey, Referenced, Take, report, ended
  <2>5. CASE DropTimeout(r)
    BY <2>5, <1>f DEF DropTimeout, RollBack, Conclude, ended
  <2>6. CASE LoadAndVerify(r)
    BY <2>6 DEF LoadAndVerify, database, report, ended
  <2>7. CASE Commit(r)
    BY <2>7, <1>f, <1>d DEF Commit, ended
  <2>8. ASSUME NEW missed \in SUBSET Plan[r], Discover(r, missed) PROVE TypeOK'
    BY <2>8 DEF Discover, database, ended
  <2>9. ASSUME NEW t \in Table, SetVal(r, t) PROVE TypeOK'
    <3>1. receipt' \in [Run -> [Table -> Receipt]]
      <4>1. ASSUME NEW result \in Receipt, Receive(r, t, result)
            PROVE  receipt' \in [Run -> [Table -> Receipt]]
        BY <4>1 DEF Receive
      <4>2. "skipped" \in Receipt /\ "completed" \in Receipt
        OBVIOUS
      <4> QED
        BY <2>9, <4>1, <4>2 DEF SetVal
    <3>2. behind' \in [Table -> BOOLEAN]
      BY <2>9 DEF SetVal
    <3> QED
      BY <2>9, <3>1, <3>2 DEF SetVal, ended
  <2>10. CASE Finish(r)
    BY <2>10 DEF Finish, Conclude, database, ended
  <2>11. CASE Report(r)
    BY <2>11 DEF Report, End, database, report
  <2> QED
    BY <1>2, <2>1, <2>2, <2>3, <2>4, <2>5, <2>6, <2>7, <2>8, <2>9, <2>10, <2>11 DEF Step
<1>3. ASSUME NEW r \in Run, Failure(r) PROVE TypeOK'
  <2>1. CASE ApplyFails(r)
    BY <2>1, <1>f DEF ApplyFails, RollBack, Conclude, ended
  <2>2. CASE CommitAborts(r)
    BY <2>2, <1>f DEF CommitAborts, RollBack, Conclude, ended
  <2>3. CASE AckLost(r)
    BY <2>3, <1>f, <1>d DEF AckLost, Conclude, ended
  <2>4. CASE NotEnumerated(r)
    BY <2>4 DEF NotEnumerated, Conclude, database, ended
  <2>5. ASSUME NEW t \in Table, SetValFails(r, t) PROVE TypeOK'
    BY <2>5 DEF SetValFails, Receive, database, ended
  <2>6. CASE Uncaught(r)
    BY <2>6, <1>f DEF Uncaught, End, report
  <2>7. CASE Kill(r)
    BY <2>7, <1>f, <1>d DEF Kill, End, report
  <2> QED
    BY <1>3, <2>1, <2>2, <2>3, <2>4, <2>5, <2>6, <2>7 DEF Failure
<1>4. ASSUME NEW r \in Run, NEW t \in Table, Resume(r, t) PROVE TypeOK'
  BY <1>4 DEF Resume, report, ended
<1>5. ASSUME NEW t \in Table, OtherBegins(t) PROVE TypeOK'
  BY <1>5 DEF OtherBegins, report, ended
<1>6. ASSUME NEW t \in Table, OtherEnds(t) PROVE TypeOK'
  BY <1>6 DEF OtherEnds, report, ended
<1>7. CASE UNCHANGED vars
  BY <1>7 DEF vars, database, report, ended
<1> QED
  BY <1>1, <1>2, <1>3, <1>4, <1>5, <1>6, <1>7 DEF Next

(* Every table, lock, report and process has its type, always.             *)
THEOREM Types == Spec => []TypeOK
BY TypeInit, TypeStep, PTL DEF Spec

-----------------------------------------------------------------------------
(* What a run has locked so far comes first in the order of names.         *)
Climbing(r) ==
  /\ pc[r] = "idle" => Held(r) = {}
  /\ pc[r] = "locking" =>
       /\ Held(r) \subseteq Plan[r]
       /\ \A u \in Held(r), t \in Plan[r] \ Held(r) : Rank[u] < Rank[t]

(* Past the check, and until the commit, targets are locked and empty.     *)
Secured(r) ==
  pc[r] \in {"dropping", "committing"} => \A t \in Plan[r] : lock[t] = r /\ rows[t] = {}

(* Other writers keep to tables without committed rows.                    *)
OtherQuiet == \A t \in Table : lock[t] = Other => rows[t] = {}

Says(r) ==
  /\ applied[r] = "yes" => Loaded(r) /\ outcome[r] \in {0, 3}
  /\ applied[r] \in {"none", "no"} => Untouched(r) /\ outcome[r] \in {0, 1, 2}
  /\ applied[r] = "unknown" => outcome[r] = 4

(* What a run knows of its rows, from phase to phase.                      *)
Truthful(r) ==
  /\ pc[r] \in {"idle", "locking", "dropping", "committing"} =>
       applied[r] = "none" /\ Untouched(r) /\ ~reported[r]
  /\ pc[r] \in {"committed", "finalizing"} =>
       applied[r] = "yes" /\ Loaded(r) /\ ~reported[r]
  /\ pc[r] = "reporting" => Says(r) /\ ~reported[r]
  /\ reported[r] => pc[r] = "ended" /\ exit[r] = outcome[r] /\ Says(r)

(* What a run knows of its sequences.                                      *)
Accounted(r) ==
  /\ pc[r] = "finalizing" =>
       \A t \in Content[r] : behind[t] => receipt[r][t] \in {"error", "pending"}
  /\ (pc[r] = "reporting" \/ reported[r]) /\ applied[r] = "yes" =>
       \A t \in Content[r] : behind[t] =>
         outcome[r] = 3 /\ (enumerated[r] => receipt[r][t] \in {"error", "pending"})

LoadInv ==
  /\ TypeOK
  /\ \A r \in Run : Climbing(r)
  /\ \A r \in Run : Secured(r)
  /\ OtherQuiet
  /\ NeverMixed
  /\ \A r \in Run : Truthful(r)
  /\ \A t \in Table : behind[t] => t \in Owning
  /\ \A r \in Run : Accounted(r)

-----------------------------------------------------------------------------
(* Frames                                                                  *)

Acts(r) == Start(r) \/ Step(r) \/ Failure(r)

(* No step of another changes what a run knows or holds.                   *)
Unmoved(s) ==
  /\ pc'[s] = pc[s]
  /\ outcome'[s] = outcome[s]
  /\ applied'[s] = applied[s]
  /\ receipt'[s] = receipt[s]
  /\ enumerated'[s] = enumerated[s]
  /\ exit'[s] = exit[s]
  /\ reported'[s] = reported[s]
  /\ \A t \in Table : lock'[t] = s <=> lock[t] = s

(* A step of one run leaves every other run unmoved (separate processes).  *)
LEMMA ActsUnmoved ==
  ASSUME TypeOK, NEW r \in Run, NEW s \in Run, r # s, Acts(r)
  PROVE  Unmoved(s)
<1> USE NoneAssumption, PlanAssumption DEF TypeOK, Unmoved, Receipt
<1>f. \A t \in Table : Freed(r)[t] = s <=> lock[t] = s
  BY DEF Freed
<1>c. ASSUME NEW code, NEW a, Conclude(r, code, a)
      PROVE  pc'[s] = pc[s] /\ outcome'[s] = outcome[s] /\ applied'[s] = applied[s]
  BY <1>c DEF Conclude
<1>1. CASE Start(r)
  <2>1. UNCHANGED <<rows, behind, lock, exit, reported, receipt, enumerated>>
    BY <1>1 DEF Start, database, report, ended
  <2>2. pc'[s] = pc[s] /\ outcome'[s] = outcome[s] /\ applied'[s] = applied[s]
    <3>1. CASE pc' = [pc EXCEPT ![r] = "locking"] /\ UNCHANGED report
      BY <3>1 DEF report
    <3>2. CASE \E code, a : Conclude(r, code, a)
      BY <3>2, <1>c
    <3> QED
      BY <1>1, <3>1, <3>2 DEF Start
  <2> QED
    BY <2>1, <2>2
<1>2. CASE LockTarget(r)
  BY <1>2 DEF LockTarget, Take, report, ended
<1>3. CASE LockTimeout(r)
  BY <1>3, <1>f, <1>c DEF LockTimeout, ended
<1>4. CASE Recheck(r)
  BY <1>4, <1>f, <1>c DEF Recheck, ended
<1>5. CASE DropForeignKey(r)
  BY <1>5 DEF DropForeignKey, Referenced, Take, report, ended
<1>6. CASE DropTimeout(r) \/ ApplyFails(r) \/ CommitAborts(r)
  BY <1>6, <1>f, <1>c DEF DropTimeout, ApplyFails, CommitAborts, RollBack, ended
<1>7. CASE LoadAndVerify(r)
  BY <1>7 DEF LoadAndVerify, database, report, ended
<1>8. CASE Commit(r)
  BY <1>8, <1>f DEF Commit, ended
<1>9. ASSUME NEW missed \in SUBSET Plan[r], Discover(r, missed) PROVE Unmoved(s)
  BY <1>9 DEF Discover, database, ended
<1>10. ASSUME NEW t \in Table, SetVal(r, t) PROVE Unmoved(s)
  BY <1>10 DEF SetVal, Receive, ended
<1>11. ASSUME NEW t \in Table, SetValFails(r, t) PROVE Unmoved(s)
  BY <1>11 DEF SetValFails, Receive, database, ended
<1>12. CASE Finish(r)
  BY <1>12, <1>c DEF Finish, database, ended
<1>13. CASE Report(r)
  BY <1>13 DEF Report, End, database, report
<1>14. CASE AckLost(r)
  BY <1>14, <1>f, <1>c DEF AckLost, ended
<1>15. CASE NotEnumerated(r)
  BY <1>15, <1>c DEF NotEnumerated, database, ended
<1>16. CASE Uncaught(r)
  BY <1>16, <1>f DEF Uncaught, End, report
<1>17. CASE Kill(r)
  BY <1>17, <1>f DEF Kill, End, report
<1> QED
  BY <1>1, <1>2, <1>3, <1>4, <1>5, <1>6, <1>7, <1>8, <1>9, <1>10, <1>11, <1>12, <1>13,
     <1>14, <1>15, <1>16, <1>17 DEF Acts, Step, Failure

(* Nor does a step of the operator or of another session.                  *)
LEMMA OthersUnmoved ==
  ASSUME TypeOK, NEW s \in Run, NEW t \in Table,
         (\E r \in Run : Resume(r, t)) \/ OtherBegins(t) \/ OtherEnds(t)
  PROVE  Unmoved(s)
BY NoneAssumption DEF TypeOK, Unmoved, Resume, OtherBegins, OtherEnds, report, ended

(* A table gets rows only when it has none: from a run that commits with   *)
(* the table locked, or from another session that has it.                  *)
Filled(t, x) ==
  /\ rows[t] = {}
  /\ rows'[t] = {x}
  /\ lock[t] = x
  /\ x \in Run => pc[x] \in {"dropping", "committing"} /\ t \in Content[x]
  /\ behind'[t] => behind[t] \/ t \in Owning

RowStep(t, x) == (rows'[t] = rows[t] /\ (behind'[t] => behind[t])) \/ Filled(t, x)

(* A commit fills the tables of the snapshot and touches no other.         *)
LEMMA DurableRows ==
  ASSUME LoadInv, NEW r \in Run, pc[r] = "committing", Durable(r), NEW t \in Table
  PROVE  RowStep(t, r)
<1>1. CASE t \in Content[r]
  <2>1. t \in Plan[r] /\ lock[t] = r /\ rows[t] = {}
    BY <1>1, PlanAssumption DEF LoadInv, Secured
  <2>2. rows'[t] = {r} /\ (behind'[t] => behind[t] \/ t \in Owning)
    BY <1>1, <2>1 DEF Durable
  <2> QED
    BY <1>1, <2>1, <2>2 DEF RowStep, Filled
<1>2. CASE t \notin Content[r]
  BY <1>2 DEF Durable, RowStep, LoadInv, TypeOK
<1> QED
  BY <1>1, <1>2

(* No other step of a run touches rows, and none puts a sequence behind.   *)
LEMMA ActsRows ==
  ASSUME LoadInv, NEW r \in Run, Acts(r), NEW t \in Table
  PROVE  RowStep(t, r)
<1> SUFFICES ASSUME ~ (pc[r] = "committing" /\ Durable(r)) PROVE RowStep(t, r)
  BY DurableRows
<1> USE DEF RowStep, LoadInv, TypeOK
<1>1. CASE Start(r)
  BY <1>1 DEF Start, database
<1>2. CASE LockTarget(r) \/ LockTimeout(r) \/ Recheck(r)
  BY <1>2 DEF LockTarget, LockTimeout, Recheck
<1>3. CASE DropForeignKey(r) \/ LoadAndVerify(r)
  BY <1>3 DEF DropForeignKey, LoadAndVerify, database
<1>4. CASE DropTimeout(r) \/ ApplyFails(r) \/ CommitAborts(r)
  BY <1>4 DEF DropTimeout, ApplyFails, CommitAborts, RollBack
<1>5. CASE Commit(r) \/ AckLost(r) \/ Kill(r)
  BY <1>5 DEF Commit, AckLost, Kill
<1>6. CASE \E missed \in SUBSET Plan[r] : Discover(r, missed)
  BY <1>6 DEF Discover, database
<1>7. ASSUME NEW u \in Table, SetVal(r, u) PROVE RowStep(t, r)
  BY <1>7 DEF SetVal
<1>8. CASE \E u \in Table : SetValFails(r, u)
  BY <1>8 DEF SetValFails, database
<1>9. CASE Finish(r) \/ Report(r) \/ NotEnumerated(r) \/ Uncaught(r)
  BY <1>9 DEF Finish, Report, NotEnumerated, Uncaught, database
<1> QED
  BY <1>1, <1>2, <1>3, <1>4, <1>5, <1>6, <1>7, <1>8, <1>9 DEF Acts, Step, Failure

(* Others do the same: the operator to no table, a session to its own.     *)
LEMMA OthersRows ==
  ASSUME LoadInv, NEW u \in Table,
         (\E r \in Run : Resume(r, u)) \/ OtherBegins(u) \/ OtherEnds(u),
         NEW t \in Table
  PROVE  RowStep(t, Other)
<1> USE NoneAssumption DEF LoadInv, TypeOK, RowStep
<1>1. ASSUME NEW r \in Run, Resume(r, u) PROVE RowStep(t, Other)
  BY <1>1 DEF Resume
<1>2. CASE OtherBegins(u)
  BY <1>2 DEF OtherBegins
<1>3. CASE OtherEnds(u)
  BY <1>3 DEF OtherEnds, Filled, OtherQuiet
<1> QED
  BY <1>1, <1>2, <1>3

(* A table that another session has, or takes, has no rows.                *)
LEMMA QuietStep == LoadInv /\ Next => OtherQuiet'
<1> SUFFICES ASSUME LoadInv, Next, NEW t \in Table, lock'[t] = Other PROVE rows'[t] = {}
  BY DEF OtherQuiet
<1>2. ASSUME NEW r \in Run, Acts(r) PROVE rows'[t] = {}
  <2>1. lock[t] = Other
    <3> USE <1>2, NoneAssumption DEF LoadInv, TypeOK
    <3>f. Freed(r)[t] = Other => lock[t] = Other
      BY DEF Freed
    <3>1. CASE UNCHANGED lock
      BY <3>1
    <3>2. CASE lock' = Freed(r)
      BY <3>2, <3>f
    <3>3. CASE \E u \in Table : Take(r, u)
      BY <3>3 DEF Take
    <3>4. lock' = lock \/ lock' = Freed(r) \/ \E u \in Table : Take(r, u)
      <4>1. CASE Start(r) \/ LockTarget(r) \/ LockTimeout(r) \/ Recheck(r)
        BY <4>1 DEF Start, LockTarget, LockTimeout, Recheck, database
      <4>2. CASE DropForeignKey(r) \/ DropTimeout(r) \/ LoadAndVerify(r) \/ Commit(r)
        BY <4>2 DEF DropForeignKey, Referenced, DropTimeout, RollBack, LoadAndVerify, Commit, database
      <4>3. CASE \/ \E missed \in SUBSET Plan[r] : Discover(r, missed)
                 \/ \E u \in Table : SetVal(r, u) \/ SetValFails(r, u)
                 \/ Finish(r) \/ Report(r) \/ NotEnumerated(r)
        BY <4>3 DEF Discover, SetVal, SetValFails, Finish, Report, NotEnumerated, database
      <4>4. CASE ApplyFails(r) \/ CommitAborts(r) \/ AckLost(r) \/ Uncaught(r) \/ Kill(r)
        BY <4>4 DEF ApplyFails, CommitAborts, RollBack, AckLost, Uncaught, Kill
      <4> QED
        BY <4>1, <4>2, <4>3, <4>4 DEF Acts, Step, Failure
    <3> QED
      BY <3>1, <3>2, <3>3, <3>4
  <2> QED
    BY <1>2, <2>1, ActsRows, NoneAssumption DEF LoadInv, OtherQuiet, RowStep, Filled
<1>3. ASSUME NEW r \in Run, NEW u \in Table, Resume(r, u) PROVE rows'[t] = {}
  BY <1>3 DEF Resume, LoadInv, OtherQuiet
<1>4. ASSUME NEW u \in Table, OtherBegins(u) PROVE rows'[t] = {}
  BY <1>4 DEF OtherBegins, LoadInv, OtherQuiet, TypeOK
<1>5. ASSUME NEW u \in Table, OtherEnds(u) PROVE rows'[t] = {}
  BY <1>5, NoneAssumption DEF OtherEnds, LoadInv, OtherQuiet, TypeOK
<1> QED
  BY <1>2, <1>3, <1>4, <1>5 DEF Next, Acts

(* Steps of others leave what a run knows and holds as it was: they cannot *)
(* write to a table that it has locked or that has rows.                   *)
LEMMA OtherInv ==
  ASSUME LoadInv, NEW s \in Run, NEW x \in Run \cup {Other}, x # s,
         Unmoved(s), \A t \in Table : RowStep(t, x)
  PROVE  Climbing(s)' /\ Secured(s)' /\ Truthful(s)' /\ Accounted(s)'
<1> USE NoneAssumption, PlanAssumption DEF LoadInv, TypeOK
<1>1. \A t \in Table : (s \in rows'[t]) <=> (s \in rows[t])
  BY NoneAssumption DEF RowStep, Filled
<1>2. \A t \in Table : rows[t] # {} => (behind'[t] => behind[t])
  BY DEF RowStep, Filled
<1>3. \A t \in Table : lock[t] = s /\ rows[t] = {} => rows'[t] = {}
  BY DEF RowStep, Filled
<1>4. Held(s)' = Held(s)
  BY DEF Unmoved, Held
<1>5. Climbing(s)'
  BY <1>4 DEF Climbing, Unmoved
<1>6. Secured(s)'
  BY <1>3 DEF Secured, Unmoved
<1>7. Says(s) => Says(s)'
  BY <1>1 DEF Says, Loaded, Untouched, Unmoved
<1>8. Truthful(s)'
  BY <1>1, <1>7 DEF Truthful, Loaded, Untouched, Unmoved
<1>9. Loaded(s) => \A t \in Content[s] : behind'[t] => behind[t]
  BY <1>2 DEF Loaded
<1>10. Accounted(s)'
  BY <1>9 DEF Accounted, Truthful, Says, Unmoved
<1> QED
  BY <1>5, <1>6, <1>8, <1>10

-----------------------------------------------------------------------------
(* A run's own steps                                                       *)

Knows(s) == Climbing(s) /\ Secured(s) /\ Truthful(s) /\ Accounted(s)

(* A run that goes on to its report without having loaded anything has no  *)
(* rows to account for.                                                    *)
LEMMA ConcludeNothing ==
  ASSUME LoadInv, NEW s \in Run,
         pc[s] \in {"idle", "locking", "dropping", "committing"},
         NEW code \in {0, 1, 2}, NEW a \in {"none", "no"}, Conclude(s, code, a),
         UNCHANGED rows, UNCHANGED reported
  PROVE  Knows(s)'
<1>1. pc'[s] = "reporting" /\ outcome'[s] = code /\ applied'[s] = a
  BY DEF Conclude, LoadInv, TypeOK
<1>2. Untouched(s)' /\ ~reported'[s]
  BY DEF LoadInv, Truthful, Untouched
<1>3. Climbing(s)' /\ Secured(s)'
  BY <1>1 DEF Climbing, Secured
<1>4. Truthful(s)'
  BY <1>1, <1>2 DEF Truthful, Says
<1>5. Accounted(s)'
  BY <1>1, <1>2 DEF Accounted
<1> QED
  BY <1>3, <1>4, <1>5 DEF Knows

(* Steps before the commit: what is locked comes first in the order, and   *)
(* the check under the locks secures the targets.                          *)
LEMMA OwnBefore ==
  ASSUME LoadInv, NEW s \in Run,
         \/ Start(s) \/ LockTarget(s) \/ LockTimeout(s) \/ Recheck(s) \/ DropForeignKey(s)
         \/ DropTimeout(s) \/ LoadAndVerify(s) \/ ApplyFails(s) \/ CommitAborts(s)
  PROVE  Knows(s)'
<1> USE NoneAssumption, PlanAssumption DEF LoadInv, TypeOK
<1>1. CASE Start(s)
  <2>1. UNCHANGED <<rows, behind, lock, exit, reported>>
    BY <1>1 DEF Start, database, ended
  <2>2. CASE pc' = [pc EXCEPT ![s] = "locking"] /\ UNCHANGED report
    <3>1. pc[s] = "idle" /\ pc'[s] = "locking" /\ applied'[s] = applied[s] /\ ~reported'[s]
      BY <1>1, <2>1, <2>2 DEF Start, report, Truthful
    <3>2. Held(s)' = {}
      BY <1>1, <2>1 DEF Start, Climbing, Held
    <3>3. Climbing(s)' /\ Secured(s)'
      BY <3>1, <3>2 DEF Climbing, Secured
    <3>4. Truthful(s)' /\ Accounted(s)'
      BY <2>1, <3>1 DEF Truthful, Untouched, Accounted
    <3> QED
      BY <3>3, <3>4 DEF Knows
  <2>3. CASE \E code \in {0, 1, 2}, a \in {"none", "no"} : Conclude(s, code, a)
    BY <1>1, <2>1, <2>3, ConcludeNothing DEF Start
  <2> QED
    BY <1>1, <2>2, <2>3 DEF Start
<1>2. CASE LockTarget(s)
  <2>1. PICK t \in Table : NextLock(s, t) /\ Take(s, t)
    BY <1>2 DEF LockTarget
  <2>2. pc[s] = "locking" /\ UNCHANGED <<rows, pc, applied, reported>>
    BY <1>2 DEF LockTarget, report, ended
  <2>3. Held(s)' = Held(s) \cup {t}
    BY <2>1 DEF Take, Held
  <2>4. Climbing(s)'
    <3>1. t \in Plan[s] \ Held(s) /\ \A u \in Plan[s] \ Held(s) : Rank[t] <= Rank[u]
      BY <2>1 DEF NextLock
    <3>2. ASSUME NEW v \in Held(s) \cup {t}, NEW u \in Plan[s] \ (Held(s) \cup {t})
          PROVE  Rank[v] < Rank[u]
      <4>1. CASE v \in Held(s)
        BY <2>2, <4>1 DEF Climbing
      <4>2. CASE v = t
        <5>1. Rank[t] \in Nat /\ Rank[u] \in Nat /\ Rank[t] # Rank[u]
          BY <3>1, RankAssumption
        <5>2. Rank[t] <= Rank[u]
          BY <3>1
        <5>3. \A m, n \in Nat : m <= n /\ m # n => m < n
          OBVIOUS
        <5> QED
          BY <4>2, <5>1, <5>2, <5>3
      <4> QED
        BY <4>1, <4>2
    <3>3. Held(s) \subseteq Plan[s]
      BY <2>2 DEF Climbing
    <3> QED
      BY <2>2, <2>3, <3>1, <3>2, <3>3 DEF Climbing
  <2>5. Secured(s)' /\ Truthful(s)' /\ Accounted(s)'
    BY <2>2 DEF Secured, Truthful, Untouched, Accounted
  <2> QED
    BY <2>4, <2>5 DEF Knows
<1>3. CASE LockTimeout(s)
  BY <1>3, ConcludeNothing DEF LockTimeout, ended
<1>4. CASE Recheck(s)
  <2>1. pc[s] = "locking" /\ Plan[s] \subseteq Held(s) /\ UNCHANGED <<rows, reported>>
    BY <1>4 DEF Recheck, ended
  <2>2. CASE EmptyTargets(s)
    <3>1. pc'[s] = "dropping" /\ UNCHANGED <<lock, applied>>
      BY <1>4, <2>2 DEF Recheck
    <3>2. Climbing(s)' /\ Secured(s)'
      BY <2>1, <2>2, <3>1 DEF Climbing, Secured, EmptyTargets, Held
    <3>3. Truthful(s)' /\ Accounted(s)'
      BY <2>1, <3>1 DEF Truthful, Untouched, Accounted
    <3> QED
      BY <3>2, <3>3 DEF Knows
  <2>3. CASE ~EmptyTargets(s)
    <3>1. Conclude(s, 1, "no")
      BY <1>4, <2>3 DEF Recheck
    <3> QED
      BY <2>1, <3>1, ConcludeNothing
  <2> QED
    BY <2>2, <2>3
<1>5. CASE DropForeignKey(s) \/ LoadAndVerify(s)
  <2>1. /\ pc[s] = "dropping" /\ pc'[s] \in {"dropping", "committing"}
        /\ UNCHANGED <<rows, applied, reported>>
    BY <1>5 DEF DropForeignKey, LoadAndVerify, database, report, ended
  <2>2. \A t \in Table : lock[t] = s => lock'[t] = s
    BY <1>5 DEF DropForeignKey, Referenced, Take, LoadAndVerify, database
  <2>3. Climbing(s)' /\ Secured(s)'
    BY <2>1, <2>2 DEF Climbing, Secured
  <2>4. Truthful(s)' /\ Accounted(s)'
    BY <2>1 DEF Truthful, Untouched, Accounted
  <2> QED
    BY <2>3, <2>4 DEF Knows
<1>6. CASE DropTimeout(s) \/ ApplyFails(s) \/ CommitAborts(s)
  BY <1>6, ConcludeNothing DEF DropTimeout, ApplyFails, CommitAborts, RollBack, ended
<1> QED
  BY <1>1, <1>2, <1>3, <1>4, <1>5, <1>6

(* A commit loads every table of the snapshot (one transaction).           *)
LEMMA DurableLoads ==
  ASSUME LoadInv, NEW s \in Run, Durable(s) PROVE Loaded(s)'
BY PlanAssumption DEF LoadInv, TypeOK, Durable, Loaded

(* Steps from the commit on: rows are there or not as the report will say, *)
(* and a sequence is behind only if its receipt or the exit code tells.    *)
LEMMA OwnCommit ==
  ASSUME LoadInv, NEW s \in Run, Commit(s) \/ AckLost(s) \/ NotEnumerated(s) \/ Finish(s)
  PROVE  Knows(s)'
<1> USE NoneAssumption, PlanAssumption DEF LoadInv, TypeOK
<1>1. CASE Commit(s)
  <2>1. pc'[s] = "committed" /\ applied'[s] = "yes" /\ ~reported'[s]
    BY <1>1 DEF Commit, ended, Truthful
  <2>2. Loaded(s)'
    BY <1>1, DurableLoads DEF Commit
  <2> QED
    BY <2>1, <2>2 DEF Knows, Climbing, Secured, Truthful, Accounted
<1>2. CASE AckLost(s)
  <2>1. Conclude(s, 4, "unknown") /\ ~reported'[s]
    BY <1>2 DEF AckLost, ended, Truthful
  <2>2. pc'[s] = "reporting" /\ applied'[s] = "unknown" /\ outcome'[s] = 4
    BY <2>1 DEF Conclude
  <2> QED
    BY <2>1, <2>2 DEF Knows, Climbing, Secured, Truthful, Says, Accounted
<1>3. CASE NotEnumerated(s)
  <2>1. Conclude(s, 3, "yes") /\ ~reported'[s] /\ Loaded(s) /\ UNCHANGED rows
    BY <1>3 DEF NotEnumerated, database, ended, Truthful
  <2>2. pc'[s] = "reporting" /\ applied'[s] = "yes" /\ outcome'[s] = 3 /\ ~enumerated'[s]
    BY <1>3, <2>1 DEF Conclude, NotEnumerated
  <2>3. Loaded(s)'
    BY <2>1 DEF Loaded
  <2> QED
    BY <2>1, <2>2, <2>3 DEF Knows, Climbing, Secured, Truthful, Says, Accounted
<1>4. CASE Finish(s)
  <2> DEFINE code == IF \E t \in Table : receipt[s][t] = "error" THEN 3 ELSE 0
  <2>1. Conclude(s, code, "yes") /\ ~reported'[s] /\ Loaded(s)
    BY <1>4 DEF Finish, ended, Truthful
  <2>2. UNCHANGED <<rows, behind, receipt>>
    BY <1>4 DEF Finish, database
  <2>3. code \in {0, 3}
    OBVIOUS
  <2>4. pc'[s] = "reporting" /\ applied'[s] = "yes" /\ outcome'[s] = code
    BY <2>1 DEF Conclude
  <2>5. ASSUME NEW t \in Content[s], behind[t]
        PROVE  code = 3 /\ receipt[s][t] \in {"error", "pending"}
    <3>1. receipt[s][t] \in {"error", "pending"} /\ receipt[s][t] # "pending"
      BY <1>4, <2>5 DEF Finish, Accounted
    <3> QED
      BY <3>1
  <2>6. Accounted(s)'
    BY <2>2, <2>4, <2>5 DEF Accounted
  <2>7. Loaded(s)'
    BY <2>1, <2>2 DEF Loaded
  <2>8. Truthful(s)'
    BY <2>1, <2>3, <2>4, <2>7 DEF Truthful, Says
  <2> QED
    BY <2>4, <2>6, <2>8 DEF Knows, Climbing, Secured
<1> QED
  BY <1>1, <1>2, <1>3, <1>4

(* A receipt changes from pending to what came of it, and the sequence of  *)
(* a completed one is no longer behind (_finalize_sequences).              *)
LEMMA OwnReceipts ==
  ASSUME LoadInv, NEW s \in Run,
         \/ \E missed \in SUBSET Plan[s] : Discover(s, missed)
         \/ \E t \in Table : SetVal(s, t) \/ SetValFails(s, t)
  PROVE  Knows(s)'
<1> USE PlanAssumption DEF LoadInv, TypeOK
<1>1. /\ pc'[s] = "finalizing" /\ pc[s] \in {"committed", "finalizing"}
      /\ UNCHANGED <<rows, applied, reported>>
  BY DEF Discover, SetVal, SetValFails, database, ended
<1>2. Truthful(s)' /\ Climbing(s)' /\ Secured(s)'
  BY <1>1 DEF Truthful, Loaded, Climbing, Secured
<1>3. ~reported'[s]
  BY <1>1 DEF Truthful
<1>4. ASSUME NEW missed \in SUBSET Plan[s], Discover(s, missed) PROVE Accounted(s)'
  <2>1. \A t \in Content[s] : behind'[t] => t \in Plan[s] \cap Owning
    BY <1>4 DEF Discover, database
  <2>2. receipt'[s] = [t \in Table |-> IF t \in missed THEN "error"
                         ELSE IF t \in Plan[s] \cap Owning THEN "pending" ELSE "none"]
    BY <1>4 DEF Discover
  <2> QED
    BY <1>1, <1>3, <2>1, <2>2 DEF Accounted
<1>5. ASSUME NEW t \in Table, SetVal(s, t) PROVE Accounted(s)'
  <2>1. pc[s] = "finalizing" /\ Loaded(s)
    BY <1>5 DEF SetVal, Truthful
  <2>2. t \in Content[s] => ~behind'[t]
    BY <1>5, <2>1 DEF SetVal, Loaded
  <2>3. \A u \in Table : u # t => behind'[u] = behind[u] /\ receipt'[s][u] = receipt[s][u]
    BY <1>5 DEF SetVal, Receive
  <2> QED
    BY <1>1, <1>3, <2>1, <2>2, <2>3 DEF Accounted
<1>6. ASSUME NEW t \in Table, SetValFails(s, t) PROVE Accounted(s)'
  <2>1. pc[s] = "finalizing" /\ UNCHANGED behind
    BY <1>6 DEF SetValFails, database
  <2>2. \A u \in Table : receipt'[s][u] = IF u = t THEN "error" ELSE receipt[s][u]
    BY <1>6 DEF SetValFails, Receive
  <2> QED
    BY <1>1, <1>3, <2>1, <2>2 DEF Accounted
<1> QED
  BY <1>2, <1>4, <1>5, <1>6 DEF Knows

(* The end of the process, with the report or without.                     *)
LEMMA OwnEnd ==
  ASSUME LoadInv, NEW s \in Run, Report(s) \/ Uncaught(s) \/ Kill(s)
  PROVE  Knows(s)'
<1> USE PlanAssumption, NoneAssumption DEF LoadInv, TypeOK
<1>1. pc'[s] = "ended"
  BY DEF Report, Uncaught, Kill, End
<1>2. Climbing(s)' /\ Secured(s)'
  BY <1>1 DEF Climbing, Secured
<1>3. CASE Report(s)
  <2>1. /\ pc[s] = "reporting" /\ exit'[s] = outcome[s]
        /\ UNCHANGED <<rows, behind, outcome, applied, receipt, enumerated>>
    BY <1>3 DEF Report, End, database, report
  <2>2. Truthful(s)'
    BY <1>1, <2>1 DEF Truthful, Says, Loaded, Untouched
  <2>3. Accounted(s)'
    BY <1>1, <2>1 DEF Accounted
  <2> QED
    BY <1>2, <2>2, <2>3 DEF Knows
<1>4. CASE Uncaught(s) \/ Kill(s)
  <2>1. ~reported'[s]
    BY <1>4 DEF Uncaught, Kill, Truthful
  <2> QED
    BY <1>1, <1>2, <2>1 DEF Knows, Truthful, Accounted
<1> QED
  BY <1>3, <1>4

-----------------------------------------------------------------------------
(* The invariant                                                           *)

(* Before any run there is nothing to know.                                *)
LEMMA LoadInvInit == Init => LoadInv
<1> SUFFICES ASSUME Init PROVE LoadInv
  OBVIOUS
<1>1. TypeOK
  BY TypeInit
<1>2. \A r \in Run : Climbing(r) /\ Secured(r)
  BY NoneAssumption DEF Init, Climbing, Secured, Held
<1>3. ASSUME NEW r \in Run PROVE Truthful(r) /\ Accounted(r)
  <2>1. pc[r] = "idle" /\ applied[r] = "none" /\ ~reported[r]
    BY DEF Init
  <2>2. \A t \in Table : rows[t] \subseteq {Other}
    BY DEF Init
  <2>3. Untouched(r)
    BY <2>2, NoneAssumption DEF Untouched
  <2> QED
    BY <2>1, <2>3 DEF Truthful, Accounted
<1>4. OtherQuiet /\ NeverMixed /\ \A t \in Table : behind[t] => t \in Owning
  BY NoneAssumption DEF Init, OtherQuiet, NeverMixed
<1> QED
  BY <1>1, <1>2, <1>3, <1>4 DEF LoadInv

(* Whoever acts, every run knows afterwards what is true of it.            *)
LEMMA KnowsStep ==
  ASSUME LoadInv, Next, NEW s \in Run PROVE Knows(s)'
<1>1. CASE Acts(s)
  BY <1>1, OwnBefore, OwnCommit, OwnReceipts, OwnEnd DEF Acts, Step, Failure
<1>2. ASSUME NEW r \in Run, r # s, Acts(r) PROVE Knows(s)'
  BY <1>2, ActsUnmoved, ActsRows, OtherInv DEF Knows, LoadInv
<1>3. ASSUME NEW t \in Table,
             (\E r \in Run : Resume(r, t)) \/ OtherBegins(t) \/ OtherEnds(t)
      PROVE  Knows(s)'
  <2>1. Unmoved(s) /\ \A u \in Table : RowStep(u, Other)
    BY <1>3, OthersUnmoved, OthersRows DEF LoadInv
  <2> QED
    BY <2>1, OtherInv, NoneAssumption DEF Knows
<1> QED
  BY <1>1, <1>2, <1>3 DEF Next, Acts

(* Every step keeps the invariant.                                         *)
LEMMA LoadInvStep == LoadInv /\ [Next]_vars => LoadInv'
<1> SUFFICES ASSUME LoadInv, [Next]_vars PROVE LoadInv'
  OBVIOUS
<1>1. CASE UNCHANGED vars
  BY <1>1 DEF vars, database, report, ended, LoadInv, TypeOK, Climbing, Secured, Held,
     OtherQuiet, NeverMixed, Truthful, Says, Loaded, Untouched, Accounted
<1>2. CASE Next
  <2>1. TypeOK'
    BY TypeStep DEF LoadInv
  <2>2. \A s \in Run : Knows(s)'
    BY <1>2, KnowsStep
  <2>3. \A t \in Table : \E x \in Run \cup {Other} : RowStep(t, x)
    BY <1>2, ActsRows, OthersRows DEF Next, Acts
  <2>4. NeverMixed'
    BY <2>3 DEF NeverMixed, LoadInv, RowStep, Filled
  <2>5. \A t \in Table : behind'[t] => t \in Owning
    BY <2>3 DEF LoadInv, RowStep, Filled
  <2> QED
    BY <1>2, <2>1, <2>2, <2>4, <2>5, QuietStep DEF LoadInv, Knows
<1> QED
  BY <1>1, <1>2

(* The invariant holds of every reachable state.                           *)
LEMMA LoadInvariant == Spec => []LoadInv
BY LoadInvInit, LoadInvStep, PTL DEF Spec

(* No table ever holds rows of two runs, or of a run and of somebody else. *)
THEOREM RunsStayApart == Spec => []NeverMixed
BY LoadInvariant, PTL DEF LoadInv

(* Exit code and report never mislead about the rows of a run.             *)
THEOREM ReportsAreHonest == Spec => []HonestReport
<1>1. LoadInv => HonestReport
  <2> SUFFICES ASSUME LoadInv, NEW r \in Run, reported[r]
      PROVE  /\ applied[r] = "yes" => Loaded(r) /\ exit[r] \in {0, 3}
             /\ applied[r] \in {"none", "no"} => Untouched(r) /\ exit[r] \in {0, 1, 2}
             /\ applied[r] = "unknown" => exit[r] = 4
    BY DEF HonestReport
  <2> QED
    BY DEF LoadInv, Truthful, Says
<1> QED
  BY <1>1, LoadInvariant, PTL

(* No sequence is left behind without being in the operator's plan.        *)
THEOREM SequencesAccounted == Spec => []NoSequenceForgotten
<1>1. LoadInv => NoSequenceForgotten
  <2> SUFFICES ASSUME LoadInv, NEW r \in Run, reported[r], applied[r] = "yes",
                      NEW t \in Content[r], behind[t]
      PROVE  t \in ResumeOf(r)
    BY DEF NoSequenceForgotten
  <2>1. exit[r] = 3 /\ (enumerated[r] => receipt[r][t] \in {"error", "pending"})
    BY DEF LoadInv, Truthful, Accounted
  <2>2. t \in Plan[r] /\ t \in Table
    BY PlanAssumption
  <2> QED
    BY <2>1, <2>2 DEF ResumeOf
<1> QED
  BY <1>1, LoadInvariant, PTL

(* What a run waits for precedes what its holder waits for, so that no     *)
(* chain of waiting runs closes (_lock_and_recheck_empty).                 *)
THEOREM TargetsInOrder == Spec => []TargetsNeverDeadlock
<1>1. LoadInv => TargetsNeverDeadlock
  <2> SUFFICES ASSUME LoadInv, NEW r \in Run, NEW s \in Run, r # s,
                      pc[r] = "locking", pc[s] = "locking",
                      NEW t \in Needs(r), NEW u \in Needs(s), lock[t] = s
      PROVE  Rank[t] < Rank[u]
    BY DEF TargetsNeverDeadlock
  <2>1. t \in Held(s) /\ u \in Plan[s] \ Held(s)
    BY DEF Needs, NextLock, Held
  <2> QED
    BY <2>1 DEF LoadInv, Climbing
<1> QED
  BY <1>1, LoadInvariant, PTL

(* A snapshot that holds, with a table, all that its foreign keys          *)
(* reference, as that of a whole schema does.                              *)
WholeSnapshots ==
  \A r \in Run : \A t \in Plan[r], u \in Table : <<t, u>> \in Refs => u \in Plan[r]

(* Then no lock is left to be taken in mid-load.                           *)
LEMMA NothingReferenced ==
  ASSUME WholeSnapshots, LoadInv, NEW r \in Run, pc[r] = "dropping"
  PROVE  Needs(r) = {}
<1>1. Plan[r] \subseteq Held(r)
  BY PlanAssumption DEF LoadInv, Secured, Held
<1> QED
  BY <1>1 DEF WholeSnapshots, Needs, Referenced

(* What the loader says of its locks is true of whole snapshots, for any   *)
(* number of runs, tables and foreign keys: a load only ever waits for a   *)
(* foreign key to a table that it does not load (_save_and_drop_fks).      *)
THEOREM WholeSnapshotsNeverDeadlock ==
  ASSUME WholeSnapshots
  PROVE  Spec => []NoDeadlock
<1>1. LoadInv /\ TargetsNeverDeadlock => NoDeadlock
  <2> SUFFICES ASSUME LoadInv, TargetsNeverDeadlock, NEW r \in Run, NEW s \in Run, r # s,
                      NEW t \in Needs(r), lock[t] = s, NEW u \in Needs(s), lock[u] = r
      PROVE  FALSE
    BY DEF NoDeadlock, WaitsFor
  <2>1. pc[r] = "locking" /\ pc[s] = "locking"
    BY NothingReferenced DEF Needs
  <2>2. Rank[t] < Rank[u] /\ Rank[u] < Rank[t]
    BY <2>1 DEF TargetsNeverDeadlock
  <2>3. Rank[t] \in Nat /\ Rank[u] \in Nat
    BY RankAssumption DEF Needs
  <2> QED
    BY <2>2, <2>3
<1> QED
  BY <1>1, LoadInvariant, TargetsInOrder, PTL

-----------------------------------------------------------------------------
(* DataLoader implements LoadPromise: every step of every run, of the      *)
(* operator and of other sessions maps to a step of the promise or none.   *)

(* The verdict of every run, which the promise speaks of.                  *)
Verdicts == [r \in Run |-> Verdict(r)]

(* What the verdict of a run is, by what it has announced.                 *)
LEMMA VerdictOf ==
  ASSUME NEW r \in Run
  PROVE  /\ ~reported[r] /\ pc[r] # "ended" => Verdict(r) = "pending"
         /\ ~reported[r] /\ pc[r] = "ended" => Verdict(r) = "silent"
         /\ reported[r] /\ applied[r] = "yes" => Verdict(r) = "loaded"
         /\ reported[r] /\ applied[r] = "unknown" => Verdict(r) = "unknown"
         /\ reported[r] /\ applied[r] \in {"none", "no"} => Verdict(r) = "nothing"
BY DEF Verdict

(* A run that is not moved announces nothing.                              *)
LEMMA UnmovedVerdict ==
  ASSUME NEW s \in Run, Unmoved(s) PROVE Verdict(s)' = Verdict(s)
BY DEF Unmoved, Verdict

(* The verdicts change at most at the run that acts.                       *)
LEMMA ActsVerdict ==
  ASSUME TypeOK, NEW r \in Run, Acts(r)
  PROVE  Verdicts' = [Verdicts EXCEPT ![r] = Verdict(r)']
<1>1. \A s \in Run : s # r => Verdict(s)' = Verdict(s)
  BY ActsUnmoved, UnmovedVerdict
<1> QED
  BY <1>1 DEF Verdicts

(* A durable commit is a load (rows are written only under the locks).     *)
LEMMA DurableIsLoad ==
  ASSUME LoadInv, NEW r \in Run, Acts(r), pc[r] = "committing", Durable(r),
         Verdict(r)' \in {"pending", "silent"}
  PROVE  Promise!Load(r)
<1> USE PlanAssumption
<1>1. ~reported[r] /\ Verdict(r) = "pending"
  BY VerdictOf DEF LoadInv, Truthful
<1>2. \A t \in Content[r] : rows[t] = {}
  BY DEF LoadInv, Secured
<1>3. rows' = [t \in Table |-> IF t \in Content[r] THEN {r} ELSE rows[t]]
  BY <1>2 DEF Durable
<1>4. Verdicts' = [Verdicts EXCEPT ![r] = Verdict(r)']
  BY ActsVerdict DEF LoadInv
<1>5. Verdicts' \in {Verdicts, [Verdicts EXCEPT ![r] = "silent"]}
  BY <1>1, <1>4 DEF Verdicts
<1> QED
  BY <1>1, <1>2, <1>3, <1>5 DEF Promise!Load, Verdicts

(* A run that announces v of the rows, which do not change, may do so when *)
(* v is true of them.                                                      *)
LEMMA Announces ==
  ASSUME LoadInv, NEW r \in Run, Acts(r), UNCHANGED rows, Verdict(r) = "pending",
         NEW v \in {"loaded", "nothing", "unknown", "silent"}, Verdict(r)' = v,
         v = "loaded" => Loaded(r), v = "nothing" => Untouched(r)
  PROVE  Promise!Next
<1>1. Verdicts' = [Verdicts EXCEPT ![r] = v]
  BY ActsVerdict DEF LoadInv
<1>2. v = "loaded" => \A t \in Content[r] : rows[t] = {r}
  BY PlanAssumption DEF LoadInv, Loaded, NeverMixed, TypeOK
<1>3. Promise!Announce(r, v)
  BY <1>1, <1>2 DEF Promise!Announce, Untouched, Verdicts
<1> QED
  BY <1>3 DEF Promise!Next

(* Steps of a run: a commit loads, the end announces, and the rest is      *)
(* invisible.                                                              *)
LEMMA ActsPromise ==
  ASSUME LoadInv, NEW r \in Run, Acts(r)
  PROVE  Promise!Next \/ UNCHANGED <<rows, Verdicts>>
<1> USE DEF LoadInv, TypeOK
<1>1. CASE pc[r] = "committing" /\ Durable(r) /\ (Commit(r) \/ AckLost(r) \/ Kill(r))
  <2>1. Verdict(r)' \in {"pending", "silent"}
    <3>1. ~reported'[r]
      BY <1>1 DEF Truthful, Commit, AckLost, Kill, ended
    <3> QED
      BY <3>1 DEF Verdict
  <2> QED
    BY <1>1, <2>1, DurableIsLoad DEF Promise!Next
<1>2. CASE Report(r)
  <2>1. /\ pc[r] = "reporting" /\ ~reported[r] /\ Verdict(r) = "pending"
        /\ reported'[r] /\ UNCHANGED <<rows, applied>> /\ Says(r)
    BY <1>2, VerdictOf DEF Report, End, database, report, Truthful
  <2>2. applied[r] \in {"none", "no", "yes", "unknown"}
    OBVIOUS
  <2>3. CASE applied[r] = "yes"
    <3>1. Verdict(r)' = "loaded" /\ Loaded(r)
      BY <2>1, <2>3 DEF Verdict, Says
    <3> QED
      BY <2>1, <3>1, Announces
  <2>4. CASE applied[r] = "unknown"
    <3>1. Verdict(r)' = "unknown"
      BY <2>1, <2>4 DEF Verdict
    <3> QED
      BY <2>1, <3>1, Announces
  <2>5. CASE applied[r] \in {"none", "no"}
    <3>1. Verdict(r)' = "nothing" /\ Untouched(r)
      BY <2>1, <2>5 DEF Verdict, Says
    <3> QED
      BY <2>1, <3>1, Announces
  <2> QED
    BY <2>2, <2>3, <2>4, <2>5
<1>3. CASE Uncaught(r) \/ (Kill(r) /\ UNCHANGED rows)
  <2>1. pc[r] # "ended" /\ pc'[r] = "ended" /\ ~reported[r] /\ ~reported'[r]
    BY <1>3 DEF Uncaught, Kill, End, Truthful
  <2>2. Verdict(r) = "pending" /\ Verdict(r)' = "silent" /\ UNCHANGED rows
    BY <1>3, <2>1 DEF Verdict, Uncaught
  <2> QED
    BY <2>2, Announces
<1>4. CASE UNCHANGED rows /\ ~Report(r) /\ ~Uncaught(r) /\ ~Kill(r)
  <2>1. pc[r] # "ended" /\ ~reported[r] /\ ~reported'[r] /\ pc'[r] # "ended"
    <3>1. pc[r] # "ended" /\ UNCHANGED reported
      <4>1. CASE Start(r) \/ LockTarget(r) \/ LockTimeout(r) \/ Recheck(r)
        BY <4>1 DEF Start, LockTarget, LockTimeout, Recheck, ended
      <4>2. CASE DropForeignKey(r) \/ DropTimeout(r) \/ LoadAndVerify(r) \/ Commit(r)
        BY <4>2 DEF DropForeignKey, DropTimeout, RollBack, LoadAndVerify, Commit, ended
      <4>3. CASE \/ \E missed \in SUBSET Plan[r] : Discover(r, missed)
                 \/ \E t \in Table : SetVal(r, t) \/ SetValFails(r, t)
                 \/ Finish(r) \/ NotEnumerated(r)
        BY <4>3 DEF Discover, SetVal, SetValFails, Finish, NotEnumerated, ended
      <4>4. CASE ApplyFails(r) \/ CommitAborts(r) \/ AckLost(r)
        BY <4>4 DEF ApplyFails, CommitAborts, RollBack, AckLost, ended
      <4> QED
        BY <1>4, <4>1, <4>2, <4>3, <4>4 DEF Acts, Step, Failure
    <3>2. pc'[r] # "ended"
      <4>c. ASSUME NEW code, NEW a, Conclude(r, code, a) PROVE pc'[r] # "ended"
        BY <4>c DEF Conclude
      <4>1. CASE Start(r)
        <5>1. pc' = [pc EXCEPT ![r] = "locking"] \/ \E code, a : Conclude(r, code, a)
          BY <4>1 DEF Start
        <5> QED
          BY <5>1, <4>c
      <4>2. CASE LockTarget(r) \/ LockTimeout(r)
        BY <4>2, <3>1, <4>c DEF LockTarget, LockTimeout
      <4>3. CASE Recheck(r)
        BY <4>3, <4>c DEF Recheck
      <4>4. CASE DropForeignKey(r) \/ LoadAndVerify(r) \/ Commit(r)
        BY <4>4, <3>1 DEF DropForeignKey, LoadAndVerify, Commit
      <4>5. CASE \/ \E missed \in SUBSET Plan[r] : Discover(r, missed)
                 \/ \E t \in Table : SetVal(r, t) \/ SetValFails(r, t)
        BY <4>5, <3>1 DEF Discover, SetVal, SetValFails
      <4>6. CASE \/ Finish(r) \/ NotEnumerated(r) \/ AckLost(r)
                 \/ DropTimeout(r) \/ ApplyFails(r) \/ CommitAborts(r)
        BY <4>6, <4>c DEF Finish, NotEnumerated, AckLost, DropTimeout, ApplyFails,
           CommitAborts, RollBack
      <4> QED
        BY <1>4, <4>1, <4>2, <4>3, <4>4, <4>5, <4>6 DEF Acts, Step, Failure
    <3> QED
      BY <3>1, <3>2 DEF Truthful
  <2>2. Verdict(r)' = Verdict(r)
    BY <2>1 DEF Verdict
  <2>3. Verdicts' = Verdicts
    BY <2>2, ActsVerdict DEF Verdicts
  <2> QED
    BY <1>4, <2>3
<1>5. \/ UNCHANGED rows
      \/ pc[r] = "committing" /\ Durable(r) /\ (Commit(r) \/ AckLost(r) \/ Kill(r))
  <2>1. CASE Start(r) \/ LockTarget(r) \/ LockTimeout(r) \/ Recheck(r)
    BY <2>1 DEF Start, LockTarget, LockTimeout, Recheck, database
  <2>2. CASE DropForeignKey(r) \/ DropTimeout(r) \/ LoadAndVerify(r) \/ Commit(r)
    BY <2>2 DEF DropForeignKey, DropTimeout, RollBack, LoadAndVerify, Commit, database
  <2>3. CASE \/ \E missed \in SUBSET Plan[r] : Discover(r, missed)
             \/ \E t \in Table : SetVal(r, t) \/ SetValFails(r, t)
             \/ Finish(r) \/ Report(r) \/ NotEnumerated(r)
    BY <2>3 DEF Discover, SetVal, SetValFails, Finish, Report, NotEnumerated, database
  <2>4. CASE ApplyFails(r) \/ CommitAborts(r) \/ AckLost(r) \/ Uncaught(r) \/ Kill(r)
    BY <2>4 DEF ApplyFails, CommitAborts, RollBack, AckLost, Uncaught, Kill
  <2> QED
    BY <2>1, <2>2, <2>3, <2>4 DEF Acts, Step, Failure
<1> QED
  BY <1>1, <1>2, <1>3, <1>4, <1>5

(* The operator is invisible, and another session inserts.                 *)
LEMMA OthersPromise ==
  ASSUME LoadInv, NEW t \in Table,
         (\E r \in Run : Resume(r, t)) \/ OtherBegins(t) \/ OtherEnds(t)
  PROVE  Promise!Next \/ UNCHANGED <<rows, Verdicts>>
<1>1. Verdicts' = Verdicts
  BY OthersUnmoved, UnmovedVerdict DEF Verdicts, LoadInv
<1>2. CASE UNCHANGED rows
  BY <1>1, <1>2
<1>3. CASE OtherEnds(t) /\ rows' = [rows EXCEPT ![t] = {Other}]
  <2>1. rows[t] = {}
    BY <1>3 DEF OtherEnds, LoadInv, OtherQuiet
  <2> QED
    BY <1>1, <1>3, <2>1 DEF Promise!Next, Promise!Insert, Verdicts
<1> QED
  BY <1>2, <1>3 DEF Resume, OtherBegins, OtherEnds

(* The loader keeps its promise: rows go into empty tables only, all of a  *)
(* snapshot or nothing, and what a run announces is true for good.         *)
THEOREM LoaderKeepsPromise == Spec => KeepsLoadPromise
<1>1. Init => Promise!Init
  BY DEF Init, Promise!Init, Verdict
<1>2. LoadInv /\ [Next]_vars => [Promise!Next]_(Promise!vars)
  <2> SUFFICES ASSUME LoadInv, [Next]_vars
               PROVE  Promise!Next \/ UNCHANGED <<rows, Verdicts>>
    BY DEF Promise!vars, Verdicts
  <2>1. CASE UNCHANGED vars
    BY <2>1 DEF vars, database, report, ended, Verdicts, Verdict
  <2> QED
    BY <2>1, ActsPromise, OthersPromise DEF Next, Acts
<1> QED
  BY <1>1, <1>2, LoadInvariant, PTL DEF Spec, KeepsLoadPromise, Promise!Spec
=============================================================================
