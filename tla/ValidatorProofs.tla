--------------------------- MODULE ValidatorProofs ---------------------------
(***************************************************************************)
(* What Validator guarantees for every timeout, every set of texts, names  *)
(* and answers, and any number of edits: types, the verdict, the container *)
(* that is removed, the budget of time, and no SQL to the init server.     *)
(*                                                                         *)
(* The verdict and the files are found in different phases, so each part   *)
(* of the invariant says what the phases before have left for the later.   *)
(***************************************************************************)
EXTENDS QueueAttempt, TLAPS

USE DEF OneSecond

-----------------------------------------------------------------------------
(* The inductive invariant                                                 *)

Findings ==
  [compiled: BOOLEAN, unchecked: BOOLEAN, errors: BOOLEAN, rows: Answers \cup {<<>>}]

Types == TypeOK /\ result \in Findings

Before == {"idle", "record", "read", "daemon", "image"}
AfterRead == {"daemon", "image", "remove", "rehash", "pending_review"} \cup Attempted

(* There is no verdict before one is concluded, and then it is what the    *)
(* findings come to.                                                       *)
VerdictFound ==
  /\ pc \in Before \cup Attempted => status = "none"
  /\ status = "passed" => Combined(result) = "passed"
  /\ pc = "pending_review" => status = "passed" /\ file = input

(* An unedited file is what was hashed, one that was edited once is not.   *)
EditsTold ==
  \A n \in File :
    /\ pc = "idle" => edits[n] = 0
    /\ pc # "idle" /\ edits[n] = 0 => file[n] = input[n]
    /\ pc # "idle" /\ edits[n] = 1 => file[n] # input[n]

(* What was read of an unedited file is what was hashed.                   *)
SqlTold ==
  /\ pc = "read" /\ edits["dependencies"] = 0 => sql["dependencies"] = input["dependencies"]
  /\ pc \in AfterRead => \A n \in File : edits[n] = 0 => sql[n] = input[n]

(* There is a container only after `docker run'.                           *)
ContainerTold == (pc \in Before => server = "none") /\ NoContainerLeft

(* Before the removal the clock is within the budget and its grace, and    *)
(* waiting for the server ends with the budget.                            *)
TimeTold ==
  /\ pc \in Before \cup Attempted \cup {"remove"} => clock < Deadline + OneSecond
  /\ pc = "ready" => stop <= Deadline \/ stop <= clock
  /\ WithinBudget

-----------------------------------------------------------------------------
(* Commands and the clock                                                  *)

LEMMA DeadlineNat == Deadline \in Nat /\ Deadline >= OneSecond
BY TimeAssumption DEF Deadline, Larger

(* A command ends before the limit that _run gives it, which is less than  *)
(* a second over the deadline.                                             *)
LEMMA CommandTime ==
  ASSUME clock \in Nat
  PROVE  /\ Answer => clock' \in Nat /\ clock <= clock' /\ clock' < Deadline + OneSecond
         /\ OutOfTime => clock' \in Nat /\ clock <= clock'
                         /\ (clock < Deadline + OneSecond => clock' < Deadline + OneSecond)
         /\ clock < Deadline /\ clock' \in (clock + 1)..Limit =>
              clock' \in Nat /\ clock <= clock' /\ clock' < Deadline + OneSecond
BY DeadlineNat DEF Answer, OutOfTime, Limit, Larger

(* What _await_ready waits for ends with the budget, or at once.           *)
LEMMA ReadyTime ==
  ASSUME NEW now \in Nat, NEW until,
         until = now + Smaller(IF now < Deadline THEN Deadline - now ELSE 0, ReadyCap)
  PROVE  until \in Nat /\ (until <= Deadline \/ until <= now)
<1>1. CASE now < Deadline
  BY <1>1, DeadlineNat, TimeAssumption DEF Smaller
<1>2. CASE ~(now < Deadline)
  BY <1>2, DeadlineNat, TimeAssumption DEF Smaller
<1> QED
  BY <1>1, <1>2

LEMMA RemovalTime ==
  ASSUME clock \in Nat, Removed \/ NotRemoved \/ RemoveTimesOut
  PROVE  clock' \in Nat /\ clock' <= clock + RemoveTimeout
BY TimeAssumption DEF Removed, NotRemoved, RemoveTimesOut

-----------------------------------------------------------------------------
(* Types                                                                   *)

LEMMA StepTypes ==
  ASSUME Types, [Next]_vars
  PROVE  Types'
<1> USE DEF Types, TypeOK, Findings, world
<1>c. ASSUME NEW s \in {"passed", "failed", "blocked", "raised"}, Conclude(s)
      PROVE  /\ status' \in {"passed", "failed", "blocked", "raised"}
             /\ pc' \in {"remove", "claimed", "rehash"}
  BY <1>c DEF Conclude
<1>d. ASSUME NEW r PROVE Combined(r) \in {"passed", "failed", "blocked"}
  BY DEF Combined
<1>1. CASE Call
  BY <1>1 DEF Call, Phase
<1>2. CASE Record
  <2>1. sql' \in [File -> Text \cup {Absent}]
    BY <1>2 DEF Record, File
  <2> QED
    BY <1>2, <2>1 DEF Record, Phase
<1>3. CASE Read
  <2>1. sql' \in [File -> Text \cup {Absent}]
    <3>1. sql' = [n \in File |-> IF n = "dependencies" /\ sql[n] = Absent THEN Absent ELSE file[n]]
      BY <1>3 DEF Read
    <3> QED
      BY <3>1
  <2>2. Conclude("raised") \/ Conclude("blocked") \/ (pc' = "daemon" /\ UNCHANGED status)
    BY <1>3 DEF Read
  <2>3. UNCHANGED <<world, input, server, clock, stop, result, removal>>
    BY <1>3 DEF Read
  <2> QED
    BY <2>1, <2>2, <2>3, <1>c DEF Phase, Ended
<1>4. CASE Preflight \/ ProbeReady \/ ProbeAgain \/ Setup
  <2>1. clock' \in Nat
    BY <1>4, CommandTime, DeadlineNat
       DEF Preflight, ProbeReady, ProbeAgain, Setup, OnServer, Success, Limit, Larger
  <2> QED
    BY <1>4, <2>1 DEF Preflight, ProbeReady, ProbeAgain, Setup, Phase, Attempted
<1>5. CASE StartContainer
  <2>1. clock' \in Nat
    BY <1>5, CommandTime DEF StartContainer, Success
  <2>2. stop' \in Nat
    BY <1>5, <2>1, ReadyTime DEF StartContainer
  <2> QED
    BY <1>5, <2>1, <2>2 DEF StartContainer, Phase, Attempted
<1>6. CASE NeverReady \/ CompileFails
  <2>1. clock' \in Nat
    BY <1>6, CommandTime DEF NeverReady, CompileFails
  <2> QED
    BY <1>6, <2>1, <1>c, <1>d DEF NeverReady, CompileFails, Phase, Ended
<1>7. CASE Compiles \/ Discover \/ DeepCheck
  <2>1. clock' \in Nat
    BY <1>7, CommandTime DEF Compiles, Discover, DeepCheck, OnServer, Success
  <2>2. result' \in Findings
    BY <1>7 DEF Compiles, Discover, DeepCheck
  <2> QED
    BY <1>7, <2>1, <2>2 DEF Compiles, Discover, DeepCheck, Phase, Attempted
<1>8. CASE Behaviour
  <2>1. clock' \in Nat
    BY <1>8, CommandTime DEF Behaviour, OnServer, Success
  <2>2. result' \in Findings
    BY <1>8 DEF Behaviour
  <2> QED
    BY <1>8, <2>1, <2>2, <1>c, <1>d DEF Behaviour, Phase, Ended
<1>9. CASE GivesUp \/ Interrupted
  <2>1. clock' \in Nat
    BY <1>9, CommandTime DEF GivesUp, Interrupted
  <2> QED
    BY <1>9, <2>1, <1>c DEF GivesUp, Interrupted, Phase, Ended
<1>10. CASE Remove
  <2>1. clock' \in Nat /\ server' \in {"none", server} /\ removal' \in {"done", "failed"}
    BY <1>10, RemovalTime DEF Remove, Removed, NotRemoved, RemoveTimesOut
  <2> QED
    BY <1>10, <2>1 DEF Remove, Phase, Ended
<1>11. CASE Rehash \/ Killed
  BY <1>11 DEF Rehash, Killed, Phase, Ended
<1>12. ASSUME NEW n \in File, NEW text \in Text \cup {Absent}, Edit(n, text)
       PROVE  Types'
  BY <1>12 DEF Edit
<1>13. CASE DaemonChanges \/ ServerChanges
  BY <1>13 DEF DaemonChanges, ServerChanges
<1>14. CASE UNCHANGED vars
  BY <1>14 DEF vars
<1> QED
  BY <1>1, <1>2, <1>3, <1>4, <1>5, <1>6, <1>7, <1>8, <1>9, <1>10, <1>11, <1>12, <1>13, <1>14 DEF Next, Step

-----------------------------------------------------------------------------
(* The inputs                                                              *)

Editing == \E n \in File, text \in Text \cup {Absent} : Edit(n, text)

(* Each file variable has its writers, and each phase its way in.          *)
LEMMA Writers ==
  ASSUME Types, [Next]_vars
  PROVE  /\ Call \/ UNCHANGED input
         /\ Editing \/ UNCHANGED <<file, edits>>
         /\ Record \/ Read \/ UNCHANGED sql
         /\ Call \/ (pc = "idle" <=> pc' = "idle")
         /\ pc' = "read" => Record \/ pc = "read"
         /\ pc' \in AfterRead => Read \/ pc \in AfterRead
<1> USE DEF world
<1>c. ASSUME NEW s, Conclude(s)
      PROVE  /\ pc' \in {"remove", "rehash", "claimed"}
             /\ pc' # "claimed" => pc \in Attempted \/ s # "raised"
  BY <1>c DEF Conclude
<1>1. CASE Call \/ Record
  BY <1>1 DEF Call, Record, AfterRead, Attempted
<1>2. CASE Read
  <2>1. \/ Conclude("raised") \/ Conclude("blocked")
        \/ pc' = "daemon"
    BY <1>2 DEF Read
  <2> QED
    BY <1>2, <2>1, <1>c DEF Read
<1>3. CASE Preflight \/ StartContainer \/ ProbeReady \/ ProbeAgain \/ Setup
  BY <1>3 DEF Preflight, StartContainer, ProbeReady, ProbeAgain, Setup, AfterRead, Attempted
<1>4. CASE NeverReady \/ CompileFails \/ Behaviour
  BY <1>4, <1>c DEF NeverReady, CompileFails, Behaviour, AfterRead, Attempted
<1>5. CASE Compiles \/ Discover \/ DeepCheck
  BY <1>5 DEF Compiles, Discover, DeepCheck, AfterRead, Attempted
<1>6. CASE GivesUp
  BY <1>6, <1>c DEF GivesUp, AfterRead, Attempted
<1>7. CASE Interrupted
  BY <1>7, <1>c DEF Interrupted, AfterRead, Phase, Attempted
<1>8. CASE Remove \/ Rehash \/ Killed
  BY <1>8 DEF Remove, Rehash, Killed, AfterRead, Phase, Attempted
<1>9. CASE Editing
  BY <1>9 DEF Editing, Edit
<1>10. CASE DaemonChanges \/ ServerChanges \/ UNCHANGED vars
  BY <1>10 DEF DaemonChanges, ServerChanges, vars
<1> QED
  BY <1>1, <1>2, <1>3, <1>4, <1>5, <1>6, <1>7, <1>8, <1>9, <1>10 DEF Next, Step, Editing

LEMMA StepEdits ==
  ASSUME Types, EditsTold, [Next]_vars
  PROVE  EditsTold'
<1>1. CASE Call
  BY <1>1 DEF Call, EditsTold, world
<1>2. ASSUME NEW n \in File, NEW text \in Text \cup {Absent}, Edit(n, text)
      PROVE  EditsTold'
  <2>1. /\ pc \in Phase /\ UNCHANGED <<pc, input>>
        /\ file' = [file EXCEPT ![n] = text] /\ edits' = [edits EXCEPT ![n] = @ + 1]
        /\ file[n] # text
    BY <1>2 DEF Edit
  <2>2. pc # "idle" /\ file \in [File -> Text \cup {Absent}] /\ edits \in [File -> Nat]
    BY <2>1 DEF Phase, Attempted, Types, TypeOK
  <2>3. edits[n] \in Nat /\ edits'[n] = edits[n] + 1 /\ file'[n] = text
    BY <2>1, <2>2
  <2>4. edits[n] = 0 => file[n] = input[n]
    BY <2>2 DEF EditsTold
  <2>5. \A m \in File \ {n} : edits'[m] = edits[m] /\ file'[m] = file[m]
    BY <2>1, <2>2
  <2> QED
    BY <2>1, <2>2, <2>3, <2>4, <2>5 DEF EditsTold
<1>3. CASE ~Call /\ ~Editing
  BY <1>3, Writers DEF EditsTold
<1> QED
  BY <1>1, <1>2, <1>3 DEF Editing

(* An edit is never taken back from the count.                             *)
LEMMA EditsGrow ==
  ASSUME Types, [Next]_vars, NEW n \in File, edits'[n] = 0 PROVE edits[n] = 0
<1>1. ASSUME NEW m \in File, NEW text \in Text \cup {Absent}, Edit(m, text)
      PROVE  edits[n] = 0
  <2>1. edits' = [edits EXCEPT ![m] = @ + 1] /\ edits \in [File -> Nat]
    BY <1>1 DEF Edit, Types, TypeOK
  <2>2. edits[n] \in Nat /\ edits'[n] = IF n = m THEN edits[n] + 1 ELSE edits[n]
    BY <2>1
  <2> QED
    BY <2>2
<1> QED
  BY <1>1, Writers DEF Editing

LEMMA StepSql ==
  ASSUME Types, EditsTold, SqlTold, [Next]_vars
  PROVE  SqlTold'
<1>1. CASE Record
  <2>1. /\ sql'["dependencies"] = IF input["dependencies"] = Absent
                                  THEN Absent ELSE file["dependencies"]
        /\ pc = "record" /\ pc' = "read" /\ UNCHANGED <<input, edits>>
    BY <1>1 DEF Record, Types, TypeOK, File, world
  <2> QED
    BY <2>1 DEF SqlTold, EditsTold, AfterRead, Attempted, File
<1>2. CASE Read
  <2>1. /\ pc = "read" /\ pc' # "read" /\ UNCHANGED <<input, edits>>
        /\ \A n \in File : sql'[n] = IF n = "dependencies" /\ sql[n] = Absent
                                      THEN Absent ELSE file[n]
    BY <1>2 DEF Read, Conclude, world
  <2>2. \A n \in File : edits[n] = 0 => file[n] = input[n]
    BY <2>1 DEF EditsTold
  <2> QED
    BY <2>1, <2>2 DEF SqlTold
<1>3. CASE Call
  BY <1>3 DEF Call, SqlTold, AfterRead, Attempted
<1>4. CASE ~Record /\ ~Read /\ ~Call
  BY <1>4, Writers, EditsGrow DEF SqlTold, File
<1> QED
  BY <1>1, <1>2, <1>3, <1>4

-----------------------------------------------------------------------------
(* The verdict                                                             *)

LEMMA StepVerdict ==
  ASSUME Types, VerdictFound, [Next]_vars
  PROVE  VerdictFound'
<1> USE DEF world
<1>a. /\ pc \in Before \cup Attempted => status = "none"
      /\ status = "passed" => Combined(result) = "passed"
      /\ pc = "pending_review" => status = "passed" /\ file = input
  BY DEF VerdictFound
<1>c. ASSUME NEW s \in {"passed", "failed", "blocked", "raised"}, Conclude(s),
             s = "passed" => Combined(result') = "passed"
      PROVE  VerdictFound'
  BY <1>c DEF Conclude, VerdictFound, Before, Attempted
<1>d. ASSUME NEW r PROVE Combined(r) \in {"passed", "failed", "blocked"}
  BY DEF Combined
<1>e. ASSUME pc \in Before \cup Attempted, UNCHANGED status, pc' # "pending_review"
      PROVE  VerdictFound'
  BY <1>a, <1>e DEF VerdictFound
<1>1. CASE Call \/ Record \/ Preflight \/ StartContainer
  BY <1>1, <1>e DEF Call, Record, Preflight, StartContainer, Before, Attempted
<1>2. CASE Read
  <2>1. Conclude("raised") \/ Conclude("blocked") \/ (pc' = "daemon" /\ UNCHANGED status)
    BY <1>2 DEF Read
  <2>2. pc = "read"
    BY <1>2 DEF Read
  <2> QED
    BY <2>1, <2>2, <1>c, <1>e DEF Before
<1>3. CASE ProbeReady \/ ProbeAgain \/ Setup
  BY <1>3, <1>e DEF ProbeReady, ProbeAgain, Setup, Attempted
<1>4. CASE Compiles \/ Discover \/ DeepCheck
  BY <1>4, <1>e DEF Compiles, Discover, DeepCheck, Attempted
<1>5. CASE CompileFails
  BY <1>5, <1>c, <1>d DEF CompileFails
<1>6. CASE Behaviour
  BY <1>6, <1>c, <1>d DEF Behaviour
<1>7. CASE NeverReady \/ GivesUp \/ Interrupted
  BY <1>7, <1>c DEF NeverReady, GivesUp, Interrupted
<1>8. CASE Remove
  BY <1>8, <1>a DEF Remove, VerdictFound, Before, Attempted
<1>9. CASE Rehash
  BY <1>9, <1>a DEF Rehash, Unchanged, VerdictFound, Before, Attempted
<1>10. CASE Killed
  BY <1>10, <1>a DEF Killed, VerdictFound, Before, Attempted
<1>11. CASE Editing
  BY <1>11, <1>a DEF Editing, Edit, VerdictFound, Phase, Attempted
<1>12. CASE DaemonChanges \/ ServerChanges \/ UNCHANGED vars
  BY <1>12, <1>a DEF DaemonChanges, ServerChanges, vars, VerdictFound
<1> QED
  BY <1>1, <1>2, <1>3, <1>4, <1>5, <1>6, <1>7, <1>8, <1>9, <1>10, <1>11, <1>12
     DEF Next, Step, Editing

(* Findings that come to a pass: compiled, no routine unchecked or wrong,  *)
(* and rows under names of their own, all of them TRUE.                    *)
LEMMA PassedFindings ==
  ASSUME Types, Combined(result) = "passed"
  PROVE  /\ result.compiled /\ ~result.unchecked /\ ~result.errors
         /\ \E i \in DOMAIN result.rows : TRUE
         /\ \A i \in DOMAIN result.rows :
              /\ result.rows[i].passed = "t" /\ result.rows[i].name \in Name
              /\ \A j \in DOMAIN result.rows :
                   result.rows[j].name = result.rows[i].name => j = i
<1> DEFINE rows == result.rows
           Row == [name: Name \cup {Null}, passed: {"t", "f", Null}]
<1>1. result.compiled /\ DeepChecked(result) = "pass" /\ Asserted(rows) = "pass"
  <2>1. DeepChecked(result) \in {"block", "fail", "pass"}
    BY DEF DeepChecked
  <2>2. Asserted(rows) \in {"block", "fail", "pass"}
    BY Zenon DEF Asserted
  <2> QED
    BY <2>1, <2>2 DEF Combined
<1>2. ~result.unchecked /\ ~result.errors
  BY <1>1 DEF DeepChecked
<1>3. /\ rows # <<>>
      /\ \A i \in DOMAIN rows :
           /\ rows[i].name # Null /\ rows[i].passed # Null /\ rows[i].passed # "f"
           /\ \A j \in 1..(i - 1) : rows[j].name # rows[i].name
  BY <1>1 DEF Asserted
<1>4. rows \in Seq(Row)
  <2>1. rows \in Answers
    BY <1>3 DEF Types, TypeOK
  <2> QED
    BY <2>1, RowAssumption
<1> HIDE DEF rows, Row
<1>5. Len(rows) \in Nat /\ DOMAIN rows = 1..Len(rows) /\ Len(rows) # 0
  BY <1>3, <1>4
<1>6. \E i \in DOMAIN rows : TRUE
  <2>1. 1 \in DOMAIN rows
    BY <1>5
  <2> QED
    BY <2>1
<1>7. ASSUME NEW i \in DOMAIN rows
      PROVE  rows[i].passed = "t" /\ rows[i].name \in Name
  <2>1. rows[i] \in Row
    BY <1>4, <1>5
  <2> QED
    BY <1>3, <2>1 DEF Row
<1>8. ASSUME NEW i \in DOMAIN rows, NEW j \in DOMAIN rows, rows[j].name = rows[i].name
      PROVE  j = i
  <2>1. i \in Nat /\ j \in Nat /\ 1 <= i /\ 1 <= j
    BY <1>5
  <2>2. j < i => j \in 1..(i - 1)
    BY <2>1
  <2>3. i < j => i \in 1..(j - 1)
    BY <2>1
  <2> QED
    BY <1>3, <1>8, <2>1, <2>2, <2>3
<1> QED
  BY <1>1, <1>2, <1>6, <1>7, <1>8 DEF rows

-----------------------------------------------------------------------------
(* The container and the server                                            *)

LEMMA StepContainer ==
  ASSUME Types, ContainerTold, SqlOnFinalServer, [Next]_vars
  PROVE  ContainerTold' /\ SqlOnFinalServer'
<1> USE DEF ContainerTold, NoContainerLeft, SqlOnFinalServer, world
<1>c. ASSUME NEW s, Conclude(s), UNCHANGED removal,
             pc \in Attempted \/ (pc \in Before /\ server' = "none")
      PROVE  ContainerTold' /\ SqlOnFinalServer'
  <2>1. \/ pc' = "remove"
        \/ pc \notin Attempted /\ server' = "none" /\ pc' \in {"claimed", "rehash"}
    BY <1>c DEF Conclude
  <2> QED
    BY <2>1 DEF Before
<1>1. CASE Call \/ Record \/ Preflight
  BY <1>1 DEF Call, Record, Preflight, Before
<1>2. CASE Read
  <2>1. Conclude("raised") \/ Conclude("blocked") \/ (pc' = "daemon" /\ UNCHANGED status)
    BY <1>2 DEF Read
  <2>2. pc = "read" /\ UNCHANGED <<server, removal>>
    BY <1>2 DEF Read
  <2> QED
    BY <2>1, <2>2, <1>c DEF Before
<1>3. CASE StartContainer \/ ProbeReady \/ ProbeAgain \/ Setup
  BY <1>3 DEF StartContainer, ProbeReady, ProbeAgain, Setup, Listening, Before
<1>4. CASE Compiles \/ Discover \/ DeepCheck
  BY <1>4 DEF Compiles, Discover, DeepCheck, Before
<1>5. CASE NeverReady \/ CompileFails \/ Behaviour
  BY <1>5, <1>c DEF NeverReady, CompileFails, Behaviour, Attempted
<1>6. CASE GivesUp
  <2>1. pc \in {"daemon", "image"} \cup Attempted
    BY <1>6 DEF GivesUp, Attempted
  <2>2. pc \in {"daemon", "image"} => server' = "none"
    BY <1>6 DEF GivesUp, Before
  <2> QED
    BY <1>6, <2>1, <2>2, <1>c DEF GivesUp, Before
<1>7. CASE Interrupted
  <2>1. pc \in Before \cup Attempted
    BY <1>7 DEF Interrupted, Phase, Before
  <2>2. pc \in Before => server' = "none"
    BY <1>7 DEF Interrupted, Before
  <2> QED
    BY <1>7, <2>1, <2>2, <1>c DEF Interrupted
<1>8. CASE Remove
  <2>1. pc' \in {"claimed", "rehash"} /\ (server' = "none" \/ removal' = "failed")
    BY <1>8 DEF Remove, Removed, NotRemoved, RemoveTimesOut
  <2> QED
    BY <2>1 DEF Before
<1>9. CASE Rehash \/ Killed
  BY <1>9 DEF Rehash, Killed, Before
<1>10. CASE Editing
  BY <1>10 DEF Editing, Edit
<1>11. CASE DaemonChanges \/ ServerChanges \/ UNCHANGED vars
  BY <1>11 DEF DaemonChanges, ServerChanges, vars
<1> QED
  BY <1>1, <1>2, <1>3, <1>4, <1>5, <1>6, <1>7, <1>8, <1>9, <1>10, <1>11 DEF Next, Step, Editing

-----------------------------------------------------------------------------
(* Time                                                                    *)

Timed == Before \cup Attempted \cup {"remove"}

LEMMA StepTime ==
  ASSUME Types, TimeTold, [Next]_vars
  PROVE  TimeTold'
<1> USE DeadlineNat, TimeAssumption DEF world
<1>a. clock \in Nat /\ stop \in Nat
  BY DEF Types, TypeOK
<1>b. ASSUME clock' \in Nat, clock' < Deadline + OneSecond, pc' # "ready"
      PROVE  TimeTold'
  BY <1>b DEF TimeTold, WithinBudget, Deadline
<1>c. ASSUME pc \in Timed, UNCHANGED clock, pc' # "ready" PROVE TimeTold'
  BY <1>a, <1>b, <1>c DEF TimeTold, Timed
<1>d. ASSUME NEW s, Conclude(s) PROVE pc' # "ready"
  BY <1>d DEF Conclude
<1>1. CASE Call \/ Record
  BY <1>1, <1>c DEF Call, Record, Timed, Before
<1>2. CASE Read
  <2>1. pc = "read" /\ UNCHANGED clock /\ pc' # "ready"
    BY <1>2, <1>d DEF Read
  <2> QED
    BY <2>1, <1>c DEF Timed, Before
<1>3. CASE Preflight \/ ProbeReady \/ Setup
  <2>1. Answer /\ pc' # "ready"
    BY <1>3 DEF Preflight, ProbeReady, Setup, OnServer, Success
  <2> QED
    BY <2>1, <1>a, <1>b, CommandTime
<1>4. CASE StartContainer
  <2>1. clock' \in Nat /\ clock' < Deadline + OneSecond
    BY <1>4, <1>a, CommandTime DEF StartContainer, Success
  <2>2. stop' <= Deadline \/ stop' <= clock'
    BY <1>4, <2>1, ReadyTime DEF StartContainer
  <2> QED
    BY <1>4, <2>1, <2>2 DEF StartContainer, TimeTold, WithinBudget, Attempted, Deadline
<1>5. CASE ProbeAgain
  <2>1. pc = "ready" /\ clock < stop /\ clock' \in (clock + 1)..Limit /\ UNCHANGED <<pc, stop>>
    BY <1>5 DEF ProbeAgain
  <2>2. stop <= Deadline
    BY <2>1, <1>a DEF TimeTold
  <2>3. clock' \in Nat /\ clock' < Deadline + OneSecond
    BY <2>1, <2>2, <1>a, CommandTime
  <2> QED
    BY <2>1, <2>2, <2>3 DEF TimeTold, WithinBudget, Attempted
<1>6. CASE Compiles \/ Discover \/ DeepCheck
  <2>1. Answer /\ pc' # "ready"
    BY <1>6 DEF Compiles, Discover, DeepCheck, OnServer, Success
  <2> QED
    BY <2>1, <1>a, <1>b, CommandTime
<1>7. CASE NeverReady \/ Interrupted
  <2>1. pc \in Timed /\ UNCHANGED clock /\ pc' # "ready"
    BY <1>7, <1>d DEF NeverReady, Interrupted, Phase, Timed, Before, Attempted
  <2> QED
    BY <2>1, <1>c
<1>8. CASE CompileFails \/ Behaviour
  <2>1. pc \in Timed /\ pc' # "ready" /\ (Answer \/ UNCHANGED clock)
    BY <1>8, <1>d DEF CompileFails, Behaviour, OnServer, Success, Timed, Attempted
  <2> QED
    BY <2>1, <1>a, <1>b, <1>c, CommandTime
<1>9. CASE GivesUp
  <2>1. pc \in Timed /\ pc' # "ready" /\ (Answer \/ OutOfTime)
    BY <1>9, <1>d DEF GivesUp, Timed, Before, Attempted
  <2>2. clock < Deadline + OneSecond
    BY <2>1 DEF TimeTold, Timed
  <2> QED
    BY <2>1, <2>2, <1>a, <1>b, CommandTime
<1>10. CASE Remove
  <2>1. pc = "remove" /\ pc' \in {"claimed", "rehash"} /\ clock < Deadline + OneSecond
    BY <1>10 DEF Remove, TimeTold
  <2>2. clock' \in Nat /\ clock' <= clock + RemoveTimeout
    BY <1>10, <1>a, RemovalTime DEF Remove
  <2>3. clock' < Deadline + OneSecond + RemoveTimeout
    BY <2>1, <2>2, <1>a
  <2> QED
    BY <2>1, <2>3 DEF TimeTold, WithinBudget, Before, Attempted, Deadline
<1>11. CASE Rehash \/ Killed
  <2>1. UNCHANGED clock /\ pc' \in Ended
    BY <1>11 DEF Rehash, Killed, Ended
  <2>2. clock < Deadline + OneSecond + RemoveTimeout
    <3>1. CASE pc \in Attempted \cup {"remove"}
      BY <1>a, <3>1 DEF TimeTold, WithinBudget
    <3>2. CASE pc \notin Attempted \cup {"remove"}
      BY <3>2 DEF TimeTold, WithinBudget
    <3> QED
      BY <3>1, <3>2
  <2> QED
    BY <2>1, <2>2 DEF TimeTold, WithinBudget, Before, Attempted, Ended, Deadline
<1>12. CASE Editing \/ DaemonChanges \/ ServerChanges \/ UNCHANGED vars
  <2>1. UNCHANGED <<clock, stop, pc>>
    BY <1>12 DEF Editing, Edit, DaemonChanges, ServerChanges, vars
  <2> QED
    BY <2>1 DEF TimeTold, WithinBudget, Deadline
<1> QED
  BY <1>1, <1>2, <1>3, <1>4, <1>5, <1>6, <1>7, <1>8, <1>9, <1>10, <1>11, <1>12
     DEF Next, Step, Editing

-----------------------------------------------------------------------------
(* The theorems                                                            *)

ValidatorInv ==
  Types /\ VerdictFound /\ EditsTold /\ SqlTold /\ ContainerTold /\ SqlOnFinalServer /\ TimeTold

LEMMA ValidatorInvariant == Spec => []ValidatorInv
<1>1. Init => ValidatorInv
  <2> SUFFICES ASSUME Init PROVE ValidatorInv
    OBVIOUS
  <2>1. Types
    BY DEF Init, Types, TypeOK, Findings, NoResult
  <2>2. VerdictFound /\ EditsTold /\ SqlTold
    BY DEF Init, VerdictFound, EditsTold, SqlTold, AfterRead, Attempted
  <2>3. ContainerTold /\ SqlOnFinalServer
    BY DEF Init, ContainerTold, NoContainerLeft, SqlOnFinalServer
  <2>4. TimeTold
    BY DeadlineNat, TimeAssumption DEF Init, TimeTold, WithinBudget, Attempted
  <2> QED
    BY <2>1, <2>2, <2>3, <2>4 DEF ValidatorInv
<1>2. ValidatorInv /\ [Next]_vars => ValidatorInv'
  BY StepTypes, StepVerdict, StepEdits, StepSql, StepContainer, StepTime DEF ValidatorInv
<1> QED
  BY <1>1, <1>2, PTL DEF Spec

(* Files, clock, phases and findings have their types, for every timeout,  *)
(* whatever the files contain and the query returns.                       *)
THEOREM ValidatorTypes == Spec => []TypeOK
<1>1. ValidatorInv => TypeOK
  BY DEF ValidatorInv, Types
<1> QED
  BY <1>1, ValidatorInvariant, PTL

(* What goes to review compiled, was checked and asserted in full, and is  *)
(* what the evidence names unless a file was edited twice (validate, and   *)
(* Queue.validate around it).                                              *)
THEOREM PassIsEarned == Spec => []PassedIsEarned
<1>1. ValidatorInv => PassedIsEarned
  <2> SUFFICES ASSUME ValidatorInv, pc = "pending_review"
               PROVE  /\ Combined(result) = "passed"
                      /\ (\A n \in File : edits[n] <= 1) => sql = input
    BY PassedFindings DEF ValidatorInv, PassedIsEarned
  <2>1. status = "passed" /\ file = input /\ Combined(result) = "passed"
    BY DEF ValidatorInv, VerdictFound
  <2>2. ASSUME \A n \in File : edits[n] <= 1 PROVE sql = input
    <3>1. \A n \in File : edits[n] = 0
      BY <2>1, <2>2 DEF ValidatorInv, Types, TypeOK, EditsTold
    <3>2. \A n \in File : sql[n] = input[n]
      BY <3>1 DEF ValidatorInv, SqlTold, AfterRead
    <3>3. sql \in [File -> Text \cup {Absent}] /\ input \in [File -> Text \cup {Absent}]
      BY DEF ValidatorInv, Types, TypeOK
    <3> QED
      BY <3>2, <3>3
  <2> QED
    BY <2>1, <2>2
<1> QED
  BY <1>1, ValidatorInvariant, PTL

(* On every way out the container is gone, unless its removal failed (the  *)
(* finally block of validate; `attempted').                                *)
THEOREM ContainerIsRemoved == Spec => []NoContainerLeft
<1>1. ValidatorInv => NoContainerLeft
  BY DEF ValidatorInv, ContainerTold
<1> QED
  BY <1>1, ValidatorInvariant, PTL

(* The validation keeps to its budget, the grace of the last command and   *)
(* the removal, for every budget (_run, _await_ready).                     *)
THEOREM BudgetIsKept == Spec => []WithinBudget
<1>1. ValidatorInv => WithinBudget
  BY DEF ValidatorInv, TimeTold
<1> QED
  BY <1>1, ValidatorInvariant, PTL

(* The candidate never meets the init server (_await_ready).               *)
THEOREM FinalServerOnly == Spec => []SqlOnFinalServer
<1>1. ValidatorInv => SqlOnFinalServer
  BY DEF ValidatorInv
<1> QED
  BY <1>1, ValidatorInvariant, PTL

-----------------------------------------------------------------------------
(* One validation among the steps of the queue                             *)

(* A move within the phases that leaves the files does not show.           *)
LEMMA PhasesDoNotShow ==
  ASSUME pc \in Phase, pc' \in Phase, UNCHANGED <<file, input>>
  PROVE  UNCHANGED Queue!vars
<1>1. Begun /\ Begun' /\ ~Raised /\ ~Raised'
  BY DEF Phase, Attempted, Begun, Raised
<1>2. AttemptCall' = AttemptCall
  BY DEF Phase, Attempted, AttemptCall, Inputs, Staged
<1>3. Staged(file)' = Staged(file)
  BY DEF Staged
<1> QED
  BY <1>1, <1>2, <1>3 DEF Queue!vars, Queue!row, Queue!budget, One

(* Before the call, the attempts used are those that had begun.            *)
LEMMA UsedEarlier ==
  ASSUME pc = "idle"
  PROVE  Queue!Used(Task) = Earlier /\ Queue!Prior(Task) = 0
BY CallAssumption
   DEF Queue!Used, Queue!Prior, Queue!LegacyFloor, Queue!Larger, Begun, One, BaseLimit

(* Required files that can be hashed are there as the queue has them.      *)
LEMMA HashableShows ==
  Hashable <=> Queue!Hashable(Task)
BY CallAssumption
   DEF Hashable, Queue!Hashable, Queue!Complete, Staged, Required, File, One

(* What the row and the call are in the four kinds of states.              *)
LEMMA CallShown ==
  /\ pc = "idle" => AttemptCall = [pc |-> "schemas_read", task |-> Task, worker |-> Worker,
                                   schemas |-> Schemas]
  /\ pc \in Phase => AttemptCall = [pc |-> "running", task |-> Task, schemas |-> Schemas,
                                    input |-> Inputs, attempt |-> Attempt, auth |-> Absent]
  /\ Raised \/ pc = "dead" => AttemptCall = [pc |-> "idle"]
  /\ pc \in {"pending_review", "claimed"} /\ ~Raised =>
       AttemptCall = [pc |-> "verified", task |-> Task, evidence |-> Finding]
BY DEF AttemptCall, Phase, Attempted, Raised

(* Call is the opening transaction.                                        *)
LEMMA OpensAttempt ==
  ASSUME Call
  PROVE  Queue!BeginValidate("validate")
<1>1. /\ pc = "idle" /\ pc' = "record" /\ input' = file /\ file' = file /\ Hashable
      /\ ~Begun /\ Begun' /\ ~Raised /\ ~Raised'
  BY DEF Call, world, Begun, Raised
<1>2. Queue!MayValidate(Worker, Task)
  <2>1. Queue!Owns(Worker, Task)
    BY <1>1 DEF Queue!Owns, One
  <2>2. Queue!Hashable(Task)
    BY <1>1, HashableShows
  <2>3. Queue!CanValidate(Task)
    BY <1>1, UsedEarlier, CallAssumption DEF Queue!CanValidate, Queue!Limit, One, BaseLimit
  <2> QED
    BY <2>1, <2>2, <2>3 DEF Queue!MayValidate, One
<1>3. Queue!EnsureBaseline(Task)
  <2>1. CASE Earlier > 0
    BY <1>1, <2>1 DEF Queue!EnsureBaseline, One
  <2>2. CASE ~(Earlier > 0)
    <3>1. Earlier = 0
      BY <2>2, CallAssumption DEF BaseLimit
    <3> QED
      BY <1>1, <2>2, <3>1, UsedEarlier DEF Queue!EnsureBaseline, One
  <2> QED
    BY <2>1, <2>2
<1>4. AttemptCall' = [pc |-> "running", task |-> Task, schemas |-> Schemas,
                      input |-> [sql |-> Staged(file), config |-> Schemas],
                      attempt |-> Attempt, auth |-> Absent]
  BY <1>1 DEF AttemptCall, Phase, Inputs, Staged
<1>5. AttemptCall = [pc |-> "schemas_read", task |-> Task, worker |-> Worker, schemas |-> Schemas]
  BY <1>1 DEF AttemptCall
<1>6. Staged(file)' = Staged(file)
  BY <1>1 DEF Staged
<1>7. Queue!Logged(Task) = [p \in {"validate"} |-> AttemptCall]
  BY <1>5 DEF Queue!Logged
<1>8. Queue!Used(Task) = Earlier /\ Attempt = Earlier + 1
  BY <1>1, UsedEarlier DEF Attempt
<1>9. Queue!HashOf(Task) = [sql |-> Staged(file), config |-> Schemas]
  BY DEF Queue!HashOf, One
<1> DEFINE call == [p \in {"validate"} |-> AttemptCall]
           stat == One(IF ~Begun \/ Raised THEN "claimed" ELSE "validating")
           used == One(IF Begun THEN Attempt ELSE Earlier)
<1>10. /\ call["validate"].pc = "schemas_read" /\ call["validate"].task = Task
       /\ call["validate"].worker = Worker /\ call["validate"].schemas = Schemas
  BY <1>5
<1>11. stat' = [stat EXCEPT ![Task] = "validating"]
  BY <1>1 DEF One
<1>12. /\ used' = [used EXCEPT ![Task] = Queue!Used(Task) + 1]
       /\ used' = [used EXCEPT ![Task] = @ + 1]
  BY <1>1, <1>8 DEF One
<1>13. call' = [Queue!Logged(Task) EXCEPT !["validate"] =
                  [pc |-> "running", task |-> Task, schemas |-> Schemas,
                   input |-> Queue!HashOf(Task), attempt |-> Queue!Used(Task) + 1, auth |-> Absent]]
  BY <1>4, <1>7, <1>8, <1>9
<1>14. One(Staged(file))' = One(Staged(file))
  BY <1>6 DEF One
<1>15. One([result |-> "none"])' = [One([result |-> "none"]) EXCEPT ![Task] = Queue!NoEvidence]
  BY DEF One, Queue!NoEvidence
<1> QED
  BY <1>2, <1>3, <1>10, <1>11, <1>12, <1>13, <1>14, <1>15 DEF Queue!BeginValidate, One

(* What ends as raised is taken back by the handler.                       *)
LEMMA TakesBack ==
  ASSUME pc \in Phase, pc' = "claimed", status' = "raised", UNCHANGED <<file, input>>
  PROVE  Queue!ValidatorRaises("validate")
<1>1. Begun /\ Begun' /\ ~Raised /\ Raised'
  BY DEF Phase, Attempted, Begun, Raised
<1>2. AttemptCall.pc = "running" /\ AttemptCall.task = Task /\ AttemptCall' = [pc |-> "idle"]
  BY <1>1 DEF AttemptCall, Phase, Attempted
<1>3. Staged(file)' = Staged(file)
  BY DEF Staged
<1> QED
  BY <1>1, <1>2, <1>3
     DEF Queue!ValidatorRaises, Queue!Idle, Queue!budget, One

(* A process that is killed leaves the row as it is.                       *)
LEMMA IsLost ==
  ASSUME Killed
  PROVE  Queue!Crash("validate")
<1>1. pc \in Phase /\ pc' = "dead" /\ UNCHANGED <<file, input>>
  BY DEF Killed, world
<1>2. Begun /\ Begun' /\ ~Raised /\ ~Raised'
  BY <1>1 DEF Phase, Attempted, Begun, Raised
<1>3. AttemptCall.pc = "running" /\ AttemptCall' = [pc |-> "idle"]
  BY <1>1 DEF AttemptCall, Phase, Attempted, Raised
<1>4. Staged(file)' = Staged(file)
  BY <1>1 DEF Staged
<1> QED
  BY <1>2, <1>3, <1>4 DEF Queue!Crash, Queue!Idle, Queue!row, Queue!budget, One

(* A hashable bundle is the one hashed before exactly if it looks so to    *)
(* the queue: blank files do not hash, any other text does as it is.       *)
LEMMA SameHash ==
  ASSUME file \in [File -> Text \cup {Absent}], input \in [File -> Text \cup {Absent}], Hashable
  PROVE  Staged(file) = Staged(input) <=> file = input
<1> SUFFICES ASSUME Staged(file) = Staged(input) PROVE file = input
  OBVIOUS
<1>1. ASSUME NEW n \in File PROVE file[n] = input[n]
  <2>1. Staged(file)[n] = Staged(input)[n]
    OBVIOUS
  <2>2. n \in Required => file[n] \notin Blank \cup {Absent}
    BY DEF Hashable, Required, File
  <2> QED
    BY <2>1, <2>2 DEF Staged
<1> QED
  BY <1>1

(* The second hash is the end of the validator's step.                     *)
LEMMA Returns ==
  ASSUME file \in [File -> Text \cup {Absent}], input \in [File -> Text \cup {Absent}],
         Rehash, Hashable, status' # "raised"
  PROVE  \E v \in Queue!Verdict : Queue!ValidatorReturns("validate", v)
<1> DEFINE v == IF status = "passed" THEN "passed" ELSE "failed"
           call == [p \in {"validate"} |-> AttemptCall]
<1>1. /\ pc = "rehash" /\ UNCHANGED <<file, input>>
      /\ status' = IF file = input THEN status ELSE "failed"
      /\ pc' \in {"pending_review", "claimed"}
  BY DEF Rehash, world, Unchanged
<1>2. Begun /\ Begun' /\ ~Raised /\ ~Raised'
  BY <1>1 DEF Begun, Raised
<1>3. AttemptCall = [pc |-> "running", task |-> Task, schemas |-> Schemas, input |-> Inputs,
                     attempt |-> Attempt, auth |-> Absent]
  BY <1>1, CallShown DEF Phase
<1>4. Queue!HashOf(Task) = Inputs <=> file = input
  BY SameHash DEF Queue!HashOf, Inputs, One
<1>5. AttemptCall' =
        [pc |-> "verified", task |-> Task,
         evidence |-> [result |-> IF Queue!HashOf(Task) = Inputs THEN v ELSE "failed",
                       input |-> Inputs, attempt |-> Attempt, auth |-> Absent, schemas |-> Schemas]]
  <2>1. AttemptCall' = [pc |-> "verified", task |-> Task, evidence |-> Finding']
    BY <1>1, <1>2 DEF AttemptCall, Phase, Attempted
  <2>2. Finding' = [result |-> IF status' = "passed" THEN "passed" ELSE "failed", input |-> Inputs,
                    attempt |-> Attempt, auth |-> Absent, schemas |-> Schemas]
    BY <1>1 DEF Finding, Inputs, Staged
  <2>3. (IF status' = "passed" THEN "passed" ELSE "failed")
          = IF Queue!HashOf(Task) = Inputs THEN v ELSE "failed"
    BY <1>1, <1>4
  <2> QED
    BY <2>1, <2>2, <2>3
<1>6. /\ call["validate"].pc = "running" /\ call["validate"].task = Task
      /\ call["validate"].input = Inputs /\ call["validate"].attempt = Attempt
      /\ call["validate"].auth = Absent /\ call["validate"].schemas = Schemas
  BY <1>3
<1>7. call' = [call EXCEPT !["validate"] = AttemptCall']
  OBVIOUS
<1>8. Queue!Hashable(Task)
  BY HashableShows
<1>9. Staged(file)' = Staged(file)
  BY <1>1 DEF Staged
<1>10. UNCHANGED <<One(IF ~Begun \/ Raised THEN "claimed" ELSE "validating"),
                   One(IF Begun THEN Attempt ELSE Earlier),
                   One([taken |-> Begun \/ Earlier > 0, used |-> 0, counter |-> 0]),
                   One(Staged(file))>>
  BY <1>2, <1>9 DEF One
<1>11. v \in Queue!Verdict
  BY DEF Queue!Verdict
<1>12. Queue!ValidatorReturns("validate", v)
  BY <1>5, <1>6, <1>7, <1>8, <1>10 DEF Queue!ValidatorReturns, Queue!row, Queue!budget, One
<1> QED
  BY <1>11, <1>12

(* An edit is one of the staged files, or of nothing that hashes.          *)
LEMMA EditShows ==
  ASSUME NEW n \in File, NEW text \in Text \cup {Absent}, Edit(n, text)
  PROVE  UNCHANGED Queue!vars \/ Queue!EditFiles(Task, Staged(file'))
<1>1. pc \in Phase /\ UNCHANGED <<pc, input, status>>
  BY DEF Edit
<1>2. Begun /\ Begun' /\ ~Raised /\ ~Raised'
  BY <1>1 DEF Phase, Attempted, Begun, Raised
<1>3. AttemptCall' = AttemptCall
  BY <1>1 DEF Phase, Attempted, AttemptCall, Inputs, Staged
<1>4. CASE Staged(file') = Staged(file)
  BY <1>2, <1>3, <1>4 DEF Queue!vars, Queue!row, Queue!budget, One, Staged
<1>5. CASE Staged(file') # Staged(file)
  <2>1. Staged(file)' = Staged(file')
    BY DEF Staged
  <2>2. One(Staged(file))' = [One(Staged(file)) EXCEPT ![Task] = Staged(file')]
    BY <2>1 DEF One
  <2> QED
    BY <1>2, <1>3, <1>5, <2>2 DEF Queue!EditFiles, Queue!row, Queue!budget, One
<1> QED
  BY <1>4, <1>5

(* A verdict, or an exception, leads to the cleaning up or to the end.     *)
LEMMA ConcludeLeads ==
  ASSUME NEW s, Conclude(s)
  PROVE  pc' \in Phase \/ (pc' = "claimed" /\ status' = "raised" /\ s = "raised")
BY DEF Conclude, Phase

(* What the phases do: they go on, or end with an exception.               *)
LEMMA PhasesGoOn ==
  ASSUME Step \/ Interrupted \/ DaemonChanges \/ ServerChanges, ~Call, ~Rehash
  PROVE  /\ pc \in Phase /\ UNCHANGED <<file, input>>
         /\ pc' \in Phase \/ (pc' = "claimed" /\ status' = "raised")
<1>1. CASE Record \/ Preflight \/ StartContainer \/ ProbeReady \/ ProbeAgain \/ Setup
  BY <1>1 DEF Record, Preflight, StartContainer, ProbeReady, ProbeAgain, Setup, world, Phase, Attempted
<1>2. CASE Read
  BY <1>2, ConcludeLeads DEF Read, world, Phase
<1>3. CASE NeverReady \/ CompileFails \/ Behaviour
  BY <1>3, ConcludeLeads DEF NeverReady, CompileFails, Behaviour, world, Phase, Attempted
<1>4. CASE Compiles \/ Discover \/ DeepCheck
  BY <1>4 DEF Compiles, Discover, DeepCheck, world, Phase, Attempted
<1>5. CASE GivesUp
  BY <1>5, ConcludeLeads DEF GivesUp, world, Phase, Attempted
<1>6. CASE Interrupted
  BY <1>6, ConcludeLeads DEF Interrupted, world
<1>7. CASE Remove
  BY <1>7 DEF Remove, world, Phase
<1>8. CASE DaemonChanges \/ ServerChanges
  BY <1>8 DEF DaemonChanges, ServerChanges, world
<1> QED
  BY <1>1, <1>2, <1>3, <1>4, <1>5, <1>6, <1>7, <1>8 DEF Step

QueueStep ==
  \/ UNCHANGED Queue!vars
  \/ Queue!EditFiles(Task, Staged(file'))
  \/ Queue!Continue("validate") \/ Queue!Crash("validate")

LEMMA StepShows ==
  ASSUME TypeOK, [Next]_vars
  PROVE  QueueStep
<1>t. file \in [File -> Text \cup {Absent}] /\ input \in [File -> Text \cup {Absent}]
  BY DEF TypeOK
<1>1. CASE Call
  BY <1>1, OpensAttempt DEF QueueStep, Queue!Continue
<1>2. CASE Rehash
  <2>1. pc = "rehash" /\ UNCHANGED <<file, input>>
    BY <1>2 DEF Rehash, world
  <2>2. CASE status' = "raised"
    BY <1>2, <2>1, <2>2, TakesBack DEF Rehash, Phase, QueueStep, Queue!Continue
  <2>3. CASE status' # "raised"
    <3>1. Hashable
      BY <1>2, <2>3 DEF Rehash
    <3> QED
      BY <1>t, <1>2, <2>3, <3>1, Returns DEF QueueStep, Queue!Continue
  <2> QED
    BY <2>2, <2>3
<1>3. CASE Killed
  BY <1>3, IsLost DEF QueueStep
<1>4. CASE (Step \/ Interrupted \/ DaemonChanges \/ ServerChanges) /\ ~Call /\ ~Rehash
  <2>1. /\ pc \in Phase /\ UNCHANGED <<file, input>>
        /\ pc' \in Phase \/ (pc' = "claimed" /\ status' = "raised")
    BY <1>4, PhasesGoOn
  <2> QED
    BY <2>1, PhasesDoNotShow, TakesBack DEF QueueStep, Queue!Continue
<1>5. ASSUME NEW n \in File, NEW text \in Text \cup {Absent}, Edit(n, text)
      PROVE  QueueStep
  BY <1>5, EditShows DEF QueueStep
<1>6. CASE UNCHANGED vars
  <2>1. UNCHANGED <<pc, file, input, status>>
    BY <1>6 DEF vars
  <2>2. UNCHANGED Queue!vars
    BY <2>1 DEF Queue!vars, Queue!row, Queue!budget, One, Begun, Raised, Staged, AttemptCall,
                Inputs, Finding, Phase, Attempted
  <2> QED
    BY <2>2 DEF QueueStep
<1> QED
  BY <1>1, <1>2, <1>3, <1>4, <1>5, <1>6 DEF Next

(* Whatever the texts, timeouts and answers are, and however often files   *)
(* are edited, a validation does to its task what MigrationQueue has for   *)
(* it, one step at a time (Queue.validate around validator.validate).      *)
THEOREM ValidationIsOfTheQueue == Spec => StepsOfTheQueue
<1>1. TypeOK /\ [Next]_vars => [QueueStep]_Seen
  BY StepShows
<1>2. Spec => [][QueueStep]_Seen
  BY <1>1, ValidatorTypes, PTL DEF Spec
<1> QED
  BY <1>2 DEF StepsOfTheQueue, QueueStep

(* So the history of the task while it is validated is one that            *)
(* MigrationQueue's next-state relation allows: what every step of the     *)
(* queue was proved to keep, a validation keeps, however it goes inside.   *)
THEOREM ValidationStepsTheQueue == Spec => [][Queue!Next]_(Queue!vars)
<1>1. ASSUME TypeOK', Queue!EditFiles(Task, Staged(file'))
      PROVE  Queue!Next
  <2>1. file' \in [File -> Text \cup {Absent}]
    BY <1>1 DEF TypeOK
  <2>2. Staged(file)' \in Queue!Bundle
    BY <2>1 DEF Staged, Queue!Bundle
  <2>3. Staged(file') = Staged(file)'
    BY DEF Staged
  <2>4. Queue!Edit
    BY <1>1, <2>2, <2>3 DEF Queue!Edit
  <2> QED
    BY <2>4 DEF Queue!Next, Queue!NextNoCrash
<1>2. Queue!Continue("validate") \/ Queue!Crash("validate") => Queue!Next
  BY DEF Queue!Next, Queue!NextNoCrash
<1>3. TypeOK /\ TypeOK' /\ [Next]_vars => [Queue!Next]_(Queue!vars)
  BY <1>1, <1>2, StepShows DEF QueueStep
<1> QED
  BY <1>3, ValidatorTypes, PTL DEF Spec
=============================================================================
