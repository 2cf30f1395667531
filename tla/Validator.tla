------------------------------ MODULE Validator ------------------------------
(***************************************************************************)
(* One validation of a task: what Queue.validate does between its two      *)
(* transactions (queue.py) and the validator it calls (validator.py), over *)
(* a Docker daemon, a disposable PostgreSQL server and files that anybody  *)
(* may edit meanwhile.                                                     *)
(*                                                                         *)
(* MigrationQueue takes all of this for one step with any verdict.  Here   *)
(* it is a sequence of commands, each within what is left of one wall      *)
(* clock budget.  Time is counted in ticks of half a second and passes in  *)
(* commands and in sleeps.  What a command of the candidate answers is     *)
(* arbitrary; SQL, names, passwords and log lines are left out, and so are *)
(* requests that the daemon would act upon after their client has gone.    *)
(***************************************************************************)
EXTENDS Naturals, Sequences

CONSTANTS
  Text,         \* contents of a file
  Blank,        \* those without anything but white space
  Meta,         \* those with a psql metacommand (_has_metacommand)
  Query,        \* those whose first keyword is SELECT or WITH
  Name,         \* check names
  Null,         \* NULL, in a column of the behavioural query
  Answers,      \* rows that the behavioural query may return
  Absent,       \* no such file
  MaxEdits,     \* bound: edits of all files during the validation
  Timeout,      \* --timeout, in ticks
  ReadyCap,     \* 90 s, in ticks
  RemoveTimeout \* 30 s, in ticks

OneSecond == 2
File == {"candidate", "checks", "dependencies"}

ASSUME TextAssumption ==
  /\ Blank \subseteq Text /\ Meta \subseteq Text /\ Query \subseteq Text
  /\ Absent \notin Text /\ Null \notin Name
ASSUME RowAssumption == Answers \subseteq Seq([name: Name \cup {Null}, passed: {"t", "f", Null}])
ASSUME TimeAssumption ==
  {MaxEdits, Timeout, ReadyCap, RemoveTimeout} \subseteq Nat

VARIABLES
  file,     \* the files in the task's directory
  edits,    \* history: how often each was edited since the first hash
  input,    \* what Queue.validate hashed first
  sql,      \* what the validator read
  daemon,   \* the Docker daemon
  server,   \* the container and the server in it
  clock,    \* ticks since the validator was called
  stop,     \* when _await_ready gives up
  pc,       \* where the validation is
  result,   \* what the phases found
  status,   \* the verdict so far, or "raised"
  removal   \* what became of `docker rm'

vars == <<file, edits, input, sql, daemon, server, clock, stop, pc, result, status, removal>>
world == <<file, edits, daemon>>

Larger(a, b) == IF a > b THEN a ELSE b
Smaller(a, b) == IF a < b THEN a ELSE b

Deadline == Larger(OneSecond, Timeout)
NoResult == [compiled |-> FALSE, unchecked |-> FALSE, errors |-> FALSE, rows |-> <<>>]

(* Mutant: the container is ours only once `docker run' has answered.      *)
AttemptedOnceStarted ==
  {"ready", "setup", "version", "compile", "discover", "deep", "behave"}

(* Phases with the flag `attempted' set: they end in the finally block.    *)
Attempted ==
  {"start", "ready", "setup", "version", "compile", "discover", "deep", "behave"}
Phase == {"record", "read", "daemon", "image", "remove", "rehash"} \cup Attempted
Ended == {"pending_review", "claimed", "dead"}

-----------------------------------------------------------------------------
(* What the phases make of the answers                                     *)

(* _parse_behaviour_csv: a name that is NULL or met before, a value that   *)
(* is not a boolean, or no row at all, and nothing can be asserted.        *)
Asserted(rows) ==
  IF \/ rows = <<>>
     \/ \E i \in DOMAIN rows :
          \/ rows[i].name = Null \/ rows[i].passed = Null
          \/ \E j \in 1..(i - 1) : rows[j].name = rows[i].name
  THEN "block"
  ELSE IF \E i \in DOMAIN rows : rows[i].passed = "f" THEN "fail" ELSE "pass"

(* _deep_check: a trigger function without a trigger cannot be checked.    *)
DeepChecked(r) == IF r.unchecked THEN "block" ELSE IF r.errors THEN "fail" ELSE "pass"

(* Mutant: the word of the phase for that of the verdict.                  *)
CombinedRaw(r) ==
  LET found == {DeepChecked(r), Asserted(r.rows)}
  IN IF ~r.compiled THEN "failed"
     ELSE IF "block" \in found THEN "block"
     ELSE IF "fail" \in found THEN "failed"
     ELSE "passed"

(* _combine_status                                                         *)
Combined(r) ==
  LET found == {DeepChecked(r), Asserted(r.rows)}
  IN IF ~r.compiled THEN "failed"
     ELSE IF "block" \in found THEN "blocked"
     ELSE IF "fail" \in found THEN "failed"
     ELSE "passed"

-----------------------------------------------------------------------------
(* Commands, each in a subprocess (_run)                                   *)

(* Mutant: every command has the whole budget.                             *)
LimitWhole == clock + Deadline

Limit == Larger(Deadline, clock + OneSecond)

(* It answers in time, with or without success; a hung daemon never does.  *)
Answer == clock < Deadline /\ daemon # "hung" /\ clock' \in clock..(Limit - 1)
Success == Answer /\ daemon = "up"

(* Mutant: the budget is looked at before a command only.                  *)
OutOfTimeBefore == clock >= Deadline /\ clock' = clock

(* No budget left to begin it, or it is still running at its limit.        *)
OutOfTime == clock' = IF clock < Deadline THEN Limit ELSE clock

(* Mutant: on the socket, which the init server has too.                   *)
ListeningSocket == server \in {"init", "final"}

(* Over TCP, where only the final server listens.                          *)
Listening == server = "final"
OnServer == Success /\ server \in {"init", "final"}

(* Where a verdict that is reached at once, or an exception, leads.        *)
Conclude(s) ==
  /\ status' = s
  /\ pc' = IF pc \in Attempted THEN "remove" ELSE IF s = "raised" THEN "claimed" ELSE "rehash"

-----------------------------------------------------------------------------
Init ==
  /\ file \in [File -> Text \cup {Absent}]
  /\ edits = [n \in File |-> 0]
  /\ input = [n \in File |-> Absent]
  /\ sql = [n \in File |-> Absent]
  /\ daemon \in {"up", "down", "hung"}
  /\ server = "none"
  /\ clock = 0 /\ stop = 0
  /\ pc = "idle"
  /\ result = NoResult
  /\ status = "none"
  /\ removal = "untried"

(* Queue.hashes: the candidate and the checks must be there.               *)
Hashable == file["candidate"] \notin Blank \cup {Absent} /\ file["checks"] \notin Blank \cup {Absent}

(* The opening transaction: the inputs hashed, the attempt charged.        *)
Call ==
  /\ pc = "idle" /\ Hashable
  /\ input' = file
  /\ pc' = "record"
  /\ UNCHANGED <<world, sql, server, clock, stop, result, status, removal>>

(* The validator hashes for itself; a dependencies file that is not there  *)
(* at this moment is not read later either.                                *)
Record ==
  /\ pc = "record"
  /\ sql' = [sql EXCEPT !["dependencies"] =
               IF input["dependencies"] = Absent THEN Absent ELSE file["dependencies"]]
  /\ pc' = "read"
  /\ UNCHANGED <<world, input, server, clock, stop, result, status, removal>>

(* The files are looked for and read.  One that goes between the two is an *)
(* exception; one that is missing, or cannot be used, blocks.              *)
Read ==
  /\ pc = "read"
  /\ sql' = [n \in File |-> IF n = "dependencies" /\ sql[n] = Absent THEN Absent ELSE file[n]]
  /\ LET needed == {"candidate", "checks"} \cup
                   (IF input["dependencies"] = Absent THEN {} ELSE {"dependencies"})
         missing == \E n \in needed : file[n] = Absent
         unusable == \/ {file["candidate"], file["checks"]} \cap Blank # {}
                     \/ file["checks"] \in Meta \/ file["checks"] \notin Query
     IN \/ missing /\ Conclude("raised")
        \/ (missing \/ unusable) /\ Conclude("blocked")
        \/ ~missing /\ ~unusable /\ pc' = "daemon" /\ UNCHANGED status
  /\ UNCHANGED <<world, input, server, clock, stop, result, removal>>

(* _preflight_docker: is there a daemon, has it the image.                 *)
Preflight ==
  /\ \/ pc = "daemon" /\ pc' = "image"
     \/ pc = "image" /\ pc' = "start"
  /\ Success
  /\ UNCHANGED <<world, input, sql, server, stop, result, status, removal>>

StartContainer ==
  /\ pc = "start" /\ Success
  /\ server' = "init"
  /\ stop' = clock' + Smaller(IF clock' < Deadline THEN Deadline - clock' ELSE 0, ReadyCap)
  /\ pc' = "ready"
  /\ UNCHANGED <<world, input, sql, result, status, removal>>

(* _await_ready: a probe, and half a second of sleep if it is refused.     *)
ProbeReady ==
  /\ pc = "ready" /\ clock < stop
  /\ Success /\ Listening
  /\ pc' = "setup"
  /\ UNCHANGED <<world, input, sql, server, stop, result, status, removal>>

ProbeAgain ==
  /\ pc = "ready" /\ clock < stop
  /\ daemon # "hung" /\ clock' \in (clock + 1)..Limit
  /\ UNCHANGED <<world, input, sql, server, stop, pc, result, status, removal>>

NeverReady ==
  /\ pc = "ready" /\ clock >= stop
  /\ Conclude("blocked")
  /\ UNCHANGED <<world, input, sql, server, clock, stop, result, removal>>

(* _admin_setup: the role and the schemas, and then the version, where     *)
(* only a timeout matters.                                                 *)
Setup ==
  /\ \/ pc = "setup" /\ OnServer /\ pc' = "version"
     \/ pc = "version" /\ Answer /\ pc' = "compile"
  /\ UNCHANGED <<world, input, sql, server, stop, result, status, removal>>

(* _compile: in one transaction.  Whatever makes psql fail is an error of  *)
(* the candidate; a metacommand is one without running it.                 *)
Rejected == {sql["candidate"], sql["dependencies"]} \cap Meta # {}

Compiles ==
  /\ pc = "compile"
  /\ ~Rejected /\ OnServer
  /\ result' = [result EXCEPT !.compiled = TRUE]
  /\ pc' = "discover"
  /\ UNCHANGED <<world, input, sql, server, stop, status, removal>>

CompileFails ==
  /\ pc = "compile"
  /\ IF Rejected THEN UNCHANGED clock ELSE Answer
  /\ Conclude(Combined(result))
  /\ UNCHANGED <<world, input, sql, server, stop, result, removal>>

(* _deep_check: the routines of the candidate are listed; those that can   *)
(* be checked, if any, are checked.                                        *)
Discover ==
  /\ pc = "discover" /\ OnServer
  /\ \E unchecked \in BOOLEAN : result' = [result EXCEPT !.unchecked = unchecked]
  /\ pc' \in {"deep", "behave"}
  /\ UNCHANGED <<world, input, sql, server, stop, status, removal>>

DeepCheck ==
  /\ pc = "deep" /\ OnServer
  /\ \E errors \in BOOLEAN : result' = [result EXCEPT !.errors = errors]
  /\ pc' = "behave"
  /\ UNCHANGED <<world, input, sql, server, stop, status, removal>>

(* _behaviour: a query that does not run asserts nothing.                  *)
Behaviour ==
  /\ pc = "behave"
  /\ \/ OnServer /\ \E rows \in Answers : result' = [result EXCEPT !.rows = rows]
     \/ Answer /\ result' = [result EXCEPT !.rows = <<>>]
  /\ Conclude(Combined(result'))
  /\ UNCHANGED <<world, input, sql, server, stop, removal>>

(* _Blocked: a command was refused that has to succeed, or ran out of      *)
(* time.  `docker run' may have made the container all the same.           *)
GivesUp ==
  /\ \/ pc \in {"daemon", "image", "start", "setup", "discover", "deep"} /\ Answer
     \/ pc \in {"daemon", "image"} \cup (Attempted \ {"ready"}) /\ OutOfTime
     \/ pc = "ready" /\ clock < stop /\ OutOfTime
  /\ pc = "compile" => ~Rejected
  /\ server' \in IF pc = "start" /\ daemon # "down" THEN {server, "init"} ELSE {server}
  /\ Conclude("blocked")
  /\ UNCHANGED <<world, input, sql, stop, result, removal>>

(* Ctrl-C, or an error nobody expected.                                    *)
Interrupted ==
  /\ pc \in Phase \ {"remove", "rehash"}
  /\ server' \in IF pc = "start" /\ daemon # "down" THEN {server, "init"} ELSE {server}
  /\ Conclude("raised")
  /\ UNCHANGED <<world, input, sql, clock, stop, result, removal>>

-----------------------------------------------------------------------------
(* The finally block, and the second hash                                  *)

Removed ==
  /\ daemon = "up" /\ clock' \in clock..(clock + RemoveTimeout - 1)
  /\ server' = "none" /\ removal' = "done"

NotRemoved ==
  /\ daemon # "hung" /\ clock' \in clock..(clock + RemoveTimeout - 1)
  /\ removal' = "failed" /\ UNCHANGED server

RemoveTimesOut ==
  /\ clock' = clock + RemoveTimeout
  /\ removal' = "failed" /\ UNCHANGED server

Remove ==
  /\ pc = "remove"
  /\ Removed \/ NotRemoved \/ RemoveTimesOut
  /\ pc' = IF status = "raised" THEN "claimed" ELSE "rehash"
  /\ UNCHANGED <<world, input, sql, stop, result, status>>

(* Mutant: the candidate is what counts.                                   *)
UnchangedCandidate == file["candidate"] = input["candidate"]

Unchanged == file = input

Rehash ==
  /\ pc = "rehash"
  /\ status' = IF ~Hashable THEN "raised" ELSE IF Unchanged THEN status ELSE "failed"
  /\ pc' = IF status' = "passed" THEN "pending_review" ELSE "claimed"
  /\ UNCHANGED <<world, input, sql, server, clock, stop, result, removal>>

(* The process is killed: nothing of the above happens.                    *)
Killed ==
  /\ pc \in Phase
  /\ pc' = "dead"
  /\ UNCHANGED <<world, input, sql, server, clock, stop, result, status, removal>>

-----------------------------------------------------------------------------
(* The world around it                                                     *)

Edit(n, text) ==
  /\ pc \in Phase /\ file[n] # text
  /\ edits["candidate"] + edits["checks"] + edits["dependencies"] < MaxEdits
  /\ file' = [file EXCEPT ![n] = text]
  /\ edits' = [edits EXCEPT ![n] = @ + 1]
  /\ UNCHANGED <<input, sql, daemon, server, clock, stop, pc, result, status, removal>>

DaemonChanges ==
  /\ pc \in Phase
  /\ daemon' \in {"up", "down", "hung"} \ {daemon}
  /\ UNCHANGED <<file, edits, input, sql, server, clock, stop, pc, result, status, removal>>

(* The init server makes way for the final one; either may die.            *)
ServerChanges ==
  /\ pc \in Phase
  /\ \/ server = "init" /\ server' \in {"final", "dead"}
     \/ server = "final" /\ server' = "dead"
  /\ UNCHANGED <<world, input, sql, clock, stop, pc, result, status, removal>>

Step ==
  \/ Call \/ Record \/ Read \/ Preflight \/ StartContainer
  \/ ProbeReady \/ ProbeAgain \/ NeverReady \/ Setup
  \/ Compiles \/ CompileFails \/ Discover \/ DeepCheck \/ Behaviour
  \/ GivesUp \/ Remove \/ Rehash

Next ==
  \/ Step \/ Interrupted \/ Killed
  \/ \E n \in File, text \in Text \cup {Absent} : Edit(n, text)
  \/ DaemonChanges \/ ServerChanges

Spec == Init /\ [][Next]_vars

(* A process that lives carries on; its commands answer or time out.       *)
LiveSpec == Spec /\ WF_vars(Step)

-----------------------------------------------------------------------------
(* Properties                                                              *)

(* Files, clock, phases and findings have their types.                     *)
TypeOK ==
  /\ {file, input, sql} \subseteq [File -> Text \cup {Absent}]
  /\ edits \in [File -> Nat]
  /\ daemon \in {"up", "down", "hung"} /\ server \in {"none", "init", "final", "dead"}
  /\ clock \in Nat /\ stop \in Nat
  /\ pc \in {"idle"} \cup Phase \cup Ended
  /\ result.compiled \in BOOLEAN /\ result.unchecked \in BOOLEAN /\ result.errors \in BOOLEAN
  /\ result.rows \in Answers \cup {<<>>}
  /\ status \in {"none", "passed", "failed", "blocked", "raised"}
  /\ removal \in {"untried", "done", "failed"}

(* What goes to review compiled, has no routine that is wrong or was not   *)
(* checked, and asserts at least one thing, everything it asserts under a  *)
(* name of its own, and with TRUE; and unless somebody edited a file and   *)
(* put it back, those are the inputs that the evidence names (validate,    *)
(* and the second hash of Queue.validate).                                 *)
PassedIsEarned ==
  pc = "pending_review" =>
    /\ result.compiled /\ ~result.unchecked /\ ~result.errors
    /\ \E i \in DOMAIN result.rows : TRUE
    /\ \A i \in DOMAIN result.rows :
         /\ result.rows[i].passed = "t" /\ result.rows[i].name \in Name
         /\ \A j \in DOMAIN result.rows : result.rows[j].name = result.rows[i].name => j = i
    /\ (\A n \in File : edits[n] <= 1) => sql = input

(* A validation that ends by itself, whatever made it end, leaves no       *)
(* container unless `docker rm' failed (the finally block; `attempted').   *)
NoContainerLeft ==
  pc \in {"rehash", "pending_review", "claimed"} /\ server # "none" => removal = "failed"

(* However its commands go, it takes no longer than its budget, less than  *)
(* a second for the last command, and the removal (_run, _await_ready).    *)
WithinBudget ==
  clock < Deadline + OneSecond + (IF pc \in Attempted \cup {"remove"} THEN 0 ELSE RemoveTimeout)

(* No SQL is sent to the server that only initialises the container, and   *)
(* is about to go (_await_ready).                                          *)
SqlOnFinalServer ==
  pc \in {"setup", "version", "compile", "discover", "deep", "behave"} => server \in {"final", "dead"}

(* A validation that has begun ends, though the daemon may hang.           *)
CallEnds == pc = "record" ~> pc \in Ended
=============================================================================
