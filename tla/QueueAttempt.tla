---------------------------- MODULE QueueAttempt ----------------------------
(***************************************************************************)
(* One validation as the queue sees it.  MigrationQueue takes everything   *)
(* between the two transactions of Queue.validate for one step with any    *)
(* verdict; Validator takes that step apart.  Here is what the row, the    *)
(* files and the call of MigrationQueue are in each state of Validator,    *)
(* from the claimed task on whose schemas are read until its evidence is   *)
(* to be recorded.                                                         *)
(***************************************************************************)
EXTENDS Validator

CONSTANTS
  Task,     \* the task that is validated
  Worker,   \* who claimed it
  Schemas,  \* the configuration that the call has read
  Earlier   \* validations of the task that have begun before

(* validation_budget: three attempts, if nothing was granted.              *)
BaseLimit == 3

ASSUME CallAssumption == Absent # Schemas /\ Earlier \in 0..(BaseLimit - 1)

Required == File \ {"dependencies"}

(* Queue.hashes refuses a required file that is blank as one that is not   *)
(* there, and takes any text for the dependencies.                         *)
Staged(files) ==
  [n \in File |-> IF n \in Required /\ files[n] \in Blank THEN Absent ELSE files[n]]

Begun == pc # "idle"

(* Queue.validate has come to its handler: the validator or the second     *)
(* hash raised.                                                            *)
Raised == pc = "claimed" /\ status = "raised"

Attempt == Earlier + 1
Inputs == [sql |-> Staged(input), config |-> Schemas]

(* What the closing transaction is about to write.                         *)
Finding ==
  [result |-> IF status = "passed" THEN "passed" ELSE "failed",
   input |-> Inputs, attempt |-> Attempt, auth |-> Absent, schemas |-> Schemas]

AttemptCall ==
  IF pc = "idle"
  THEN [pc |-> "schemas_read", task |-> Task, worker |-> Worker, schemas |-> Schemas]
  ELSE IF pc \in Phase
  THEN [pc |-> "running", task |-> Task, schemas |-> Schemas, input |-> Inputs,
        attempt |-> Attempt, auth |-> Absent]
  ELSE IF Raised \/ pc = "dead"
  THEN [pc |-> "idle"]
  ELSE [pc |-> "verified", task |-> Task, evidence |-> Finding]

One(value) == [t \in {Task} |-> value]

Queue == INSTANCE MigrationQueue WITH
  Task <- {Task},
  Name <- {Worker},
  Fold <- [n \in {Worker} |-> n],
  Process <- {"validate"},
  Artifact <- File,
  Optional <- {"dependencies"},
  Content <- Text,
  Schema <- {Schemas},
  Approval <- {},
  Lineage <- {},
  LineageUsed <- 0,
  LegacyHistory <- {},
  BaseLimit <- BaseLimit,
  MaxExtra <- 0,
  MaxWorkers <- 1,
  None <- Absent,
  status <- One(IF ~Begun \/ Raised THEN "claimed" ELSE "validating"),
  worker <- One(Worker),
  reviewer <- One(Absent),
  evidence <- One([result |-> "none"]),
  counter <- One(IF Begun THEN Attempt ELSE Earlier),
  legacy <- One([before |-> 0, after |-> 0, counter |-> 0, status |-> "queued"]),
  baseline <- One([taken |-> Begun \/ Earlier > 0, used |-> 0, counter |-> 0]),
  starts <- One(IF Begun THEN Attempt ELSE Earlier),
  debit <- One(0),
  granted <- One(0),
  held <- One(FALSE),
  grant <- One([id |-> Absent, limit |-> BaseLimit, usedAt |-> 0, fresh |-> {},
                previous |-> [n \in File |-> Absent]]),
  consumed <- {},
  debited <- {},
  schemas <- Schemas,
  sql <- One(Staged(file)),
  call <- [p \in {"validate"} |-> AttemptCall]

(* What all of this depends on.                                            *)
Seen == <<file, input, pc, status>>

(* However the commands of a validation go, whatever is edited, raised or  *)
(* killed meanwhile, it is to the queue one of the steps that              *)
(* MigrationQueue has for it, or none: the attempt is charged and opened,  *)
(* files change, the call ends with the evidence of the inputs as they     *)
(* were hashed first, is taken back, or is lost (Queue.validate).          *)
StepsOfTheQueue ==
  [][\/ UNCHANGED Queue!vars
     \/ Queue!EditFiles(Task, Staged(file'))
     \/ Queue!Continue("validate") \/ Queue!Crash("validate")]_Seen
=============================================================================
