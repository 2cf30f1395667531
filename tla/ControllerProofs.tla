--------------------------- MODULE ControllerProofs ---------------------------
(***************************************************************************)
(* What the ledger of the full-run controller is worth, whatever the plan, *)
(* however many operators and queues there are: credit is earned, batches  *)
(* rest on accepted work, and a single operator forgets no attempt.        *)
(***************************************************************************)
EXTENDS Controller, FiniteSetTheorems, FunctionTheorems, TLAPS

-----------------------------------------------------------------------------
(* The inductive invariant                                                 *)

(* A command under way.                                                    *)
WellFormed(c) ==
  /\ c = [kind |-> c.kind, man |-> c.man, queue |-> c.queue, units |-> c.units,
          todo |-> c.todo, seen |-> c.seen]
  /\ c.kind \in Kind
  /\ c.man \in Ledger
  /\ c.queue \in Queue \cup {Absent}
  /\ c.kind \in {"ingest", "session", "seed"} => c.queue \in Queue
  /\ c.units \subseteq Unit
  /\ c.todo \subseteq Pair
  /\ c.seen = [x \in DOMAIN c.seen |-> c.seen[x]]
  /\ DOMAIN c.seen \subseteq Pair
  /\ \A x \in DOMAIN c.seen : c.seen[x] \in View \cup {Absent}

Types ==
  /\ queue \in [Queue -> [Task -> View \cup {Absent}]]
  /\ workers \in [Queue -> Nat \cup {Absent}]
  /\ accepted \subseteq Pair
  /\ ledger \in Ledger
  /\ DOMAIN call = Operator
  /\ call = [p \in Operator |-> call[p]]
  /\ \A p \in Operator : call[p] = Idle \/ WellFormed(call[p])

(* A task was accepted somewhere, and under a grant if it needs one.       *)
EarnedTask(u, t) ==
  /\ \E k \in Queue : <<k, t>> \in accepted
  /\ t \in HeldTask \/ u \in HeldUnit => t \in Granted

(* A ledger, the one on disk or a copy in some command's hands, records    *)
(* reviews of accepted tasks only, and credits a unit only for all of its. *)
EarnedLedger(m) ==
  \A u \in Unit :
    /\ \A t \in m[u].reviewed : EarnedTask(u, t)
    /\ m[u].state = "reviewed" => TasksOf[u] # {} /\ TasksOf[u] \subseteq m[u].reviewed

(* What was seen as eligible had been accepted.                            *)
HonestLook(c) ==
  \A x \in DOMAIN c.seen :
    c.seen[x] # Absent /\ c.seen[x].eligible => x \in accepted

(* An ingest has looked, or will look, at every task it is about.          *)
Complete(c) ==
  c.kind = "ingest" =>
    \A u \in c.units : \A t \in TasksOf[u] : <<c.queue, t>> \in c.todo \cup DOMAIN c.seen

(* A batch before the agents rests on accepted work.                       *)
RestsOnAccepted(c) ==
  c.kind = "session" =>
    \A u \in c.units : \A d \in DependsOn[u] : \A t \in TasksOf[d] :
      \E k \in Queue : <<k, t>> \in accepted

CreditInv ==
  /\ Types
  /\ EarnedLedger(ledger)
  /\ \A k \in Queue, t \in Task :
       queue[k][t] # Absent /\ queue[k][t].eligible => <<k, t>> \in accepted
  /\ \A p \in Operator : call[p] # Idle =>
       /\ EarnedLedger(call[p].man) /\ HonestLook(call[p])
       /\ Complete(call[p]) /\ RestsOnAccepted(call[p])

LEMMA InvType == CreditInv => TypeOK
BY DEF CreditInv, Types, TypeOK, WellFormed

-----------------------------------------------------------------------------
(* Typing of what the commands compute                                     *)

LEMMA StateSeenType ==
  ASSUME NEW u, NEW k, NEW r \in Record, NEW seen
  PROVE  StateSeen(u, k, r, seen) \in State
BY DEF StateSeen, State, Record

LEMMA IngestedType ==
  ASSUME NEW u \in Unit, NEW k \in Queue, NEW r \in Record, NEW seen
  PROVE  Ingested(u, k, r, seen) \in Record
<1>1. TasksOf[u] \in SUBSET Task
  BY PlanAssumption
<1>2. {k} \X TasksOf[u] \subseteq Pair
  BY <1>1 DEF Pair
<1> QED
  BY <1>1, <1>2, StateSeenType DEF Ingested, Record

LEMMA EvidenceType ==
  ASSUME NEW u \in Unit, NEW r \in Record, NEW seen, DOMAIN seen \subseteq Pair
  PROVE  WithEvidence(u, r, seen) \in Record
<1> DEFINE good == {x \in DOMAIN seen : x[2] \in TasksOf[u] /\ Creditable(u, x[2], seen[x])}
           reviewed == r.reviewed \cup {x[2] : x \in good}
<1>1. good \subseteq Pair /\ reviewed \subseteq Task
  BY DEF Pair, Record
<1>2. [r EXCEPT !.reviewed = reviewed, !.evidence = @ \cup good,
                !.state = IF TasksOf[u] \subseteq reviewed THEN "reviewed"
                          ELSE "partially_reviewed"] \in Record
  BY <1>1 DEF Record, State
<1> QED
  BY <1>2 DEF WithEvidence

LEMMA ResultType ==
  ASSUME NEW c, WellFormed(c)
  PROVE  Result(c) \in Ledger
<1> SUFFICES ASSUME NEW u \in Unit PROVE Result(c)[u] \in Record
  BY DEF Result, Ledger
<1>1. c.man[u] \in Record
  BY DEF WellFormed, Ledger
<1>2. CASE c.kind = "ingest" /\ u \in c.units
  BY <1>1, <1>2, IngestedType DEF Result, WellFormed
<1>3. CASE c.kind = "evidence"
  BY <1>1, <1>3, EvidenceType DEF Result, WellFormed
<1>4. Superseded(c.man[u]) \in Record
  BY <1>1 DEF Superseded, Record, State
<1>5. Rebuilt(c.man)[u] \in Record
  BY <1>1 DEF Rebuilt, Record
<1>6. Reverified(u, c.man[u], c.seen) \in Record
  BY <1>1, <1>4 DEF Reverified
<1>7. ~(c.kind = "ingest" /\ u \in c.units) /\ c.kind # "evidence" =>
        Result(c)[u] \in {Superseded(c.man[u]), Rebuilt(c.man)[u],
                          Reverified(u, c.man[u], c.seen), c.man[u]}
  BY DEF Result
<1> QED
  BY <1>1, <1>2, <1>3, <1>4, <1>5, <1>6, <1>7

-----------------------------------------------------------------------------
(* What a command writes is earned if what it loaded and saw is            *)

LEMMA AllReviewedEarned ==
  ASSUME NEW c, WellFormed(c), HonestLook(c), Complete(c), c.kind = "ingest", c.todo = {},
         NEW u \in c.units, AllReviewed(u, c.queue, c.seen)
  PROVE  \A t \in TasksOf[u] : EarnedTask(u, t)
<1> SUFFICES ASSUME NEW t \in TasksOf[u] PROVE EarnedTask(u, t)
  OBVIOUS
<1>1. c.queue \in Queue /\ <<c.queue, t>> \in DOMAIN c.seen
  BY DEF WellFormed, Complete
<1>2. Creditable(u, t, c.seen[<<c.queue, t>>])
  BY DEF AllReviewed
<1> QED
  BY <1>1, <1>2 DEF Creditable, HonestLook, EarnedTask

LEMMA IngestedEarned ==
  ASSUME NEW c, WellFormed(c), EarnedLedger(c.man), HonestLook(c), Complete(c),
         c.kind = "ingest", c.todo = {}, NEW u \in c.units
  PROVE  LET r == Ingested(u, c.queue, c.man[u], c.seen)
         IN /\ \A t \in r.reviewed : EarnedTask(u, t)
            /\ r.state = "reviewed" => TasksOf[u] # {} /\ TasksOf[u] \subseteq r.reviewed
<1> DEFINE r == Ingested(u, c.queue, c.man[u], c.seen)
<1>1. u \in Unit
  BY DEF WellFormed
<1>2. CASE AllReviewed(u, c.queue, c.seen)
  <2>1. r.reviewed = TasksOf[u] /\ TasksOf[u] # {}
    BY <1>2 DEF Ingested, AllReviewed
  <2> QED
    BY <1>2, <2>1, AllReviewedEarned
<1>3. CASE ~AllReviewed(u, c.queue, c.seen)
  <2>1. r.reviewed = c.man[u].reviewed
    BY <1>3 DEF Ingested
  <2>2. r.state = "reviewed" => c.man[u].state = "reviewed"
    BY <1>3 DEF Ingested, StateSeen
  <2> QED
    BY <1>1, <2>1, <2>2 DEF EarnedLedger
<1> QED
  BY <1>2, <1>3

LEMMA EvidenceEarned ==
  ASSUME NEW c, WellFormed(c), EarnedLedger(c.man), HonestLook(c), NEW u \in Unit
  PROVE  LET r == WithEvidence(u, c.man[u], c.seen)
         IN /\ \A t \in r.reviewed : EarnedTask(u, t)
            /\ r.state = "reviewed" => TasksOf[u] # {} /\ TasksOf[u] \subseteq r.reviewed
<1> DEFINE good == {x \in DOMAIN c.seen : x[2] \in TasksOf[u] /\ Creditable(u, x[2], c.seen[x])}
           reviewed == c.man[u].reviewed \cup {x[2] : x \in good}
           r == WithEvidence(u, c.man[u], c.seen)
<1>1. c.man[u] \in Record
  BY DEF WellFormed, Ledger
<1>2. CASE good = {}
  BY <1>2 DEF WithEvidence, EarnedLedger
<1>3. CASE good # {}
  <2>1. r.reviewed = reviewed
    BY <1>1, <1>3 DEF WithEvidence, Record
  <2>2. r.state = "reviewed" => TasksOf[u] \subseteq reviewed
    BY <1>1, <1>3 DEF WithEvidence, Record
  <2>3. \A x \in good : EarnedTask(u, x[2])
    <3> SUFFICES ASSUME NEW x \in good PROVE EarnedTask(u, x[2])
      OBVIOUS
    <3>1. x \in accepted /\ x \in Queue \X Task
      BY DEF Creditable, HonestLook, WellFormed, Pair
    <3>2. x = <<x[1], x[2]>> /\ x[1] \in Queue
      BY <3>1
    <3> QED
      BY <3>1, <3>2 DEF EarnedTask, Creditable
  <2>4. TasksOf[u] # {}
    BY <1>3
  <2> QED
    BY <2>1, <2>2, <2>3, <2>4 DEF EarnedLedger
<1> QED
  BY <1>2, <1>3

LEMMA ResultEarned ==
  ASSUME NEW c, WellFormed(c), EarnedLedger(c.man), HonestLook(c), Complete(c), c.todo = {}
  PROVE  EarnedLedger(Result(c))
<1> SUFFICES ASSUME NEW u \in Unit
             PROVE  /\ \A t \in Result(c)[u].reviewed : EarnedTask(u, t)
                    /\ Result(c)[u].state = "reviewed" =>
                         TasksOf[u] # {} /\ TasksOf[u] \subseteq Result(c)[u].reviewed
  BY DEF EarnedLedger
<1>1. c.man[u] \in Record
  BY DEF WellFormed, Ledger
<1>2. CASE c.kind = "ingest" /\ u \in c.units
  BY <1>2, IngestedEarned DEF Result
<1>3. CASE c.kind = "evidence"
  BY <1>3, EvidenceEarned DEF Result
<1>4. CASE ~(c.kind = "ingest" /\ u \in c.units) /\ c.kind # "evidence"
  <2>1. Result(c)[u] \in {Superseded(c.man[u]), Rebuilt(c.man)[u], c.man[u]}
    BY <1>4 DEF Result, Reverified
  <2>2. /\ Superseded(c.man[u]).reviewed = {}
        /\ Superseded(c.man[u]).state # "reviewed"
    BY <1>1 DEF Superseded, Record
  <2>3. /\ Rebuilt(c.man)[u].reviewed = c.man[u].reviewed
        /\ Rebuilt(c.man)[u].state = c.man[u].state
    BY <1>1 DEF Rebuilt, Record
  <2> QED
    BY <2>1, <2>2, <2>3 DEF EarnedLedger
<1> QED
  BY <1>2, <1>3, <1>4

-----------------------------------------------------------------------------
(* Every step preserves the invariant                                      *)

LEMMA InitCredit == Init => CreditInv
<1> SUFFICES ASSUME Init PROVE CreditInv
  OBVIOUS
<1>1. Theirs \subseteq View
  <2>1. JustSeeded \in View
    BY BoundAssumption DEF JustSeeded, View
  <2> QED
    BY <2>1 DEF Theirs
<1>2. NoRecord \in Record
  BY DEF NoRecord, Record, State
<1>3. Types
  <2>1. queue \in [Queue -> [Task -> View \cup {Absent}]]
    BY <1>1 DEF Init
  <2>2. workers \in [Queue -> Nat \cup {Absent}]
    BY BoundAssumption DEF Init
  <2> QED
    BY <1>2, <2>1, <2>2 DEF Init, Types, Ledger
<1>4. EarnedLedger(ledger)
  BY DEF Init, EarnedLedger, NoRecord
<1>5. \A k \in Queue, t \in Task :
        queue[k][t] # Absent /\ queue[k][t].eligible => <<k, t>> \in accepted
  BY DEF Init, Pair
<1> QED
  BY <1>3, <1>4, <1>5 DEF Init, CreditInv

(* Nothing that was accepted stops having been.                            *)
LEMMA StillEarned ==
  ASSUME accepted \subseteq accepted'
  PROVE  /\ \A m : EarnedLedger(m) => EarnedLedger(m)'
         /\ \A c : HonestLook(c) => HonestLook(c)'
         /\ \A c : RestsOnAccepted(c) => RestsOnAccepted(c)'
BY DEF EarnedLedger, EarnedTask, HonestLook, RestsOnAccepted

Sound(c) ==
  c = Idle \/ ( /\ WellFormed(c) /\ EarnedLedger(c.man) /\ HonestLook(c)
                /\ Complete(c) /\ RestsOnAccepted(c) )

LEMMA SoundCalls ==
  CreditInv => \A p \in Operator : Sound(call[p])
BY DEF CreditInv, Types, Sound

(* A step of one operator that leaves queues and history alone.            *)
LEMMA OperatorStep ==
  ASSUME CreditInv, NEW p \in Operator, NEW c, Sound(c),
         call' = [call EXCEPT ![p] = c], UNCHANGED <<queue, workers, accepted>>,
         ledger' \in Ledger, EarnedLedger(ledger')
  PROVE  CreditInv'
<1>1. \A q \in Operator : call'[q] = (IF q = p THEN c ELSE call[q])
  BY DEF CreditInv, Types
<1>2. \A q \in Operator : Sound(call'[q])
  BY <1>1, SoundCalls
<1>3. Types'
  BY <1>2 DEF CreditInv, Types, Sound
<1>4. EarnedLedger(ledger)'
  BY DEF EarnedLedger, EarnedTask
<1>5. \A q \in Operator : Sound(call[q])'
  <2> SUFFICES ASSUME NEW q \in Operator PROVE Sound(call[q])'
    OBVIOUS
  <2>1. Sound(call'[q])
    BY <1>2
  <2>2. WellFormed(call'[q]) => WellFormed(call[q])'
    BY DEF WellFormed
  <2>3. EarnedLedger(call'[q].man) => EarnedLedger(call[q].man)'
    BY DEF EarnedLedger, EarnedTask
  <2>4. HonestLook(call'[q]) => HonestLook(call[q])'
    BY DEF HonestLook
  <2>5. Complete(call'[q]) => Complete(call[q])'
    BY DEF Complete
  <2>6. RestsOnAccepted(call'[q]) => RestsOnAccepted(call[q])'
    BY DEF RestsOnAccepted
  <2> QED
    BY <2>1, <2>2, <2>3, <2>4, <2>5, <2>6 DEF Sound
<1>6. (\A k \in Queue, t \in Task :
        queue[k][t] # Absent /\ queue[k][t].eligible => <<k, t>> \in accepted)'
  BY DEF CreditInv
<1> QED
  BY <1>3, <1>4, <1>5, <1>6 DEF CreditInv, Sound

(* A step of the queues.                                                   *)
LEMMA QueueStep ==
  ASSUME CreditInv, accepted \subseteq accepted', accepted' \subseteq Pair,
         queue' \in [Queue -> [Task -> View \cup {Absent}]], workers' \in [Queue -> Nat \cup {Absent}],
         UNCHANGED ledger,
         call' = call \/ \E p \in Operator : call' = [call EXCEPT ![p] = Idle],
         \A k \in Queue, t \in Task :
           queue'[k][t] # Absent /\ queue'[k][t].eligible => <<k, t>> \in accepted'
  PROVE  CreditInv'
<1>1. \A q \in Operator : call'[q] \in {call[q], Idle}
  BY DEF CreditInv, Types
<1>2. \A q \in Operator : Sound(call'[q])
  BY <1>1, SoundCalls DEF Sound
<1>3. Types'
  BY <1>2 DEF CreditInv, Types, Sound
<1>4. EarnedLedger(ledger)'
  BY DEF CreditInv, EarnedLedger, EarnedTask
<1>5. \A q \in Operator : Sound(call[q])'
  <2> SUFFICES ASSUME NEW q \in Operator PROVE Sound(call[q])'
    OBVIOUS
  <2>1. Sound(call'[q])
    BY <1>2
  <2>2. WellFormed(call'[q]) => WellFormed(call[q])'
    BY DEF WellFormed
  <2>3. EarnedLedger(call'[q].man) => EarnedLedger(call[q].man)'
    BY DEF EarnedLedger, EarnedTask
  <2>4. HonestLook(call'[q]) => HonestLook(call[q])'
    BY DEF HonestLook
  <2>5. Complete(call'[q]) => Complete(call[q])'
    BY DEF Complete
  <2>6. RestsOnAccepted(call'[q]) => RestsOnAccepted(call[q])'
    BY DEF RestsOnAccepted
  <2> QED
    BY <2>1, <2>2, <2>3, <2>4, <2>5, <2>6 DEF Sound
<1> QED
  BY <1>3, <1>4, <1>5 DEF CreditInv, Sound

(* A command that begins.                                                  *)
LEMMA CommandSound ==
  ASSUME CreditInv, NEW kind \in Kind, NEW k \in Queue \cup {Absent},
         NEW units \in SUBSET Unit, NEW todo \in SUBSET Pair,
         kind \in {"ingest", "session", "seed"} => k \in Queue,
         kind = "ingest" => \A u \in units : \A t \in TasksOf[u] : <<k, t>> \in todo,
         kind = "session" => units \subseteq Frontier
  PROVE  Sound(Command(kind, k, units, todo))
<1> DEFINE c == Command(kind, k, units, todo)
<1>1. WellFormed(c)
  BY DEF Command, WellFormed, CreditInv, Types
<1>2. EarnedLedger(c.man) /\ HonestLook(c) /\ Complete(c)
  BY DEF Command, CreditInv, HonestLook, Complete
<1>3. RestsOnAccepted(c)
  <2> SUFFICES ASSUME kind = "session", NEW u \in units, NEW d \in DependsOn[u], NEW t \in TasksOf[d]
               PROVE  \E q \in Queue : <<q, t>> \in accepted
    BY DEF RestsOnAccepted, Command
  <2>1. d \in Unit /\ ledger[d].state = "reviewed"
    BY PlanAssumption DEF Frontier
  <2> QED
    BY <2>1 DEF CreditInv, EarnedLedger, EarnedTask
<1> QED
  BY <1>1, <1>2, <1>3 DEF Sound

LEMMA StartCredit ==
  ASSUME CreditInv, NEW p \in Operator, Start(p)
  PROVE  CreditInv'
<1>1. ledger \in Ledger /\ EarnedLedger(ledger)
  BY DEF CreditInv, Types
<1>2. ASSUME NEW c, Sound(c), Begin(p, c), UNCHANGED <<queue, workers, accepted, ledger>>
      PROVE  CreditInv'
  BY <1>1, <1>2, OperatorStep DEF Begin
<1>3. CASE Manifest(p)
  BY <1>2, <1>3, CommandSound DEF Manifest, Kind
<1>4. CASE Reverify(p)
  <2> DEFINE todo == UNION {ledger[u].evidence : u \in {v \in Unit : Credited(ledger[v])}}
  <2>1. todo \in SUBSET Pair
    BY <1>1 DEF Ledger, Record
  <2>2. Sound(Command("reverify", Absent, {}, todo))
    BY <2>1, CommandSound DEF Kind
  <2> QED
    BY <1>2, <1>4, <2>2 DEF Reverify
<1>5. ASSUME NEW u \in Unit, Supersede(p, u) PROVE CreditInv'
  BY <1>2, <1>5, CommandSound DEF Supersede, Kind
<1>6. ASSUME NEW x \in Pair, IngestEvidence(p, x) PROVE CreditInv'
  BY <1>2, <1>6, CommandSound DEF IngestEvidence, Kind
<1>7. ASSUME NEW k \in Queue, NEW units \in SUBSET Unit, Seed(p, k, units) PROVE CreditInv'
  BY <1>2, <1>7, CommandSound DEF Seed, Kind
<1>8. ASSUME NEW k \in Queue, NEW units \in SUBSET Unit, Launch(p, k, units) PROVE CreditInv'
  BY <1>2, <1>8, CommandSound DEF Launch, Kind
<1> QED
  BY <1>3, <1>4, <1>5, <1>6, <1>7, <1>8 DEF Start

(* What looking at a task makes of a command.                              *)
LEMMA LookRecord ==
  ASSUME NEW c, WellFormed(c), NEW x, NEW seen
  PROVE  [c EXCEPT !.todo = @ \ {x}, !.seen = seen] =
           [kind |-> c.kind, man |-> c.man, queue |-> c.queue, units |-> c.units,
            todo |-> c.todo \ {x}, seen |-> seen]
<1> DEFINE todo == c.todo \ {x}
           looked == [kind |-> c.kind, man |-> c.man, queue |-> c.queue, units |-> c.units,
                      todo |-> todo, seen |-> c.seen]
<1>1. [c EXCEPT !.todo = @ \ {x}, !.seen = seen] = [[c EXCEPT !.todo = todo] EXCEPT !.seen = seen]
  OBVIOUS
<1> HIDE DEF todo
<1>2. [c EXCEPT !.todo = todo] = looked
  BY DEF WellFormed
<1>3. [looked EXCEPT !.seen = seen] =
        [kind |-> c.kind, man |-> c.man, queue |-> c.queue, units |-> c.units,
         todo |-> todo, seen |-> seen]
  OBVIOUS
<1> QED
  BY <1>1, <1>2, <1>3 DEF todo

LEMMA ContinueCredit ==
  ASSUME CreditInv, NEW p \in Operator, Continue(p)
  PROVE  CreditInv'
<1>1. ledger \in Ledger /\ EarnedLedger(ledger)
  BY DEF CreditInv, Types
<1>2. Sound(call[p]) /\ Sound(Idle)
  BY SoundCalls DEF Sound
<1>3. CASE SessionEnds(p)
  <2> DEFINE todo == {call[p].queue} \X UNION {TasksOf[u] : u \in call[p].units}
             c == Command("ingest", call[p].queue, call[p].units, todo)
  <2>1. call[p] # Idle
    BY <1>3 DEF SessionEnds, Idle
  <2>2. call[p].queue \in Queue /\ call[p].units \subseteq Unit
    BY <1>2, <1>3, <2>1 DEF SessionEnds, Sound, WellFormed
  <2>3. todo \in SUBSET Pair
    BY <2>2, PlanAssumption DEF Pair
  <2>4. Sound(c)
    BY <2>2, <2>3, CommandSound DEF Kind
  <2> QED
    BY <1>1, <1>3, <2>4, OperatorStep DEF SessionEnds
<1>4. ASSUME NEW x \in Pair, Look(p, x) PROVE CreditInv'
  <2> DEFINE seen == [y \in DOMAIN call[p].seen \cup {x} |->
                        IF y = x THEN queue[x[1]][x[2]] ELSE call[p].seen[y]]
             c == [call[p] EXCEPT !.todo = @ \ {x}, !.seen = seen]
  <2>1. x[1] \in Queue /\ x[2] \in Task /\ x = <<x[1], x[2]>>
    BY DEF Pair
  <2>2. queue[x[1]][x[2]] \in View \cup {Absent}
    BY <2>1 DEF CreditInv, Types
  <2>3. WellFormed(call[p])
    BY <1>2, <1>4 DEF Sound, Look
  <2>4. WellFormed(c)
    <3>1. c = [kind |-> call[p].kind, man |-> call[p].man, queue |-> call[p].queue,
               units |-> call[p].units, todo |-> call[p].todo \ {x}, seen |-> seen]
      <4> HIDE DEF seen
      <4> QED
        BY <2>3, LookRecord
    <3>2. DOMAIN seen \subseteq Pair /\ seen = [y \in DOMAIN seen |-> seen[y]]
      BY <2>3 DEF WellFormed
    <3>3. \A y \in DOMAIN seen : seen[y] \in View \cup {Absent}
      BY <2>2, <2>3 DEF WellFormed
    <3> HIDE DEF seen
    <3> QED
      BY <2>3, <3>1, <3>2, <3>3 DEF WellFormed
  <2>5. EarnedLedger(c.man)
    BY <1>2, <1>4, <2>3 DEF Sound, Look, WellFormed
  <2>6. c.seen = seen /\ c.todo = call[p].todo \ {x} /\ c.kind = call[p].kind
          /\ c.units = call[p].units /\ c.queue = call[p].queue
    BY <2>3 DEF WellFormed
  <2>7. HonestLook(c)
    BY <1>2, <1>4, <2>1, <2>6 DEF Sound, Look, HonestLook, CreditInv
  <2>8. Complete(c)
    BY <1>2, <1>4, <2>6 DEF Sound, Look, Complete
  <2>9. RestsOnAccepted(c)
    BY <1>2, <1>4, <2>6 DEF Sound, Look, RestsOnAccepted
  <2>10. call' = [call EXCEPT ![p] = c]
    BY <1>4 DEF Look, CreditInv, Types
  <2> QED
    BY <1>1, <1>4, <2>4, <2>5, <2>7, <2>8, <2>9, <2>10, OperatorStep DEF Look, Sound
<1>5. CASE WriteLedger(p)
  <2>1. call[p] # Idle /\ call[p].todo = {}
    BY <1>5 DEF WriteLedger, Idle
  <2>2. ledger' \in Ledger /\ EarnedLedger(ledger')
    BY <1>2, <1>5, <2>1, ResultType, ResultEarned DEF WriteLedger, Sound
  <2> QED
    BY <1>2, <1>5, <2>2, OperatorStep DEF WriteLedger
<1>6. ASSUME NEW lanes \in 1..2, InitQueue(p, lanes) PROVE CreditInv'
  <2>1. JustSeeded \in View /\ ~JustSeeded.eligible
    BY BoundAssumption DEF JustSeeded, View
  <2>2. /\ queue' \in [Queue -> [Task -> View \cup {Absent}]]
        /\ workers' \in [Queue -> Nat \cup {Absent}]
    <3> DEFINE row == [t \in Task |->
                         IF t \in UNION {TasksOf[u] : u \in call[p].units}
                         THEN JustSeeded ELSE Absent]
    <3>1. row \in [Task -> View \cup {Absent}] /\ lanes \in Nat
      BY <2>1
    <3>2. \/ UNCHANGED <<queue, workers>>
          \/ /\ queue' = [queue EXCEPT ![call[p].queue] = row]
             /\ workers' = [workers EXCEPT ![call[p].queue] = lanes]
      BY <1>6 DEF InitQueue
    <3> HIDE DEF row
    <3> QED
      BY <3>1, <3>2 DEF CreditInv, Types
  <2>3. \A k \in Queue, t \in Task : queue'[k][t] \in {queue[k][t], JustSeeded, Absent}
    BY <1>6 DEF InitQueue, CreditInv, Types
  <2>4. accepted' = accepted /\ ledger' = ledger /\ call' = [call EXCEPT ![p] = Idle]
    BY <1>6 DEF InitQueue
  <2>5. \A k \in Queue, t \in Task :
          queue'[k][t] # Absent /\ queue'[k][t].eligible => <<k, t>> \in accepted'
    BY <2>1, <2>3, <2>4 DEF CreditInv
  <2>6. accepted' \subseteq Pair
    BY <2>4 DEF CreditInv, Types
  <2> QED
    BY <2>2, <2>4, <2>5, <2>6, QueueStep
<1> QED
  BY <1>3, <1>4, <1>5, <1>6 DEF Continue

LEMMA CrashCredit ==
  ASSUME CreditInv, NEW p \in Operator, Crash(p)
  PROVE  CreditInv'
BY OperatorStep DEF Crash, CreditInv, Types, Sound

LEMMA QueueCredit ==
  ASSUME CreditInv, NEW k \in Queue, NEW t \in Task,
         Drift(k, t) \/ \E v \in View : Work(k, t, v)
  PROVE  CreditInv'
<1>1. queue[k][t] # Absent /\ queue[k][t] \in View
  BY DEF Drift, Work, CreditInv, Types
<1>2. CASE Drift(k, t)
  <2> DEFINE v == [queue[k][t] EXCEPT !.fresh = ~@]
  <2>1. v \in View /\ v.eligible = queue[k][t].eligible
    BY <1>1, <1>2 DEF Drift, View
  <2>2. queue' = [queue EXCEPT ![k] = [queue[k] EXCEPT ![t] = v]]
    BY <1>2 DEF Drift, CreditInv, Types
  <2>3. v.eligible => <<k, t>> \in accepted
    BY <1>1, <2>1 DEF CreditInv
  <2>4. /\ queue' \in [Queue -> [Task -> View \cup {Absent}]]
        /\ \A q \in Queue, s \in Task :
             queue'[q][s] = (IF q = k /\ s = t THEN v ELSE queue[q][s])
    BY <2>1, <2>2 DEF CreditInv, Types
  <2>5. \A q \in Queue, s \in Task :
          queue'[q][s] # Absent /\ queue'[q][s].eligible => <<q, s>> \in accepted
    BY <2>3, <2>4 DEF CreditInv
  <2> QED
    BY <1>2, <2>4, <2>5, QueueStep DEF Drift, CreditInv, Types
<1>3. ASSUME NEW v \in View, Work(k, t, v) PROVE CreditInv'
  <2>1. queue' = [queue EXCEPT ![k] = [queue[k] EXCEPT ![t] = v]]
    BY <1>3 DEF Work, CreditInv, Types
  <2>2. accepted \subseteq accepted' /\ accepted' \subseteq Pair
    BY <1>3 DEF Work, CreditInv, Types, Pair
  <2>3. v.eligible => <<k, t>> \in accepted'
    BY <1>3 DEF Work, Queues!Moves
  <2>4. /\ queue' \in [Queue -> [Task -> View \cup {Absent}]]
        /\ \A q \in Queue, s \in Task :
             queue'[q][s] = (IF q = k /\ s = t THEN v ELSE queue[q][s])
    BY <2>1 DEF CreditInv, Types
  <2>5. \A q \in Queue, s \in Task :
          queue'[q][s] # Absent /\ queue'[q][s].eligible => <<q, s>> \in accepted'
    BY <2>2, <2>3, <2>4 DEF CreditInv
  <2>6. workers' = workers /\ workers' \in [Queue -> Nat \cup {Absent}] /\ ledger' = ledger /\ call' = call
    BY <1>3 DEF Work, CreditInv, Types
  <2> QED
    BY <2>2, <2>4, <2>5, <2>6, QueueStep
<1> QED
  BY <1>2, <1>3

LEMMA StepCredit == CreditInv /\ [Next]_vars => CreditInv'
<1> SUFFICES ASSUME CreditInv, [Next]_vars PROVE CreditInv'
  OBVIOUS
<1>1. CASE UNCHANGED vars
  BY <1>1, QueueStep DEF vars, CreditInv, Types
<1> QED
  BY <1>1, StartCredit, ContinueCredit, CrashCredit, QueueCredit DEF Next

LEMMA CreditCorrect == Spec => []CreditInv
BY InitCredit, StepCredit, PTL DEF Spec

-----------------------------------------------------------------------------
(* Ledger, queues, history and commands keep their types.                  *)
THEOREM ControllerTypes == Spec => []TypeOK
BY CreditCorrect, InvType, PTL

(* However many operators give commands at once, overwrite each other's    *)
(* ledger or are killed: a unit is credited only if every task of it was   *)
(* accepted in a review, under a grant where its lineage is quarantined.   *)
THEOREM CreditIsEarned == Spec => []CreditEarned
<1>1. CreditInv => CreditEarned
  BY DEF CreditInv, CreditEarned, EarnedLedger, EarnedTask
<1> QED
  BY <1>1, CreditCorrect, PTL

(* A batch put before the agents rests on accepted work only.              *)
THEOREM BatchesRest == Spec => []LaunchedOnReviewedBase
<1>1. CreditInv => LaunchedOnReviewedBase
  BY DEF CreditInv, LaunchedOnReviewedBase, RestsOnAccepted, Idle
<1> QED
  BY <1>1, CreditCorrect, PTL

-----------------------------------------------------------------------------
(* A single operator                                                       *)

(* What supersession and a rebuilt manifest drop is also told by something *)
(* that they keep.                                                         *)
Remembered(r) ==
  /\ r.lifetime => r.attempted
  /\ r.reviewed # {} => r.evidence # {}

(* The ledger is as the command under way loaded it.                       *)
MemoryInv ==
  /\ \A u \in Unit : Remembered(ledger[u])
  /\ \A p \in Operator : call[p] # Idle => call[p].man = ledger

LEMMA ResultRemembers ==
  ASSUME NEW c, WellFormed(c), NEW u \in Unit, Remembered(c.man[u])
  PROVE  /\ Remembered(Result(c)[u])
         /\ Tried(c.man[u]) => Tried(Result(c)[u])
<1> DEFINE r == c.man[u]
<1>1. r \in Record
  BY DEF WellFormed, Ledger
<1>2. CASE c.kind = "ingest" /\ u \in c.units
  <2> DEFINE s == Ingested(u, c.queue, r, c.seen)
  <2>1. Result(c)[u] = s
    BY <1>2 DEF Result
  <2>2. (r.lifetime => s.lifetime) /\ (r.attempted => s.attempted) /\ r.evidence \subseteq s.evidence
    BY DEF Ingested
  <2>3. s.lifetime => s.attempted
    BY DEF Ingested, Remembered
  <2>4. s.reviewed # {} => s.evidence # {}
    <3>1. CASE AllReviewed(u, c.queue, c.seen)
      <4>1. PICK t : t \in TasksOf[u]
        BY <3>1 DEF AllReviewed
      <4>2. <<c.queue, t>> \in s.evidence
        BY <3>1, <4>1 DEF Ingested
      <4> QED
        BY <4>2
    <3>2. CASE ~AllReviewed(u, c.queue, c.seen)
      BY <3>2 DEF Ingested, Remembered
    <3> QED
      BY <3>1, <3>2
  <2> HIDE DEF s
  <2> QED
    BY <2>1, <2>2, <2>3, <2>4 DEF Remembered, Tried
<1>3. CASE c.kind = "evidence"
  <2> DEFINE good == {x \in DOMAIN c.seen : x[2] \in TasksOf[u] /\ Creditable(u, x[2], c.seen[x])}
             s == WithEvidence(u, r, c.seen)
  <2>1. Result(c)[u] = s
    BY <1>3 DEF Result
  <2>2. good = {} => s = r
    BY DEF WithEvidence
  <2>3. good # {} => s.evidence = r.evidence \cup good /\ s.lifetime = r.lifetime
                       /\ s.attempted = r.attempted
    BY <1>1 DEF WithEvidence, Record
  <2> HIDE DEF good, s
  <2> QED
    BY <2>1, <2>2, <2>3 DEF Remembered, Tried
<1>4. CASE ~(c.kind = "ingest" /\ u \in c.units) /\ c.kind # "evidence"
  <2>1. Result(c)[u] \in {Superseded(r), Rebuilt(c.man)[u], r}
    BY <1>4 DEF Result, Reverified
  <2>2. LET s == Superseded(r)
        IN s.reviewed = {} /\ s.evidence = r.evidence /\ s.lifetime = r.lifetime
             /\ s.attempted = r.attempted
    BY <1>1 DEF Superseded, Record
  <2>3. LET s == Rebuilt(c.man)[u]
        IN s.reviewed = r.reviewed /\ s.evidence = r.evidence /\ s.lifetime = FALSE
             /\ s.attempted = r.attempted
    BY <1>1 DEF Rebuilt, Record
  <2> QED
    BY <2>1, <2>2, <2>3 DEF Remembered, Tried
<1> QED
  BY <1>2, <1>3, <1>4

(* A step of the one operator, or of the queues.                           *)
LEMMA StepMemory ==
  ASSUME \A p, q \in Operator : p = q,
         CreditInv, MemoryInv, [Next]_vars
  PROVE  /\ MemoryInv'
         /\ \A u \in Unit : Tried(ledger[u]) => Tried(ledger'[u])
<1>1. ASSUME ledger' = ledger, \A p \in Operator : call'[p] # Idle => call'[p].man = ledger
      PROVE  MemoryInv' /\ \A u \in Unit : Tried(ledger[u]) => Tried(ledger'[u])
  BY <1>1 DEF MemoryInv, Remembered
<1>2. ASSUME NEW p \in Operator, NEW c, c = Idle \/ c.man = ledger,
             call' = [call EXCEPT ![p] = c], ledger' = ledger
      PROVE  MemoryInv' /\ \A u \in Unit : Tried(ledger[u]) => Tried(ledger'[u])
  <2>1. \A q \in Operator : call'[q] = c
    BY <1>2 DEF CreditInv, Types
  <2> QED
    BY <1>1, <1>2, <2>1
<1>3. \A kind, k, units, todo : Command(kind, k, units, todo).man = ledger
  BY DEF Command
<1>4. ASSUME NEW p \in Operator, Start(p) \/ SessionEnds(p)
      PROVE  MemoryInv' /\ \A u \in Unit : Tried(ledger[u]) => Tried(ledger'[u])
  <2>1. PICK c : c.man = ledger /\ call' = [call EXCEPT ![p] = c] /\ ledger' = ledger
    <3>1. \A c : Begin(p, c) => call' = [call EXCEPT ![p] = c]
      BY DEF Begin
    <3>2. CASE Manifest(p)
      BY <1>3, <3>1, <3>2 DEF Manifest
    <3>3. CASE Reverify(p)
      BY <1>3, <3>1, <3>3 DEF Reverify
    <3>4. CASE \E u \in Unit : Supersede(p, u)
      BY <1>3, <3>1, <3>4 DEF Supersede
    <3>5. CASE \E x \in Pair : IngestEvidence(p, x)
      BY <1>3, <3>1, <3>5 DEF IngestEvidence
    <3>6. CASE \E k \in Queue \ Coordinated, units \in SUBSET Unit : Seed(p, k, units)
      BY <1>3, <3>1, <3>6 DEF Seed
    <3>7. CASE \E k \in Queue \ Coordinated, units \in SUBSET Unit : Launch(p, k, units)
      BY <1>3, <3>1, <3>7 DEF Launch
    <3>8. CASE SessionEnds(p)
      <4> DEFINE c == Command("ingest", call[p].queue, call[p].units,
                   {call[p].queue} \X UNION {TasksOf[u] : u \in call[p].units})
      <4>1. call' = [call EXCEPT ![p] = c] /\ ledger' = ledger
        BY <3>8 DEF SessionEnds
      <4>2. c.man = ledger
        BY <1>3
      <4> HIDE DEF c
      <4> QED
        BY <4>1, <4>2
    <3> QED
      BY <1>4, <3>2, <3>3, <3>4, <3>5, <3>6, <3>7, <3>8 DEF Start
  <2> QED
    BY <1>2, <2>1
<1>5. ASSUME NEW p \in Operator, NEW x \in Pair, Look(p, x)
      PROVE  MemoryInv' /\ \A u \in Unit : Tried(ledger[u]) => Tried(ledger'[u])
  <2> DEFINE seen == [y \in DOMAIN call[p].seen \cup {x} |->
                        IF y = x THEN queue[x[1]][x[2]] ELSE call[p].seen[y]]
             c == [call[p] EXCEPT !.todo = @ \ {x}, !.seen = seen]
  <2>1. call' = [call EXCEPT ![p] = c] /\ ledger' = ledger
    BY <1>5 DEF Look, CreditInv, Types
  <2>2. c.man = call[p].man
    <3>1. WellFormed(call[p])
      BY <1>5 DEF Look, CreditInv, Types
    <3> HIDE DEF seen
    <3>2. c = [kind |-> call[p].kind, man |-> call[p].man, queue |-> call[p].queue,
               units |-> call[p].units, todo |-> call[p].todo \ {x}, seen |-> seen]
      BY <3>1, LookRecord
    <3> HIDE DEF c
    <3> QED
      BY <3>2
  <2>3. c.man = ledger
    BY <1>5, <2>2 DEF Look, MemoryInv
  <2> HIDE DEF c
  <2> QED
    BY <1>2, <2>1, <2>3
<1>6. ASSUME NEW p \in Operator, WriteLedger(p)
      PROVE  MemoryInv' /\ \A u \in Unit : Tried(ledger[u]) => Tried(ledger'[u])
  <2>1. WellFormed(call[p]) /\ call[p].man = ledger
    BY <1>6 DEF WriteLedger, CreditInv, Types, MemoryInv, Idle
  <2>2. \A u \in Unit : Remembered(ledger'[u]) /\ (Tried(ledger[u]) => Tried(ledger'[u]))
    BY <1>6, <2>1, ResultRemembers DEF WriteLedger, MemoryInv
  <2>3. \A q \in Operator : call'[q] = Idle
    BY <1>6 DEF WriteLedger, CreditInv, Types
  <2>4. MemoryInv'
    BY <2>2, <2>3 DEF MemoryInv, Remembered
  <2> QED
    BY <2>2, <2>4
<1>7. ASSUME NEW p \in Operator, Crash(p) \/ \E lanes \in 1..2 : InitQueue(p, lanes)
      PROVE  MemoryInv' /\ \A u \in Unit : Tried(ledger[u]) => Tried(ledger'[u])
  BY <1>2, <1>7 DEF Crash, InitQueue
<1>8. CASE UNCHANGED <<ledger, call>>
  BY <1>1, <1>8 DEF MemoryInv
<1> QED
  BY <1>4, <1>5, <1>6, <1>7, <1>8 DEF Next, Continue, Drift, Work, vars

(* Where commands are given one at a time, the ledger never forgets that a *)
(* unit was attempted or credited: neither supersession, nor the rebuilt   *)
(* manifest, nor any failure makes it seedable with a fresh budget.        *)
THEOREM AttemptsAreRemembered ==
  ASSUME \A p, q \in Operator : p = q
  PROVE  Spec => AttemptNeverForgotten
<1>1. Init => MemoryInv
  BY DEF Init, MemoryInv, Remembered, NoRecord
<1>2. CreditInv /\ MemoryInv /\ [Next]_vars => MemoryInv'
  BY StepMemory
<1>3. CreditInv /\ MemoryInv /\ [Next]_vars
        => [\A u \in Unit : Tried(ledger[u]) => Tried(ledger'[u])]_vars
  BY StepMemory
<1> QED
  BY <1>1, <1>2, <1>3, CreditCorrect, PTL DEF Spec, AttemptNeverForgotten
-----------------------------------------------------------------------------
(* Lanes                                                                   *)

RunQueue == Queue \ Coordinated

(* A queue is never busier than its lanes; and a run queue that is in a    *)
(* session, or still busy after one, has only lanes that are not reserved. *)
LaneInv ==
  /\ \A k \in Coordinated : workers[k] = TheirLanes
  /\ \A p \in Operator : call[p].kind \in {"seed", "session"} => call[p].queue \in RunQueue
  /\ \A k \in Queue : Cardinality(Active(k)) <= Lanes(k)
  /\ \A k \in Queue, t \in Task : queue[k][t] # Absent => workers[k] # Absent
  /\ \A k \in RunQueue : InSession(k) \/ Active(k) # {} => Lanes(k) + Reserved <= MaxLanes

LEMMA ActiveCounts ==
  ASSUME NEW k \in Queue
  PROVE  IsFiniteSet(Active(k)) /\ Cardinality(Active(k)) \in Nat
BY FS_Subset, FS_CardinalityType, PlanAssumption DEF Active

LEMMA LanesType == CreditInv => \A k \in Queue : Lanes(k) \in Nat
BY BoundAssumption DEF CreditInv, Types, Lanes

LEMMA InitLanes == Init => LaneInv
<1> SUFFICES ASSUME Init PROVE LaneInv
  OBVIOUS
<1>1. \A k \in Queue : Active(k) = {}
  <2>1. \A v \in Theirs : v.status # "active"
    BY DEF Theirs, JustSeeded
  <2> QED
    BY <2>1 DEF Init, Active
<1>2. \A k \in Queue : Lanes(k) \in Nat
  BY BoundAssumption, AbsentAssumption DEF Init, Lanes
<1>3. \A k \in Queue : Cardinality(Active(k)) <= Lanes(k)
  BY <1>1, <1>2, FS_EmptySet
<1>4. \A k : ~InSession(k)
  BY DEF Init, InSession, Idle
<1>5. \A k \in Queue, t \in Task : queue[k][t] # Absent => workers[k] # Absent
  BY BoundAssumption, AbsentAssumption DEF Init
<1> QED
  BY <1>1, <1>3, <1>4, <1>5, PlanAssumption DEF Init, LaneInv, RunQueue, Idle

(* A step of one operator that leaves the queues alone.                    *)
LEMMA CallLanes ==
  ASSUME CreditInv, LaneInv, NEW p \in Operator, NEW c, call' = [call EXCEPT ![p] = c],
         UNCHANGED <<queue, workers>>,
         c.kind \in {"seed", "session"} => c.queue \in RunQueue,
         c.kind = "session" =>
           InSession(c.queue) \/ Lanes(c.queue) + Reserved <= MaxLanes
  PROVE  LaneInv'
<1>1. \A q \in Operator : call'[q] = (IF q = p THEN c ELSE call[q])
  BY DEF CreditInv, Types
<1>2. \A k : Active(k)' = Active(k) /\ Lanes(k)' = Lanes(k)
  BY DEF Active, Lanes
<1>3. \A k \in RunQueue :
        InSession(k)' => InSession(k) \/ Lanes(k) + Reserved <= MaxLanes
  BY <1>1 DEF InSession
<1> QED
  BY <1>1, <1>2, <1>3 DEF LaneInv, RunQueue

LEMMA LaunchLanes ==
  ASSUME CreditInv, NEW k \in Queue, LaneBudget(k)
  PROVE  Lanes(k) + Reserved <= MaxLanes
<1>1. IsFiniteSet(Coordinated \X Task)
  BY FS_Subset, FS_Product, PlanAssumption
<1>2. {x \in Coordinated \X Task : x[2] \in Active(x[1])} \in SUBSET (Coordinated \X Task)
  OBVIOUS
<1>3. External \in Nat
  BY <1>1, <1>2, FS_Subset, FS_CardinalityType DEF External
<1> QED
  BY <1>3, LanesType, BoundAssumption DEF LaneBudget

LEMMA StartLanes ==
  ASSUME CreditInv, LaneInv, NEW p \in Operator, Start(p)
  PROVE  LaneInv'
<1>1. \A kind, k, units, todo :
        /\ Command(kind, k, units, todo).kind = kind
        /\ Command(kind, k, units, todo).queue = k
  BY DEF Command
<1>2. ASSUME NEW c, Begin(p, c), UNCHANGED <<queue, workers>>,
             c.kind \in {"seed", "session"} => c.queue \in RunQueue,
             c.kind = "session" => Lanes(c.queue) + Reserved <= MaxLanes
      PROVE  LaneInv'
  BY <1>2, CallLanes DEF Begin
<1>3. ASSUME NEW kind \in Kind \ {"seed", "session"}, NEW k, NEW units, NEW todo,
             Begin(p, Command(kind, k, units, todo)), UNCHANGED <<queue, workers>>
      PROVE  LaneInv'
  BY <1>1, <1>2, <1>3
<1>4. CASE Manifest(p)
  BY <1>3, <1>4 DEF Manifest, Kind
<1>5. CASE Reverify(p)
  BY <1>3, <1>5 DEF Reverify, Kind
<1>6. ASSUME NEW u \in Unit, Supersede(p, u) PROVE LaneInv'
  BY <1>3, <1>6 DEF Supersede, Kind
<1>7. ASSUME NEW x \in Pair, IngestEvidence(p, x) PROVE LaneInv'
  BY <1>3, <1>7 DEF IngestEvidence, Kind
<1>8. ASSUME NEW k \in Queue \ Coordinated, NEW units \in SUBSET Unit, Seed(p, k, units)
      PROVE  LaneInv'
  BY <1>1, <1>2, <1>8 DEF Seed, RunQueue
<1>9. ASSUME NEW k \in Queue \ Coordinated, NEW units \in SUBSET Unit, Launch(p, k, units)
      PROVE  LaneInv'
  BY <1>1, <1>2, <1>9, LaunchLanes DEF Launch, RunQueue
<1> QED
  BY <1>4, <1>5, <1>6, <1>7, <1>8, <1>9 DEF Start

LEMMA ContinueLanes ==
  ASSUME 2 <= MaxLanes, CreditInv, LaneInv, NEW p \in Operator, Continue(p) \/ Crash(p)
  PROVE  LaneInv'
<1>0. ASSUME call' = [call EXCEPT ![p] = Idle], UNCHANGED <<queue, workers>> PROVE LaneInv'
  BY <1>0, CallLanes DEF Idle
<1>1. CASE SessionEnds(p)
  <2> DEFINE c == Command("ingest", call[p].queue, call[p].units,
                   {call[p].queue} \X UNION {TasksOf[u] : u \in call[p].units})
  <2>1. c.kind = "ingest"
    BY DEF Command
  <2> HIDE DEF c
  <2>2. call' = [call EXCEPT ![p] = c] /\ UNCHANGED <<queue, workers>>
    BY <1>1 DEF SessionEnds, c
  <2> QED
    BY <2>1, <2>2, CallLanes
<1>2. ASSUME NEW x \in Pair, Look(p, x) PROVE LaneInv'
  <2> DEFINE seen == [y \in DOMAIN call[p].seen \cup {x} |->
                        IF y = x THEN queue[x[1]][x[2]] ELSE call[p].seen[y]]
             c == [call[p] EXCEPT !.todo = @ \ {x}, !.seen = seen]
  <2>1. call' = [call EXCEPT ![p] = c] /\ UNCHANGED <<queue, workers>>
    BY <1>2 DEF Look, CreditInv, Types
  <2>2. c.kind = call[p].kind /\ c.queue = call[p].queue
    <3>1. WellFormed(call[p])
      BY <1>2 DEF Look, CreditInv, Types
    <3> HIDE DEF seen
    <3>2. c = [kind |-> call[p].kind, man |-> call[p].man, queue |-> call[p].queue,
               units |-> call[p].units, todo |-> call[p].todo \ {x}, seen |-> seen]
      BY <3>1, LookRecord
    <3> HIDE DEF c
    <3> QED
      BY <3>2
  <2>3. c.kind = "session" => InSession(c.queue)
    BY <2>2 DEF InSession
  <2> HIDE DEF c
  <2> QED
    BY <2>1, <2>2, <2>3, CallLanes DEF LaneInv
<1>3. CASE WriteLedger(p) \/ Crash(p)
  BY <1>0, <1>3 DEF WriteLedger, Crash
<1>4. ASSUME NEW lanes \in 1..2, InitQueue(p, lanes) PROVE LaneInv'
  <2>1. PICK k \in Queue : k = call[p].queue /\ k \in RunQueue
    BY <1>4 DEF InitQueue, LaneInv, RunQueue
  <2>2. CASE workers[k] # Absent
    BY <1>0, <1>4, <2>1, <2>2 DEF InitQueue
  <2>3. CASE workers[k] = Absent
    <3>1. /\ workers' = [workers EXCEPT ![k] = lanes]
          /\ queue' = [queue EXCEPT ![k] = queue'[k]]
          /\ \A t \in Task : queue'[k][t] \in {JustSeeded, Absent}
          /\ call' = [call EXCEPT ![p] = Idle]
      BY <1>4, <2>1, <2>3 DEF InitQueue, CreditInv, Types
    <3>2. \A q \in Queue \ {k} : queue'[q] = queue[q] /\ workers'[q] = workers[q]
      BY <3>1 DEF CreditInv, Types
    <3>3. workers'[k] = lanes /\ lanes \in Nat /\ lanes # Absent
      BY <2>1, <3>1, AbsentAssumption DEF CreditInv, Types
    <3>4. \A q \in Operator : call'[q] = Idle \/ call'[q] = call[q]
      BY <3>1 DEF CreditInv, Types
    <3>5. \A q : InSession(q)' => InSession(q)
      BY <3>4 DEF InSession, Idle
    <3>6. Active(k)' = {} /\ Lanes(k)' = lanes
      BY <3>1, <3>3 DEF Active, Lanes, JustSeeded
    <3>7. \A q \in Queue \ {k} : Active(q)' = Active(q) /\ Lanes(q)' = Lanes(q)
      BY <3>2 DEF Active, Lanes
    <3>8. InSession(k) => lanes + Reserved <= MaxLanes
      BY <2>1, <2>3, BoundAssumption DEF LaneInv, Lanes
    <3>9. \A q \in Queue : Cardinality(Active(q))' <= Lanes(q)'
      <4>1. Cardinality(Active(k))' <= Lanes(k)'
        <5>1. Cardinality(Active(k))' = 0
          BY <3>6, FS_EmptySet
        <5> QED
          BY <3>3, <3>6, <5>1
      <4>2. ASSUME NEW q \in Queue \ {k} PROVE Cardinality(Active(q))' <= Lanes(q)'
        <5>1. Cardinality(Active(q)) <= Lanes(q)
          BY DEF LaneInv
        <5> QED
          BY <3>7, <5>1
      <4> QED
        BY <4>1, <4>2
    <3>10. \A q \in Coordinated : workers'[q] = TheirLanes
      BY <2>1, <3>2, PlanAssumption DEF LaneInv, RunQueue
    <3>11. \A q \in Queue, t \in Task : queue'[q][t] # Absent => workers'[q] # Absent
      BY <3>2, <3>3 DEF LaneInv
    <3>12. \A q \in RunQueue :
             InSession(q)' \/ Active(q)' # {} => Lanes(q)' + Reserved <= MaxLanes
      BY <3>5, <3>6, <3>7, <3>8 DEF LaneInv, RunQueue
    <3>13. \A q \in Operator :
             call'[q].kind \in {"seed", "session"} => call'[q].queue \in RunQueue
      BY <3>4 DEF LaneInv, Idle
    <3> QED
      BY <3>9, <3>10, <3>11, <3>12, <3>13 DEF LaneInv, RunQueue
  <2> QED
    BY <2>2, <2>3
<1> QED
  BY <1>1, <1>2, <1>3, <1>4 DEF Continue

(* One task of one queue is worked on, or its files change.                *)
LEMMA QueueLanes ==
  ASSUME CreditInv, LaneInv, NEW k \in Queue, NEW t \in Task,
         Drift(k, t) \/ \E v \in View : Work(k, t, v)
  PROVE  LaneInv'
<1>1. PICK v \in View :
        /\ queue' = [queue EXCEPT ![k] = [queue[k] EXCEPT ![t] = v]]
        /\ t \notin Active(k) /\ v.status = "active" =>
             Cardinality(Active(k)) < Lanes(k) /\ (k \in Coordinated \/ InSession(k))
  <2>1. queue[k][t] # Absent => queue[k][t] \in View
    BY DEF CreditInv, Types
  <2>2. CASE Drift(k, t)
    <3> DEFINE v == [queue[k][t] EXCEPT !.fresh = ~@]
    <3>1. v \in View /\ v.status = "reviewed"
      BY <2>1, <2>2 DEF Drift, View
    <3>2. queue' = [queue EXCEPT ![k] = [queue[k] EXCEPT ![t] = v]]
      BY <2>2 DEF Drift, CreditInv, Types
    <3> HIDE DEF v
    <3> QED
      BY <3>1, <3>2
  <2>3. ASSUME NEW v \in View, Work(k, t, v)
        PROVE  queue' = [queue EXCEPT ![k] = [queue[k] EXCEPT ![t] = v]]
    BY <2>3 DEF Work, CreditInv, Types
  <2> QED
    BY <2>2, <2>3 DEF Work
<1>2. /\ \A q \in Queue, s \in Task :
           queue'[q][s] = (IF q = k /\ s = t THEN v ELSE queue[q][s])
      /\ v # Absent /\ queue[k][t] # Absent
      /\ UNCHANGED <<workers, call>>
  BY <1>1, AbsentAssumption DEF CreditInv, Types, Drift, Work
<1>3. \A q \in Queue : Lanes(q)' = Lanes(q) /\ (InSession(q)' <=> InSession(q))
  BY <1>2 DEF Lanes, InSession
<1>4. \A q \in Queue \ {k} : Active(q)' = Active(q)
  BY <1>2 DEF Active
<1>5. /\ Active(k)' \subseteq Active(k) \cup {t}
      /\ t \in Active(k)' => v.status = "active"
  BY <1>2 DEF Active
<1>6. Cardinality(Active(k))' <= Lanes(k)
  <2>1. Cardinality(Active(k)) \in Nat /\ IsFiniteSet(Active(k)) /\ Lanes(k) \in Nat
    BY ActiveCounts, LanesType
  <2>2. CASE Active(k)' \subseteq Active(k)
    <3>1. Cardinality(Active(k)') <= Cardinality(Active(k)) /\ Cardinality(Active(k)') \in Nat
      BY <2>1, <2>2, FS_Subset, FS_CardinalityType
    <3> QED
      BY <2>1, <3>1 DEF LaneInv
  <2>3. CASE ~(Active(k)' \subseteq Active(k))
    <3>1. t \in Active(k)' /\ t \notin Active(k)
      BY <1>5, <2>3
    <3>2. Cardinality(Active(k)) < Lanes(k)
      BY <1>1, <1>5, <3>1
    <3>3. /\ IsFiniteSet(Active(k) \cup {t})
          /\ Cardinality(Active(k) \cup {t}) = Cardinality(Active(k)) + 1
      BY <2>1, <3>1, FS_AddElement
    <3>4. /\ Cardinality(Active(k)') <= Cardinality(Active(k) \cup {t})
          /\ Cardinality(Active(k)') \in Nat
      BY <1>5, <3>3, FS_Subset, FS_CardinalityType
    <3> QED
      BY <2>1, <3>2, <3>3, <3>4
  <2> QED
    BY <2>2, <2>3
<1>7. ASSUME k \in RunQueue, Active(k)' # {}
      PROVE  InSession(k) \/ Active(k) # {}
  BY <1>1, <1>5, <1>7 DEF RunQueue
<1>8. \A q \in Queue, s \in Task : queue'[q][s] # Absent => workers'[q] # Absent
  BY <1>2 DEF LaneInv
<1>9. \A q \in Queue : Cardinality(Active(q))' <= Lanes(q)'
  BY <1>3, <1>4, <1>6 DEF LaneInv
<1>10. \A q \in RunQueue :
         InSession(q)' \/ Active(q)' # {} => Lanes(q)' + Reserved <= MaxLanes
  BY <1>3, <1>4, <1>7 DEF LaneInv, RunQueue
<1> QED
  BY <1>2, <1>8, <1>9, <1>10 DEF LaneInv, RunQueue

LEMMA StepLanes ==
  ASSUME 2 <= MaxLanes, CreditInv, LaneInv, [Next]_vars
  PROVE  LaneInv'
<1>1. CASE UNCHANGED vars
  <2>1. \A k : Active(k)' = Active(k) /\ Lanes(k)' = Lanes(k) /\ (InSession(k)' <=> InSession(k))
    BY <1>1 DEF vars, Active, Lanes, InSession
  <2> QED
    BY <1>1, <2>1 DEF vars, LaneInv, RunQueue
<1> QED
  BY <1>1, StartLanes, ContinueLanes, QueueLanes DEF Next

(* A set of at most n things can be counted with the numbers up to n.      *)
LEMMA Countable ==
  ASSUME NEW S, IsFiniteSet(S), NEW n \in Nat, Cardinality(S) <= n
  PROVE  Injection(S, 1..n) # {}
<1> DEFINE m == Cardinality(S)
<1>1. m \in Nat /\ ExistsBijection(1..m, S)
  BY FS_CardinalityType
<1>2. PICK f \in Bijection(1..m, S) : TRUE
  BY <1>1 DEF ExistsBijection
<1>3. PICK g \in Injection(S, 1..m) : TRUE
  <2>1. Inverse(f, 1..m, S) \in Bijection(S, 1..m)
    BY <1>2, Fun_BijInverse
  <2> QED
    BY <2>1 DEF Bijection
<1>4. g \in [S -> 1..m] /\ \A a, b \in S : g[a] = g[b] => a = b
  BY <1>3 DEF Injection, IsInjective
<1>5. g \in [S -> 1..n]
  BY <1>1, <1>4
<1> QED
  BY <1>4, <1>5, Fun_IsInj

(* At most n things at each of finitely many places.                       *)
LEMMA CountPairs ==
  ASSUME NEW K, IsFiniteSet(K), NEW T, NEW A \in [K -> SUBSET T], NEW n \in Nat,
         \A k \in K : IsFiniteSet(A[k]) /\ Cardinality(A[k]) <= n
  PROVE  LET P == {x \in K \X T : x[2] \in A[x[1]]}
         IN IsFiniteSet(P) /\ Cardinality(P) <= Cardinality(K) * n
<1> DEFINE P == {x \in K \X T : x[2] \in A[x[1]]}
           g == [k \in K |-> CHOOSE f : f \in Injection(A[k], 1..n)]
           h == [x \in P |-> <<x[1], g[x[1]][x[2]]>>]
<1>1. ASSUME NEW k \in K
      PROVE  /\ g[k] \in [A[k] -> 1..n]
             /\ \A a, b \in A[k] : g[k][a] = g[k][b] => a = b
  <2>1. g[k] \in Injection(A[k], 1..n)
    BY Countable
  <2> QED
    BY <2>1, Fun_InjectionProperties
<1> HIDE DEF g
<1>2. \A x \in P : x[1] \in K /\ x[2] \in A[x[1]] /\ x = <<x[1], x[2]>>
  OBVIOUS
<1>3. h \in [P -> K \X (1..n)]
  BY <1>1, <1>2
<1>4. \A x, y \in P : h[x] = h[y] => x = y
  BY <1>1, <1>2
<1> HIDE DEF h
<1>5. h \in Injection(P, K \X (1..n))
  BY <1>3, <1>4, Fun_IsInj
<1>6. /\ IsFiniteSet(1..n) /\ Cardinality(1..n) = n
  BY FS_Interval
<1>7. /\ IsFiniteSet(K \X (1..n))
      /\ Cardinality(K \X (1..n)) = Cardinality(K) * n
  BY <1>6, FS_Product
<1> QED
  BY <1>5, <1>7, FS_Injection

(* As long as the other teams have no more lanes than are reserved for     *)
(* them, and all batches are worked on in one run queue: no more agents    *)
(* work at a time than MAX_ACTIVE_LANES, however many operators seed,      *)
(* launch and are killed, and although the reservation is checked only     *)
(* when a session begins.                                                  *)
THEOREM LanesAreReserved ==
  ASSUME \A k, q \in Queue \ Coordinated : k = q,
         Cardinality(Coordinated) * TheirLanes <= Reserved, Reserved <= MaxLanes,
         2 <= MaxLanes
  PROVE  Spec => []LanesReserved
<1>1. CreditInv /\ LaneInv => LanesReserved
  <2> SUFFICES ASSUME CreditInv, LaneInv PROVE LanesReserved
    OBVIOUS
  <2> DEFINE Busy(K) == {x \in K \X Task : x[2] \in Active(x[1])}
  <2>1. /\ Coordinated \subseteq Queue /\ IsFiniteSet(Coordinated)
        /\ RunQueue \subseteq Queue /\ IsFiniteSet(RunQueue)
    BY FS_Subset, PlanAssumption DEF RunQueue
  <2>2. \A k \in Coordinated : IsFiniteSet(Active(k)) /\ Cardinality(Active(k)) <= TheirLanes
    BY <2>1, ActiveCounts, BoundAssumption, AbsentAssumption DEF LaneInv, Lanes
  <2>3. IsFiniteSet(Busy(Coordinated)) /\ Cardinality(Busy(Coordinated)) <= Reserved
    <3>1. /\ IsFiniteSet(Busy(Coordinated))
          /\ Cardinality(Busy(Coordinated)) <= Cardinality(Coordinated) * TheirLanes
      <4> DEFINE A == [k \in Coordinated |-> Active(k)]
      <4>1. A \in [Coordinated -> SUBSET Task]
        BY DEF Active
      <4>2. \A k \in Coordinated : IsFiniteSet(A[k]) /\ Cardinality(A[k]) <= TheirLanes
        BY <2>2
      <4>3. Busy(Coordinated) = {x \in Coordinated \X Task : x[2] \in A[x[1]]}
        OBVIOUS
      <4> HIDE DEF A
      <4> QED
        BY <2>1, <4>1, <4>2, <4>3, CountPairs, BoundAssumption
    <3>2. Cardinality(Busy(Coordinated)) \in Nat /\ Cardinality(Coordinated) \in Nat
      BY <2>1, <3>1, FS_CardinalityType
    <3> HIDE DEF Busy
    <3>3. Cardinality(Coordinated) * TheirLanes \in Nat
      BY <3>2, BoundAssumption
    <3> QED
      BY <3>1, <3>2, <3>3, BoundAssumption
  <2>4. IsFiniteSet(Busy(RunQueue)) /\ Cardinality(Busy(RunQueue)) <= MaxLanes - Reserved
    <3>1. CASE \A k \in RunQueue : Active(k) = {}
      <4>1. Busy(RunQueue) = {}
        BY <3>1
      <4> QED
        BY <4>1, FS_EmptySet, BoundAssumption
    <3>2. ASSUME NEW k \in RunQueue, Active(k) # {}
          PROVE  /\ IsFiniteSet(Busy(RunQueue))
                 /\ Cardinality(Busy(RunQueue)) <= MaxLanes - Reserved
      <4>1. RunQueue = {k} /\ k \in Queue
        BY DEF RunQueue
      <4>2. /\ IsFiniteSet(Active(k)) /\ Cardinality(Active(k)) <= Lanes(k)
            /\ Lanes(k) \in Nat /\ Lanes(k) + Reserved <= MaxLanes
        BY <3>2, <4>1, ActiveCounts, LanesType DEF LaneInv
      <4>3. /\ IsFiniteSet(Busy(RunQueue))
            /\ Cardinality(Busy(RunQueue)) <= Cardinality(RunQueue) * Lanes(k)
        <5> DEFINE A == [q \in RunQueue |-> Active(q)]
        <5>1. A \in [RunQueue -> SUBSET Task]
          BY DEF Active
        <5>2. \A q \in RunQueue : IsFiniteSet(A[q]) /\ Cardinality(A[q]) <= Lanes(k)
          BY <4>1, <4>2
        <5>3. Busy(RunQueue) = {x \in RunQueue \X Task : x[2] \in A[x[1]]}
          OBVIOUS
        <5> HIDE DEF A
        <5>4. LET P == {x \in RunQueue \X Task : x[2] \in A[x[1]]}
              IN IsFiniteSet(P) /\ Cardinality(P) <= Cardinality(RunQueue) * Lanes(k)
          BY <2>1, <4>2, <5>1, <5>2, CountPairs
        <5> QED
          BY <5>3, <5>4, Zenon
      <4>4. Cardinality(RunQueue) = 1
        BY <4>1, FS_Singleton
      <4>5. Cardinality(Busy(RunQueue)) \in Nat
        BY <4>3, FS_CardinalityType
      <4> HIDE DEF Busy
      <4> QED
        BY <4>2, <4>3, <4>4, <4>5, BoundAssumption
    <3> QED
      BY <3>1, <3>2
  <2>5. {x \in Pair : x[2] \in Active(x[1])} = Busy(Coordinated) \cup Busy(RunQueue)
    BY <2>1 DEF Pair, RunQueue
  <2> HIDE DEF Busy
  <2>6. /\ Cardinality(Busy(Coordinated)) \in Nat /\ Cardinality(Busy(RunQueue)) \in Nat
        /\ Cardinality(Busy(Coordinated) \cap Busy(RunQueue)) \in Nat
    BY <2>3, <2>4, FS_Intersection, FS_CardinalityType
  <2>7. Cardinality(Busy(Coordinated) \cup Busy(RunQueue))
          = Cardinality(Busy(Coordinated)) + Cardinality(Busy(RunQueue))
              - Cardinality(Busy(Coordinated) \cap Busy(RunQueue))
    BY <2>3, <2>4, FS_Union
  <2> QED
    <3>1. Cardinality(Busy(Coordinated) \cup Busy(RunQueue)) <= MaxLanes
      BY <2>3, <2>4, <2>6, <2>7, BoundAssumption
    <3> QED
      BY <2>5, <3>1 DEF LanesReserved
<1>2. CreditInv /\ LaneInv /\ [Next]_vars => LaneInv'
  BY StepLanes
<1> QED
  BY <1>1, <1>2, InitLanes, CreditCorrect, PTL DEF Spec
=============================================================================
