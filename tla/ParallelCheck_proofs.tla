-------------------------- MODULE ParallelCheck_proofs --------------------------
(***************************************************************************)
(* checkParallel and its workers: proofs for any number of threads,        *)
(* checkers and simulations, for either kind of memory, and for every      *)
(* order in which the threads take their steps.                            *)
(*                                                                         *)
(* IInv is inductive.  Its parts say what the constructor has made sure of *)
(* (RequestAgrees), which worker has a slot with a checker (SlotsAgree),   *)
(* that an id is in the queue or at hand once and only after its worker    *)
(* has pushed it (QueueAgrees), that what is handled is what the checkers  *)
(* find, as nobody is cut short before the main thread stops               *)
(* (ResultsAgree), where a worker is found that has thrown (ThrownAgrees)  *)
(* and how many simulations are under way (CountsAgree).  On these rest    *)
(* the verdict (VerdictAgrees) and the reason to stop (StopAgrees).        *)
(* SlotsSuffice is inductive given IInv, and EnoughThreads.                *)
(***************************************************************************)
EXTENDS ParallelCheck, SequenceTheorems, FiniteSetTheorems, TLAPS

\* The labels of the main thread before it has told the checkers to stop
Early == {"setup", "launch", "pop", "wait", "get", "handle"}

\* A worker that has done with its checker, and one whose id has been pushed
Through == {"push", "leave", "finished"}
Pushed == {"leave", "finished"}

\* What the constructor and the choice of the flow have made sure of
RequestAgrees ==
    /\ ~circuits.symbolic /\ ~circuits.empty
    /\ config.parallel /\ 1 < config.nthreads /\ config.nthreads < WordModulus
    /\ config.simulation => config.maxSims <= circuits.stimuli
    /\ ~OnlyZXCheckerConfigured(config)

\* Who has a slot, and what is in it
SlotsAgree ==
    /\ mainPc = "setup" => workers = << >> /\ checkers = << >>
    /\ \A i \in DOMAIN checkers \ Ids : checkers[i] = Null
    /\ \A i \in Ids :
         /\ config[workers[i].kind]
         /\ workers[i].pc = "draw" => workers[i].kind = "simulation"
         /\ workers[i].pc \in {"draw", "check", "run"} =>
              i \in DOMAIN checkers /\ checkers[i] # Null

\* Whose id is in the queue, or with the main thread: every id once, and only of workers that
\* have pushed it
QueueAgrees ==
    /\ request \in [{Main} -> {"none", "wait", "waitUntil"}]
    /\ outcome \in [{Main} -> Nat \cup {Null}]
    /\ \A a, b \in DOMAIN items : items[a] = items[b] => a = b
    /\ \A a \in DOMAIN items : items[a] \in Ids /\ workers[items[a]].pc \in Pushed
    /\ mainPc = "wait" /\ ~config.timed => request[Main] = "wait"
    /\ mainPc \in {"get", "handle"} =>
         /\ Finished \in Ids /\ workers[Finished].pc \in Pushed
         /\ \A a \in DOMAIN items : items[a] # Finished
    /\ mainPc = "handle" => workers[Finished].pc = "finished" /\ ~workers[Finished].threw

\* Up to then no worker is cut short: what comes back is what the checkers find.
ResultsAgree ==
    /\ mainPc \in Early =>
         /\ ~done /\ \A i \in DOMAIN checkers : checkers[i] # Null => ~checkers[i].signalled
         /\ \A i \in Ids : workers[i].pc \in Through /\ ~workers[i].threw =>
              /\ i \in DOMAIN checkers /\ checkers[i] # Null
              /\ checkers[i].equivalence \in Findings(workers[i].kind, circuits)
    /\ mainPc = "setup" => handled = {}
    /\ \A k \in Kinds, e \in Criteria : <<k, e>> \in handled =>
         /\ config[k] /\ e \in Findings(k, circuits)
         /\ k = "simulation" => performed > 0

\* An exception is on its way to the main thread, or has got there.
ThrownAgrees ==
    \A i \in Ids : workers[i].threw =>
        \/ workers[i].pc = "push" \/ i \in Range(items)
        \/ mainPc = "get" /\ i = Finished
        \/ mainPc \in {"unwind", "threw"}

\* The simulations started and not yet counted as performed
Pending ==
    {i \in Ids : /\ workers[i].kind = "simulation"
                 /\ \/ workers[i].pc \notin {"leave", "finished"}
                    \/ i \in Range(items)
                    \/ mainPc \in {"get", "handle"} /\ i = Finished}

\* Those that may still ask for a stimulus
Drawing == {i \in Ids : workers[i].kind = "simulation" /\ workers[i].pc \in {"build", "draw"}}

CountsAgree ==
    /\ mainPc \notin {"threw", "unwind"} => started - performed = Cardinality(Pending)
    /\ drawn + Cardinality(Drawing) <= started
    /\ started > 0 => config.simulation

Decided ==
    \/ \E k \in Kinds : <<k, "NotEquivalent">> \in handled
    \/ \E k \in Kinds \ {"simulation"} : <<k, "Equivalent">> \in handled

Contradicted ==
    /\ {<<"zx", "ProbablyNotEquivalent">>, <<"simulation", "Equivalent">>} \subseteq handled
    /\ performed = config.maxSims

VerdictAgrees ==
    /\ equivalence = Summary(handled, performed = config.maxSims)
    /\ cexFound => equivalence = "NotEquivalent"
    /\ mainPc \in Early => ~cexFound /\ ~Decided /\ ~Contradicted

\* What has made the main thread stop
StopAgrees ==
    mainPc \in {"signal", "destroy", "report", "returned", "crashed"} =>
        \/ Decided \/ Contradicted
        \/ config.timed /\ outcome[Main] = Null
        \/ OnlySimulationCheckerConfigured(config) /\ performed = config.maxSims

\* There is a thread for each of the checkers that run once.
EnoughThreads ==
    \A c \in Requests, p \in CircuitPairs : Len(Singles(Prepared(c, p))) <= c.nthreads

\* Then there are no more workers than slots, and no more slots than threads.
SlotsSuffice ==
    /\ mainPc = "setup" => Len(Singles(config)) <= config.nthreads
    /\ mainPc # "setup" =>
         /\ Len(Singles(config)) <= Len(checkers) /\ Len(checkers) <= config.nthreads
         /\ Len(workers) <= Len(checkers)
    /\ mainPc \in {"setup", "launch"} =>
         IF Len(workers) < Len(Singles(config)) THEN started = 0
         ELSE Len(workers) = Len(Singles(config)) + started
    /\ \A i \in Ids : workers[i].pc # "outOfBounds"

-----------------------------------------------------------------------------
(* What the steps of a worker do, slot by slot *)

WorkerRecords == [kind : Kinds, pc : WorkerLabels, threw : BOOLEAN, fresh : BOOLEAN]

\* The worker i goes from one label to another and the others stay where they are.
Moves(i, from, to) ==
    /\ workers[i].pc = from /\ workers'[i].pc = to
    /\ workers' \in Seq(WorkerRecords) /\ DOMAIN workers' = DOMAIN workers
    /\ Len(workers') = Len(workers)
    /\ workers'[i].kind = workers[i].kind
    /\ \A j \in DOMAIN workers \ {i} : workers'[j] = workers[j]

Keeps(i) == workers'[i].threw = workers[i].threw

\* The checker in slot i has this result, and is signalled or not.
Holds(i, e, b) ==
    /\ checkers' \in Seq(CheckerRecords \cup {Null}) /\ DOMAIN checkers' = DOMAIN checkers
    /\ Len(checkers') = Len(checkers)
    /\ i \in DOMAIN checkers /\ checkers'[i] # Null
    /\ checkers'[i].equivalence = e /\ checkers'[i].signalled = b
    /\ \A j \in DOMAIN checkers \ {i} : checkers'[j] = checkers[j]

\* A step of a worker that only goes on to its next label
LEMMA GotoMoves ==
    ASSUME TypeOK, NEW i \in Ids, NEW l \in WorkerLabels, Goto(i, l)
    PROVE  Moves(i, workers[i].pc, l) /\ Keeps(i)
<1> DEFINE w == [workers[i] EXCEPT !.pc = l]
<1>1. workers \in Seq(WorkerRecords) /\ i \in 1 .. Len(workers)
  BY LenProperties DEF TypeOK, WorkerRecords, Ids
<1>2. workers[i] \in WorkerRecords
  BY <1>1, ElementOfSeq
<1>3. w \in WorkerRecords /\ w.kind = workers[i].kind /\ w.pc = l /\ w.threw = workers[i].threw
  BY <1>2 DEF WorkerRecords
<1>4. workers' = [workers EXCEPT ![i] = w]
  BY DEF Goto
<1> HIDE DEF w
<1> QED
  BY <1>1, <1>3, <1>4, ExceptSeq, LenProperties DEF Moves, Keeps

\* An exception is on its way out of a worker.
GotoThrowing(i) == workers' = [workers EXCEPT ![i].pc = "push", ![i].threw = TRUE]

\* The same when an exception is on its way out of it
LEMMA ThrowMoves ==
    ASSUME TypeOK, NEW i \in Ids, GotoThrowing(i)
    PROVE  Moves(i, workers[i].pc, "push") /\ workers'[i].threw
<1> DEFINE w == [workers[i] EXCEPT !.pc = "push", !.threw = TRUE]
<1>1. workers \in Seq(WorkerRecords) /\ i \in 1 .. Len(workers)
  BY LenProperties DEF TypeOK, WorkerRecords, Ids
<1>2. workers[i] \in WorkerRecords
  BY <1>1, ElementOfSeq
<1>3. w \in WorkerRecords /\ w.kind = workers[i].kind /\ w.pc = "push" /\ w.threw = TRUE
  BY <1>2 DEF WorkerRecords, WorkerLabels
<1>4. workers' = [workers EXCEPT ![i] = w]
  BY <1>1, <1>2 DEF WorkerRecords, GotoThrowing
<1> HIDE DEF w
<1> QED
  BY <1>1, <1>3, <1>4, ExceptSeq, LenProperties DEF Moves

\* A checker is put into its slot.
LEMMA SlotHolds ==
    ASSUME TypeOK, NEW i \in DOMAIN checkers, NEW c \in CheckerRecords,
           checkers' = [checkers EXCEPT ![i] = c]
    PROVE  Holds(i, c.equivalence, c.signalled)
<1>1. checkers \in Seq(CheckerRecords \cup {Null}) /\ i \in 1 .. Len(checkers)
  BY LenProperties DEF TypeOK
<1>2. c # Null
  BY NullAssumption
<1> QED
  BY <1>1, <1>2, ExceptSeq, LenProperties DEF Holds

\* A checker that is there has a result.
LEMMA SlotRecord ==
    ASSUME TypeOK, NEW i \in DOMAIN checkers, checkers[i] # Null
    PROVE  checkers[i] \in CheckerRecords
<1>1. checkers \in Seq(CheckerRecords \cup {Null}) /\ i \in 1 .. Len(checkers)
  BY LenProperties DEF TypeOK
<1> QED
  BY <1>1, ElementOfSeq

\* The cases of a step
BuildCase(i) ==
    /\ UNCHANGED <<mainVars, drawn, queue>>
    /\ \/ /\ Moves(i, "build", "outOfBounds") /\ Keeps(i) /\ UNCHANGED checkers
          /\ i \notin DOMAIN checkers
       \/ /\ Moves(i, "build", IF workers[i].kind = "simulation" THEN "draw" ELSE "check")
          /\ Keeps(i) /\ UNCHANGED checkers /\ i \in DOMAIN checkers /\ checkers[i] # Null
       \/ /\ Moves(i, "build", IF workers[i].kind = "simulation" THEN "draw" ELSE "check")
          /\ Keeps(i) /\ Holds(i, "NoInformation", FALSE)
       \/ /\ Moves(i, "build", "push") /\ workers'[i].threw /\ UNCHANGED checkers
          /\ workers[i].kind \in circuits.unbuildable

DrawCase(i) ==
    /\ UNCHANGED <<mainVars, queue, checkers>> /\ drawn' = drawn + 1
    /\ Moves(i, "draw", "check") /\ Keeps(i)

CheckCase(i) ==
    /\ UNCHANGED <<mainVars, queue, checkers, drawn>> /\ Keeps(i)
    /\ \/ Moves(i, "check", "run")
       \/ done /\ Moves(i, "check", "push")

CompleteCase(i) ==
    /\ UNCHANGED <<mainVars, queue, drawn>> /\ Moves(i, "run", "push")
    /\ \/ /\ Keeps(i)
          /\ \E e \in Findings(workers[i].kind, circuits) : Holds(i, e, checkers[i].signalled)
       \/ workers[i].kind \in circuits.unrunnable /\ workers'[i].threw /\ UNCHANGED checkers

AbortCase(i) ==
    /\ UNCHANGED <<mainVars, queue, drawn>> /\ Moves(i, "run", "push") /\ Keeps(i)
    /\ checkers[i].signalled /\ \E e \in Criteria : Holds(i, e, TRUE)

PushCase(i) ==
    /\ UNCHANGED <<mainVars, request, outcome, expired, drawn, checkers>>
    /\ Moves(i, "push", "leave") /\ Keeps(i) /\ items' = Append(items, i)

LeaveCase(i) ==
    /\ UNCHANGED <<mainVars, queue, drawn, checkers>> /\ Moves(i, "leave", "finished") /\ Keeps(i)

\* What a checker finds is a criterion.
LEMMA FindingsAreCriteria ==
    ASSUME NEW k \in Kinds, NEW p
    PROVE  Findings(k, p) \subseteq Criteria
  BY DEF Findings, Kinds, Criteria

\* A worker is a record, and a checker of a known kind.
LEMMA WorkerKind ==
    ASSUME TypeOK, NEW i \in Ids
    PROVE  workers[i] \in WorkerRecords /\ workers[i].kind \in Kinds
<1>1. workers \in Seq(WorkerRecords) /\ i \in 1 .. Len(workers)
  BY LenProperties DEF TypeOK, WorkerRecords, Ids
<1>2. workers[i] \in WorkerRecords
  BY <1>1, ElementOfSeq
<1> QED
  BY <1>2 DEF WorkerRecords

\* The steps of a worker fall under these cases.
LEMMA WorkerSteps ==
    ASSUME TypeOK, SlotsAgree, NEW i \in Ids, Proceed(i) \/ Complete(i)
    PROVE  \/ BuildCase(i) \/ DrawCase(i) \/ CheckCase(i) \/ CompleteCase(i) \/ AbortCase(i)
           \/ PushCase(i) \/ LeaveCase(i)
<1>1. CASE Build(i)
  <2> DEFINE next == IF workers[i].kind = "simulation" THEN "draw" ELSE "check"
             fresh == [equivalence |-> "NoInformation", signalled |-> FALSE]
  <2>0. workers[i].pc = "build" /\ UNCHANGED <<mainVars, drawn, queue>> /\ next \in WorkerLabels
        /\ "outOfBounds" \in WorkerLabels
    BY <1>1 DEF Build, WorkerLabels
  <2>1. CASE Goto(i, "outOfBounds") /\ UNCHANGED checkers /\ i \notin DOMAIN checkers
    BY <2>0, <2>1, GotoMoves DEF BuildCase
  <2>2. CASE Goto(i, next) /\ UNCHANGED checkers /\ i \in DOMAIN checkers /\ checkers[i] # Null
    BY <2>0, <2>2, GotoMoves DEF BuildCase
  <2>3. CASE /\ Goto(i, next) /\ i \in DOMAIN checkers
             /\ checkers' = [checkers EXCEPT ![i] = fresh]
    <3>1. fresh \in CheckerRecords /\ fresh.equivalence = "NoInformation" /\ fresh.signalled = FALSE
      BY DEF CheckerRecords, Criteria
    <3>2. Holds(i, "NoInformation", FALSE)
      BY <2>3, <3>1, SlotHolds
    <3> QED
      BY <2>0, <2>3, <3>2, GotoMoves DEF BuildCase
  <2>4. CASE /\ workers' = [workers EXCEPT ![i].pc = "push", ![i].threw = TRUE]
             /\ UNCHANGED checkers /\ workers[i].kind \in circuits.unbuildable
    BY <2>0, <2>4, ThrowMoves DEF BuildCase, GotoThrowing
  <2> QED
    BY <1>1, <2>1, <2>2, <2>3, <2>4 DEF Build
<1>2. CASE Draw(i)
  BY <1>2, GotoMoves DEF Draw, DrawCase, WorkerLabels
<1>3. CASE CheckDone(i)
  <2>1. workers[i].pc = "check" /\ UNCHANGED <<mainVars, queue, checkers, drawn>>
        /\ (Goto(i, "run") \/ (done /\ Goto(i, "push")))
    BY <1>3 DEF CheckDone
  <2>2. "run" \in WorkerLabels /\ "push" \in WorkerLabels
    BY DEF WorkerLabels
  <2>3. CASE Goto(i, "run")
    BY <2>1, <2>2, <2>3, GotoMoves DEF CheckCase
  <2>4. CASE done /\ Goto(i, "push")
    BY <2>1, <2>2, <2>4, GotoMoves DEF CheckCase
  <2> QED
    BY <2>1, <2>3, <2>4
<1>4. CASE Complete(i)
  <2>0. workers[i].pc = "run" /\ UNCHANGED <<mainVars, drawn, queue>> /\ "push" \in WorkerLabels
        /\ i \in DOMAIN checkers /\ checkers[i] \in CheckerRecords
    BY <1>4, SlotRecord DEF Complete, WorkerLabels, SlotsAgree
  <2>1. CASE /\ Goto(i, "push")
             /\ \E found \in Findings(workers[i].kind, circuits) :
                  checkers' = [checkers EXCEPT ![i].equivalence = found]
    <3>1. PICK found \in Findings(workers[i].kind, circuits) :
            checkers' = [checkers EXCEPT ![i].equivalence = found]
      BY <2>1
    <3> DEFINE c == [checkers[i] EXCEPT !.equivalence = found]
    <3>2. c \in CheckerRecords /\ c.equivalence = found /\ c.signalled = checkers[i].signalled
      BY <2>0, WorkerKind, FindingsAreCriteria DEF CheckerRecords
    <3>3. checkers' = [checkers EXCEPT ![i] = c]
      BY <3>1
    <3> HIDE DEF c
    <3>4. Holds(i, found, checkers[i].signalled)
      BY <2>0, <3>2, <3>3, SlotHolds
    <3> QED
      BY <2>0, <2>1, <3>4, GotoMoves DEF CompleteCase
  <2>2. CASE /\ workers[i].kind \in circuits.unrunnable /\ UNCHANGED checkers
             /\ workers' = [workers EXCEPT ![i].pc = "push", ![i].threw = TRUE]
    BY <2>0, <2>2, ThrowMoves DEF CompleteCase, GotoThrowing
  <2> QED
    BY <1>4, <2>1, <2>2 DEF Complete
<1>5. CASE Abort(i)
  <2>0. workers[i].pc = "run" /\ UNCHANGED <<mainVars, drawn, queue>> /\ "push" \in WorkerLabels
        /\ i \in DOMAIN checkers /\ checkers[i] \in CheckerRecords /\ checkers[i].signalled
        /\ Goto(i, "push")
    BY <1>5, SlotRecord DEF Abort, WorkerLabels, SlotsAgree
  <2> DEFINE e == IF workers[i].kind = "zx" THEN "NoInformation" ELSE checkers[i].equivalence
             c == [checkers[i] EXCEPT !.equivalence = e]
  <2>1. checkers' = [checkers EXCEPT ![i] = c]
    BY <1>5 DEF Abort
  <2>2. e \in Criteria /\ c \in CheckerRecords /\ c.equivalence = e /\ c.signalled = TRUE
    BY <2>0 DEF CheckerRecords, Criteria
  <2> HIDE DEF c
  <2>3. Holds(i, e, TRUE)
    BY <2>0, <2>1, <2>2, SlotHolds
  <2> QED
    BY <2>0, <2>2, <2>3, GotoMoves DEF AbortCase
<1>6. CASE Push(i)
  BY <1>6, GotoMoves DEF Push, PushCase, WorkerLabels, Q!Push
<1>7. CASE Leave(i)
  BY <1>7, GotoMoves DEF Leave, LeaveCase, WorkerLabels
<1> QED
  BY <1>1, <1>2, <1>3, <1>4, <1>5, <1>6, <1>7 DEF Proceed

-----------------------------------------------------------------------------
(* What the main thread starts, and with what *)

\* The checkers that run once are configured, and are three at most.
LEMMA SinglesAreConfigured ==
    ASSUME NEW c \in Configurations
    PROVE  /\ Len(Singles(c)) \in 0 .. 3
           /\ \A j \in 1 .. Len(Singles(c)) : Singles(c)[j] \in Kinds \ {"simulation"} /\ c[Singles(c)[j]]
<1> DEFINE a == IF c.alternating THEN <<"alternating">> ELSE << >>
           b == IF c.construction THEN <<"construction">> ELSE << >>
           z == IF c.zx THEN <<"zx">> ELSE << >>
           S == {k \in Kinds \ {"simulation"} : c[k]}
<1>0. c["alternating"] = c.alternating /\ c["construction"] = c.construction /\ c["zx"] = c.zx
  OBVIOUS
<1>1. a \in Seq(S) /\ b \in Seq(S) /\ z \in Seq(S)
  <2>1. /\ c.alternating => "alternating" \in S
        /\ c.construction => "construction" \in S
        /\ c.zx => "zx" \in S
    BY <1>0 DEF Kinds
  <2> HIDE DEF S
  <2> QED
    BY <2>1
<1>2. Len(a) \in 0 .. 1 /\ Len(b) \in 0 .. 1 /\ Len(z) \in 0 .. 1
  OBVIOUS
<1>3. Singles(c) = a \o b \o z
  BY DEF Singles
<1> HIDE DEF a, b, z, S
<1>4. a \o b \in Seq(S) /\ Len(a \o b) = Len(a) + Len(b)
  BY <1>1, ConcatProperties
<1>5. Singles(c) \in Seq(S) /\ Len(Singles(c)) = Len(a) + Len(b) + Len(z)
  BY <1>1, <1>3, <1>4, ConcatProperties
<1>6. \A j \in 1 .. Len(Singles(c)) : Singles(c)[j] \in S
  BY <1>5, ElementOfSeq
<1>7. Len(Singles(c)) \in 0 .. 3
  <2>1. \A l, m, n \in 0 .. 1 : l + m + n \in 0 .. 3
    OBVIOUS
  <2> QED
    BY <1>2, <1>5, <2>1, Zenon
<1>8. \A x \in S : x \in Kinds \ {"simulation"} /\ c[x]
  BY DEF S
<1> QED
  BY <1>6, <1>7, <1>8

\* The smaller one of two numbers
LEMMA MinOfTwo ==
    ASSUME NEW a \in Nat, NEW b \in Nat
    PROVE  Min({a, b}) = IF a <= b THEN a ELSE b
<1> DEFINE m == IF a <= b THEN a ELSE b
<1>1. m \in {a, b} /\ \A y \in {a, b} : m <= y
  OBVIOUS
<1>2. \A x \in {a, b} : (\A y \in {a, b} : x <= y) => x = m
  OBVIOUS
<1> QED
  BY <1>1, <1>2 DEF Min

\* A new worker joins the others.
Joins(k) ==
    /\ workers' \in Seq(WorkerRecords) /\ DOMAIN workers' = DOMAIN workers \cup {Len(workers) + 1}
    /\ Len(workers') = Len(workers) + 1
    /\ Len(workers) + 1 \notin DOMAIN workers
    /\ \A j \in DOMAIN workers : workers'[j] = workers[j]
    /\ workers'[Len(workers) + 1].kind = k /\ workers'[Len(workers) + 1].pc = "build"
    /\ workers'[Len(workers) + 1].threw = FALSE

\* A worker that is appended joins the others.
LEMMA AppendJoins ==
    ASSUME TypeOK, NEW k \in Kinds, NEW b \in BOOLEAN,
           workers' = Append(workers, NewWorker(k, b))
    PROVE  Joins(k)
<1> DEFINE w == NewWorker(k, b)
<1>1. workers \in Seq(WorkerRecords) /\ w \in WorkerRecords
  BY DEF TypeOK, WorkerRecords, NewWorker, WorkerLabels
<1>2. w.kind = k /\ w.pc = "build" /\ w.threw = FALSE
  BY DEF NewWorker
<1>3. workers' = Append(workers, w)
  OBVIOUS
<1> HIDE DEF w
<1>4. /\ workers' \in Seq(WorkerRecords) /\ Len(workers') = Len(workers) + 1
      /\ \A j \in 1 .. Len(workers) : workers'[j] = workers[j]
      /\ workers'[Len(workers) + 1] = w
  BY <1>1, <1>3, AppendProperties
<1>5. DOMAIN workers = 1 .. Len(workers) /\ DOMAIN workers' = 1 .. Len(workers')
      /\ Len(workers) \in Nat
  BY <1>1, <1>4, LenProperties
<1> QED
  BY <1>2, <1>4, <1>5 DEF Joins

\* What the main thread starts is configured, and comes with a free slot.
LEMMA LaunchJoins ==
    ASSUME TypeOK, Launch \/ LaunchSimulation
    PROVE  /\ \E k \in Kinds : config[k] /\ Joins(k) /\ (Launch => k # "simulation")
           /\ LaunchSimulation => Joins("simulation")
           /\ UNCHANGED <<queue, circuits, config, memory, mainPc, done, equivalence, performed,
                          cexFound, checkers, drawn, handled>>
           /\ mainPc = "launch"
<1>1. CASE Launch
  <2>1. Len(workers) \in Nat /\ config \in Configurations
    BY LenProperties DEF TypeOK
  <2>2. Len(workers) + 1 \in 1 .. Len(Singles(config))
    BY <1>1, <2>1, SinglesAreConfigured DEF Launch
  <2> DEFINE k == Singles(config)[Len(workers) + 1]
  <2>3. k \in Kinds \ {"simulation"} /\ config[k]
    BY <2>1, <2>2, SinglesAreConfigured
  <2>4. workers' = Append(workers, NewWorker(k, TRUE))
    BY <1>1 DEF Launch
  <2> HIDE DEF k
  <2>5. Joins(k)
    BY <2>3, <2>4, AppendJoins
  <2>6. ~LaunchSimulation
    <3> DEFINE n == Len(workers)
               m == Len(Singles(config))
    <3>1. n \in Nat /\ m \in Nat
      BY <2>1, SinglesAreConfigured
    <3>2. n < m
      BY <1>1 DEF Launch
    <3>3. LaunchSimulation => n >= m
      BY DEF LaunchSimulation
    <3> HIDE DEF n, m
    <3> QED
      BY <3>1, <3>2, <3>3
  <2> QED
    BY <1>1, <2>3, <2>5, <2>6 DEF Launch, mainVars, queue
<1>2. CASE LaunchSimulation
  <2>1. Joins("simulation") /\ config["simulation"] /\ "simulation" \in Kinds
    BY <1>2, AppendJoins DEF LaunchSimulation, Kinds
  <2>2. ~Launch
    <3> DEFINE n == Len(workers)
               m == Len(Singles(config))
    <3>1. n \in Nat /\ m \in Nat
      BY LenProperties, SinglesAreConfigured DEF TypeOK
    <3>2. n >= m
      BY <1>2 DEF LaunchSimulation
    <3>3. Launch => n < m
      BY DEF Launch
    <3> HIDE DEF n, m
    <3> QED
      BY <3>1, <3>2, <3>3
  <2> QED
    BY <1>2, <2>1, <2>2 DEF LaunchSimulation, queue
<1> QED
  BY <1>1, <1>2

\* Another simulation takes over from the one that has finished.
LEMMA RelaunchMoves ==
    ASSUME TypeOK, Finished \in Ids, FinishedKind = "simulation", Relaunch
    PROVE  Moves(Finished, workers[Finished].pc, "build") /\ workers'[Finished].threw = FALSE
<1> DEFINE w == NewWorker("simulation", FALSE)
<1>1. workers \in Seq(WorkerRecords) /\ Finished \in 1 .. Len(workers) /\ w \in WorkerRecords
  BY LenProperties DEF TypeOK, WorkerRecords, Ids, NewWorker, WorkerLabels, Kinds
<1>2. w.kind = workers[Finished].kind /\ w.pc = "build" /\ w.threw = FALSE
  BY DEF NewWorker, FinishedKind
<1>3. workers' = [workers EXCEPT ![Finished] = w]
  BY DEF Relaunch
<1> HIDE DEF w
<1> QED
  BY <1>1, <1>2, <1>3, ExceptSeq, LenProperties DEF Moves

\* The done flags of the checkers are set, and nothing else changes.
LEMMA SignalAllKeeps ==
    ASSUME TypeOK, SignalAll
    PROVE  /\ checkers' \in Seq(CheckerRecords \cup {Null}) /\ DOMAIN checkers' = DOMAIN checkers
           /\ Len(checkers') = Len(checkers)
           /\ \A i \in DOMAIN checkers : checkers'[i] = Null <=> checkers[i] = Null
<1>1. checkers \in Seq(CheckerRecords \cup {Null}) /\ DOMAIN checkers = 1 .. Len(checkers)
      /\ Len(checkers) \in Nat
  BY LenProperties DEF TypeOK
<1>2. PICK overlooked :
        checkers' = [i \in DOMAIN checkers |->
                       IF checkers[i] = Null \/ i \in overlooked THEN checkers[i]
                       ELSE [checkers[i] EXCEPT !.signalled = TRUE]]
  BY DEF SignalAll
<1> DEFINE e(i) == IF checkers[i] = Null \/ i \in overlooked THEN checkers[i]
                   ELSE [checkers[i] EXCEPT !.signalled = TRUE]
<1>3. \A i \in 1 .. Len(checkers) : /\ e(i) \in CheckerRecords \cup {Null}
                                    /\ e(i) = Null <=> checkers[i] = Null
  <2> SUFFICES ASSUME NEW i \in 1 .. Len(checkers)
               PROVE  e(i) \in CheckerRecords \cup {Null} /\ (e(i) = Null <=> checkers[i] = Null)
    OBVIOUS
  <2>1. checkers[i] \in CheckerRecords \cup {Null}
    BY <1>1, ElementOfSeq
  <2>2. CASE checkers[i] = Null
    BY <2>2
  <2>3. CASE checkers[i] # Null
    <3>1. [checkers[i] EXCEPT !.signalled = TRUE] \in CheckerRecords
      BY <2>1, <2>3 DEF CheckerRecords
    <3> QED
      BY <2>1, <2>3, <3>1, NullAssumption
  <2> QED
    BY <2>2, <2>3
<1>4. [i \in 1 .. Len(checkers) |-> e(i)] \in Seq(CheckerRecords \cup {Null})
  BY <1>1, <1>3, IsASeq
<1> QED
  BY <1>1, <1>2, <1>3, <1>4

-----------------------------------------------------------------------------
(* The simulations that are counted as started and not as performed *)

\* There are as many workers as there are, finitely many.
LEMMA WorkersFinite ==
    ASSUME workers \in Seq(WorkerRecords)
    PROVE  IsFiniteSet(Ids) /\ IsFiniteSet(Pending) /\ IsFiniteSet(Drawing)
<1>1. DOMAIN workers = 1 .. Len(workers) /\ Len(workers) \in Nat
  BY LenProperties
<1>2. IsFiniteSet(Ids)
  BY <1>1, FS_Interval DEF Ids
<1>3. Pending \in SUBSET Ids /\ Drawing \in SUBSET Ids
  BY DEF Pending, Drawing
<1> QED
  BY <1>2, <1>3, FS_Subset

\* A simulation whose result is at hand is one of them.
LEMMA FinishedIsPending ==
    ASSUME TypeOK, QueueAgrees, CountsAgree, mainPc = "handle", FinishedKind = "simulation"
    PROVE  performed + 1 <= started /\ started \in Nat /\ performed \in Nat /\ config.maxSims \in Nat
<1>1. Finished \in Pending
  BY DEF QueueAgrees, Pending, FinishedKind
<1>2. Cardinality(Pending) \in Nat /\ Cardinality(Pending) # 0
  BY <1>1, WorkersFinite, FS_EmptySet, FS_CardinalityType DEF TypeOK, WorkerRecords
<1>3. started \in Nat /\ performed \in Nat /\ config.maxSims \in Nat
  BY DEF TypeOK, Configurations
<1> QED
  BY <1>2, <1>3 DEF CountsAgree

-----------------------------------------------------------------------------
(* The invariant, part by part *)

\* The main thread is at one place after the other; the circuits stay the same.
LEMMA SetupFacts ==
    ASSUME TypeOK, Setup
    PROVE  /\ config' \in Configurations
           /\ \A f \in {"alternating", "construction", "simulation", "maxSims", "parallel",
                        "nthreads", "timed"} : config'[f] = config[f]
           /\ config'.alternating = config.alternating /\ config'.construction = config.construction
           /\ config'.simulation = config.simulation /\ config'.maxSims = config.maxSims
           /\ config'.parallel = config.parallel /\ config'.nthreads = config.nthreads
           /\ config'.timed = config.timed
           /\ config'.zx = (config.zx /\ circuits.transformable)
           /\ checkers' \in Seq(CheckerRecords \cup {Null})
           /\ Len(checkers') = Min({config'.nthreads, Tasks(config')})
           /\ Len(checkers') \in Nat /\ DOMAIN checkers' = 1 .. Len(checkers')
           /\ \A i \in DOMAIN checkers' : checkers'[i] = Null
<1>1. config \in Configurations /\ config' = [config EXCEPT !.zx = config.zx /\ circuits.transformable]
  BY DEF TypeOK, Setup
<1>2. (config.zx /\ circuits.transformable) \in BOOLEAN
  OBVIOUS
<1>3. /\ config' \in Configurations
      /\ \A f \in {"alternating", "construction", "simulation", "maxSims", "parallel",
                   "nthreads", "timed"} : config'[f] = config[f]
      /\ config'.zx = (config.zx /\ circuits.transformable)
  BY <1>1, <1>2 DEF Configurations
<1>4. /\ config'.alternating = config.alternating /\ config'.construction = config.construction
      /\ config'.simulation = config.simulation /\ config'.maxSims = config.maxSims
      /\ config'.parallel = config.parallel /\ config'.nthreads = config.nthreads
      /\ config'.timed = config.timed
  BY <1>1 DEF Configurations
<1> DEFINE n == Min({config'.nthreads, Tasks(config')})
<1>5. n \in Nat
  <2>1. config'.nthreads \in Nat /\ config'.maxSims \in Nat
    BY <1>3 DEF Configurations
  <2>2. Tasks(config') \in Nat
    BY <1>3, <2>1, SinglesAreConfigured DEF Tasks
  <2> QED
    BY <2>1, <2>2, MinOfTwo
<1>6. checkers' = [i \in 1 .. n |-> Null]
  BY <1>1 DEF Setup
<1> HIDE DEF n
<1>7. checkers' \in Seq(CheckerRecords \cup {Null})
  BY <1>5, <1>6, IsASeq
<1>8. DOMAIN checkers' = 1 .. n /\ Len(checkers') = n
  BY <1>5, <1>6, <1>7, LenProperties
<1> QED
  BY <1>3, <1>4, <1>5, <1>6, <1>7, <1>8 DEF n

\* No more simulations are started at first than there may be.
LEMMA StartFacts ==
    ASSUME TypeOK, RequestAgrees
    PROVE  SimulationsToStart \in Nat /\ SimulationsToStart <= config.maxSims
<1>1. config.maxSims \in Nat /\ config.nthreads \in Nat /\ config \in Configurations
  BY DEF TypeOK, Configurations
<1>2. WordModulus \in Nat /\ WordModulus > 2
  BY <1>1, WordAssumption DEF RequestAgrees
<1>3. Len(checkers) \in Nat
  BY LenProperties DEF TypeOK
<1>4. Len(Singles(config)) \in Nat
  BY <1>1, SinglesAreConfigured
<1> DEFINE x == Len(checkers) + WordModulus - Len(Singles(config))
<1>5. x \in Int
  BY <1>2, <1>3, <1>4
<1> HIDE DEF x
<1>6. x % WordModulus \in Nat
  BY <1>2, <1>5
<1> QED
  BY <1>1, <1>6, MinOfTwo DEF SimulationsToStart, x

\* What the steps of the main thread that are about no worker leave alone
LEMMA QueueSteps ==
    ASSUME Wait \/ Receive \/ GiveUp \/ Get \/ StartWaiting \/ DestroyFutures \/ Report
           \/ DeadlinePasses \/ Terminated \/ UNCHANGED vars
    PROVE  /\ UNCHANGED <<circuits, config, memory, results, checkers, workers, drawn, handled>>
           /\ done' = done \/ (done' = TRUE /\ mainPc' = "signal")
           /\ mainPc' \in MainLabels \cup {mainPc}
  BY DEF Wait, Receive, GiveUp, Get, StartWaiting, DestroyFutures, Report, DeadlinePasses, Terminated,
     vars, runVars, results, rest, MainGoto, MainLabels

\* The branches of the result handler: the main thread waits for the next result, or it is
\* done and signals the checkers.
LEMMA HandlerSteps ==
    ASSUME TypeOK,
           HandleNoInformation \/ HandleNotEquivalent \/ HandleEquivalent
           \/ HandleProbablyNotEquivalent \/ HandleSimulation
    PROVE  /\ UNCHANGED <<circuits, config, memory, checkers, drawn, queue>>
           /\ mainPc = "handle"
           /\ \/ mainPc' = "pop" /\ done' = done
              \/ mainPc' = "signal" /\ done' = TRUE
           /\ handled' = handled \cup {<<FinishedKind, Result>>}
           /\ UNCHANGED <<workers, started>> \/ (Relaunch /\ FinishedKind = "simulation" /\ mainPc' = "pop")
           /\ performed' \in {performed, performed + 1}
           /\ performed' = performed + 1 => FinishedKind = "simulation"
<1>0. performed \in Nat
  BY DEF TypeOK, Configurations
<1> USE DEF Handle, Stop, Continue, MainGoto, handlerRest
<1>1. CASE HandleNoInformation
  BY <1>0, <1>1 DEF HandleNoInformation
<1>2. CASE HandleNotEquivalent
  BY <1>0, <1>2 DEF HandleNotEquivalent
<1>3. CASE HandleEquivalent
  BY <1>0, <1>3 DEF HandleEquivalent
<1>4. CASE HandleProbablyNotEquivalent
  BY <1>0, <1>4 DEF HandleProbablyNotEquivalent
<1>5. CASE HandleSimulation
  BY <1>0, <1>5 DEF HandleSimulation
<1> QED
  BY <1>1, <1>2, <1>3, <1>4, <1>5

\* A result at hand is a criterion, and comes from a checker of one of the kinds.
LEMMA ResultAtHand ==
    ASSUME TypeOK, QueueAgrees, ResultsAgree, mainPc = "handle"
    PROVE  /\ FinishedKind \in Kinds /\ Result \in Criteria
           /\ Result \in Findings(FinishedKind, circuits)
           /\ Finished \in Ids
<1>1. Finished \in Ids /\ workers[Finished].pc = "finished" /\ ~workers[Finished].threw
  BY DEF QueueAgrees
<1>2. FinishedKind \in Kinds
  BY <1>1, WorkerKind DEF FinishedKind
<1>3. Result \in Findings(FinishedKind, circuits)
  BY <1>1 DEF ResultsAgree, Early, Through, Result, FinishedKind
<1> QED
  BY <1>1, <1>2, <1>3, FindingsAreCriteria

\* Whatever a simulation has shown, it counts as performed, and nothing else does.
LEMMA SimulationsCount ==
    ASSUME TypeOK, QueueAgrees, ResultsAgree,
           HandleNoInformation \/ HandleNotEquivalent \/ HandleEquivalent
           \/ HandleProbablyNotEquivalent \/ HandleSimulation
    PROVE  /\ performed \in Nat
           /\ performed' = performed + (IF FinishedKind = "simulation" THEN 1 ELSE 0)
<1>1. performed \in Nat
  <2>1. config.maxSims \in Nat
    BY DEF TypeOK, Configurations
  <2> QED
    BY <2>1 DEF TypeOK
<1>2. Result \in Findings(FinishedKind, circuits)
  BY ResultAtHand, HandlerSteps
<1>3. CASE HandleNoInformation
  BY <1>1, <1>2, <1>3 DEF HandleNoInformation, Handle, Findings
<1>4. CASE HandleNotEquivalent
  BY <1>1, <1>4 DEF HandleNotEquivalent
<1>5. CASE HandleEquivalent \/ HandleProbablyNotEquivalent
  BY <1>1, <1>5 DEF HandleEquivalent, HandleProbablyNotEquivalent, Handle
<1>6. CASE HandleSimulation
  <2>1. performed' = performed + 1 /\ FinishedKind = "simulation"
    BY <1>6 DEF HandleSimulation, Handle
  <2> QED
    BY <1>1, <2>1
<1> QED
  BY <1>1, <1>3, <1>4, <1>5, <1>6

IInv == /\ TypeOK /\ RequestAgrees /\ SlotsAgree /\ QueueAgrees /\ ResultsAgree
        /\ ThrownAgrees /\ CountsAgree /\ VerdictAgrees /\ StopAgrees

\* Every step preserves the types,
LEMMA NextTypeOK ==
    ASSUME IInv, [Next]_vars
    PROVE  TypeOK'
<1> USE DEF IInv
<1>0. TypeOK /\ workers \in Seq(WorkerRecords) /\ checkers \in Seq(CheckerRecords \cup {Null})
  BY DEF TypeOK, WorkerRecords
<1>1. CASE \E i \in Ids : Proceed(i) \/ Complete(i)
  <2>1. PICK i \in Ids : Proceed(i) \/ Complete(i)
    BY <1>1
  <2>2. \/ BuildCase(i) \/ DrawCase(i) \/ CheckCase(i) \/ CompleteCase(i) \/ AbortCase(i)
        \/ PushCase(i) \/ LeaveCase(i)
    BY <2>1, WorkerSteps
  <2>3. workers' \in Seq(WorkerRecords) /\ UNCHANGED mainVars /\ UNCHANGED expired
    BY <2>2 DEF BuildCase, DrawCase, CheckCase, CompleteCase, AbortCase, PushCase, LeaveCase,
       Moves, queue
  <2>4. checkers' \in Seq(CheckerRecords \cup {Null})
    BY <1>0, <2>2 DEF BuildCase, DrawCase, CheckCase, CompleteCase, AbortCase, PushCase, LeaveCase,
       Holds
  <2>5. drawn' \in Nat
    <3>1. drawn' \in {drawn, drawn + 1}
      BY <2>2 DEF BuildCase, DrawCase, CheckCase, CompleteCase, AbortCase, PushCase, LeaveCase
    <3> QED
      BY <3>1 DEF TypeOK
  <2>6. items' \in Seq(Nat)
    <3>1. i \in Nat /\ items \in Seq(Nat)
      BY <1>0, LenProperties DEF Ids, TypeOK
    <3>2. items' \in {items, Append(items, i)}
      BY <2>2 DEF BuildCase, DrawCase, CheckCase, CompleteCase, AbortCase, PushCase, LeaveCase, queue
    <3> QED
      BY <3>1, <3>2, AppendProperties
  <2> QED
    BY <2>3, <2>4, <2>5, <2>6 DEF TypeOK, WorkerRecords, mainVars
<1>2. CASE Setup
  <2>1. config' \in Configurations /\ config'.maxSims = config.maxSims
        /\ checkers' \in Seq(CheckerRecords \cup {Null})
    BY <1>2, SetupFacts
  <2> QED
    BY <1>2, <2>1 DEF Setup, TypeOK, MainGoto, MainLabels, results, queue
<1>3. CASE Launch
  <2>1. Singles(config)[Len(workers) + 1] \in Kinds
    <3>1. Len(workers) \in Nat /\ config \in Configurations
      BY <1>0, LenProperties DEF TypeOK
    <3>2. Len(workers) + 1 \in 1 .. Len(Singles(config))
      BY <1>3, <3>1, SinglesAreConfigured DEF Launch
    <3> QED
      BY <3>1, <3>2, SinglesAreConfigured
  <2>2. workers' \in Seq(WorkerRecords)
    BY <1>3, <2>1, AppendJoins DEF Launch, Joins
  <2> QED
    BY <1>3, <2>2 DEF Launch, TypeOK, WorkerRecords, mainVars, queue
<1>4. CASE LaunchSimulation
  <2>1. workers' \in Seq(WorkerRecords)
    BY <1>4, AppendJoins DEF LaunchSimulation, Joins, Kinds
  <2>2. started' \in 0 .. config.maxSims /\ performed \in 0 .. started'
    BY <1>4, StartFacts DEF LaunchSimulation, TypeOK, Configurations
  <2> QED
    BY <1>4, <2>1, <2>2 DEF LaunchSimulation, TypeOK, WorkerRecords, queue
<1>5. CASE Wait \/ Receive \/ GiveUp \/ Get \/ StartWaiting \/ DestroyFutures \/ Report
           \/ DeadlinePasses \/ Terminated \/ UNCHANGED vars
  <2>1. items' \in Seq(Nat) /\ expired' \in BOOLEAN
    <3>1. \/ items' = items
          \/ items # << >> /\ items' = Tail(items)
      BY <1>5 DEF Wait, Receive, GiveUp, Get, StartWaiting, DestroyFutures, Report,
         DeadlinePasses, Terminated, vars, queue, rest, Q!WaitAndPop, Q!WaitAndPopUntil,
         Q!Deliver, Q!GiveUp, Q!DeadlinePasses
    <3>2. expired' \in {expired, TRUE}
      BY <1>5 DEF Wait, Receive, GiveUp, Get, StartWaiting, DestroyFutures, Report,
         DeadlinePasses, Terminated, vars, queue, rest, Q!WaitAndPop, Q!WaitAndPopUntil,
         Q!Deliver, Q!GiveUp, Q!DeadlinePasses
    <3> QED
      BY <3>1, <3>2, HeadTailProperties DEF TypeOK
  <2>2. done' \in BOOLEAN /\ mainPc' \in MainLabels
    BY <1>5, QueueSteps DEF TypeOK
  <2> QED
    BY <1>5, <2>1, <2>2, QueueSteps DEF TypeOK, results
<1>6. CASE HandleNoInformation \/ HandleNotEquivalent \/ HandleEquivalent
           \/ HandleProbablyNotEquivalent \/ HandleSimulation
  <2>0. /\ FinishedKind \in Kinds /\ Result \in Criteria /\ Finished \in Ids
        /\ UNCHANGED <<circuits, config, memory, checkers, drawn, queue>> /\ mainPc = "handle"
    BY <1>6, ResultAtHand, HandlerSteps
  <2>1. workers' \in Seq(WorkerRecords)
    BY <1>0, <1>6, <2>0, HandlerSteps, RelaunchMoves DEF Moves
  <2>2. equivalence' \in Criteria /\ cexFound' \in BOOLEAN
    BY <1>6, <2>0 DEF HandleNoInformation, HandleNotEquivalent, HandleEquivalent,
       HandleProbablyNotEquivalent, HandleSimulation, TypeOK, Criteria
  <2>3. started' \in 0 .. config.maxSims /\ performed' \in 0 .. started'
    <3>1. started' = started \/ (started' = started + 1 /\ started < config.maxSims)
      <4>1. CASE HandleSimulation
        BY <4>1 DEF HandleSimulation, Relaunch
      <4>2. CASE ~HandleSimulation
        BY <1>6, <4>2 DEF HandleNoInformation, HandleNotEquivalent, HandleEquivalent,
           HandleProbablyNotEquivalent, TypeOK
      <4> QED
        BY <4>1, <4>2
    <3>2. performed' \in {performed, performed + 1} /\ (performed' = performed + 1 => performed + 1 <= started)
      BY <1>6, <2>0, HandlerSteps, FinishedIsPending
    <3> QED
      BY <3>1, <3>2 DEF TypeOK, Configurations
  <2>4. handled' \in SUBSET (Kinds \X Criteria) /\ mainPc' \in MainLabels /\ done' \in BOOLEAN
    <3>1. handled' = handled \cup {<<FinishedKind, Result>>} /\ mainPc' \in {"pop", "signal"}
          /\ done' \in {done, TRUE}
      BY <1>6, HandlerSteps
    <3>2. handled \in SUBSET (Kinds \X Criteria) /\ done \in BOOLEAN
      BY DEF TypeOK
    <3>3. handled' \in SUBSET (Kinds \X Criteria)
      BY <2>0, <3>1, <3>2
    <3> QED
      BY <3>1, <3>2, <3>3 DEF MainLabels
  <2> QED
    BY <2>0, <2>1, <2>2, <2>3, <2>4 DEF TypeOK, WorkerRecords, queue
<1>7. CASE SignalAll
  <2>1. checkers' \in Seq(CheckerRecords \cup {Null})
    BY <1>7, SignalAllKeeps
  <2> QED
    BY <1>7, <2>1 DEF SignalAll, TypeOK, MainGoto, MainLabels, results, queue
<1> QED
  BY <1>1, <1>2, <1>3, <1>4, <1>5, <1>6, <1>7 DEF Next, MainStep

-----------------------------------------------------------------------------
(* Slots and queue *)

\* When the ZX checker is alone
LEMMA OnlyZXIs ==
    ASSUME NEW c
    PROVE  OnlyZXCheckerConfigured(c) <=>
             ~c.simulation /\ ~c.alternating /\ ~c.construction /\ c.zx
<1>1. c["alternating"] = c.alternating /\ c["construction"] = c.construction /\ c["zx"] = c.zx
  OBVIOUS
<1>2. \A k \in {"alternating", "construction", "zx"} : c[k] <=> k \in OtherCheckers(c)
  BY DEF OtherCheckers
<1>3. OtherCheckers(c) \subseteq {"alternating", "construction", "zx"}
  BY DEF OtherCheckers
<1> QED
  BY <1>1, <1>2, <1>3 DEF OnlyZXCheckerConfigured

\* The circuits, and all of the configuration but the ZX checker, stay as they are.
LEMMA NextRequestAgrees ==
    ASSUME IInv, [Next]_vars
    PROVE  RequestAgrees' /\ circuits' = circuits /\ memory' = memory
<1> USE DEF IInv
<1>1. CASE \E i \in Ids : Proceed(i) \/ Complete(i)
  <2>1. PICK i \in Ids : Proceed(i) \/ Complete(i)
    BY <1>1
  <2>2. UNCHANGED mainVars
    BY <2>1, WorkerSteps DEF BuildCase, DrawCase, CheckCase, CompleteCase, AbortCase, PushCase, LeaveCase
  <2> QED
    BY <2>2 DEF mainVars, RequestAgrees
<1>2. CASE Setup
  <2>1. /\ config'.zx => config.zx
        /\ config'.alternating = config.alternating /\ config'.construction = config.construction
        /\ config'.simulation = config.simulation
    BY <1>2, SetupFacts
  <2>2. ~OnlyZXCheckerConfigured(config')
    BY <2>1, OnlyZXIs DEF RequestAgrees
  <2> QED
    BY <1>2, <2>2, SetupFacts DEF Setup, RequestAgrees
<1>3. CASE Launch \/ LaunchSimulation \/ SignalAll
  BY <1>3 DEF Launch, LaunchSimulation, SignalAll, mainVars, RequestAgrees
<1>4. CASE Wait \/ Receive \/ GiveUp \/ Get \/ StartWaiting \/ DestroyFutures \/ Report
           \/ DeadlinePasses \/ Terminated \/ UNCHANGED vars
  BY <1>4, QueueSteps DEF RequestAgrees
<1>5. CASE HandleNoInformation \/ HandleNotEquivalent \/ HandleEquivalent
           \/ HandleProbablyNotEquivalent \/ HandleSimulation
  BY <1>5, HandlerSteps DEF RequestAgrees
<1> QED
  BY <1>1, <1>2, <1>3, <1>4, <1>5 DEF Next, MainStep

\* how many workers there are, and of which kinds,
LEMMA NextSlotsAgree ==
    ASSUME IInv, [Next]_vars
    PROVE  SlotsAgree'
<1> USE DEF IInv, Ids
<1>0. TypeOK /\ SlotsAgree /\ Len(workers) \in Nat /\ config \in Configurations
      /\ DOMAIN workers = 1 .. Len(workers)
  BY LenProperties DEF TypeOK
<1>1. CASE \E i \in Ids : Proceed(i) \/ Complete(i)
  <2>1. PICK i \in Ids : Proceed(i) \/ Complete(i)
    BY <1>1
  <2> USE DEF Moves, SlotsAgree
  <2>0. UNCHANGED <<mainVars>> => mainPc' = mainPc /\ config' = config
    BY DEF mainVars
  <2>2. CASE BuildCase(i)
    <3>1. UNCHANGED checkers \/ Holds(i, "NoInformation", FALSE)
      BY <2>2 DEF BuildCase
    <3>2. DOMAIN checkers' = DOMAIN checkers /\ \A j \in DOMAIN checkers \ {i} : checkers'[j] = checkers[j]
      BY <3>1 DEF Holds
    <3>3. workers'[i].pc \in {"draw", "check", "run"} => i \in DOMAIN checkers' /\ checkers'[i] # Null
      BY <2>2 DEF BuildCase, Holds
    <3>4. workers'[i].pc = "draw" => workers'[i].kind = "simulation"
      BY <2>2 DEF BuildCase
    <3>5. /\ DOMAIN workers' = DOMAIN workers /\ workers'[i].kind = workers[i].kind
          /\ \A j \in DOMAIN workers \ {i} : workers'[j] = workers[j]
          /\ mainPc' = mainPc /\ config' = config
      BY <2>0, <2>2 DEF BuildCase
    <3>6. workers # << >> /\ mainPc # "setup"
      BY <2>1, EmptySeq
    <3> QED
      BY <2>1, <3>2, <3>3, <3>4, <3>5, <3>6
  <2>3. CASE DrawCase(i) \/ CheckCase(i) \/ PushCase(i) \/ LeaveCase(i)
    <3>1. /\ DOMAIN workers' = DOMAIN workers /\ workers'[i].kind = workers[i].kind
          /\ \A j \in DOMAIN workers \ {i} : workers'[j] = workers[j]
          /\ mainPc' = mainPc /\ config' = config /\ checkers' = checkers
          /\ workers'[i].pc \in {"draw", "check", "run"} => workers[i].pc \in {"draw", "check", "run"}
          /\ workers'[i].pc # "draw"
      BY <2>0, <2>3 DEF DrawCase, CheckCase, PushCase, LeaveCase
    <3>2. workers # << >> /\ mainPc # "setup"
      BY <2>1, EmptySeq
    <3> QED
      BY <2>1, <3>1, <3>2
  <2>4. CASE CompleteCase(i) \/ AbortCase(i)
    <3>1. UNCHANGED checkers \/ \E e, b : Holds(i, e, b)
      BY <2>4 DEF CompleteCase, AbortCase
    <3>2. DOMAIN checkers' = DOMAIN checkers /\ \A j \in DOMAIN checkers \ {i} : checkers'[j] = checkers[j]
      BY <3>1 DEF Holds
    <3>3. /\ DOMAIN workers' = DOMAIN workers /\ workers'[i].kind = workers[i].kind
          /\ \A j \in DOMAIN workers \ {i} : workers'[j] = workers[j]
          /\ mainPc' = mainPc /\ config' = config
          /\ workers'[i].pc = "push"
      BY <2>0, <2>4 DEF CompleteCase, AbortCase
    <3>4. workers # << >> /\ mainPc # "setup"
      BY <2>1, EmptySeq
    <3> QED
      BY <2>1, <3>2, <3>3, <3>4
  <2> QED
    BY <2>1, <2>2, <2>3, <2>4, WorkerSteps
<1>2. CASE Setup
  BY <1>0, <1>2, SetupFacts, EmptySeq DEF Setup, SlotsAgree, MainGoto
<1>3. CASE Launch \/ LaunchSimulation
  <2>1. PICK k \in Kinds : config[k] /\ Joins(k)
    BY <1>3, LaunchJoins
  <2>2. mainPc' = mainPc /\ mainPc # "setup" /\ checkers' = checkers /\ config' = config
    BY <1>3, LaunchJoins
  <2> QED
    BY <1>0, <2>1, <2>2 DEF Joins, SlotsAgree
<1>5. CASE Wait \/ Receive \/ GiveUp \/ Get \/ StartWaiting \/ DestroyFutures \/ Report
           \/ DeadlinePasses \/ Terminated \/ UNCHANGED vars
  <2>1. mainPc' = "setup" => mainPc = "setup"
    BY <1>5 DEF Wait, Receive, GiveUp, Get, StartWaiting, DestroyFutures, Report, DeadlinePasses,
       Terminated, vars, runVars, MainGoto
  <2> QED
    BY <1>0, <1>5, <2>1, QueueSteps DEF SlotsAgree
<1>6. CASE HandleNoInformation \/ HandleNotEquivalent \/ HandleEquivalent
           \/ HandleProbablyNotEquivalent \/ HandleSimulation
  <2>1. UNCHANGED <<config, checkers>> /\ mainPc' # "setup"
        /\ (UNCHANGED workers \/ (Relaunch /\ FinishedKind = "simulation"))
    BY <1>6, HandlerSteps
  <2>2. CASE UNCHANGED workers
    BY <2>1, <2>2 DEF SlotsAgree
  <2>3. CASE Relaunch /\ FinishedKind = "simulation"
    <3>1. Finished \in Ids
      BY <1>6, ResultAtHand, HandlerSteps
    <3>2. Moves(Finished, workers[Finished].pc, "build")
      BY <2>3, <3>1, RelaunchMoves
    <3> QED
      BY <2>1, <3>1, <3>2 DEF SlotsAgree, Moves
  <2> QED
    BY <2>1, <2>2, <2>3
<1>7. CASE SignalAll
  BY <1>0, <1>7, SignalAllKeeps DEF SignalAll, SlotsAgree, MainGoto
<1> QED
  BY <1>1, <1>2, <1>3, <1>5, <1>6, <1>7 DEF Next, MainStep

\* and which of them have reported, in which order.
LEMMA NextQueueAgrees ==
    ASSUME IInv, [Next]_vars
    PROVE  QueueAgrees'
<1> USE DEF IInv, Ids, Pushed, Finished
<1>0. TypeOK /\ QueueAgrees /\ items \in Seq(Nat) /\ Len(items) \in Nat
      /\ DOMAIN items = 1 .. Len(items)
  BY LenProperties DEF TypeOK
<1>1. CASE \E i \in Ids : Proceed(i) \/ Complete(i)
  <2>1. PICK i \in Ids : Proceed(i) \/ Complete(i)
    BY <1>1
  <2>2. CASE BuildCase(i) \/ DrawCase(i) \/ CheckCase(i) \/ CompleteCase(i) \/ AbortCase(i) \/ LeaveCase(i)
    <3>1. /\ UNCHANGED <<mainVars, queue>> /\ Moves(i, workers[i].pc, workers'[i].pc)
          /\ workers[i].pc \in Pushed => workers[i].pc = "leave" /\ workers'[i].pc = "finished" /\ Keeps(i)
      BY <2>2 DEF BuildCase, DrawCase, CheckCase, CompleteCase, AbortCase, LeaveCase, Moves
    <3> QED
      BY <3>1 DEF QueueAgrees, Moves, Keeps, mainVars, queue
  <2>3. CASE PushCase(i)
    <3>1. /\ UNCHANGED <<mainPc, config, request, outcome>> /\ workers[i].pc = "push" /\ workers'[i].pc = "leave"
          /\ DOMAIN workers' = DOMAIN workers /\ workers'[i].kind = workers[i].kind
          /\ \A j \in DOMAIN workers \ {i} : workers'[j] = workers[j]
          /\ items' = Append(items, i)
      BY <2>3 DEF PushCase, Moves, mainVars
    <3>2. i \in Nat
      BY LenProperties DEF TypeOK
    <3>3. /\ DOMAIN items' = 1 .. Len(items) + 1
          /\ \A a \in 1 .. Len(items) : items'[a] = items[a]
          /\ items'[Len(items) + 1] = i
      BY <1>0, <3>1, <3>2, AppendProperties, LenProperties
    <3>4. \A a \in DOMAIN items : items[a] # i
      BY <3>1 DEF QueueAgrees
    <3>5. mainPc \in {"get", "handle"} => outcome[Main] # i
      BY <3>1 DEF QueueAgrees
    <3> QED
      BY <1>0, <2>1, <3>1, <3>3, <3>4, <3>5 DEF QueueAgrees
  <2> QED
    BY <2>1, <2>2, <2>3, WorkerSteps
<1>2. CASE Setup
  BY <1>0, <1>2, SetupFacts DEF Setup, QueueAgrees, MainGoto, queue
<1>3. CASE Launch \/ LaunchSimulation
  <2>1. \E k : Joins(k)
    BY <1>3, LaunchJoins
  <2>2. UNCHANGED <<queue, mainPc, config>> /\ mainPc = "launch"
    BY <1>3, LaunchJoins
  <2> QED
    BY <1>0, <2>1, <2>2 DEF QueueAgrees, Joins, queue
<1>4. CASE StartWaiting \/ DestroyFutures \/ Report \/ DeadlinePasses \/ Terminated \/ UNCHANGED vars
  <2>1. UNCHANGED <<items, request, outcome, workers, config>>
        /\ (mainPc' = mainPc \/ mainPc' \in {"pop", "threw", "report", "crashed", "returned"})
    BY <1>4 DEF StartWaiting, DestroyFutures, Report, DeadlinePasses, Terminated, vars, runVars,
       queue, rest, Q!DeadlinePasses, MainGoto
  <2> QED
    BY <2>1 DEF QueueAgrees
<1>5. CASE Wait
  <2>1. /\ request[Main] = "none"
        /\ request' = [request EXCEPT ![Main] = IF config.timed THEN "waitUntil" ELSE "wait"]
        /\ UNCHANGED <<items, outcome, workers, config>> /\ mainPc' = "wait"
    BY <1>5 DEF Wait, rest, MainGoto, Q!WaitAndPop, Q!WaitAndPopUntil
  <2> QED
    BY <2>1 DEF QueueAgrees
<1>6. CASE Receive
  <2>1. /\ items # << >>
        /\ request' = [request EXCEPT ![Main] = "none"]
        /\ outcome' = [outcome EXCEPT ![Main] = Head(items)]
        /\ items' = Tail(items)
        /\ UNCHANGED <<workers, config>> /\ mainPc' = "get"
    BY <1>6 DEF Receive, rest, MainGoto, Q!Deliver
  <2>2. /\ Head(items) = items[1] /\ Head(items) \in Nat /\ 1 \in DOMAIN items
        /\ DOMAIN items' = 1 .. Len(items) - 1
        /\ \A a \in 1 .. Len(items) - 1 : items'[a] = items[a + 1] /\ a + 1 \in DOMAIN items
    BY <1>0, <2>1, HeadTailProperties, LenProperties, EmptySeq
  <2>3. outcome'[Main] = items[1] /\ outcome' \in [{Main} -> Nat \cup {Null}]
        /\ request' \in [{Main} -> {"none", "wait", "waitUntil"}]
    BY <2>1, <2>2 DEF QueueAgrees
  <2>4. \A a \in DOMAIN items' : items'[a] # items[1]
    <3> SUFFICES ASSUME NEW a \in DOMAIN items' PROVE items'[a] # items[1]
      OBVIOUS
    <3>1. a \in Int /\ a + 1 # 1 /\ a + 1 \in DOMAIN items /\ items'[a] = items[a + 1]
      BY <1>0, <2>2
    <3> QED
      BY <2>2, <3>1 DEF QueueAgrees
  <2>5. \A a, b \in DOMAIN items' : items'[a] = items'[b] => a = b
    <3> SUFFICES ASSUME NEW a \in DOMAIN items', NEW b \in DOMAIN items', items'[a] = items'[b]
                 PROVE  a = b
      OBVIOUS
    <3>0. a \in Int /\ a + 1 \in DOMAIN items /\ items'[a] = items[a + 1]
      BY <1>0, <2>2
    <3>1. b \in Int /\ b + 1 \in DOMAIN items /\ items'[b] = items[b + 1]
      BY <1>0, <2>2
    <3>2. a + 1 = b + 1
      BY <3>0, <3>1 DEF QueueAgrees
    <3> QED
      BY <3>0, <3>1, <3>2
  <2>6. \A a \in DOMAIN items' : items'[a] \in Ids /\ workers[items'[a]].pc \in Pushed
    BY <2>2 DEF QueueAgrees
  <2> QED
    BY <2>1, <2>2, <2>3, <2>4, <2>5, <2>6 DEF QueueAgrees
<1>7. CASE GiveUp
  <2>1. /\ request' = [request EXCEPT ![Main] = "none"]
        /\ outcome' = [outcome EXCEPT ![Main] = Null]
        /\ UNCHANGED <<items, workers, config>> /\ mainPc' = "signal"
    BY <1>7 DEF GiveUp, MainGoto, Q!GiveUp
  <2> QED
    BY <2>1 DEF QueueAgrees
<1>8. CASE Get
  <2>1. UNCHANGED <<items, request, outcome, workers, config>> /\ mainPc = "get"
        /\ workers[Finished].pc = "finished"
        /\ mainPc' = IF workers[Finished].threw THEN "unwind" ELSE "handle"
    BY <1>8 DEF Get, rest, queue, MainGoto
  <2> QED
    BY <2>1 DEF QueueAgrees
<1>9. CASE HandleNoInformation \/ HandleNotEquivalent \/ HandleEquivalent
           \/ HandleProbablyNotEquivalent \/ HandleSimulation
  <2>1. UNCHANGED <<config, items, request, outcome>> /\ mainPc' \in {"pop", "signal"} /\ mainPc = "handle"
        /\ (UNCHANGED workers \/ (Relaunch /\ FinishedKind = "simulation"))
    BY <1>9, HandlerSteps DEF queue
  <2>2. CASE UNCHANGED workers
    BY <2>1, <2>2 DEF QueueAgrees
  <2>3. CASE Relaunch /\ FinishedKind = "simulation"
    <3>1. Finished \in Ids
      BY <1>9, ResultAtHand, HandlerSteps
    <3>2. Moves(Finished, workers[Finished].pc, "build")
      BY <2>3, <3>1, RelaunchMoves
    <3> QED
      BY <2>1, <3>1, <3>2 DEF QueueAgrees, Moves
  <2> QED
    BY <2>1, <2>2, <2>3
<1>10. CASE SignalAll
  BY <1>10 DEF SignalAll, QueueAgrees, MainGoto, queue
<1> QED
  BY <1>1, <1>2, <1>3, <1>4, <1>5, <1>6, <1>7, <1>8, <1>9, <1>10 DEF Next, MainStep

-----------------------------------------------------------------------------
(* Results *)

\* What is in the queue stays there or is what Deliver takes.
LEMMA TakenOrLeft ==
    ASSUME NEW s \in Seq(Nat), s # << >>
    PROVE  \A x \in Range(s) : x \in Range(Tail(s)) \/ x = Head(s)
<1> SUFFICES ASSUME NEW a \in DOMAIN s, a # 1 PROVE s[a] \in Range(Tail(s))
  BY HeadTailProperties, LenProperties DEF Range
<1>1. /\ Len(s) \in Nat /\ a \in 1 .. Len(s) /\ DOMAIN Tail(s) = 1 .. Len(s) - 1
      /\ \A b \in 1 .. Len(s) - 1 : Tail(s)[b] = s[b + 1]
  BY HeadTailProperties, LenProperties
<1>2. a - 1 \in 1 .. Len(s) - 1 /\ (a - 1) + 1 = a
  BY <1>1
<1> QED
  BY <1>1, <1>2 DEF Range

\* Until the main thread has them told to stop, the workers bring back what their checkers find.
LEMMA NextResultsAgree ==
    ASSUME IInv, [Next]_vars
    PROVE  ResultsAgree'
<1> USE DEF IInv, Ids
<1>0. TypeOK /\ SlotsAgree /\ ResultsAgree /\ circuits' = circuits
  BY NextRequestAgrees
<1>1. CASE \E i \in Ids : Proceed(i) \/ Complete(i)
  <2>1. PICK i \in Ids : Proceed(i) \/ Complete(i)
    BY <1>1
  <2>2. /\ UNCHANGED <<mainPc, done, config, handled, performed>>
        /\ DOMAIN workers' = DOMAIN workers /\ workers'[i].kind = workers[i].kind
        /\ \A j \in DOMAIN workers \ {i} : workers'[j] = workers[j]
        /\ DOMAIN checkers' = DOMAIN checkers
        /\ \A j \in DOMAIN checkers \ {i} : checkers'[j] = checkers[j]
    <3>1. UNCHANGED mainVars /\ Moves(i, workers[i].pc, workers'[i].pc)
      BY <2>1, WorkerSteps DEF BuildCase, DrawCase, CheckCase, CompleteCase, AbortCase, PushCase,
         LeaveCase, Moves
    <3>2. UNCHANGED checkers \/ \E e, b : Holds(i, e, b)
      BY <2>1, WorkerSteps DEF BuildCase, DrawCase, CheckCase, CompleteCase, AbortCase, PushCase,
         LeaveCase
    <3> QED
      BY <3>1, <3>2 DEF Moves, mainVars, Holds
  <2>3. SUFFICES
          mainPc \in Early =>
            /\ i \in DOMAIN checkers /\ checkers'[i] # Null => ~checkers'[i].signalled
            /\ workers'[i].pc \in Through /\ ~workers'[i].threw =>
                 /\ i \in DOMAIN checkers /\ checkers'[i] # Null
                 /\ checkers'[i].equivalence \in Findings(workers[i].kind, circuits)
    BY <1>0, <2>1, <2>2 DEF ResultsAgree
  <2>4. CASE BuildCase(i)
    BY <1>0, <2>4 DEF BuildCase, Moves, Keeps, Holds, Through, ResultsAgree
  <2>5. CASE DrawCase(i) \/ PushCase(i) \/ LeaveCase(i)
    BY <1>0, <2>5 DEF DrawCase, PushCase, LeaveCase, Moves, Keeps, Through, ResultsAgree
  <2>6. CASE CheckCase(i)
    BY <1>0, <2>6 DEF CheckCase, Moves, Keeps, Through, ResultsAgree
  <2>7. CASE CompleteCase(i)
    <3>1. i \in DOMAIN checkers /\ checkers[i] # Null
      BY <1>0, <2>7 DEF CompleteCase, Moves, SlotsAgree
    <3> QED
      BY <1>0, <2>7, <3>1 DEF CompleteCase, Moves, Keeps, Holds, Through, ResultsAgree
  <2>8. CASE AbortCase(i)
    <3>1. i \in DOMAIN checkers /\ checkers[i] # Null /\ checkers[i].signalled
      BY <1>0, <2>8 DEF AbortCase, Moves, SlotsAgree
    <3> QED
      BY <1>0, <2>8, <3>1 DEF AbortCase, Moves, Keeps, Holds, ResultsAgree
  <2> QED
    BY <2>1, <2>4, <2>5, <2>6, <2>7, <2>8, WorkerSteps
<1>2. CASE Setup
  <2>1. /\ workers = << >> /\ workers' = workers /\ handled' = {} /\ done' = done /\ ~done
        /\ mainPc' = "launch" /\ \A i \in DOMAIN checkers' : checkers'[i] = Null
    BY <1>0, <1>2, SetupFacts DEF Setup, SlotsAgree, ResultsAgree, Early, MainGoto
  <2> QED
    BY <2>1, EmptySeq DEF ResultsAgree
<1>3. CASE Launch \/ LaunchSimulation
  <2>1. PICK k : Joins(k)
    BY <1>3, LaunchJoins
  <2>2. UNCHANGED <<mainPc, config, done, checkers, handled, performed>> /\ mainPc = "launch"
    BY <1>3, LaunchJoins
  <2>3. Len(workers) + 1 \in DOMAIN checkers => checkers[Len(workers) + 1] = Null
    BY <1>0, <2>1 DEF Joins, SlotsAgree
  <2>4. \A i \in DOMAIN workers' : i \in DOMAIN workers \/ i = Len(workers) + 1
    BY <2>1 DEF Joins
  <2> QED
    BY <1>0, <2>1, <2>2, <2>3, <2>4 DEF ResultsAgree, Joins, Through
<1>4. CASE Wait \/ Receive \/ GiveUp \/ Get \/ StartWaiting \/ DestroyFutures \/ Report
           \/ DeadlinePasses \/ Terminated \/ UNCHANGED vars
  <2>1. (mainPc' \in Early => mainPc \in Early /\ done' = done) /\ (mainPc' = "setup" => mainPc = "setup")
    BY <1>4 DEF Wait, Receive, GiveUp, Get, StartWaiting, DestroyFutures, Report, DeadlinePasses,
       Terminated, vars, runVars, rest, MainGoto, Early
  <2>2. UNCHANGED <<circuits, config, performed, checkers, workers, handled>>
    BY <1>4, QueueSteps DEF results
  <2> QED
    BY <1>0, <2>1, <2>2 DEF ResultsAgree
<1>5. CASE HandleNoInformation \/ HandleNotEquivalent \/ HandleEquivalent
           \/ HandleProbablyNotEquivalent \/ HandleSimulation
  <2>1. /\ UNCHANGED <<config, checkers>> /\ mainPc = "handle"
        /\ (UNCHANGED workers \/ (Relaunch /\ FinishedKind = "simulation"))
        /\ mainPc' # "setup" /\ (mainPc' \in Early => done' = done)
        /\ handled' = handled \cup {<<FinishedKind, Result>>}
    BY <1>5, HandlerSteps DEF Early
  <2>2. /\ FinishedKind \in Kinds /\ Result \in Criteria /\ Result \in Findings(FinishedKind, circuits)
        /\ Finished \in Ids
    BY <2>1, ResultAtHand
  <2>3. config[FinishedKind]
    BY <1>0, <2>2 DEF SlotsAgree, FinishedKind
  <2>4. performed \in Nat /\ performed' = performed + (IF FinishedKind = "simulation" THEN 1 ELSE 0)
    BY <1>5, SimulationsCount
  <2>6. \A k \in Kinds, e \in Criteria : <<k, e>> \in handled' =>
          /\ config'[k] /\ e \in Findings(k, circuits')
          /\ k = "simulation" => performed' > 0
    <3> SUFFICES ASSUME NEW k \in Kinds, NEW e \in Criteria, <<k, e>> \in handled'
                 PROVE  config'[k] /\ e \in Findings(k, circuits) /\ (k = "simulation" => performed' > 0)
      BY <1>0
    <3>1. CASE <<k, e>> \in handled
      BY <1>0, <2>1, <2>4, <3>1 DEF ResultsAgree
    <3>2. CASE <<k, e>> = <<FinishedKind, Result>>
      BY <2>1, <2>2, <2>3, <2>4, <3>2
    <3> QED
      BY <2>1, <3>1, <3>2
  <2>7. CASE UNCHANGED workers
    BY <1>0, <2>1, <2>6, <2>7 DEF ResultsAgree, Early
  <2>8. CASE Relaunch /\ FinishedKind = "simulation"
    <3>1. Moves(Finished, workers[Finished].pc, "build") /\ workers'[Finished].threw = FALSE
      BY <2>2, <2>8, RelaunchMoves
    <3> QED
      BY <1>0, <2>1, <2>2, <2>6, <3>1 DEF ResultsAgree, Early, Through, Moves
  <2> QED
    BY <2>1, <2>7, <2>8
<1>6. CASE SignalAll
  <2>1. UNCHANGED <<config, workers, handled, performed>> /\ mainPc' = "destroy"
    BY <1>6 DEF SignalAll, MainGoto, results
  <2> QED
    BY <1>0, <1>6, <2>1, SignalAllKeeps DEF ResultsAgree, Early
<1> QED
  BY <1>1, <1>2, <1>3, <1>4, <1>5, <1>6 DEF Next, MainStep

\* An exception does not get lost between the worker and the main thread.
LEMMA NextThrownAgrees ==
    ASSUME IInv, [Next]_vars
    PROVE  ThrownAgrees'
<1> USE DEF IInv, Ids, Finished
<1>0. /\ TypeOK /\ ThrownAgrees /\ items \in Seq(Nat) /\ Len(items) \in Nat
      /\ DOMAIN items = 1 .. Len(items)
  BY LenProperties DEF TypeOK
<1>1. CASE \E i \in Ids : Proceed(i) \/ Complete(i)
  <2>1. PICK i \in Ids : Proceed(i) \/ Complete(i)
    BY <1>1
  <2>2. /\ UNCHANGED <<mainPc, outcome>> /\ DOMAIN workers' = DOMAIN workers
        /\ \A j \in DOMAIN workers \ {i} : workers'[j] = workers[j]
    BY <2>1, WorkerSteps DEF BuildCase, DrawCase, CheckCase, CompleteCase, AbortCase, PushCase,
       LeaveCase, Moves, mainVars, queue
  <2>3. CASE PushCase(i)
    <3>1. items' = Append(items, i) /\ i \in Nat
      BY <2>3, LenProperties DEF PushCase, TypeOK
    <3>2. i \in Range(items') /\ \A j \in Range(items) : j \in Range(items')
      <4>1. /\ DOMAIN items' = 1 .. Len(items) + 1
            /\ \A a \in 1 .. Len(items) : items'[a] = items[a]
            /\ items'[Len(items) + 1] = i
        BY <1>0, <3>1, AppendProperties, LenProperties
      <4>2. Len(items) + 1 \in DOMAIN items' /\ \A a \in 1 .. Len(items) : a \in DOMAIN items'
        BY <1>0, <4>1
      <4> QED
        BY <1>0, <4>1, <4>2 DEF Range
    <3> QED
      BY <1>0, <2>2, <3>2 DEF ThrownAgrees
  <2>4. CASE ~PushCase(i)
    <3>1. /\ items' = items
          /\ workers'[i].threw => workers'[i].pc = "push" \/ (workers[i].threw /\ workers[i].pc # "push")
      BY <2>1, <2>4, WorkerSteps DEF BuildCase, DrawCase, CheckCase, CompleteCase, AbortCase,
         LeaveCase, Moves, Keeps, queue
    <3> QED
      BY <1>0, <2>1, <2>2, <3>1 DEF ThrownAgrees
  <2> QED
    BY <2>3, <2>4
<1>2. CASE Setup
  <2>1. workers = << >> /\ workers' = workers
    BY <1>2 DEF Setup, SlotsAgree
  <2> QED
    BY <2>1, EmptySeq DEF ThrownAgrees
<1>3. CASE Launch \/ LaunchSimulation
  <2>1. PICK k : Joins(k)
    BY <1>3, LaunchJoins
  <2>2. UNCHANGED <<queue, mainPc>>
    BY <1>3, LaunchJoins
  <2> QED
    BY <1>0, <2>1, <2>2 DEF ThrownAgrees, Joins, queue
<1>4. CASE StartWaiting \/ Wait \/ GiveUp \/ DestroyFutures \/ Report \/ DeadlinePasses
           \/ Terminated \/ UNCHANGED vars \/ SignalAll
  <2>1. /\ UNCHANGED <<workers, items>> /\ (mainPc = "get" => UNCHANGED <<mainPc, outcome>>)
        /\ (mainPc \in {"unwind", "threw"} => mainPc' \in {"unwind", "threw"})
    BY <1>4 DEF StartWaiting, Wait, GiveUp, DestroyFutures, Report, DeadlinePasses, Terminated,
       SignalAll, vars, runVars, queue, rest, MainGoto, Q!WaitAndPop, Q!WaitAndPopUntil, Q!GiveUp,
       Q!DeadlinePasses
  <2> QED
    BY <1>0, <2>1 DEF ThrownAgrees
<1>5. CASE Receive
  <2>1. /\ items # << >> /\ items' = Tail(items) /\ outcome'[Main] = Head(items)
        /\ workers' = workers /\ mainPc = "wait" /\ mainPc' = "get"
    BY <1>5 DEF Receive, rest, MainGoto, Q!Deliver, QueueAgrees
  <2>2. \A j \in Range(items) : j \in Range(items') \/ j = outcome'[Main]
    BY <1>0, <2>1, TakenOrLeft
  <2> QED
    BY <1>0, <2>1, <2>2 DEF ThrownAgrees
<1>6. CASE Get
  <2>1. /\ UNCHANGED <<workers, items, outcome>>
        /\ mainPc' = IF workers[Finished].threw THEN "unwind" ELSE "handle"
        /\ mainPc = "get"
    BY <1>6 DEF Get, rest, queue, MainGoto
  <2> QED
    BY <1>0, <2>1 DEF ThrownAgrees
<1>7. CASE HandleNoInformation \/ HandleNotEquivalent \/ HandleEquivalent
           \/ HandleProbablyNotEquivalent \/ HandleSimulation
  <2>1. UNCHANGED <<items, outcome>> /\ mainPc = "handle"
        /\ (UNCHANGED workers \/ (Relaunch /\ FinishedKind = "simulation"))
    BY <1>7, HandlerSteps DEF queue
  <2>2. CASE UNCHANGED workers
    BY <1>0, <2>1, <2>2 DEF ThrownAgrees
  <2>3. CASE Relaunch /\ FinishedKind = "simulation"
    <3>1. Finished \in Ids
      BY <1>7, ResultAtHand, HandlerSteps
    <3>2. Moves(Finished, workers[Finished].pc, "build") /\ workers'[Finished].threw = FALSE
      BY <2>3, <3>1, RelaunchMoves
    <3> QED
      BY <1>0, <2>1, <3>1, <3>2 DEF ThrownAgrees, Moves
  <2> QED
    BY <2>1, <2>2, <2>3
<1> QED
  BY <1>1, <1>2, <1>3, <1>4, <1>5, <1>6, <1>7 DEF Next, MainStep

-----------------------------------------------------------------------------
(* Counting *)

\* Pending loses, keeps or gains one worker, and the difference of the counts with it.
LEMMA NextPending ==
    ASSUME IInv, [Next]_vars, mainPc' \notin {"threw", "unwind"}
    PROVE  started' - performed' = Cardinality(Pending')
<1> USE DEF IInv, Ids
<1>0. /\ TypeOK /\ workers \in Seq(WorkerRecords) /\ IsFiniteSet(Pending)
      /\ started \in Nat /\ performed \in Nat /\ Cardinality(Pending) \in Nat
  <2>1. config.maxSims \in Nat
    BY DEF TypeOK, Configurations
  <2>2. started \in Nat /\ performed \in Nat
    BY <2>1 DEF TypeOK
  <2> QED
    BY <2>2, WorkersFinite, FS_CardinalityType DEF TypeOK, WorkerRecords
<1>1. mainPc \notin {"threw", "unwind"} /\ started - performed = Cardinality(Pending)
  <2>1. mainPc \notin {"threw", "unwind"}
    <3>1. CASE \E i \in Ids : Proceed(i) \/ Complete(i)
      BY <3>1, WorkerSteps DEF BuildCase, DrawCase, CheckCase, CompleteCase, AbortCase, PushCase,
         LeaveCase, mainVars
    <3>2. CASE ~\E i \in Ids : Proceed(i) \/ Complete(i)
      BY <3>2 DEF Next, MainStep, Setup, Launch, LaunchSimulation, StartWaiting, Wait, Receive, GiveUp,
         Get, HandleNoInformation, HandleNotEquivalent, HandleEquivalent,
         HandleProbablyNotEquivalent, HandleSimulation, Handle, SignalAll, DestroyFutures, Report,
         DeadlinePasses, Terminated, vars, runVars, MainGoto
    <3> QED
      BY <3>1, <3>2
  <2> QED
    BY <2>1 DEF CountsAgree
<1>2. CASE \E i \in Ids : Proceed(i) \/ Complete(i)
  <2>1. PICK i \in Ids : Proceed(i) \/ Complete(i)
    BY <1>2
  <2>2. /\ UNCHANGED <<mainPc, started, performed, outcome>>
        /\ Moves(i, workers[i].pc, workers'[i].pc)
        /\ \/ items' = items /\ (workers'[i].pc \in Pushed <=> workers[i].pc \in Pushed)
           \/ items' = Append(items, i) /\ workers[i].pc = "push" /\ workers'[i].pc = "leave"
    BY <2>1, WorkerSteps DEF BuildCase, DrawCase, CheckCase, CompleteCase, AbortCase, PushCase,
       LeaveCase, Moves, mainVars, Pushed, queue
  <2>3. \A j \in Ids : /\ workers'[j].kind = workers[j].kind
                       /\ j # i => workers'[j] = workers[j]
    BY <2>2 DEF Moves
  <2>4. CASE items' = items /\ (workers'[i].pc \in Pushed <=> workers[i].pc \in Pushed)
    <3>1. Pending' = Pending
      BY <2>2, <2>3, <2>4 DEF Pending, Moves, Pushed, Finished
    <3> QED
      BY <1>1, <2>2, <3>1
  <2>5. CASE items' = Append(items, i) /\ workers[i].pc = "push" /\ workers'[i].pc = "leave"
    <3>1. items \in Seq(Nat) /\ i \in Nat
      BY LenProperties DEF TypeOK
    <3>2. Range(items') = Range(items) \cup {i}
      <4>1. /\ DOMAIN items = 1 .. Len(items) /\ DOMAIN items' = 1 .. Len(items) + 1
            /\ \A a \in 1 .. Len(items) : items'[a] = items[a]
            /\ items'[Len(items) + 1] = i /\ Len(items) \in Nat
        BY <2>5, <3>1, AppendProperties, LenProperties
      <4> QED
        BY <4>1 DEF Range
    <3>3. Pending' = Pending
      BY <2>2, <2>3, <2>5, <3>2 DEF Pending, Moves, Finished
    <3> QED
      BY <1>1, <2>2, <3>3
  <2> QED
    BY <2>2, <2>4, <2>5
<1>3. CASE Launch \/ LaunchSimulation
  <2>0. UNCHANGED <<mainPc, performed, outcome, items>> /\ mainPc = "launch"
    BY <1>3, LaunchJoins DEF queue
  <2> DEFINE n == Len(workers) + 1
  <2>1. CASE Launch
    <3>1. PICK k \in Kinds : Joins(k) /\ k # "simulation"
      BY <2>1, LaunchJoins
    <3>2. Pending' = Pending
      BY <2>0, <3>1 DEF Pending, Joins
    <3>3. started' = started
      BY <2>1 DEF Launch, mainVars
    <3> QED
      BY <1>1, <2>0, <3>2, <3>3
  <2>2. CASE LaunchSimulation
    <3>1. Joins("simulation")
      BY <2>2, LaunchJoins
    <3>2. Pending' = Pending \cup {n} /\ n \notin Pending
      BY <2>0, <3>1 DEF Pending, Joins
    <3>3. Cardinality(Pending') = Cardinality(Pending) + 1
      BY <1>0, <3>2, FS_AddElement
    <3>4. started' = started + 1
      BY <2>2 DEF LaunchSimulation
    <3> QED
      BY <1>0, <1>1, <2>0, <3>3, <3>4
  <2> QED
    BY <1>3, <2>1, <2>2
<1>4. CASE Receive
  <2>1. items # << >> /\ items' = Tail(items) /\ outcome' = [outcome EXCEPT ![Main] = Head(items)]
        /\ UNCHANGED <<workers, started, performed>> /\ mainPc = "wait" /\ mainPc' = "get"
    BY <1>4 DEF Receive, rest, results, MainGoto, Q!Deliver
  <2>2. outcome'[Main] = items[1]
    BY <2>1 DEF QueueAgrees
  <2>3. /\ DOMAIN items = 1 .. Len(items) /\ Len(items) \in Nat /\ DOMAIN items' = 1 .. Len(items) - 1
        /\ \A a \in 1 .. Len(items) - 1 : items'[a] = items[a + 1]
        /\ Len(items) >= 1
    BY <2>1, HeadTailProperties, LenProperties, EmptySeq DEF TypeOK
  <2>4. Range(items) = Range(items') \cup {items[1]}
    <3>1. Range(items') \cup {items[1]} \subseteq Range(items)
      BY <2>3 DEF Range
    <3>2. ASSUME NEW a \in 1 .. Len(items), a # 1
          PROVE  items[a] \in Range(items')
      <4>1. a - 1 \in 1 .. Len(items) - 1 /\ (a - 1) + 1 = a
        BY <2>3, <3>2
      <4> QED
        BY <2>3, <4>1 DEF Range
    <3> QED
      BY <2>3, <3>1, <3>2 DEF Range
  <2>5. Pending' = Pending
    BY <2>1, <2>2, <2>4 DEF Pending, Finished
  <2> QED
    BY <1>1, <2>1, <2>5
<1>5. CASE Setup \/ Wait \/ GiveUp \/ Get \/ StartWaiting \/ DestroyFutures \/ Report
           \/ DeadlinePasses \/ Terminated \/ UNCHANGED vars \/ SignalAll
  <2>1. /\ UNCHANGED <<workers, items, started, performed>>
        /\ mainPc' \in {"get", "handle"} <=> mainPc \in {"get", "handle"}
        /\ mainPc \in {"get", "handle"} => UNCHANGED outcome
    BY <1>5 DEF Setup, Wait, GiveUp, Get, StartWaiting, DestroyFutures, Report, DeadlinePasses,
       Terminated, vars, runVars, rest, MainGoto, SignalAll, queue, results, Q!WaitAndPop,
       Q!WaitAndPopUntil, Q!GiveUp, Q!DeadlinePasses
  <2>2. Pending' = Pending
    BY <2>1 DEF Pending, Finished
  <2> QED
    BY <1>1, <2>1, <2>2
<1>6. CASE HandleNoInformation \/ HandleNotEquivalent \/ HandleEquivalent
           \/ HandleProbablyNotEquivalent \/ HandleSimulation
  <2>1. /\ mainPc = "handle" /\ mainPc' \notin {"get", "handle"}
        /\ UNCHANGED <<items, outcome>>
        /\ UNCHANGED <<workers, started>> \/ (Relaunch /\ FinishedKind = "simulation")
    BY <1>6, HandlerSteps DEF queue
  <2>2. performed' = performed + (IF FinishedKind = "simulation" THEN 1 ELSE 0)
    BY <1>6, SimulationsCount
  <2>3. /\ Finished \in Ids /\ workers[Finished].pc = "finished" /\ Finished \notin Range(items)
    BY <2>1 DEF QueueAgrees, Range
  <2>4. CASE FinishedKind # "simulation"
    <3>1. Pending' = Pending
      BY <2>1, <2>3, <2>4 DEF Pending, FinishedKind
    <3> QED
      BY <1>0, <1>1, <2>1, <2>2, <2>4, <3>1
  <2>5. CASE FinishedKind = "simulation" /\ UNCHANGED <<workers, started>>
    <3>1. Pending' = Pending \ {Finished} /\ Finished \in Pending
      BY <2>1, <2>3, <2>5 DEF Pending, FinishedKind
    <3>2. Cardinality(Pending') = Cardinality(Pending) - 1
      BY <1>0, <3>1, FS_RemoveElement
    <3> QED
      BY <1>0, <1>1, <2>2, <2>5, <3>2
  <2>6. CASE FinishedKind = "simulation" /\ Relaunch
    <3>1. Moves(Finished, workers[Finished].pc, "build")
      BY <2>3, <2>6, RelaunchMoves
    <3>2. Pending' = Pending
      BY <2>1, <2>3, <2>6, <3>1 DEF Pending, FinishedKind, Moves
    <3>3. started' = started + 1
      BY <2>6 DEF Relaunch
    <3> QED
      BY <1>0, <1>1, <2>2, <2>6, <3>2, <3>3
  <2> QED
    BY <2>1, <2>4, <2>5, <2>6
<1> QED
  BY <1>2, <1>3, <1>4, <1>5, <1>6 DEF Next, MainStep

\* A simulation asks for one stimulus each time it is started.
LEMMA NextDrawn ==
    ASSUME IInv, [Next]_vars
    PROVE  drawn' + Cardinality(Drawing') <= started'
<1> USE DEF IInv, Ids
<1>0. /\ TypeOK /\ workers \in Seq(WorkerRecords) /\ IsFiniteSet(Drawing)
      /\ started \in Nat /\ drawn \in Nat /\ Cardinality(Drawing) \in Nat
      /\ drawn + Cardinality(Drawing) <= started
  <2>1. config.maxSims \in Nat
    BY DEF TypeOK, Configurations
  <2>2. started \in Nat /\ drawn \in Nat
    BY <2>1 DEF TypeOK
  <2> QED
    BY <2>2, WorkersFinite, FS_CardinalityType DEF TypeOK, WorkerRecords, CountsAgree
<1>1. CASE Launch
  <2>1. PICK k \in Kinds : Joins(k) /\ k # "simulation"
    BY <1>1, LaunchJoins
  <2>2. Drawing' = Drawing
    BY <2>1 DEF Drawing, Joins
  <2>3. UNCHANGED <<started, drawn>>
    BY <1>1 DEF Launch, mainVars
  <2> QED
    BY <1>0, <2>2, <2>3
<1>2. CASE LaunchSimulation
  <2> DEFINE n == Len(workers) + 1
  <2>1. Joins("simulation")
    BY <1>2, LaunchJoins
  <2>2. Drawing' = Drawing \cup {n} /\ n \notin Drawing
    BY <2>1 DEF Drawing, Joins
  <2>3. Cardinality(Drawing') = Cardinality(Drawing) + 1
    BY <1>0, <2>2, FS_AddElement
  <2>4. started' = started + 1 /\ drawn' = drawn
    BY <1>2 DEF LaunchSimulation
  <2> QED
    BY <1>0, <2>3, <2>4
<1>3. CASE \E i \in Ids : Proceed(i) \/ Complete(i)
  <2>1. PICK i \in Ids : Proceed(i) \/ Complete(i)
    BY <1>3
  <2>2. CASE DrawCase(i)
    <3>1. workers[i].kind = "simulation"
      BY <2>2 DEF DrawCase, Moves, SlotsAgree
    <3>2. Drawing' = Drawing \ {i} /\ i \in Drawing
      BY <2>2, <3>1 DEF DrawCase, Moves, Drawing
    <3>3. Cardinality(Drawing') = Cardinality(Drawing) - 1
      BY <1>0, <3>2, FS_RemoveElement
    <3>4. started' = started /\ drawn' = drawn + 1
      BY <2>2 DEF DrawCase, mainVars
    <3> QED
      BY <1>0, <3>3, <3>4
  <2>3. CASE ~DrawCase(i)
    <3>1. Drawing' \subseteq Drawing /\ UNCHANGED <<started, drawn>>
      BY <2>1, <2>3, WorkerSteps DEF BuildCase, CheckCase, CompleteCase, AbortCase, PushCase,
         LeaveCase, Moves, Drawing, mainVars
    <3>2. Cardinality(Drawing') \in Nat /\ Cardinality(Drawing') <= Cardinality(Drawing)
      BY <1>0, <3>1, FS_Subset, FS_CardinalityType
    <3> QED
      BY <1>0, <3>1, <3>2
  <2> QED
    BY <2>2, <2>3
<1>4. CASE Setup \/ Wait \/ Receive \/ GiveUp \/ Get \/ StartWaiting \/ DestroyFutures \/ Report
           \/ DeadlinePasses \/ Terminated \/ UNCHANGED vars \/ SignalAll
  <2>1. UNCHANGED <<workers, started, drawn>>
    BY <1>4, QueueSteps DEF Setup, SignalAll, results
  <2>2. Drawing' = Drawing
    BY <2>1 DEF Drawing
  <2> QED
    BY <1>0, <2>1, <2>2
<1>5. CASE HandleNoInformation \/ HandleNotEquivalent \/ HandleEquivalent
           \/ HandleProbablyNotEquivalent \/ HandleSimulation
  <2>1. /\ mainPc = "handle" /\ UNCHANGED drawn
        /\ UNCHANGED <<workers, started>> \/ (Relaunch /\ FinishedKind = "simulation")
    BY <1>5, HandlerSteps
  <2>2. Finished \in Ids /\ workers[Finished].pc = "finished"
    BY <2>1 DEF QueueAgrees
  <2>3. CASE UNCHANGED <<workers, started>>
    BY <1>0, <2>1, <2>3 DEF Drawing
  <2>4. CASE Relaunch /\ FinishedKind = "simulation"
    <3>1. Moves(Finished, workers[Finished].pc, "build")
      BY <2>2, <2>4, RelaunchMoves
    <3>2. Drawing' = Drawing \cup {Finished} /\ Finished \notin Drawing
      BY <2>2, <2>4, <3>1 DEF Drawing, FinishedKind, Moves
    <3>3. Cardinality(Drawing') = Cardinality(Drawing) + 1
      BY <1>0, <3>2, FS_AddElement
    <3>4. started' = started + 1
      BY <2>4 DEF Relaunch
    <3> QED
      BY <1>0, <2>1, <3>3, <3>4
  <2> QED
    BY <2>1, <2>3, <2>4
<1> QED
  BY <1>1, <1>2, <1>3, <1>4, <1>5 DEF Next, MainStep

\* Simulations are started only where the configuration asks for them.
LEMMA NextCountsAgree ==
    ASSUME IInv, [Next]_vars
    PROVE  CountsAgree'
<1> USE DEF IInv, Ids
<1>1. started' > 0 => config'.simulation
  <2>0. TypeOK /\ CountsAgree /\ started \in Nat
    <3>1. config.maxSims \in Nat
      BY DEF TypeOK, Configurations
    <3> QED
      BY <3>1 DEF TypeOK
  <2>1. CASE \E i \in Ids : Proceed(i) \/ Complete(i)
    <3>1. UNCHANGED mainVars
      BY <2>1, WorkerSteps DEF BuildCase, DrawCase, CheckCase, CompleteCase, AbortCase, PushCase, LeaveCase
    <3> QED
      BY <3>1 DEF mainVars, CountsAgree
  <2>2. CASE Setup
    BY <2>2, SetupFacts DEF CountsAgree, Setup, results
  <2>3. CASE Launch \/ LaunchSimulation \/ SignalAll
    BY <2>3 DEF Launch, LaunchSimulation, SignalAll, mainVars, CountsAgree, results
  <2>4. CASE Wait \/ Receive \/ GiveUp \/ Get \/ StartWaiting \/ DestroyFutures \/ Report
             \/ DeadlinePasses \/ Terminated \/ UNCHANGED vars
    BY <2>4, QueueSteps DEF CountsAgree, results
  <2>5. CASE HandleNoInformation \/ HandleNotEquivalent \/ HandleEquivalent
             \/ HandleProbablyNotEquivalent \/ HandleSimulation
    <3>1. /\ mainPc = "handle" /\ config' = config
          /\ started' = started \/ FinishedKind = "simulation"
      BY <2>5, HandlerSteps
    <3>2. FinishedKind = "simulation" => config["simulation"]
      BY <3>1 DEF QueueAgrees, SlotsAgree, FinishedKind
    <3> QED
      BY <3>1, <3>2 DEF CountsAgree
  <2> QED
    BY <2>1, <2>2, <2>3, <2>4, <2>5 DEF Next, MainStep
<1>2. mainPc' \notin {"threw", "unwind"} => started' - performed' = Cardinality(Pending')
  BY NextPending
<1> QED
  BY <1>1, <1>2, NextDrawn DEF CountsAgree

-----------------------------------------------------------------------------
(* The verdict *)

\* What a set of results says
Refuted(seen) == \E k \in Kinds : <<k, "NotEquivalent">> \in seen
Shown(seen) == \E k \in Kinds \ {"simulation"} : <<k, "Equivalent">> \in seen
Suspected(seen) == <<"zx", "ProbablyNotEquivalent">> \in seen
Simulated(seen) == <<"simulation", "Equivalent">> \in seen

\* What they amount to
LEMMA SummaryIs ==
    ASSUME NEW seen, NEW all
    PROVE  Summary(seen, all) =
             IF Refuted(seen) THEN "NotEquivalent"
             ELSE IF Shown(seen) THEN "Equivalent"
             ELSE IF Suspected(seen) /\ Simulated(seen) /\ all THEN "NoInformation"
             ELSE IF Suspected(seen) THEN "ProbablyNotEquivalent"
             ELSE IF Simulated(seen) THEN "ProbablyEquivalent"
             ELSE "NoInformation"
  BY DEF Summary, Refuted, Shown, Suspected, Simulated

\* The two reasons to stop, in terms of the results that have been handled
LEMMA DecidedIs == /\ Decided <=> Refuted(handled) \/ Shown(handled)
                   /\ Contradicted <=> /\ Suspected(handled) /\ Simulated(handled)
                                       /\ performed = config.maxSims
  BY DEF Decided, Contradicted, Refuted, Shown, Suspected, Simulated

\* What another result changes about what they say
LEMMA SeenOneMore ==
    ASSUME NEW seen, NEW k \in Kinds, NEW e \in Criteria, NEW more,
           more = seen \cup {<<k, e>>}
    PROVE  /\ Refuted(more) <=> Refuted(seen) \/ e = "NotEquivalent"
           /\ Shown(more) <=> Shown(seen) \/ (e = "Equivalent" /\ k # "simulation")
           /\ Suspected(more) <=> Suspected(seen) \/ (k = "zx" /\ e = "ProbablyNotEquivalent")
           /\ Simulated(more) <=> Simulated(seen) \/ (k = "simulation" /\ e = "Equivalent")
<1>1. \A j, d : <<j, d>> \in more <=> <<j, d>> \in seen \/ (j = k /\ d = e)
  OBVIOUS
<1> QED
  BY <1>1 DEF Refuted, Shown, Suspected, Simulated

\* Which checkers there are when there is but one kind of them
LEMMA OnlyOneKind ==
    ASSUME NEW c
    PROVE  /\ OnlyZXCheckerConfigured(c) =>
                ~c.alternating /\ ~c.construction /\ ~c.simulation
                /\ \A k \in Kinds : c[k] => k = "zx"
           /\ OnlySimulationCheckerConfigured(c) =>
                ~c.alternating /\ ~c.construction /\ ~c.zx
                /\ \A k \in Kinds : c[k] => k = "simulation"
<1>0. /\ c["alternating"] = c.alternating /\ c["construction"] = c.construction /\ c["zx"] = c.zx
      /\ c["simulation"] = c.simulation
  OBVIOUS
<1>1. \A k \in {"alternating", "construction", "zx"} : c[k] <=> k \in OtherCheckers(c)
  BY DEF OtherCheckers
<1> QED
  BY <1>0, <1>1 DEF OnlyZXCheckerConfigured, OnlySimulationCheckerConfigured, Kinds

\* Where the main thread is when it has been told of a result
LEMMA HandleVerdict ==
    ASSUME IInv,
           HandleNoInformation \/ HandleNotEquivalent \/ HandleEquivalent
           \/ HandleProbablyNotEquivalent \/ HandleSimulation
    PROVE  VerdictAgrees' /\ StopAgrees'
<1> USE DEF IInv
<1>1. /\ mainPc = "handle" /\ UNCHANGED <<circuits, config>>
      /\ handled' = handled \cup {<<FinishedKind, Result>>} /\ mainPc' \in {"pop", "signal"}
  BY HandlerSteps
<1>2. /\ FinishedKind \in Kinds /\ Result \in Criteria /\ Result \in Findings(FinishedKind, circuits)
      /\ config[FinishedKind]
  BY <1>1, ResultAtHand DEF SlotsAgree, FinishedKind
<1>3. /\ ~Refuted(handled) /\ ~Shown(handled) /\ ~cexFound
      /\ ~(Suspected(handled) /\ Simulated(handled) /\ performed = config.maxSims)
  BY <1>1, DecidedIs DEF VerdictAgrees, Early
<1>4. equivalence = IF Suspected(handled) THEN "ProbablyNotEquivalent"
                    ELSE IF Simulated(handled) THEN "ProbablyEquivalent" ELSE "NoInformation"
  BY <1>3, SummaryIs DEF VerdictAgrees
<1>5. /\ Refuted(handled') <=> Result = "NotEquivalent"
      /\ Shown(handled') <=> Result = "Equivalent" /\ FinishedKind # "simulation"
      /\ Suspected(handled') <=>
           Suspected(handled) \/ (FinishedKind = "zx" /\ Result = "ProbablyNotEquivalent")
      /\ Simulated(handled') <=>
           Simulated(handled) \/ (FinishedKind = "simulation" /\ Result = "Equivalent")
  BY <1>1, <1>2, <1>3, SeenOneMore
<1>6. OnlySimulationCheckerConfigured(config) =>
        ~Suspected(handled) /\ FinishedKind = "simulation"
  <2>1. Suspected(handled) => config["zx"]
    BY DEF ResultsAgree, Suspected, Kinds, Criteria
  <2> QED
    BY <1>2, <2>1, OnlyOneKind
<1>7. ~OnlyZXCheckerConfigured(config)
  BY DEF RequestAgrees
<1> DEFINE all == performed' = config.maxSims
           agreed == equivalence' = IF Refuted(handled') THEN "NotEquivalent"
                                    ELSE IF Shown(handled') THEN "Equivalent"
                                    ELSE IF Suspected(handled') /\ Simulated(handled') /\ all
                                    THEN "NoInformation"
                                    ELSE IF Suspected(handled') THEN "ProbablyNotEquivalent"
                                    ELSE IF Simulated(handled') THEN "ProbablyEquivalent"
                                    ELSE "NoInformation"
           decided == Refuted(handled') \/ Shown(handled')
           contradicted == Suspected(handled') /\ Simulated(handled') /\ all
           goal == /\ agreed
                   /\ cexFound' => equivalence' = "NotEquivalent"
                   /\ mainPc' = "pop" => ~cexFound' /\ ~decided /\ ~contradicted
                   /\ mainPc' = "signal" =>
                        \/ decided \/ contradicted
                        \/ OnlySimulationCheckerConfigured(config) /\ all
<1>8. goal
  <2> USE DEF Handle, Stop, Continue, MainGoto
  <2>1. CASE HandleNoInformation
    <3>1. FinishedKind = "zx"
      BY <1>2, <2>1 DEF HandleNoInformation, Findings, Kinds
    <3>2. UNCHANGED <<performed, cexFound>> /\ Result = "NoInformation"
      BY <2>1 DEF HandleNoInformation
    <3>3. mainPc' = "pop" /\ equivalence' = equivalence
      BY <1>7, <2>1, <3>1 DEF HandleNoInformation
    <3> QED
      BY <1>3, <1>4, <1>5, <3>1, <3>2, <3>3
  <2>2. CASE HandleNotEquivalent
    <3>1. Result = "NotEquivalent" /\ equivalence' = Result /\ mainPc' = "signal"
      BY <2>2 DEF HandleNotEquivalent
    <3> QED
      BY <1>5, <1>6, <3>1
  <2>3. CASE HandleEquivalent
    <3>1. /\ Result = "Equivalent" /\ equivalence' = Result /\ mainPc' = "signal"
          /\ FinishedKind # "simulation" /\ cexFound' = cexFound
      BY <2>3 DEF HandleEquivalent
    <3> QED
      BY <1>3, <1>5, <1>6, <3>1
  <2>4. CASE HandleProbablyNotEquivalent
    <3>1. /\ Result = "ProbablyNotEquivalent" /\ FinishedKind = "zx"
          /\ UNCHANGED <<performed, cexFound>>
      BY <2>4 DEF HandleProbablyNotEquivalent
    <3>2. \/ /\ equivalence = "ProbablyEquivalent" /\ all
             /\ mainPc' = "signal" /\ equivalence' = "NoInformation"
          \/ /\ ~(equivalence = "ProbablyEquivalent" /\ all)
             /\ mainPc' = "pop" /\ equivalence' = "ProbablyNotEquivalent"
      BY <1>7, <2>4 DEF HandleProbablyNotEquivalent, SimulationsFinished
    <3> HIDE DEF all
    <3>3. all <=> performed = config.maxSims
      BY <3>1 DEF all
    <3> QED
      BY <1>3, <1>4, <1>5, <1>6, <3>1, <3>2, <3>3
  <2>5. CASE HandleSimulation
    <3> DEFINE verdict == IF equivalence = "NoInformation" THEN "ProbablyEquivalent" ELSE equivalence
    <3>1. Result = "Equivalent" /\ FinishedKind = "simulation" /\ cexFound' = cexFound
      BY <2>5 DEF HandleSimulation
    <3>2. \/ /\ all /\ OnlySimulationCheckerConfigured(config)
             /\ mainPc' = "signal" /\ equivalence' = verdict
          \/ /\ all /\ ~OnlySimulationCheckerConfigured(config)
             /\ verdict = "ProbablyNotEquivalent" /\ mainPc' = "signal" /\ equivalence' = "NoInformation"
          \/ /\ all /\ verdict # "ProbablyNotEquivalent" /\ mainPc' = "pop" /\ equivalence' = verdict
          \/ ~all /\ mainPc' = "pop" /\ equivalence' = verdict
      BY <2>5 DEF HandleSimulation, SimulationsFinished
    <3>3. verdict = IF Suspected(handled) THEN "ProbablyNotEquivalent" ELSE "ProbablyEquivalent"
      BY <1>4
    <3> HIDE DEF all, verdict
    <3> QED
      BY <1>3, <1>5, <1>6, <3>1, <3>2, <3>3
  <2> QED
    BY <2>1, <2>2, <2>3, <2>4, <2>5
<1>9. /\ Decided' <=> decided
      /\ Contradicted' <=> contradicted
  BY <1>1 DEF Decided, Contradicted, Refuted, Shown, Suspected, Simulated
<1>10. equivalence' = Summary(handled', performed' = config'.maxSims)
  BY <1>1, <1>8, SummaryIs
<1> HIDE DEF decided, contradicted, agreed
<1>11. VerdictAgrees'
  BY <1>1, <1>8, <1>9, <1>10 DEF VerdictAgrees, Early
<1>12. StopAgrees'
  BY <1>1, <1>8, <1>9 DEF StopAgrees
<1> QED
  BY <1>11, <1>12

\* The verdict follows from the results handled, and the run goes on as long as they leave it open.
LEMMA NextVerdictAgrees ==
    ASSUME IInv, [Next]_vars
    PROVE  VerdictAgrees' /\ StopAgrees'
<1> USE DEF IInv
<1>1. CASE HandleNoInformation \/ HandleNotEquivalent \/ HandleEquivalent
           \/ HandleProbablyNotEquivalent \/ HandleSimulation
  BY <1>1, HandleVerdict
<1>2. CASE \E i \in Ids : Proceed(i) \/ Complete(i)
  <2>1. UNCHANGED mainVars /\ outcome' = outcome
    BY <1>2, WorkerSteps DEF BuildCase, DrawCase, CheckCase, CompleteCase, AbortCase, PushCase,
       LeaveCase, queue
  <2> QED
    BY <2>1 DEF mainVars, VerdictAgrees, StopAgrees, Decided, Contradicted
<1>3. CASE Setup
  <2>1. /\ UNCHANGED <<circuits, results, handled>> /\ mainPc = "setup" /\ mainPc' = "launch"
        /\ handled = {} /\ config'.maxSims = config.maxSims
    BY <1>3, SetupFacts DEF Setup, MainGoto, ResultsAgree
  <2>2. ~Decided' /\ ~Contradicted' /\ ~cexFound'
    BY <2>1 DEF Decided, Contradicted, VerdictAgrees, Early, results
  <2> QED
    BY <2>1, <2>2 DEF VerdictAgrees, StopAgrees, results
<1>4. CASE Launch \/ LaunchSimulation \/ SignalAll
  <2>1. /\ UNCHANGED <<circuits, config, equivalence, performed, cexFound, handled, outcome>>
        /\ mainPc' = mainPc \/ (mainPc = "signal" /\ mainPc' = "destroy")
    BY <1>4, LaunchJoins DEF SignalAll, results, MainGoto, queue
  <2>2. mainPc' \in Early => mainPc \in Early
    BY <2>1 DEF Early
  <2>3. (Decided' <=> Decided) /\ (Contradicted' <=> Contradicted)
    BY <2>1 DEF Decided, Contradicted
  <2> QED
    BY <2>1, <2>2, <2>3 DEF VerdictAgrees, StopAgrees
<1>5. CASE Wait \/ Receive \/ GiveUp \/ Get \/ StartWaiting \/ DestroyFutures \/ Report
           \/ DeadlinePasses \/ Terminated \/ UNCHANGED vars
  <2> DEFINE After == {"signal", "destroy", "report", "returned", "crashed"}
  <2>1. UNCHANGED <<circuits, config, equivalence, performed, cexFound, handled>>
    BY <1>5, QueueSteps DEF results
  <2>2. /\ mainPc' \in Early => mainPc \in Early
        /\ mainPc' \in After =>
             \/ mainPc \in After /\ outcome' = outcome
             \/ config.timed /\ outcome'[Main] = Null
    <3>1. CASE GiveUp
      <4>1. config.timed /\ outcome'[Main] = Null /\ mainPc' = "signal"
        BY <3>1 DEF GiveUp, Q!GiveUp, QueueAgrees, MainGoto
      <4> QED
        BY <4>1 DEF Early
    <3>2. CASE ~GiveUp
      BY <1>5, <3>2 DEF Wait, Receive, Get, StartWaiting, DestroyFutures, Report, DeadlinePasses,
         Terminated, vars, runVars, queue, rest, MainGoto, Q!WaitAndPop, Q!WaitAndPopUntil,
         Q!DeadlinePasses, Early
    <3> QED
      BY <3>1, <3>2
  <2>3. (Decided' <=> Decided) /\ (Contradicted' <=> Contradicted)
    BY <2>1 DEF Decided, Contradicted
  <2> QED
    BY <2>1, <2>2, <2>3 DEF VerdictAgrees, StopAgrees
<1> QED
  BY <1>1, <1>2, <1>3, <1>4, <1>5 DEF Next, MainStep

-----------------------------------------------------------------------------
(* The theorems *)

\* The constructor leaves a configuration that asks for no more simulations than there are stimuli.
LEMMA PreparedIsClamped ==
    ASSUME NEW c \in Configurations, NEW p \in Circuits
    PROVE  /\ Prepared(c, p) \in Configurations
           /\ Prepared(c, p).simulation => Prepared(c, p).maxSims <= p.stimuli
           /\ Prepared(c, p).nthreads = c.nthreads
<1> DEFINE falls == c.alternating /\ ~p.alternatable
           limit == IF c.simulation /\ c.maxSims > p.stimuli THEN p.stimuli ELSE c.maxSims
           q == [c EXCEPT !.alternating = c.alternating /\ ~falls,
                          !.construction = c.construction \/ falls,
                          !.maxSims = limit]
<1>1. Prepared(c, p) = q
  BY DEF Prepared, Configurations
<1>2. c.maxSims \in Nat /\ p.stimuli \in Nat
  BY DEF Configurations, Circuits
<1>3. limit \in Nat /\ (c.simulation => limit <= p.stimuli)
  BY <1>2
<1>4. (c.alternating /\ ~falls) \in BOOLEAN /\ (c.construction \/ falls) \in BOOLEAN
  OBVIOUS
<1>5. q \in Configurations
  BY <1>3, <1>4 DEF Configurations
<1>6. q.simulation = c.simulation /\ q.maxSims = limit /\ q.nthreads = c.nthreads
  BY DEF Configurations
<1> QED
  BY <1>1, <1>3, <1>5, <1>6

\* The inductive invariant holds initially,
LEMMA InitIInv == Init => IInv
<1> SUFFICES ASSUME Init PROVE IInv
  OBVIOUS
<1>1. PICK c \in Requests : config = Prepared(c, circuits)
  BY DEF Init
<1>2. circuits \in Circuits /\ c \in Configurations
  BY InputAssumption DEF Init
<1>3. /\ config \in Configurations /\ config.maxSims \in Nat /\ config.nthreads < WordModulus
      /\ config.simulation => config.maxSims <= circuits.stimuli
  BY <1>1, <1>2, PreparedIsClamped, WordAssumption DEF Configurations
<1>4. workers = << >> /\ checkers = << >> /\ items = << >> /\ handled = {} /\ mainPc = "setup"
      /\ Ids = {} /\ DOMAIN checkers = {} /\ DOMAIN items = {}
  BY DEF Init, Ids, Q!QueueInit
<1>5. TypeOK
  <2>1. checkers \in Seq(CheckerRecords \cup {Null}) /\ items \in Seq(Nat)
        /\ workers \in Seq([kind : Kinds, pc : WorkerLabels, threw : BOOLEAN, fresh : BOOLEAN])
    BY <1>4
  <2>2. handled \in SUBSET (Kinds \X Criteria)
    BY <1>4
  <2>3. started \in 0 .. config.maxSims /\ performed \in 0 .. started
    BY <1>3 DEF Init
  <2> QED
    BY <1>2, <1>3, <2>1, <2>2, <2>3 DEF Init, TypeOK, MainLabels, Criteria, Q!QueueInit
<1>6. RequestAgrees
  <2>1. ~OnlyZXCheckerConfigured(config)
    <3>1. OtherCheckers(config) = {"zx"} => Cardinality(OtherCheckers(config)) = 1
      BY FS_Singleton
    <3> QED
      BY <3>1 DEF Init, RunsInParallel, OnlySingleTask, OnlyZXCheckerConfigured
  <2> QED
    BY <1>3, <2>1 DEF Init, RequestAgrees, RunsInParallel, Configurations
<1>7. SlotsAgree /\ ResultsAgree /\ ThrownAgrees
  BY <1>4 DEF Init, SlotsAgree, ResultsAgree, ThrownAgrees
<1>8. QueueAgrees
  BY <1>4 DEF Init, QueueAgrees, Q!QueueInit
<1>9. CountsAgree
  <2>1. Pending = {} /\ Drawing = {}
    BY <1>4 DEF Pending, Drawing
  <2> QED
    BY <2>1, FS_EmptySet DEF Init, CountsAgree
<1>10. VerdictAgrees /\ StopAgrees
  <2>1. Summary(handled, performed = config.maxSims) = "NoInformation"
    BY <1>4 DEF Summary
  <2> QED
    BY <1>4, <2>1 DEF Init, VerdictAgrees, StopAgrees, Decided, Contradicted
<1> QED
  BY <1>5, <1>6, <1>7, <1>8, <1>9, <1>10 DEF IInv

\* and every step keeps it,
LEMMA NextIInv == IInv /\ [Next]_vars => IInv'
  BY NextTypeOK, NextRequestAgrees, NextSlotsAgree, NextQueueAgrees, NextResultsAgree,
     NextThrownAgrees, NextCountsAgree, NextVerdictAgrees DEF IInv

\* so that it holds throughout.
LEMMA AlwaysIInv == Spec => []IInv
  BY InitIInv, NextIInv, PTL DEF Spec

\* Every variable of checkParallel and of its workers keeps its type, and the counts of
\* simulations keep their order: no more are performed than started, no more started than asked for.
THEOREM TypeCorrect == Spec => []TypeOK
<1>1. IInv => TypeOK
  BY DEF IInv
<1> QED
  BY <1>1, AlwaysIInv, PTL

\* Whatever the order in which the threads deliver their results, the verdict is what all results
\* handled so far amount to (EquivalenceCheckingManager.cpp:685-797).
THEOREM OrderOfResultsIsIrrelevant == Spec => []VerdictIsOrderIndependent
<1>1. IInv => VerdictIsOrderIndependent
  BY DEF IInv, VerdictAgrees, VerdictIsOrderIndependent
<1> QED
  BY <1>1, AlwaysIInv, PTL

\* No simulation is lost on its way through slot, queue and handler, none is counted twice, and the
\* state generator is never asked for more stimuli than there are.
THEOREM SimulationsAreAccountedFor == Spec => []SimulationsAccounted
<1>1. IInv => SimulationsAccounted
  <2> SUFFICES ASSUME IInv PROVE SimulationsAccounted
    OBVIOUS
  <2>1. /\ circuits.stimuli \in Nat /\ config.maxSims \in Nat /\ drawn \in Nat
        /\ started \in 0 .. config.maxSims
    <3>1. circuits.stimuli \in Nat /\ config.maxSims \in Nat
      BY DEF IInv, TypeOK, Circuits, Configurations
    <3> QED
      BY <3>1 DEF IInv, TypeOK
  <2>2. Cardinality(Drawing) \in Nat
    BY WorkersFinite, FS_CardinalityType DEF IInv, TypeOK, WorkerRecords
  <2>3. drawn <= started
    BY <2>1, <2>2 DEF IInv, CountsAgree
  <2>4. started <= circuits.stimuli
    BY <2>1 DEF IInv, CountsAgree, RequestAgrees
  <2>5. mainPc \notin {"threw", "unwind"} => started - performed = Cardinality(Pending)
    BY DEF IInv, CountsAgree
  <2> QED
    BY <2>1, <2>3, <2>4, <2>5 DEF SimulationsAccounted, Pending
<1> QED
  BY <1>1, AlwaysIInv, PTL

\* Handled results come from configured checkers and tell what those find.
LEMMA HandledTells ==
    ASSUME IInv, NEW k \in Kinds, NEW e \in Criteria, <<k, e>> \in handled
    PROVE  /\ config[k] /\ e \in Findings(k, circuits)
           /\ AnythingToExecute(config)
<1>1. config[k] /\ e \in Findings(k, circuits) /\ (k = "simulation" => performed > 0)
  BY DEF IInv, ResultsAgree
<1>2. performed > 0 => config.maxSims > 0
  <2>1. config.maxSims \in Nat
    BY DEF IInv, TypeOK, Configurations
  <2> QED
    BY <2>1 DEF IInv, TypeOK
<1>3. /\ config["alternating"] = config.alternating /\ config["construction"] = config.construction
      /\ config["zx"] = config.zx /\ config["simulation"] = config.simulation
  OBVIOUS
<1> QED
  BY <1>1, <1>2, <1>3 DEF AnythingToExecute, Kinds

\* run() returns nothing that is not so, and a decision if a checker that decides has all the time
\* it needs, unless all simulations have contradicted the suspicion of the ZX checker.
THEOREM PromiseIsKept == Spec => []PromiseKept
<1>1. IInv => PromiseKept
  <2> SUFFICES ASSUME IInv, mainPc = "returned"
               PROVE  /\ equivalence \in Verdicts(config, circuits)
                      /\ \/ equivalence \in {"Equivalent", "NotEquivalent"} \/ config.timed
                         \/ ~(config.alternating \/ config.construction)
                         \/ Contradicted
    BY DEF PromiseKept, Contradicted
  <2>0. /\ config["alternating"] = config.alternating /\ config["construction"] = config.construction
        /\ config["zx"] = config.zx /\ config["simulation"] = config.simulation
    OBVIOUS
  <2>1. equivalence =
          IF Refuted(handled) THEN "NotEquivalent"
          ELSE IF Shown(handled) THEN "Equivalent"
          ELSE IF Suspected(handled) /\ Simulated(handled) /\ performed = config.maxSims
          THEN "NoInformation"
          ELSE IF Suspected(handled) THEN "ProbablyNotEquivalent"
          ELSE IF Simulated(handled) THEN "ProbablyEquivalent" ELSE "NoInformation"
    BY SummaryIs DEF IInv, VerdictAgrees
  <2>2. Refuted(handled) => ~circuits.equivalent /\ AnythingToExecute(config)
    <3> SUFFICES ASSUME NEW k \in Kinds, <<k, "NotEquivalent">> \in handled
                 PROVE  ~circuits.equivalent /\ AnythingToExecute(config)
      BY DEF Refuted
    <3>1. "NotEquivalent" \in Findings(k, circuits) /\ AnythingToExecute(config)
      BY HandledTells DEF Criteria
    <3> QED
      BY <3>1 DEF Findings, Kinds
  <2>3. Shown(handled) => circuits.equivalent /\ AnythingToExecute(config)
    <3> SUFFICES ASSUME NEW k \in Kinds \ {"simulation"}, <<k, "Equivalent">> \in handled
                 PROVE  circuits.equivalent /\ AnythingToExecute(config)
      BY DEF Shown
    <3>1. "Equivalent" \in Findings(k, circuits) /\ AnythingToExecute(config)
      BY HandledTells DEF Criteria
    <3> QED
      BY <3>1 DEF Findings, Kinds
  <2>4. Suspected(handled) => config.zx /\ AnythingToExecute(config)
    BY <2>0, HandledTells DEF Suspected, Kinds, Criteria
  <2>5. Simulated(handled) => config.simulation /\ AnythingToExecute(config)
    BY <2>0, HandledTells DEF Simulated, Kinds, Criteria
  <2>6. ~circuits.symbolic /\ ~circuits.empty /\ config.parallel /\ config.nthreads > 1
    BY DEF IInv, RequestAgrees, TypeOK, Configurations
  <2>7. config.alternating \/ config.construction =>
          \/ config.timed \/ Refuted(handled) \/ Shown(handled) \/ Contradicted
    BY DecidedIs, OnlyOneKind DEF IInv, StopAgrees
  <2>8. Contradicted => Suspected(handled) /\ Simulated(handled) /\ performed = config.maxSims
    BY DecidedIs
  <2>9. /\ config.alternating \/ config.construction
        /\ config.zx /\ config.simulation
        => ~OnlySingleTask(config)
    BY <2>0 DEF OnlySingleTask, OtherCheckers
  <2>10. equivalence \in Criteria
    BY DEF IInv, TypeOK
  <2>11. equivalence \in Verdicts(config, circuits)
    <3>1. \/ equivalence \in {"Equivalent", "NotEquivalent"}
          \/ config.timed \/ circuits.symbolic \/ ~(config.alternating \/ config.construction)
          \/ RunsInParallel(config, circuits) /\ config.zx /\ config.simulation
             /\ equivalence = "NoInformation"
      BY <2>1, <2>4, <2>5, <2>6, <2>7, <2>8, <2>9 DEF RunsInParallel
    <3>2. /\ equivalence = "Equivalent" => circuits.equivalent
          /\ equivalence = "NotEquivalent" => ~circuits.equivalent
          /\ equivalence = "ProbablyEquivalent" => config.simulation
          /\ equivalence = "ProbablyNotEquivalent" => config.zx
          /\ equivalence # "NoInformation" => AnythingToExecute(config)
      BY <2>1, <2>2, <2>3, <2>4, <2>5
    <3> QED
      BY <2>6, <2>10, <3>1, <3>2 DEF Verdicts
  <2> QED
    BY <2>1, <2>7, <2>11
<1> QED
  BY <1>1, AlwaysIInv, PTL

\* No exception is lost but for one of the reasons not to wait for its worker: a decision, the
\* suspicion of the ZX checker that all simulations call into question, or the time
\* (EquivalenceCheckingManager.cpp:679-681).
THEOREM ExceptionsSurface == Spec => []ExceptionSurfaces
<1>1. IInv => ExceptionSurfaces
  <2> SUFFICES ASSUME IInv, mainPc \in {"report", "returned", "crashed"},
                      NEW i \in Ids, workers[i].threw
               PROVE  \/ equivalence \in {"Equivalent", "NotEquivalent"}
                      \/ Contradicted \/ (config.timed /\ outcome[Main] = Null)
    BY DEF ExceptionSurfaces, Contradicted
  <2>1. CASE Decided
    BY <2>1, DecidedIs, SummaryIs DEF IInv, VerdictAgrees
  <2>2. CASE OnlySimulationCheckerConfigured(config) /\ performed = config.maxSims
    <3>1. i \in Pending
      <4>1. config[workers[i].kind] /\ workers[i].kind \in Kinds
        BY WorkerKind DEF IInv, SlotsAgree
      <4>2. workers[i].pc = "push" \/ i \in Range(items)
        BY DEF IInv, ThrownAgrees
      <4> QED
        BY <2>2, <4>1, <4>2, OnlyOneKind DEF Pending
    <3>2. IsFiniteSet(Pending)
      BY WorkersFinite DEF IInv, TypeOK, WorkerRecords
    <3>3. Cardinality(Pending) \in Nat /\ Cardinality(Pending) # 0
      BY <3>1, <3>2, FS_EmptySet, FS_CardinalityType
    <3>4. config.maxSims \in Nat /\ started \in 0 .. config.maxSims /\ performed = config.maxSims
      BY <2>2 DEF IInv, TypeOK, Configurations
    <3>5. started - performed = Cardinality(Pending)
      BY DEF IInv, CountsAgree
    <3> QED
      BY <3>3, <3>4, <3>5
  <2> QED
    BY <2>1, <2>2 DEF IInv, StopAgrees
<1> QED
  BY <1>1, AlwaysIInv, PTL

\* A slot is given to another worker only when the one before it has come to its end and its id
\* has been taken from the queue: no two threads build or run a checker in the same slot.
THEOREM SlotsAreHandedOver == Spec => SlotHandedOver
<1> DEFINE A == \A i \in Ids : workers'[i].pc = "build" /\ workers[i].pc # "build"
                                 => workers[i].pc = "finished" /\ i \notin Range(items)
<1>1. IInv /\ [Next]_vars => A
  <2> SUFFICES ASSUME IInv, [Next]_vars PROVE A
    OBVIOUS
  <2> USE DEF IInv
  <2>1. CASE \E i \in Ids : Proceed(i) \/ Complete(i)
    <3>1. PICK i \in Ids : Proceed(i) \/ Complete(i)
      BY <2>1
    <3>2. workers'[i].pc # "build" /\ \A j \in DOMAIN workers \ {i} : workers'[j] = workers[j]
      BY <3>1, WorkerSteps DEF BuildCase, DrawCase, CheckCase, CompleteCase, AbortCase, PushCase,
         LeaveCase, Moves
    <3> QED
      BY <3>2 DEF Ids
  <2>2. CASE Launch \/ LaunchSimulation
    BY <2>2, LaunchJoins DEF Joins, Ids
  <2>3. CASE Setup \/ Wait \/ Receive \/ GiveUp \/ Get \/ StartWaiting \/ DestroyFutures \/ Report
             \/ DeadlinePasses \/ Terminated \/ UNCHANGED vars \/ SignalAll
    BY <2>3, QueueSteps DEF Setup, SignalAll
  <2>4. CASE HandleNoInformation \/ HandleNotEquivalent \/ HandleEquivalent
             \/ HandleProbablyNotEquivalent \/ HandleSimulation
    <3>1. /\ mainPc = "handle"
          /\ UNCHANGED workers \/ (Relaunch /\ FinishedKind = "simulation")
      BY <2>4, HandlerSteps
    <3>2. Finished \in Ids /\ workers[Finished].pc = "finished" /\ Finished \notin Range(items)
      BY <3>1 DEF QueueAgrees, Range
    <3>3. CASE UNCHANGED workers
      BY <3>3
    <3>4. CASE Relaunch /\ FinishedKind = "simulation"
      BY <3>2, <3>4, RelaunchMoves DEF Moves, Ids
    <3> QED
      BY <3>1, <3>3, <3>4
  <2> QED
    BY <2>1, <2>2, <2>3, <2>4 DEF Next, MainStep
<1> QED
  BY <1>1, AlwaysIInv, PTL DEF Spec, SlotHandedOver

-----------------------------------------------------------------------------
(* Enough threads for the checkers that run once *)

\* A difference that was made to wrap around, and did not have to
LEMMA NoWrapAround ==
    ASSUME NEW a \in Nat, NEW b \in Nat, NEW m \in Nat, b <= a, a < m
    PROVE  (a + m - b) % m = a - b
<1>1. a - b \in Nat /\ a - b < m /\ a + m - b = (a - b) + m
  OBVIOUS
<1>2. \A d \in Nat : d < m => (d + m) % m = d
  OBVIOUS
<1> QED
  BY <1>1, <1>2

\* The slots suffice at first,
LEMMA InitSlotsSuffice == EnoughThreads /\ Init => SlotsSuffice
<1> SUFFICES ASSUME EnoughThreads, Init PROVE SlotsSuffice
  OBVIOUS
<1>1. PICK c \in Requests : config = Prepared(c, circuits)
  BY DEF Init
<1>2. circuits \in CircuitPairs /\ circuits \in Circuits /\ c \in Configurations
  BY InputAssumption DEF Init
<1>3. Len(Singles(config)) <= config.nthreads
  BY <1>1, <1>2, PreparedIsClamped DEF EnoughThreads
<1>4. Len(Singles(config)) \in Nat
  BY <1>1, <1>2, PreparedIsClamped, SinglesAreConfigured
<1>5. workers = << >> /\ Len(workers) = 0 /\ Ids = {} /\ mainPc = "setup" /\ started = 0
  BY DEF Init, Ids
<1> QED
  BY <1>3, <1>4, <1>5 DEF SlotsSuffice

\* and no step makes them too few.
LEMMA NextSlotsSuffice ==
    ASSUME IInv, SlotsSuffice, [Next]_vars
    PROVE  SlotsSuffice'
<1> USE DEF IInv
<1>0. /\ config \in Configurations /\ Len(Singles(config)) \in Nat /\ Len(workers) \in Nat
      /\ Len(checkers) \in Nat /\ config.nthreads \in Nat /\ config.maxSims \in Nat
      /\ Ids = 1 .. Len(workers) /\ DOMAIN checkers = 1 .. Len(checkers)
  <2>1. config \in Configurations
    BY DEF TypeOK
  <2> QED
    BY <2>1, SinglesAreConfigured, LenProperties DEF TypeOK, Configurations, Ids
<1>00. started \in Nat
  BY <1>0 DEF TypeOK
<1>1. CASE Setup
  <2>1. /\ mainPc = "setup" /\ mainPc' = "launch" /\ workers = << >> /\ Len(workers) = 0
        /\ UNCHANGED <<workers, started>> /\ started = 0
    <3>1. /\ mainPc = "setup" /\ mainPc' = "launch" /\ workers = << >> /\ Len(workers) = 0
          /\ UNCHANGED <<workers, started>>
      BY <1>1 DEF Setup, MainGoto, results, SlotsAgree
    <3>2. started = 0
      BY <1>0, <1>00, <3>1 DEF SlotsSuffice
    <3> QED
      BY <3>1, <3>2
  <2> DEFINE n == Len(Singles(config))
             m == Len(Singles(config'))
             t == Tasks(config')
  <2>2. m \in Nat /\ m <= n
    <3>1. config'.alternating = config.alternating /\ config'.construction = config.construction
          /\ config'.zx = (config.zx /\ circuits.transformable) /\ config' \in Configurations
      BY <1>1, SetupFacts
    <3> DEFINE a == IF config.alternating THEN <<"alternating">> ELSE << >>
               b == IF config.construction THEN <<"construction">> ELSE << >>
               z == IF config.zx THEN <<"zx">> ELSE << >>
               y == IF config'.zx THEN <<"zx">> ELSE << >>
    <3>2. /\ a \in Seq(Kinds) /\ b \in Seq(Kinds) /\ z \in Seq(Kinds) /\ y \in Seq(Kinds)
          /\ Len(y) \in Nat /\ Len(z) \in Nat /\ Len(y) <= Len(z)
      <4>1. /\ "alternating" \in Kinds /\ "construction" \in Kinds /\ "zx" \in Kinds
            /\ config'.zx => config.zx
        BY <3>1 DEF Kinds
      <4>2. a \in Seq(Kinds) /\ b \in Seq(Kinds) /\ z \in Seq(Kinds) /\ y \in Seq(Kinds)
        BY <4>1
      <4>3. Len(y) \in Nat /\ Len(z) \in Nat /\ Len(y) <= Len(z)
        BY <4>1
      <4> QED
        BY <4>2, <4>3
    <3>3. Singles(config) = a \o b \o z /\ Singles(config') = a \o b \o y
      BY <3>1 DEF Singles
    <3> HIDE DEF a, b, z, y
    <3>4. a \o b \in Seq(Kinds) /\ Len(a \o b) \in Nat
      BY <3>2, ConcatProperties, LenProperties
    <3>5. n = Len(a \o b) + Len(z) /\ m = Len(a \o b) + Len(y)
      BY <3>2, <3>3, <3>4, ConcatProperties
    <3> QED
      BY <3>2, <3>4, <3>5
  <2>3. t \in Nat /\ m <= t
    <3>1. config'.maxSims \in Nat
      BY <1>0, <1>1, SetupFacts
    <3> QED
      BY <2>2, <3>1 DEF Tasks
  <2>4. Len(checkers') = Min({config'.nthreads, t}) /\ config'.nthreads = config.nthreads
    BY <1>1, SetupFacts
  <2>5. n \in Nat /\ n <= config.nthreads
    BY <1>0, <2>1 DEF SlotsSuffice
  <2> HIDE DEF n, m, t
  <2>6. Len(checkers') = IF config.nthreads <= t THEN config.nthreads ELSE t
    BY <1>0, <2>3, <2>4, MinOfTwo
  <2>7. m <= Len(checkers') /\ Len(checkers') <= config'.nthreads
    <3> DEFINE l == Len(checkers')
               h == config.nthreads
    <3>1. h \in Nat /\ l = (IF h <= t THEN h ELSE t) /\ config'.nthreads = h /\ n <= h
      BY <1>0, <2>4, <2>5, <2>6
    <3> HIDE DEF l, h
    <3>2. m <= l /\ l <= h
      BY <2>2, <2>3, <2>5, <3>1
    <3> QED
      BY <3>1, <3>2 DEF l
  <2>8. Len(workers') = 0 /\ DOMAIN workers' = {}
    BY <2>1
  <2> QED
    BY <2>1, <2>2, <2>3, <2>6, <2>7, <2>8, <1>0 DEF SlotsSuffice, m, Ids
<1>2. CASE Launch
  <2>1. /\ \E k : Joins(k) /\ mainPc = "launch" /\ UNCHANGED <<mainPc, checkers, config>>
        /\ Len(workers) < Len(Singles(config)) /\ UNCHANGED started
    BY <1>2, LaunchJoins DEF Launch, mainVars
  <2>2. /\ Len(workers') = Len(workers) + 1
        /\ \A i \in DOMAIN workers' : workers'[i].pc # "outOfBounds"
    BY <2>1 DEF Joins, SlotsSuffice, Ids
  <2> QED
    BY <1>0, <2>1, <2>2 DEF SlotsSuffice, Ids
<1>3. CASE LaunchSimulation
  <2>1. /\ \E k : Joins(k) /\ mainPc = "launch" /\ UNCHANGED <<mainPc, checkers, config>>
        /\ Len(workers) >= Len(Singles(config)) /\ started' = started + 1
        /\ started < SimulationsToStart
    BY <1>3, LaunchJoins DEF LaunchSimulation
  <2>2. /\ Len(workers') = Len(workers) + 1
        /\ \A i \in DOMAIN workers' : workers'[i].pc # "outOfBounds"
    BY <2>1 DEF Joins, SlotsSuffice, Ids
  <2>3. SimulationsToStart <= Len(checkers) - Len(Singles(config))
    <3>1. Len(Singles(config)) <= Len(checkers) /\ Len(checkers) < WordModulus /\ WordModulus \in Nat
      BY <1>0, <2>1, WordAssumption DEF SlotsSuffice, RequestAgrees
    <3>2. (Len(checkers) + WordModulus - Len(Singles(config))) % WordModulus
            = Len(checkers) - Len(Singles(config))
      BY <1>0, <3>1, NoWrapAround
    <3> DEFINE d == Len(checkers) - Len(Singles(config))
    <3>3. d \in Nat
      BY <1>0, <3>1
    <3>4. SimulationsToStart = Min({d, config.maxSims})
      BY <3>2 DEF SimulationsToStart
    <3> HIDE DEF d
    <3>5. SimulationsToStart <= d
      BY <1>0, <3>3, <3>4, MinOfTwo
    <3> QED
      BY <3>5 DEF d
  <2>4. Len(workers) = Len(Singles(config)) + started
    BY <1>0, <2>1 DEF SlotsSuffice
  <2>5. SimulationsToStart \in Nat
    BY StartFacts
  <2> QED
    BY <1>0, <1>00, <2>1, <2>2, <2>3, <2>4, <2>5 DEF SlotsSuffice, Ids
<1>4. CASE \E i \in Ids : Proceed(i) \/ Complete(i)
  <2>1. PICK i \in Ids : Proceed(i) \/ Complete(i)
    BY <1>4
  <2>2. /\ UNCHANGED <<mainPc, config, started>> /\ Len(workers') = Len(workers)
        /\ DOMAIN workers' = DOMAIN workers
        /\ \A j \in DOMAIN workers \ {i} : workers'[j] = workers[j]
        /\ Len(checkers') = Len(checkers)
    <3>1. UNCHANGED mainVars /\ Moves(i, workers[i].pc, workers'[i].pc)
      BY <2>1, WorkerSteps DEF BuildCase, DrawCase, CheckCase, CompleteCase, AbortCase, PushCase,
         LeaveCase, Moves
    <3>2. UNCHANGED checkers \/ \E e, b : Holds(i, e, b)
      BY <2>1, WorkerSteps DEF BuildCase, DrawCase, CheckCase, CompleteCase, AbortCase, PushCase,
         LeaveCase
    <3> QED
      BY <3>1, <3>2 DEF Moves, mainVars, Holds
  <2>3. mainPc # "setup"
    BY <2>1, EmptySeq DEF SlotsAgree, Ids
  <2>4. i \in DOMAIN checkers
    BY <1>0, <2>1, <2>3 DEF SlotsSuffice
  <2>5. workers'[i].pc # "outOfBounds"
    BY <2>1, <2>4, WorkerSteps DEF BuildCase, DrawCase, CheckCase, CompleteCase, AbortCase, PushCase,
       LeaveCase, Moves
  <2> QED
    BY <1>0, <2>2, <2>3, <2>5 DEF SlotsSuffice, Ids
<1>5. CASE Wait \/ Receive \/ GiveUp \/ Get \/ StartWaiting \/ DestroyFutures \/ Report
           \/ DeadlinePasses \/ Terminated \/ UNCHANGED vars
  <2>1. UNCHANGED <<config, started, workers, checkers>>
    BY <1>5, QueueSteps DEF results
  <2>2. (mainPc' = "setup" <=> mainPc = "setup") /\ (mainPc' = "launch" => mainPc = "launch")
    BY <1>5 DEF Wait, Receive, GiveUp, Get, StartWaiting, DestroyFutures, Report, DeadlinePasses,
       Terminated, vars, runVars, rest, MainGoto
  <2> QED
    BY <2>1, <2>2 DEF SlotsSuffice, Ids
<1>6. CASE HandleNoInformation \/ HandleNotEquivalent \/ HandleEquivalent
           \/ HandleProbablyNotEquivalent \/ HandleSimulation
  <2>1. /\ mainPc = "handle" /\ UNCHANGED <<config, checkers>> /\ mainPc' \in {"pop", "signal"}
        /\ UNCHANGED workers \/ (Relaunch /\ FinishedKind = "simulation")
    BY <1>6, HandlerSteps
  <2>2. CASE UNCHANGED workers
    BY <2>1, <2>2 DEF SlotsSuffice, Ids
  <2>3. CASE Relaunch /\ FinishedKind = "simulation"
    <3>1. Finished \in Ids
      BY <2>1 DEF QueueAgrees
    <3>2. Moves(Finished, workers[Finished].pc, "build")
      BY <2>3, <3>1, RelaunchMoves
    <3> QED
      BY <2>1, <3>1, <3>2 DEF SlotsSuffice, Moves, Ids
  <2> QED
    BY <2>1, <2>2, <2>3
<1>7. CASE SignalAll
  <2>1. UNCHANGED <<config, workers, started>> /\ mainPc = "signal" /\ mainPc' = "destroy"
        /\ Len(checkers') = Len(checkers)
    BY <1>7, SignalAllKeeps DEF SignalAll, results, MainGoto
  <2> QED
    BY <2>1 DEF SlotsSuffice, Ids
<1> QED
  BY <1>1, <1>2, <1>3, <1>4, <1>5, <1>6, <1>7 DEF Next, MainStep

\* If there are as many threads as checkers that run once, then no more workers than that are at
\* work at any time, and every one of them has a slot.  (If there are fewer threads, neither is so:
\* the code starts them all the same, EquivalenceCheckingManager.cpp:645-661.)
THEOREM ThreadsStayWithinLimit ==
    ASSUME EnoughThreads
    PROVE  Spec => [](ThreadsWithinLimit /\ EveryWorkerHasSlot)
<1>1. Init => IInv /\ SlotsSuffice
  BY InitIInv, InitSlotsSuffice
<1>2. IInv /\ SlotsSuffice /\ [Next]_vars => (IInv /\ SlotsSuffice)'
  BY NextIInv, NextSlotsSuffice
<1>3. IInv /\ SlotsSuffice => ThreadsWithinLimit /\ EveryWorkerHasSlot
  <2> SUFFICES ASSUME IInv, SlotsSuffice PROVE ThreadsWithinLimit /\ EveryWorkerHasSlot
    OBVIOUS
  <2> DEFINE busy == {i \in Ids : workers[i].pc # "finished"}
  <2>1. /\ Len(workers) \in Nat /\ Len(checkers) \in Nat /\ config.nthreads \in Nat
        /\ Ids = 1 .. Len(workers)
    BY LenProperties DEF IInv, TypeOK, Configurations, Ids
  <2>2. IsFiniteSet(Ids) /\ Cardinality(Ids) = Len(workers)
    <3> DEFINE n == Len(workers)
    <3>1. n \in Nat /\ Ids = 1 .. n
      BY <2>1
    <3> HIDE DEF n
    <3>2. IsFiniteSet(1 .. n) /\ Cardinality(1 .. n) = IF 1 > n THEN 0 ELSE n - 1 + 1
      BY <3>1, FS_Interval
    <3>3. (IF 1 > n THEN 0 ELSE n - 1 + 1) = n
      BY <3>1
    <3> QED
      BY <3>1, <3>2, <3>3 DEF n
  <2>3. Cardinality(busy) \in Nat /\ Cardinality(busy) <= Len(workers)
    <3>1. busy \subseteq Ids
      OBVIOUS
    <3> QED
      BY <2>2, <3>1, FS_Subset, FS_CardinalityType
  <2>4. Len(workers) <= config.nthreads
    <3>1. CASE mainPc = "setup"
      BY <2>1, <3>1, EmptySeq DEF IInv, SlotsAgree
    <3>2. CASE mainPc # "setup"
      BY <2>1, <3>2 DEF SlotsSuffice
    <3> QED
      BY <3>1, <3>2
  <2> QED
    BY <2>1, <2>3, <2>4 DEF ThreadsWithinLimit, EveryWorkerHasSlot, SlotsSuffice
<1> QED
  BY <1>1, <1>2, <1>3, PTL DEF Spec
================================================================================
