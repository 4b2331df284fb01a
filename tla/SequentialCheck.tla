---------------------------- MODULE SequentialCheck ----------------------------
(***************************************************************************)
(* EquivalenceCheckingManager::checkSequential and checkSymbolic, with the *)
(* thread that they start when there is a timeout.                         *)
(*                                                                         *)
(* The main thread builds and runs one checker after the other.  The timer *)
(* waits, under doneMutex, until it is notified or the deadline passes,    *)
(* and in the second case sets `done` and signals every checker.  The main *)
(* thread neither holds doneMutex when it sets `done` and notifies, nor    *)
(* when it adds a checker to the vector that the timer goes through.       *)
(*                                                                         *)
(* `done` is a plain bool: it is modelled as the set of threads that see   *)
(* it set.  A thread sees what it has set itself; with relaxed memory the  *)
(* other thread may never see it.                                          *)
(***************************************************************************)
EXTENDS Configuration, SequencesExt

CONSTANTS
    Requests,     \* the configurations asked for: a set of records
    CircuitPairs  \* the pairs of circuits to compare: a set of records

ASSUME InputAssumption == Requests \subseteq Configurations /\ CircuitPairs \subseteq Circuits

VARIABLES
    circuits,     \* what there is to find out
    config,       \* the configuration in use
    memory,       \* how the program treats data races
    stage,        \* which check the main thread is at
    mainPc,       \* and what it is about to do there
    done,         \* the threads that see done = true
    equivalence,  \* results.equivalence
    generated,    \* the basis states that stateGenerator has handed out
    started,      \* results.startedSimulations
    performed,    \* results.performedSimulations
    cexFound,     \* results.cexInput and the outputs are set
    checkers,     \* the checkers built: their kind, their result, their done flag
    timerPc,      \* where the timer is
    late,         \* wait_for has timed out
    next, last,   \* the part of the vector that the timer has yet to go through
    moved,        \* the vector has grown since the timer began to go through it
    expired,      \* the deadline has passed
    handled,      \* history: the results that the main thread has looked at
    completed     \* history: the value of performed when run() was called, and since then
                  \* the number of simulations that came to their end

input == <<circuits, config, memory>>
resultVars == <<equivalence, generated, started, performed, cexFound, handled>>
timerVars == <<timerPc, late, next, last>>
vars == <<input, stage, mainPc, done, resultVars, checkers, timerVars,
          moved, expired, completed>>

Threads == {"main", "timer"}

Stages == {"simulation", "alternating", "construction", "zx", "symbolic", "none"}

Kind == IF stage = "symbolic" THEN "zx" ELSE stage

Init ==
    /\ circuits \in CircuitPairs
    /\ config \in {Prepared(c, circuits) : c \in Requests}
    /\ memory \in Memories
    /\ ~RunsInParallel(config, circuits)
    /\ stage = "none" /\ mainPc = "start"
    /\ done = {}
    /\ equivalence = "NoInformation"
    /\ generated = 0 /\ started = 0 /\ performed = 0 /\ completed = 0
    /\ cexFound = FALSE
    /\ checkers = << >>
    /\ timerPc = "idle"
    /\ late = FALSE
    /\ next = 1 /\ last = 0
    /\ moved = FALSE
    /\ expired = FALSE
    /\ handled = {}

-----------------------------------------------------------------------------
(* The flag and the condition variable *)

SetBy(thread) == done' = IF memory = "sequential" THEN Threads ELSE done \cup {thread}

\* What one thread has written becomes visible to the other.
BecomeVisible ==
    /\ done # {}
    /\ done' = Threads
    /\ UNCHANGED <<input, stage, mainPc, resultVars, checkers, timerVars,
                   moved, expired, completed>>

Done == "main" \in done

\* doneCond.notify_one(): it reaches a timer that waits, and no other
NotifyTimer ==
    /\ timerPc' = IF timerPc = "blocked" THEN "test" ELSE timerPc
    /\ UNCHANGED <<late, next, last>>

\* done = true; doneCond.notify_one();
Finish == SetBy("main") /\ NotifyTimer

KeepGoing == UNCHANGED <<done, timerVars>>

-----------------------------------------------------------------------------
(* The main thread *)

Goto(s, label) == stage' = s /\ mainPc' = label

\* The check that comes after this one
Following == CASE stage = "simulation" -> "alternating"
               [] stage = "alternating" -> "construction"
               [] stage = "construction" -> "zx"
               [] OTHER -> "none"

GotoFollowing == Goto(Following, IF Following = "none" THEN "join" ELSE "begin")

\* The function is left, though the timer may still have to be joined: the
\* destructor of a joinable std::thread terminates the program.
Leave(label) == Goto("none", IF config.timed THEN "terminated" ELSE label)

\* `done` is left as the run before has set it (a mistake).
EnterRunDone ==
    /\ equivalence' = "NoInformation"
    /\ handled' = {}
    /\ UNCHANGED <<done, generated, started, performed, cexFound>>

\* The first assignments of run(): the counters and the counterexample stay as they are.
EnterRun ==
    /\ done' = {}
    /\ equivalence' = "NoInformation"
    /\ handled' = {}
    /\ UNCHANGED <<generated, started, performed, cexFound>>

\* run() returns at once if nothing is to be executed, or if there is no operation left in
\* the circuits: they are taken to be equivalent.
ReturnAtOnce ==
    /\ mainPc = "start"
    /\ \/ /\ ~AnythingToExecute(config)
          /\ done' = {}
          /\ equivalence' = "NoInformation"
       \/ /\ AnythingToExecute(config) /\ circuits.empty
          /\ done' = IF memory = "sequential" THEN Threads ELSE {"main"}
          /\ equivalence' = "Equivalent"
    /\ handled' = {}
    /\ completed' = performed
    /\ Goto("none", "returned")
    /\ UNCHANGED <<input, generated, started, performed, cexFound, checkers, timerVars,
                   moved, expired>>

\* run() is called, and starts the thread of the timer if there is a timeout.
StartTimer ==
    /\ mainPc = "start" /\ AnythingToExecute(config) /\ ~circuits.empty
    /\ EnterRun
    /\ timerPc' = IF config.timed THEN "test" ELSE "idle"
    /\ late' = FALSE /\ next' = 1 /\ last' = 0
    /\ moved' = FALSE /\ expired' = FALSE
    /\ Goto(IF circuits.symbolic THEN "symbolic" ELSE "simulation", "begin")
    /\ completed' = performed
    /\ UNCHANGED <<input, checkers>>

\* Neither the simulations nor, in the symbolic flow, the ZX check depend on the
\* flag that the others look at.
Wanted ==
    CASE stage = "simulation" -> config.simulation
      [] stage = "symbolic" -> ~Done
      [] OTHER -> config[Kind] /\ ~Done

Usable == Kind = "zx" => circuits.transformable

Begin ==
    /\ mainPc = "begin" /\ Wanted /\ Usable
    /\ Goto(stage, "create")
    /\ UNCHANGED <<input, done, resultVars, checkers, timerVars, moved, expired, completed>>

\* checkers.emplace_back(std::make_unique<...>(...))
Create ==
    /\ mainPc = "create"
    /\ checkers' = Append(checkers, [kind |-> Kind, equivalence |-> "NoInformation",
                                     signalled |-> FALSE])
    /\ moved' = (moved \/ timerPc = "signal")
    /\ Goto(stage, IF stage = "simulation" THEN "loop" ELSE "check")
    /\ UNCHANGED <<input, done, resultVars, timerVars, expired, completed>>

CreateThrows ==
    /\ mainPc = "create"
    /\ Kind \in circuits.unbuildable
    /\ Leave("threw")
    /\ UNCHANGED <<input, done, resultVars, checkers, timerVars, moved, expired, completed>>

Skip ==
    /\ mainPc = "begin" /\ ~Wanted
    /\ GotoFollowing
    /\ UNCHANGED <<input, done, resultVars, checkers, timerVars, moved, expired, completed>>

\* The circuits cannot be turned into ZX-diagrams.
SkipZX ==
    /\ mainPc = "begin" /\ Wanted /\ ~Usable
    /\ IF stage = "symbolic" THEN Leave("returned") ELSE GotoFollowing
    /\ equivalence' = IF stage = "symbolic" \/ OnlyZXCheckerConfigured(config)
                      THEN "NoInformation" ELSE equivalence
    /\ checkers' = IF stage = "symbolic" \/ OnlyZXCheckerConfigured(config)
                   THEN << >> ELSE checkers
    /\ UNCHANGED <<input, done, generated, started, performed, cexFound, handled,
                   timerVars, moved, expired, completed>>

SimulationsFinished == performed = config.maxSims

\* performedSimulations <= maxSims (a mistake)
LoopSimulationOneMore ==
    /\ mainPc = "loop"
    /\ performed <= config.maxSims /\ ~Done
    /\ generated' = generated + 1
    /\ started' = started + 1
    /\ Goto(stage, "run")
    /\ UNCHANGED <<input, done, equivalence, performed, cexFound, handled, checkers,
                   timerVars, moved, expired, completed>>

\* while (!simulationsFinished()), whether done or not (a mistake)
LoopSimulationIgnoringDone ==
    /\ mainPc = "loop"
    /\ performed # config.maxSims
    /\ generated' = generated + 1
    /\ started' = started + 1
    /\ Goto(stage, "run")
    /\ UNCHANGED <<input, done, equivalence, performed, cexFound, handled, checkers,
                   timerVars, moved, expired, completed>>

\* while (!simulationsFinished() && !done), and setRandomInitialState
LoopSimulation ==
    /\ mainPc = "loop"
    /\ ~SimulationsFinished /\ ~Done
    /\ generated' = generated + 1
    /\ started' = started + 1
    /\ Goto(stage, "run")
    /\ UNCHANGED <<input, done, equivalence, performed, cexFound, handled, checkers,
                   timerVars, moved, expired, completed>>

LeaveLoop ==
    /\ mainPc = "loop"
    /\ SimulationsFinished \/ Done
    /\ Goto(stage, "conclude")
    /\ UNCHANGED <<input, done, resultVars, checkers, timerVars, moved, expired, completed>>

\* if (!done), once the checker is built
CheckDone ==
    /\ mainPc = "check"
    /\ IF Done THEN GotoFollowing ELSE Goto(stage, "run")
    /\ UNCHANGED <<input, done, resultVars, checkers, timerVars, moved, expired, completed>>

Current == Len(checkers)
Result == checkers[Current].equivalence

\* The alternating checker refuses circuits that it cannot handle.
Refuses == Kind = "alternating" /\ ~circuits.alternatable

\* run() comes to its end,
Complete ==
    /\ mainPc = "run" /\ ~Refuses
    /\ \E found \in Findings(Kind, circuits) :
         checkers' = [checkers EXCEPT ![Current].equivalence = found]
    /\ completed' = completed + (IF Kind = "simulation" THEN 1 ELSE 0)
    /\ Goto(stage, "result")
    /\ UNCHANGED <<input, done, resultVars, timerVars, moved, expired>>

\* or throws,
RunThrows ==
    /\ mainPc = "run"
    /\ Refuses \/ Kind \in circuits.unrunnable
    /\ Leave("threw")
    /\ UNCHANGED <<input, done, resultVars, checkers, timerVars, moved, expired, completed>>

\* or is cut short, as the checker has been signalled.  A decision diagram checker
\* keeps the result it had, a ZX checker reports that it has none.
Abort ==
    /\ mainPc = "run" /\ checkers[Current].signalled
    /\ checkers' = [checkers EXCEPT ![Current].equivalence =
                      IF Kind = "zx" THEN "NoInformation" ELSE @]
    /\ Goto(stage, "result")
    /\ UNCHANGED <<input, done, resultVars, timerVars, moved, expired, completed>>

Conclude(kinds) ==
    /\ mainPc = "result"
    /\ stage \in kinds
    /\ handled' = handled \cup {<<Kind, Result>>}
    /\ UNCHANGED <<input, generated, started, checkers, moved, expired, completed>>

HandleSimulation ==
    /\ Conclude({"simulation"})
    /\ performed' = performed + 1
    /\ \/ /\ Result = "NoInformation"
          /\ Leave("returned")
          /\ UNCHANGED equivalence
       \/ /\ Result = "NotEquivalent"
          /\ equivalence' = "NotEquivalent"
          /\ Goto(stage, "conclude")
       \/ /\ Result = "Equivalent"
          /\ equivalence' = "ProbablyEquivalent"
          /\ Goto(stage, "loop")
    /\ UNCHANGED cexFound
    /\ KeepGoing

\* After the loop
ConcludeSimulations ==
    /\ mainPc = "conclude"
    /\ cexFound' = (cexFound \/ equivalence = "NotEquivalent")
    /\ IF \/ equivalence = "NotEquivalent"
          \/ OnlySimulationCheckerConfigured(config) /\ SimulationsFinished
       THEN Finish ELSE KeepGoing
    /\ GotoFollowing
    /\ UNCHANGED <<input, equivalence, generated, started, performed, handled, checkers,
                   moved, expired, completed>>

HandleDecision ==
    /\ Conclude({"alternating", "construction"})
    /\ IF Result = "NoInformation" THEN KeepGoing /\ UNCHANGED equivalence
       ELSE Finish /\ equivalence' = Result
    /\ GotoFollowing
    /\ UNCHANGED <<performed, cexFound>>

\* A suspicion that overrides whatever the simulations have shown (a mistake)
HandleZXAlways ==
    /\ Conclude({"zx"})
    /\ equivalence' = IF Result = "NoInformation" THEN equivalence ELSE Result
    /\ Finish
    /\ GotoFollowing
    /\ UNCHANGED <<performed, cexFound>>

HandleZX ==
    /\ Conclude({"zx"})
    /\ equivalence' =
         CASE Result = "Equivalent" -> Result
           [] Result = "ProbablyNotEquivalent" ->
                IF equivalence = "ProbablyEquivalent" THEN "NoInformation" ELSE Result
           [] OTHER -> equivalence
    /\ Finish
    /\ GotoFollowing
    /\ UNCHANGED <<performed, cexFound>>

HandleSymbolic ==
    /\ Conclude({"symbolic"})
    /\ equivalence' = Result
    /\ Finish
    /\ GotoFollowing
    /\ UNCHANGED <<performed, cexFound>>

\* if (timeoutThread.joinable()) timeoutThread.join();
Join ==
    /\ mainPc = "join"
    /\ timerPc \in {"idle", "finished", "signalled"}
    /\ Goto("none", "returned")
    /\ UNCHANGED <<input, done, resultVars, checkers, timerVars, moved, expired, completed>>

-----------------------------------------------------------------------------
(* The timer *)

timerRest == <<input, stage, mainPc, resultVars, moved, expired, completed>>

\* A wait without a timeout (a mistake)
TestIgnoringTimeout ==
    /\ timerPc = "test"
    /\ timerPc' = IF "timer" \in done THEN "finished" ELSE "block"
    /\ UNCHANGED <<timerRest, done, checkers, late, next, last>>

\* The predicate of doneCond.wait_for.  The timer does not wait again once it is late.
Test ==
    /\ timerPc = "test"
    /\ timerPc' = IF "timer" \in done THEN "finished"
                  ELSE IF late THEN "set" ELSE "block"
    /\ UNCHANGED <<timerRest, done, checkers, late, next, last>>

Block ==
    /\ timerPc = "block"
    /\ timerPc' = "blocked"
    /\ UNCHANGED <<timerRest, done, checkers, late, next, last>>

\* Once the deadline has passed, wait_until returns for that reason only.
SpuriousWake ==
    /\ timerPc = "blocked" /\ ~expired
    /\ timerPc' = "test"
    /\ UNCHANGED <<timerRest, done, checkers, late, next, last>>

TimeOut ==
    /\ timerPc = "blocked" /\ expired
    /\ timerPc' = "test"
    /\ late' = TRUE
    /\ UNCHANGED <<timerRest, done, checkers, next, last>>

\* The flag is not set, only the checkers are signalled (a mistake).
SignalOnly ==
    /\ timerPc = "set"
    /\ timerPc' = "range"
    /\ UNCHANGED <<timerRest, done, checkers, late, next, last>>

\* setAndSignalDone: the flag,
SetDone ==
    /\ timerPc = "set"
    /\ SetBy("timer")
    /\ timerPc' = "range"
    /\ UNCHANGED <<timerRest, checkers, late, next, last>>

\* An end that leaves the last checker out (a mistake)
EvaluateRangeShort ==
    /\ timerPc = "range"
    /\ timerPc' = "signal"
    /\ last' = IF checkers = << >> THEN 0 ELSE Len(checkers) - 1
    /\ next' = 1
    /\ UNCHANGED <<timerRest, done, checkers, late>>

\* then the beginning and the end of the vector, as far as the timer sees it,
EvaluateRange ==
    /\ timerPc = "range"
    /\ timerPc' = "signal"
    /\ last' \in IF memory = "sequential" THEN {Len(checkers)} ELSE 0 .. Len(checkers)
    /\ next' = 1
    /\ UNCHANGED <<timerRest, done, checkers, late>>

\* then one checker after the other.  If the vector has been reallocated meanwhile,
\* the timer finds the empty pointers left behind, or nothing that makes sense.
Signal ==
    /\ timerPc = "signal" /\ next <= last
    /\ next' = next + 1
    /\ \/ /\ ~moved
          /\ checkers' = IF next \in DOMAIN checkers
                         THEN [checkers EXCEPT ![next].signalled = TRUE] ELSE checkers
          /\ UNCHANGED timerPc
       \/ /\ moved
          /\ UNCHANGED <<checkers, timerPc>>
       \/ /\ moved
          /\ timerPc' = "crashed"
          /\ UNCHANGED checkers
    /\ UNCHANGED <<timerRest, done, late, last>>

EndSignal ==
    /\ timerPc = "signal" /\ next > last
    /\ timerPc' = "signalled"
    /\ UNCHANGED <<timerRest, done, checkers, late, next, last>>

DeadlinePasses ==
    /\ config.timed /\ mainPc # "start" /\ ~expired
    /\ expired' = TRUE
    /\ UNCHANGED <<input, stage, mainPc, done, resultVars, checkers, timerVars, moved,
                   completed>>

-----------------------------------------------------------------------------

Over == mainPc \in {"returned", "threw", "terminated"} \/ timerPc = "crashed"

Terminated == Over /\ UNCHANGED vars

\* All steps of the main thread but those that may take any time
Proceed ==
    /\ ~Over
    /\ \/ ReturnAtOnce \/ StartTimer \/ Begin \/ Create \/ CreateThrows \/ Skip \/ SkipZX \/ LoopSimulation
       \/ LeaveLoop \/ CheckDone \/ Abort \/ HandleSimulation \/ ConcludeSimulations
       \/ HandleDecision \/ HandleZX \/ HandleSymbolic \/ Join

RunToEnd == ~Over /\ (Complete \/ RunThrows)

TimerStep ==
    /\ ~Over
    /\ Test \/ Block \/ TimeOut \/ SetDone \/ EvaluateRange \/ Signal \/ EndSignal

Environment == ~Over /\ (SpuriousWake \/ BecomeVisible)

TimePasses == ~Over /\ DeadlinePasses

Next == Proceed \/ RunToEnd \/ TimerStep \/ Environment \/ TimePasses \/ Terminated

Spec == Init /\ [][Next]_vars

\* Both threads run on and time passes; a checker that is not signalled may take
\* forever.
FairSpec ==
    Spec /\ WF_vars(Proceed) /\ WF_vars(TimerStep) /\ WF_vars(TimePasses)

\* Every checker comes to its end: the diagrams that it builds are finite.
CheckersEnd == WF_vars(RunToEnd)

-----------------------------------------------------------------------------
(* Properties *)

CheckerRecords == [kind : Kinds, equivalence : Criteria, signalled : BOOLEAN]

\* The type of every variable.  No more simulations are performed than are started,
\* and no more are started than maxSims.
TypeOK ==
    /\ circuits \in Circuits
    /\ config \in Configurations
    /\ memory \in Memories
    /\ stage \in Stages
    /\ mainPc \in {"start", "begin", "create", "loop", "check", "run", "result", "conclude",
                   "join", "returned", "threw", "terminated"}
    /\ done \in SUBSET Threads
    /\ equivalence \in Criteria
    /\ generated \in Nat
    /\ started \in 0 .. config.maxSims
    /\ performed \in 0 .. started
    /\ completed \in 0 .. started
    /\ cexFound \in BOOLEAN
    /\ checkers \in Seq(CheckerRecords)
    /\ timerPc \in {"idle", "test", "block", "blocked", "set", "range", "signal",
                    "finished", "signalled", "crashed"}
    /\ late \in BOOLEAN
    /\ next \in Nat \ {0} /\ last \in Nat
    /\ moved \in BOOLEAN
    /\ expired \in BOOLEAN
    /\ handled \in SUBSET (Kinds \X Criteria)

\* The sequential flow draws from the results of its checkers the conclusion that the
\* parallel flow draws from them (see ParallelCheck!VerdictIsOrderIndependent), also
\* when it is interrupted and when the manager has run before, unless the circuits are
\* empty; it reports a
\* counterexample if a simulation found one, and none for circuits that are equivalent.
\* There is nothing to be said after the ZX check "only [...] if the ZX checker is the only
\* checker" (EquivalenceCheckingManager.cpp:549), or if all simulations, none perhaps, had
\* been performed before the run began.
VerdictFollowsResults ==
    /\ circuits.empty \/ equivalence = Summary(handled, performed = config.maxSims)
    /\ mainPc = "returned" /\ <<"simulation", "NotEquivalent">> \in handled => cexFound
    /\ cexFound => ~circuits.equivalent
    /\ memory = "sequential" /\ mainPc = "result" /\ stage = "zx"
       /\ {Result, equivalence} = {"NoInformation"} =>
         /\ OtherCheckers(config) = {"zx"}
         /\ config.simulation => handled = {} /\ SimulationsFinished

\* The generator is never asked for more basis states than there are, nor by a manager
\* that runs several times: generateRandomComputationalBasisState would not end.
StimuliSuffice == generated <= circuits.stimuli

\* What the flow promises to its callers (see Configuration!Verdicts): the truth if a
\* checker that decides has the time, also in a run of a manager that has run before, and
\* otherwise nothing that is not so.
PromiseKept == mainPc = "returned" => equivalence \in Verdicts(config, circuits)

\* "Signal all checker that they shall abort the computation as soon as possible"
\* (EquivalenceCheckingManager.hpp:208): were it not for the data races, then once the
\* timer is through no checker runs that it has not signalled, not even one that was
\* built meanwhile.
EveryCheckerSignalled ==
    memory = "sequential" /\ timerPc = "signalled" /\ mainPc = "run" =>
        checkers[Current].signalled

\* "Number of simulations that have been finished" (pyqcec.pyi:83): performedSimulations
\* counts those, and at most one that the timeout has cut short.
PerformedAreFinished ==
    memory = "sequential" /\ mainPc \notin {"run", "result"} =>
        /\ performed \in {completed, completed + 1}
        /\ performed # completed => timerPc \in {"signal", "signalled", "crashed"}

\* run() comes to an end if the checkers do.
RunEnds == CheckersEnd => (mainPc = "start" ~> Over)

\* "Set a timeout for run() (in seconds)" (pyqcec.pyi:135): were it not for the data
\* races, a run with a timeout would end though no checker ever should.
TimeoutEndsRun == memory = "sequential" /\ config.timed /\ mainPc = "start" ~> Over

\* "appropriately join the timeout thread, if it was launched"
\* (EquivalenceCheckingManager.cpp:573): no thread is destroyed before it is joined.
TimerJoined == mainPc # "terminated"
================================================================================
