----------------------------- MODULE ParallelCheck -----------------------------
(***************************************************************************)
(* EquivalenceCheckingManager::checkParallel with the threads it starts    *)
(* (asyncRunChecker), the signal that stops them (setAndSignalDone) and    *)
(* what run() does after it.                                               *)
(*                                                                         *)
(* The main thread starts one worker per checker and then takes the ids of *)
(* finished checkers from a queue, for which it uses the actions of        *)
(* ResultQueue.  A worker builds its checker in the slot of `checkers` it  *)
(* was given, runs it and pushes its id.  Ids start at 1, in the code at 0.*)
(*                                                                         *)
(* `done` is a plain bool, and the slots are plain pointers, that the main *)
(* thread and the workers access without a lock.  With relaxed memory such *)
(* an access may see the old value, with sequential memory it never does.  *)
(***************************************************************************)
EXTENDS Configuration, SequencesExt

CONSTANTS
    Requests,     \* the configurations asked for: a set of records
    CircuitPairs, \* the pairs of circuits to compare: a set of records
    WordModulus,  \* std::size_t counts modulo this
    Main,         \* the thread that calls run()
    Null          \* an empty slot, and the null pointer of the queue

ASSUME InputAssumption == Requests \subseteq Configurations /\ CircuitPairs \subseteq Circuits

ASSUME WordAssumption ==
    /\ WordModulus \in Nat
    /\ \A c \in Requests : c.maxSims < WordModulus /\ c.nthreads < WordModulus

\* What a slot holds once its checker is built
CheckerRecords == [equivalence : Criteria, signalled : BOOLEAN]

ASSUME NullAssumption == Null \notin CheckerRecords \cup Nat

VARIABLES
    circuits,     \* what there is to find out
    config,       \* the configuration in use
    memory,       \* how the program treats data races
    mainPc,       \* where the main thread is
    done,
    equivalence,  \* results.equivalence
    started,      \* results.startedSimulations
    performed,    \* results.performedSimulations
    cexFound,     \* results.cexInput and the outputs are set
    checkers,     \* the slots: Null, or a checker's result and its own done flag
    workers,      \* the futures: the kind and the state of every worker
    drawn,        \* how many stimuli the state generator has handed out
    handled,      \* history: the results that the main thread has looked at
    items, request, outcome, expired   \* the queue

runVars == <<circuits, config, memory, mainPc, done, equivalence, started, performed,
             cexFound, checkers, workers, drawn, handled>>
queue == <<items, request, outcome, expired>>
vars == <<runVars, queue>>

Q == INSTANCE ResultQueue WITH
    Consumers <- {Main}, Values <- Nat, NoResult <- Null

Ids == DOMAIN workers

\* What the main thread has of its own: all that a worker leaves alone
mainVars == <<circuits, config, memory, mainPc, done, equivalence, started, performed,
              cexFound, handled>>
results == <<equivalence, started, performed, cexFound>>

Init ==
    /\ circuits \in CircuitPairs
    /\ config \in {Prepared(c, circuits) : c \in Requests}
    /\ memory \in Memories
    /\ AnythingToExecute(config) /\ ~circuits.empty
    /\ RunsInParallel(config, circuits)
    /\ mainPc = "setup"
    /\ done = FALSE
    /\ equivalence = "NoInformation"
    /\ started = 0
    /\ performed = 0
    /\ cexFound = FALSE
    /\ checkers = << >>
    /\ workers = << >>
    /\ drawn = 0
    /\ handled = {}
    /\ Q!QueueInit

-----------------------------------------------------------------------------
(* A worker: asyncRunChecker *)

Goto(i, label) == workers' = [workers EXCEPT ![i].pc = label]

\* `checkers[id]`, and the checker's constructor if the slot is empty
Build(i) ==
    /\ workers[i].pc = "build"
    /\ LET next == IF workers[i].kind = "simulation" THEN "draw" ELSE "check"
       IN \/ /\ i \notin DOMAIN checkers
             /\ Goto(i, "outOfBounds")
             /\ UNCHANGED checkers
          \/ /\ i \in DOMAIN checkers /\ checkers[i] # Null
             /\ Goto(i, next)
             /\ UNCHANGED checkers
          \/ /\ i \in DOMAIN checkers /\ checkers[i] = Null
             /\ checkers' = [checkers EXCEPT ![i] =
                               [equivalence |-> "NoInformation", signalled |-> FALSE]]
             /\ Goto(i, next)
          \/ /\ i \in DOMAIN checkers /\ checkers[i] = Null
             /\ workers[i].kind \in circuits.unbuildable
             /\ workers' = [workers EXCEPT ![i].pc = "push", ![i].threw = TRUE]
             /\ UNCHANGED checkers
    /\ UNCHANGED <<mainVars, drawn, queue>>

\* setRandomInitialState, under stateGeneratorMutex
Draw(i) ==
    /\ workers[i].pc = "draw"
    /\ drawn' = drawn + 1
    /\ Goto(i, "check")
    /\ UNCHANGED <<mainVars, checkers, queue>>

\* if (!done), where a stale `done` may be seen
CheckDone(i) ==
    /\ workers[i].pc = "check"
    /\ \/ (done => memory = "relaxed") /\ Goto(i, "run")
       \/ done /\ Goto(i, "push")
    /\ UNCHANGED <<mainVars, checkers, drawn, queue>>

\* The checker's run() comes to its end, with a result or an exception.  Each worker
\* may throw by itself, whatever becomes of others of its kind,
Complete(i) ==
    /\ workers[i].pc = "run"
    /\ \/ /\ \E found \in Findings(workers[i].kind, circuits) :
               checkers' = [checkers EXCEPT ![i].equivalence = found]
          /\ Goto(i, "push")
       \/ /\ workers[i].kind \in circuits.unrunnable
          /\ workers' = [workers EXCEPT ![i].pc = "push", ![i].threw = TRUE]
          /\ UNCHANGED checkers
    /\ UNCHANGED <<mainVars, drawn, queue>>

\* or it is cut short, as the checker has been signalled.  A decision diagram
\* checker keeps the result it had, a ZX checker reports that it has none.
Abort(i) ==
    /\ workers[i].pc = "run"
    /\ checkers[i].signalled
    /\ checkers' = [checkers EXCEPT ![i].equivalence =
                      IF workers[i].kind = "zx" THEN "NoInformation" ELSE @]
    /\ Goto(i, "push")
    /\ UNCHANGED <<mainVars, drawn, queue>>

\* queue.push(id), whether or not an exception is on its way out
Push(i) ==
    /\ workers[i].pc = "push"
    /\ Q!Push(i)
    /\ Goto(i, "leave")
    /\ UNCHANGED <<mainVars, checkers, drawn>>

\* The future becomes ready.
Leave(i) ==
    /\ workers[i].pc = "leave"
    /\ Goto(i, "finished")
    /\ UNCHANGED <<mainVars, checkers, drawn, queue>>

\* All steps of a worker but those that may take any time
Proceed(i) ==
    Build(i) \/ Draw(i) \/ CheckDone(i) \/ Abort(i) \/ Push(i) \/ Leave(i)

-----------------------------------------------------------------------------
(* The main thread: starting the workers *)

MainGoto(label) == mainPc' = label

\* The checkers that run once, in the order in which they are started
Singles(c) ==
    (IF c.alternating THEN <<"alternating">> ELSE << >>)
        \o (IF c.construction THEN <<"construction">> ELSE << >>)
        \o (IF c.zx THEN <<"zx">> ELSE << >>)

Tasks(c) == Len(Singles(c)) + (IF c.simulation THEN c.maxSims ELSE 0)

\* The ZX checker is switched off for good when it cannot be used, and the slots
\* are created, one for each thread that is to run.
Setup ==
    /\ mainPc = "setup"
    /\ config' = [config EXCEPT !.zx = @ /\ circuits.transformable]
    /\ checkers' = [i \in 1 .. Min({config.nthreads, Tasks(config')}) |-> Null]
    /\ MainGoto("launch")
    /\ UNCHANGED <<circuits, memory, done, results, workers, drawn, handled, queue>>

\* `fresh`: the worker finds its slot empty, unless it takes over from another
NewWorker(kind, fresh) ==
    [kind |-> kind, pc |-> "build", threw |-> FALSE, fresh |-> fresh]

\* Every simulation at once, however many threads are left (a mistake)
AllSimulationsAtOnce == config.maxSims

\* effectiveThreads - futures.size() wraps around
SimulationsToStart ==
    Min({(Len(checkers) + WordModulus - Len(Singles(config))) % WordModulus,
         config.maxSims})

Launch ==
    /\ mainPc = "launch"
    /\ Len(workers) < Len(Singles(config))
    /\ workers' = Append(workers, NewWorker(Singles(config)[Len(workers) + 1], TRUE))
    /\ UNCHANGED <<mainVars, checkers, drawn, queue>>

LaunchSimulation ==
    /\ mainPc = "launch"
    /\ Len(workers) >= Len(Singles(config))
    /\ config.simulation
    /\ started < SimulationsToStart
    /\ workers' = Append(workers, NewWorker("simulation", TRUE))
    /\ started' = started + 1
    /\ UNCHANGED <<circuits, config, memory, mainPc, done, equivalence, performed, cexFound,
                   checkers, drawn, handled, queue>>

StartWaiting ==
    /\ mainPc = "launch"
    /\ Len(workers) >= Len(Singles(config))
    /\ config.simulation => started >= SimulationsToStart
    /\ MainGoto("pop")
    /\ UNCHANGED <<circuits, config, memory, done, results, checkers, workers, drawn, handled, queue>>

-----------------------------------------------------------------------------
(* The main thread: waiting for results *)

\* Everything but where the main thread is and the queue
rest == <<circuits, config, memory, done, results, checkers, workers, drawn, handled>>

Wait ==
    /\ mainPc = "pop"
    /\ IF config.timed THEN Q!WaitAndPopUntil(Main) ELSE Q!WaitAndPop(Main)
    /\ MainGoto("wait")
    /\ UNCHANGED rest

Receive ==
    /\ mainPc = "wait"
    /\ Q!Deliver(Main)
    /\ MainGoto("get")
    /\ UNCHANGED rest

GiveUp ==
    /\ mainPc = "wait"
    /\ Q!GiveUp(Main)
    /\ done' = TRUE
    /\ MainGoto("signal")
    /\ UNCHANGED <<circuits, config, memory, results, checkers, workers, drawn, handled>>

\* get() left out (a mistake)
GetForgotten ==
    /\ mainPc = "get"
    /\ MainGoto(IF workers[outcome[Main]].threw THEN "unwind" ELSE "handle")
    /\ UNCHANGED <<rest, queue>>

\* wait() where get() is called for (a mistake)
GetWithoutThrowing ==
    /\ mainPc = "get"
    /\ workers[outcome[Main]].pc = "finished"
    /\ MainGoto(IF checkers[outcome[Main]] = Null THEN "crashed" ELSE "handle")
    /\ UNCHANGED <<rest, queue>>

\* futures.at(id).get(): wait for the worker, and throw what it has thrown
Get ==
    /\ mainPc = "get"
    /\ LET w == workers[outcome[Main]]
       IN /\ w.pc = "finished"
          /\ MainGoto(IF w.threw THEN "unwind" ELSE "handle")
    /\ UNCHANGED <<rest, queue>>

-----------------------------------------------------------------------------
(* The main thread: handling the result of the checker that has finished *)

Finished == outcome[Main]
FinishedKind == workers[Finished].kind
Result == checkers[Finished].equivalence

SimulationsFinished == performed' = config.maxSims

\* What a handler does: the verdict so far, and whether the run goes on
Handle(kinds, found) ==
    /\ mainPc = "handle"
    /\ FinishedKind \in kinds
    /\ Result \in found
    /\ handled' = handled \cup {<<FinishedKind, Result>>}

Continue == MainGoto("pop") /\ UNCHANGED done

\* The checkers are told to stop, but those still to be built are not (a mistake)
StopWithoutDone == MainGoto("signal") /\ UNCHANGED done

\* The first half of setAndSignalDone, see SignalAll
Stop == MainGoto("signal") /\ done' = TRUE

handlerRest == <<circuits, config, memory, checkers, drawn, queue>>

HandleNoInformation ==
    /\ Handle(Kinds, {"NoInformation"})
    /\ IF FinishedKind = "zx" /\ ~OnlyZXCheckerConfigured(config)
       THEN Continue /\ UNCHANGED equivalence
       ELSE Stop /\ equivalence' = Result
    /\ UNCHANGED <<started, performed, cexFound, workers, handlerRest>>

HandleNotEquivalent ==
    /\ Handle(Kinds, {"NotEquivalent"})
    /\ Stop
    /\ equivalence' = Result
    /\ performed' = performed + (IF FinishedKind = "simulation" THEN 1 ELSE 0)
    /\ cexFound' = (cexFound \/ FinishedKind = "simulation")
    /\ UNCHANGED <<started, workers, handlerRest>>

\* A proof of equivalence that does not end the run (a mistake)
HandleEquivalentContinuing ==
    /\ Handle(Kinds \ {"simulation"}, {"Equivalent"})
    /\ Continue
    /\ equivalence' = Result
    /\ UNCHANGED <<started, performed, cexFound, workers, handlerRest>>

\* An equivalence that the alternating, construction or ZX checker has shown
HandleEquivalent ==
    /\ Handle(Kinds \ {"simulation"}, {"Equivalent"})
    /\ Stop
    /\ equivalence' = Result
    /\ UNCHANGED <<started, performed, cexFound, workers, handlerRest>>

\* A suspicion that overrides whatever the simulations have shown (a mistake)
HandleProbablyNotEquivalentAlways ==
    /\ Handle({"zx"}, {"ProbablyNotEquivalent"})
    /\ equivalence' = Result
    /\ IF OnlyZXCheckerConfigured(config) THEN Stop ELSE Continue
    /\ UNCHANGED <<started, performed, cexFound, workers, handlerRest>>

\* The suspicion of the ZX checker, which it voices once
HandleProbablyNotEquivalent ==
    /\ Handle({"zx"}, {"ProbablyNotEquivalent"})
    /\ UNCHANGED performed
    /\ IF equivalence = "ProbablyEquivalent" /\ SimulationsFinished
       THEN Stop /\ equivalence' = "NoInformation"
       ELSE /\ equivalence' = Result
            /\ IF OnlyZXCheckerConfigured(config) THEN Stop ELSE Continue
    /\ UNCHANGED <<started, cexFound, workers, handlerRest>>

\* A simulation that is not counted (a mistake)
RelaunchUncounted ==
    /\ workers' = [workers EXCEPT ![Finished] = NewWorker("simulation", FALSE)]
    /\ UNCHANGED started

\* Another simulation in the slot and the future of the one that has finished
Relaunch ==
    /\ workers' = [workers EXCEPT ![Finished] = NewWorker("simulation", FALSE)]
    /\ started' = started + 1

\* A limit that is off by one (a mistake)
HandleSimulationOneMore ==
    /\ Handle({"simulation"}, {"Equivalent"})
    /\ performed' = performed + 1
    /\ equivalence' = IF equivalence = "NoInformation" THEN "ProbablyEquivalent"
                      ELSE equivalence
    /\ IF started <= config.maxSims THEN Relaunch ELSE UNCHANGED <<started, workers>>
    /\ Continue
    /\ UNCHANGED <<cexFound, handlerRest>>

\* The last simulation ends the run, whatever else is running (a mistake)
HandleSimulationEndingRun ==
    /\ Handle({"simulation"}, {"Equivalent"})
    /\ performed' = performed + 1
    /\ equivalence' = "ProbablyEquivalent"
    /\ IF SimulationsFinished THEN Stop /\ UNCHANGED <<started, workers>>
       ELSE /\ Continue
            /\ IF started < config.maxSims THEN Relaunch ELSE UNCHANGED <<started, workers>>
    /\ UNCHANGED <<cexFound, handlerRest>>

\* A simulation that has shown no difference
HandleSimulation ==
    /\ Handle({"simulation"}, {"Equivalent"})
    /\ performed' = performed + 1
    /\ LET verdict == IF equivalence = "NoInformation" THEN "ProbablyEquivalent"
                      ELSE equivalence
           contradicted == verdict = "ProbablyNotEquivalent"
       IN IF SimulationsFinished
          THEN /\ IF OnlySimulationCheckerConfigured(config)
                  THEN Stop /\ equivalence' = verdict
                  ELSE IF contradicted
                  THEN Stop /\ equivalence' = "NoInformation"
                  ELSE Continue /\ equivalence' = verdict
               /\ UNCHANGED <<started, workers>>
          ELSE /\ equivalence' = verdict
               /\ Continue
               /\ IF started < config.maxSims THEN Relaunch
                  ELSE UNCHANGED <<started, workers>>
    /\ UNCHANGED <<cexFound, handlerRest>>

-----------------------------------------------------------------------------
(* The main thread: the end of the run *)

\* The slots in which the main thread may overlook a checker: those that it has
\* never had a result from
Unsure ==
    {i \in Ids \cap DOMAIN checkers :
        memory = "relaxed" /\ workers[i].fresh /\ checkers[i] # Null}

\* The second half of setAndSignalDone: the done flag of every checker
SignalAll ==
    /\ mainPc = "signal"
    /\ \E overlooked \in SUBSET Unsure :
         checkers' = [i \in DOMAIN checkers |->
                        IF checkers[i] = Null \/ i \in overlooked THEN checkers[i]
                        ELSE [checkers[i] EXCEPT !.signalled = TRUE]]
    /\ MainGoto("destroy")
    /\ UNCHANGED <<circuits, config, memory, done, results, workers, drawn, handled, queue>>

AllFinished == \A i \in Ids : workers[i].pc = "finished"

\* The futures are destroyed, which waits for the workers.
DestroyFutures ==
    /\ mainPc \in {"destroy", "unwind"}
    /\ AllFinished
    /\ MainGoto(IF mainPc = "unwind" THEN "threw" ELSE "report")
    /\ UNCHANGED <<rest, queue>>

\* run() asks every checker for its statistics.
Report ==
    /\ mainPc = "report"
    /\ MainGoto(IF \E i \in DOMAIN checkers : checkers[i] = Null THEN "crashed"
                ELSE "returned")
    /\ UNCHANGED <<rest, queue>>

DeadlinePasses ==
    /\ config.timed
    /\ Q!DeadlinePasses
    /\ UNCHANGED runVars

Over == mainPc \in {"returned", "threw", "crashed"}

Terminated == Over /\ UNCHANGED vars

MainStep ==
    \/ Setup \/ Launch \/ LaunchSimulation \/ StartWaiting
    \/ Wait \/ Receive \/ GiveUp \/ Get
    \/ HandleNoInformation \/ HandleNotEquivalent \/ HandleEquivalent
    \/ HandleProbablyNotEquivalent \/ HandleSimulation
    \/ SignalAll \/ DestroyFutures \/ Report

Next ==
    \/ MainStep
    \/ \E i \in Ids : Proceed(i) \/ Complete(i)
    \/ DeadlinePasses
    \/ Terminated

Spec == Init /\ [][Next]_vars

\* Every thread runs on and time passes; a checker that is not signalled may take
\* forever.  So may the main thread in a waitAndPop without a deadline, even with a result
\* in the queue: push notifies without the mutex of the one who waits
\* (ThreadSafeQueue.hpp:51), so that the notification may be lost.
FairSpec ==
    /\ Spec
    /\ WF_vars(MainStep /\ (mainPc = "wait" => config.timed))
    /\ \A i \in 1 .. WordModulus : WF_vars(i \in Ids /\ Proceed(i))
    /\ WF_vars(DeadlinePasses)

\* Every checker comes to its end: the diagrams that it builds are finite.
CheckersEnd == WF_vars(\E i \in Ids : Complete(i))

-----------------------------------------------------------------------------
(* Properties *)

WorkerLabels == {"build", "draw", "check", "run", "push", "leave", "finished",
                 "outOfBounds"}

MainLabels == {"setup", "launch", "pop", "wait", "get", "handle", "signal", "destroy",
               "unwind", "report", "returned", "threw", "crashed"}

\* The type of every variable; no more simulations are performed than are started,
\* and no more are started than maxSims.
TypeOK ==
    /\ circuits \in Circuits
    /\ config \in Configurations
    /\ memory \in Memories
    /\ mainPc \in MainLabels
    /\ done \in BOOLEAN
    /\ equivalence \in Criteria
    /\ started \in 0 .. config.maxSims
    /\ performed \in 0 .. started
    /\ cexFound \in BOOLEAN
    /\ checkers \in Seq(CheckerRecords \cup {Null})
    /\ workers \in Seq([kind : Kinds, pc : WorkerLabels, threw : BOOLEAN, fresh : BOOLEAN])
    /\ drawn \in Nat
    /\ handled \in SUBSET (Kinds \X Criteria)
    /\ items \in Seq(Nat)
    /\ expired \in BOOLEAN

\* The verdict depends on the results that the main thread has handled and not on
\* the order in which the threads delivered them; there is a counterexample only
\* if the verdict is non-equivalence.
VerdictIsOrderIndependent ==
    /\ equivalence = Summary(handled, performed = config.maxSims)
    /\ cexFound => equivalence = "NotEquivalent"

\* The simulations started and not yet counted as performed are those that run,
\* wait in the queue or are being handled: none is lost, none is counted twice.  Each has a
\* stimulus of its own, and there are enough of them, or else
\* generateRandomComputationalBasisState would look for a new one forever.
SimulationsAccounted ==
    /\ mainPc \notin {"threw", "unwind"} =>
         started - performed =
             Cardinality({i \in Ids :
               /\ workers[i].kind = "simulation"
               /\ \/ workers[i].pc \notin {"leave", "finished"}
                  \/ i \in Range(items)
                  \/ mainPc \in {"get", "handle"} /\ i = Finished})
    /\ drawn <= started /\ drawn <= circuits.stimuli

\* A worker that the main thread is told of is not told of again, and a worker
\* is started in a slot only after the one before it has left.
SlotHandedOver ==
    [][\A i \in Ids : workers'[i].pc = "build" /\ workers[i].pc # "build"
                        => workers[i].pc = "finished" /\ i \notin Range(items)]_vars

\* "Set the maximum number of threads to use" (pyqcec.pyi:132)
ThreadsWithinLimit ==
    Cardinality({i \in Ids : workers[i].pc # "finished"}) <= config.nthreads

\* "reserve space for as many equivalence checkers as there will be parallel
\* threads" (EquivalenceCheckingManager.cpp:619): every worker has a slot.
EveryWorkerHasSlot == \A i \in Ids : workers[i].pc # "outOfBounds"

\* The main thread does not wait, without a deadline, for a result that no worker
\* is left to deliver.
NotStranded ==
    mainPc = "wait" /\ ~config.timed =>
        items # << >> \/ \E i \in Ids : workers[i].pc \notin {"leave", "finished"}

\* What the flow promises to its callers (see Configuration!Verdicts): a checker that
\* decides, and has all the time it needs, decides, and nothing is said that is not so.  A
\* suspicion of the ZX checker is the one thing that may stop a checker that would have
\* decided, and only if all simulations call it into question
\* (EquivalenceCheckingManager.cpp:742-797).
PromiseKept ==
    mainPc = "returned" =>
        /\ equivalence \in Verdicts(config, circuits)
        /\ \/ equivalence \in {"Equivalent", "NotEquivalent"} \/ config.timed
           \/ ~(config.alternating \/ config.construction)
           \/ /\ {<<"zx", "ProbablyNotEquivalent">>, <<"simulation", "Equivalent">>} \subseteq handled
              /\ performed = config.maxSims

\* "this makes sure exceptions are thrown if necessary" (EquivalenceCheckingManager
\* .cpp:679): a run in which a worker has thrown returns only with a reason that it did not
\* have to wait for that worker.  The results taken from the queue before were a decision,
\* or the suspicion of the ZX checker and all simulations against it, or the time was up;
\* only then is the exception lost with its future.  In particular, it is never lost for
\* want of results, and when all that is run are simulations only a refutation hides it.
ExceptionSurfaces ==
    mainPc \in {"report", "returned", "crashed"} /\ (\E i \in Ids : workers[i].threw) =>
        \/ equivalence \in {"Equivalent", "NotEquivalent"}
        \/ /\ {<<"zx", "ProbablyNotEquivalent">>, <<"simulation", "Equivalent">>} \subseteq handled
           /\ performed = config.maxSims
        \/ config.timed /\ outcome[Main] = Null

\* waitAndPop, which has no deadline, has missed the notification of what is in the queue
\* and sleeps for good (see ThreadSafeQueue!PushWakesConsumer).
Asleep == mainPc = "wait" /\ ~config.timed /\ items # << >>

\* run() comes to an end if the checkers do: a lost notification is all that may keep it,
\* without a timeout, from doing so, and then the result that it waits for is in the queue.
RunEnds == CheckersEnd => <>Over \/ <>[]Asleep

\* "Set a timeout for run() (in seconds)" (pyqcec.pyi:135): were it not for the data
\* races, a run with a timeout would end though no checker ever should; but an exception
\* on its way out of run() waits for checkers that nobody has told to stop.
TimeoutEndsRun ==
    memory = "sequential" /\ config.timed => <>(Over \/ mainPc = "unwind")
================================================================================
