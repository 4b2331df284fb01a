# A verification development for QCEC

QCEC decides whether two quantum circuits are equivalent.  Its core is
`ec::EquivalenceCheckingManager`: it starts up to four kinds of checkers, in threads of
their own or one after the other, collects what they find, draws a conclusion and stops
what still runs.  This directory models that core in TLA+.  TLC checks the models on small
instances and TLAPS checks proofs about them for every value of the constants.

## 1. The system

| part | where | state it keeps | operations | what makes it correct |
|---|---|---|---|---|
| result queue | `include/ThreadSafeQueue.hpp` | linked list, a mutex for each end, condition variable | `push`, `waitAndPop`, `waitAndPopUntil` | FIFO, each value delivered once, the list never breaks, no cell leaks, a call with a deadline returns |
| parallel flow | `checkParallel`, `asyncRunChecker`, `setAndSignalDone` | slots for checkers, futures, `done`, results | start workers, take results, start more simulations, stop | the verdict does not depend on the order of the results, no more threads than allowed, an exception is lost only if another result ended the run before it, the run ends |
| sequential and symbolic flow | `checkSequential`, `checkSymbolic` | vector of checkers, `done`, timeout thread | build and run one checker after the other; signal them when the time is up | the verdict follows from the results, the timeout ends the run, the thread is joined |
| configuration | `Configuration.hpp/.cpp` | flags and limits | predicates on the flags; the constructor's clamp and fallback | enough stimuli, a checker that can handle the circuits |
| decision diagram checkers | `checker/dd` | two task managers (position in a circuit, permutation), diagrams | `run`: initialize, execute, finish, postprocess, compare | the result is that of the circuits, whatever the application scheme |
| application schemes | `checker/dd/applicationscheme` | operations that lookahead caches | how many gates of each circuit come next | every gate is applied once, in order |
| ZX checker | `checker/zx` | one diagram, two permutations | nested loops of simplifications, comparison of wires | the loops end, and not too early; equivalence only if shown |
| stimuli | `StateGenerator` | states handed out | a new random state | never twice the same, never asked for too many |
| preprocessing | `stripIdleQubits`, `setupAncillariesAndGarbage`, optimisations | circuits, layouts | strip, add ancillaries, rewrite | the circuits still mean the same |
| life cycle | constructor, `run`, `reset` | all of the above | several runs of one manager | a run does not depend on the one before |
| parameterised circuits | `parameterized.py` | time left, totals | a sequence of checks, each by a manager of its own | the verdict follows from the checks, timeout and statistics add up |
| Python interface, profiles | `verify.py`, `configuration.py`, bindings, `compilation_flow_profiles.py` | none | conversion, delegation, generation of tables | - |

The parts interact through

* **calls**: `run()` chooses a flow, a flow builds and runs checkers;
* **messages**: a worker pushes the id of its slot, the main thread pops it and then waits
  for the worker's future;
* **shared memory without a lock**: `done`, the slots of `checkers`, the vector itself;
* **a flag per checker**, `std::atomic`, with which a checker is told to stop;
* **a condition variable** that the timeout thread waits on, under `doneMutex`, which the
  thread that notifies does not hold.

What is hard here: the order in which results arrive; a timeout that comes in the middle
of anything; checkers that throw; threads that are told to stop while they start; limits
(threads, slots, simulations, stimuli) that are computed in one place and relied on in
another.  `PROJECT.json` lists these hazards line by line.

## 2. The modules

| module | models |
|---|---|
| `ResultQueue` | the abstract queue: `items`, and for each consumer the call it is in |
| `ThreadSafeQueue` | the queue as it is written; implements `ResultQueue` |
| `Configuration` | the flags, the constructor's changes to them, what a checker may find, and `Summary`, the conclusion to be drawn from a set of results |
| `ParallelCheck` | the parallel flow, on top of the actions of `ResultQueue` |
| `SequentialCheck` | the sequential and the symbolic flow |
| `LifeCycle` | several runs of one manager: `run()` again, `reset()`, other checkers, on top of `SequentialCheck` |
| `Circuits` | circuits of classical reversible gates, their meaning, and what the checkers ask of the MQT libraries (external) |
| `DDChecker` | one decision diagram checker: `run()` of all three kinds, task managers, application schemes |
| `ZXChecker` | the ZX checker: permutations, loops, comparison |
| `Preprocessing` | `stripIdleQubits` and `setupAncillariesAndGarbage` on layouts, outputs, garbage and ancillary qubits; `canHandle` |
| `ParameterizedCheck` | `check_parameterized`, on top of what a manager promises |
| `ThreadSafeQueue_proofs`, `ParallelCheck_proofs`, `SequentialCheck_proofs` (with `LifeCycle`), `Circuits_proofs`, `DDChecker_proofs`, `ZXChecker_proofs`, `Preprocessing_proofs`, `ParameterizedCheck_proofs` | theorems and proofs |
| `MCThreadSafeQueue`, `MCParallelCheck`, `MCSequentialCheck`, `MCDDChecker`, `MCZXChecker`, `MCPreprocessing`, `MCParameterizedCheck` | instances for TLC |

**ThreadSafeQueue.**  A step is one access to shared memory, or the accesses made under
one mutex.  `push` is `Allocate`, `LockTail`, `Link` (`tail->data`, `tail->next`),
`AdvanceTail` (and unlock), `Notify`.  A pop is `Request`, `LockHead`, `Predicate`
(which takes `tailMutex` for the time of `getTail`), `Block`, then a wake-up (`Notify`,
`SpuriousWake`, `TimeOut`), `Relock`, `Recheck` (only `waitPopHeadUntil` has it),
`PopHead`, `Return`.  `live` is the set of allocated cells; `chain` is a history variable,
the list in link order.  Between its test of the predicate and its wait a consumer holds
`headMutex`, but `notify_one` does not take it: this is what loses a wake-up.

**ParallelCheck.**  The main thread's label `mainPc` follows `checkParallel`: `Setup`,
`Launch`, `LaunchSimulation`, `StartWaiting`, then a loop of `Wait`, `Receive` or
`GiveUp`, `Get` (`futures.at(id).get()`), and one `Handle...` action for every branch
of the body, and finally `SignalAll`, `DestroyFutures` and `Report` (the loop over
`checkers` in `run()`).  A worker has a record in `workers`: `Build`, `Draw`, `CheckDone`,
then `Complete` or `Abort`, `Push`, `Leave`.  `checkers` is the vector of slots.  A worker
whose id has no slot goes to `"outOfBounds"`, a main thread that dereferences an empty
slot to `"crashed"`.  `effectiveThreads - futures.size()` is computed modulo `WordModulus`.

**SequentialCheck.**  `stage` is the `if` that the main thread is in, `mainPc` where in
it: `Begin`, `Create`, the loop of the simulations, `CheckDone`, `Complete`, `RunThrows`
or `Abort`, and a handler for each kind of result.  A return while the timer is joinable
goes to `"terminated"`.  The first step, `StartTimer`, holds the assignments with which `run()`
begins (`EnterRun`): they clear `done` and the verdict, and leave the counters of the simulations as
they are; `ReturnAtOnce` is a run with nothing to execute, or with circuits that have no operations.
The timer is `Test`, `Block`, `TimeOut` or `SpuriousWake`,
`SetDone`, `EvaluateRange`, `Signal` for one checker at a time, `EndSignal`.

**LifeCycle.**  The same behaviour, with three steps more, which a caller makes while no run is under
way: `RunAgain` (after a normal return only), `Reset` (states handed out, results, checkers) and `Select`
(`disableAllCheckers`, then some flags set).  `completed` keeps what a run has really finished
apart from what earlier runs have left in the counter.

**What a manager promises.**  `Verdicts(config, circuits)` is the set of verdicts that `run()` may end with:
sound ones, and the truth if a checker that decides is configured and has the time.
`PromiseKept` says in both flows that they keep to it, also when a manager runs again;
`ParameterizedCheck` takes any member of it as the verdict of each of its checks.  This is how the
flow for parameterised circuits is composed with the others without multiplying their states.

**ParameterizedCheck.**  `pc` names the check that comes next: `CheckZX`, `InstantiateZero`,
`CheckZero`, then a `CheckPhases` for every additional instantiation and `CheckRandom`.
`timeout` is the local variable with that name, 0 standing for no limit, as in the code;
`totals` are the four sums, of which the two times are one.  `elapsed`, `spent`,
`instantiated` and `refuted` are history: what the report and the time left are compared with.
A check *reports* a time (`CheckTimes`: preprocessing and checking), *takes* that and what the joining of
its threads adds when the clock has been read (`JoinTimes`; `Takes`), and neither has to do with the
timeout: preprocessing knows none (`EquivalenceCheckingManager.cpp:359-408`), and the time of the
check is read when the checkers have noticed that it is over (lines 570 and 814), before the threads are joined
(573-576, 817-823).
Of the parameters only this matters: in which of the three ways of instantiating the circuits
differ (`differing`); random phases may or may not show it.

**ZXChecker.**  `calls` is the stack of the procedures under way (`fullReduceApproximate`,
`fullReduce`, `cliffordSimp`, `interiorCliffordSimp`), each with the calls left in its first part or in
the current round of its loop, and with the two flags `moreSimplified` and `simplified`.
`gadgetSimp`, `simplifyVertices` and `simplifyEdges` are leaves: `Rewrite` applies a rule, until
`Exhaust`.  The diagram is reduced to the rules that apply to it, and to a bound on the rewrites left, which
every rewrite lowers; after any change other rules may apply.  `SignalDone` may come at any step.
`Compare` is the rest of `run()`.  For it a circuit is where its layout, its output and its gates
carry each logical qubit, and where a Hadamard gate is left on a wire.  `InvertPermutations`,
`Completed` and `Concat` are the functions at the end of the file, `p` is `p1` and `p2`.
`SameOutputs` is the reference that `VerdictRight` compares with: it looks at qubits and outputs
directly, without those permutations.  `IsCircuit` says what circuits there are (`InputsAssumption`).

**DDChecker.**  `pc` follows `run()`: `"loop"` (the condition of `execute()`, then
`SkipSwaps`), `"scheme"` (the condition again, then `Cancel`, `QueryScheme` or
`Lookahead`), `"advance1"` and `"advance2"` (one `Advance` per gate, with the swaps after
it), `"finish1"`, `"finish2"`, `"post1"`, `"post2"`, `"check"`.  `position` and
`permutation` are the iterator and the permutation of each task manager; `diagrams` is
`functionality` (slot 1, the second gate sequence multiplied from the right) or the two
internal states.  Gates are classical: a matrix is then a function on basis states and a
vector a matrix with one column, which keeps apart everything that the order, the side and the
qubits of a gate can change.  `dcx` is not its own inverse, so that an inverse that is
forgotten shows.  `SignalDone` may come at any step; `ReadsDone` says where it is noticed.
`Meaning` is the reference: it loads the input into physical qubits, runs *all* gates,
swaps included, and reads the output, without permutations that change on the way.
What the flows assume of these checkers (a result that is right, or the former one if cut
short) is what `VerdictRight` and `SimulationJudgesStimulus` check.

**Preprocessing.**  A circuit is its layout, its outputs, its garbage and ancillary logical
qubits, and which physical qubits its operations leave alone.  `StripFromLarger`,
`StripFromBoth` and `Keep` are the three ways through the loop of `stripIdleQubits`;
`RemoveLast`, `AddRegister` and `Restore` are the two loops of
`setupAncillariesAndGarbage` and the call between them.  `removeQubit`, `addAncillaryQubit`,
`addAncillaryRegister` and `setLogicalQubitGarbage` belong to mqt-core, an external library that is not in
this repository.  What they do is read off their use: a new ancillary qubit is taken to lie on a physical
qubit that is not in use and to get the next logical number.  That cannot be checked here, and `QubitsPaired`,
`AncillariesAgree` and their proofs rest on it; in the same way what `ZXChecker` says of ancillary
qubits rests on `makeAncilla` plugging the wire that it names.
`original` is a history variable that the properties compare with.  They define what may be
stripped by the code: qubits that are not output *or are output in their own place*.  The
comment at `EquivalenceCheckingManager.hpp:178-180` mentions only the former.

**Undefined behaviour.**  `done` is a plain `bool`, and slots are plain pointers, that two
threads access without a lock.  The variable `memory` is chosen once per behaviour:
`"sequential"` is what a reader of the code expects, with `"relaxed"` a thread may not see
what another has written (and may overlook a slot).  Properties about stopping in time
hold for sequential memory only, and say so; all others hold for both.

**Checkers.**  A checker is what a flow can see of it: it is built or its constructor
throws; its run ends with one of `Findings`, throws, or is cut short after it has been
signalled (then a decision diagram checker keeps its previous result and a ZX checker has
none).  Which kinds may throw is part of the input (`unbuildable`, `unrunnable`), whether one that may does is
open for each worker and each run by itself: of two simulations, one may throw and the other refute.
The checkers are taken to be sound: `circuits.equivalent` is the truth, the
alternating and the construction checker find it, a simulation may miss a difference, the
ZX checker proves equivalence or does not.  The three shades of equivalence are one value,
as no branch of the flows tells them apart.

**Mistakes.**  Operators marked *(a mistake)* are not part of any specification.  Each is
a plausible bug in the definition that follows it; putting it in that definition's place
makes a property fail, which shows that the property is about the code.

## 3. What is checked

| run | instance | shows |
|---|---|---|
| `queue_fifo` | 2 producers, 1 consumer, 2 values, 3 cells, calls with and without deadline | `ListIntact`, `EveryCellOwnedOnce`, `NoDataRace`; the queue implements `ResultQueue`; `TimedCallReturns` |
| `parallel_default` | the default flow with and without timeout, without ZX, and simulations alone, on 3 threads; 2 stimuli, hence 2 simulations, for circuits that are equivalent or not, of which a simulation or the alternating checker may throw when it is built, or a simulation when it runs; 3 simulations, which ends in a relaunch, for circuits that ZX and alternating cannot handle | the verdict is order-independent and keeps the promise, simulations are accounted for and have a stimulus each, slots are handed over, the thread limit holds, an exception is lost only when the run ended for another reason, the timeout ends a run, and any other run ends unless a notification is lost |
| `sequential_all` | all 16 choices of checkers without a timeout, two with one, one without simulations to make; 21 pairs of circuits (symbolic, empty, unsupported, throwing), 1 or 4 stimuli, up to 3 simulations; then a second run, after `reset()` or not and with the same, other or no checkers | the verdict follows from the results and keeps the promise, stimuli suffice, at most one aborted simulation is counted, checkers are signalled, the run ends, also when no checker ever would |
| `dd_checkers` | 2 qubits; pairs of circuits of up to 2 gates (x, controlled x, dcx, swap) with layouts and outputs; alternating checker with all five schemes, construction, simulation with 2 stimuli; a signal at any step | `RemainderDecides`: diagrams and remaining gates together are always the circuits; `CachedIsCurrent`; `VerdictRight`; `SimulationJudgesStimulus`; `RunReturns` |
| `preprocessing` | circuits of up to 3 qubits, either of them the larger or both equal, with layouts, partial outputs, idle qubits and ancillary qubits of their own | `QubitsPaired`, `OutputsKept`; `ExactlySuperfluousStripped`: the qubits that make no difference go, and no others; `AncillariesAgree`, and that the alternating checker can handle the circuits if it could before |
| `zx_checker` | pairs of circuits of 2 or 3 qubits with layouts, partial outputs, gaps in the numbers, Hadamard gates and ancillary qubits; separately, diagrams with up to 2 rewrites; a signal at any step | `NothingLeftToReduce`, `VerdictRight`, `RunReturns` |
| `parameterized` | time limits none, 3 and 4, checks that report 1 or 5 and take 0 or 1 more to join their threads, instantiations that take 0 or 3, up to 2 additional instantiations; the default checkers, simulations only, ZX only | `TotalsCoverChecks`, `VerdictFollowsChecks`, `TimeBounded` |
| `queue_lost_wakeup` | 1 producer, 1 consumer, no deadline | *violated*: a push can fail to wake the consumer |
| `parallel_more_checkers_than_threads` | alternating, construction and ZX on 2 threads | *violated*: a worker gets a slot that does not exist |
| `parallel_stranded` | ZX and simulations, no timeout | *violated*: the main thread waits for nobody |
| `sequential_unjoined` | default checkers with a timeout | *violated*: the function is left with a joinable thread |
| `dd_cancelling` | the same circuits, alternating checker, one-to-one scheme | *violated*: without elided permutations gates on different logical qubits cancel, and circuits that differ are called equivalent |

The five violated properties quote what the code says of itself; `PROJECT.json` has the
quotations under "findings".

**Bounds.**  Three cells let the list be empty, hold one value and hold two, and let a cell
be reused while another pop is under way; the theorems cover any number of threads and
cells.  Three threads with one or two single checkers leave one or two slots for
simulations, so that simulations run at once, one slot is used again, and there are more
tasks than threads.  Two stimuli against three simulations make the clamp take effect.  In one pair there
are three stimuli: with the construction checker on one of three threads, two of the three simulations are started
at once and the third takes over a slot.  In the other pairs there are two simulations, which with the
alternating and the ZX checker share one slot, and without one of these have a slot each: the limit is reached with
relaunches and without.  In the sequential flow the vector
of checkers grows to four, so the timer can be anywhere in it.  Two runs are enough for a run
that finds counters, checkers and `done` as another has left them, whether that one was interrupted, threw or ended.  `WordModulus` is 8 in
place of 2^64: larger than any count that occurs, so that a difference wraps around
exactly when it does in the code.
Two qubits and two gates let a swap come before, between and after the other gates of a
circuit, in one circuit or in both; sizes 2 and 1 give the proportional scheme a ratio
other than 1, costs 0 and 2 let the gate cost scheme advance one circuit only, or past its end.
Circuits of 3 and 2 or 3 and 1 qubits let a qubit be stripped from the larger circuit alone, from
both, and before and after one another, so that renumbering matters, and leave a
difference of one or two qubits for ancillary ones.
Limits of 3 and 4 with checks that report 1 or 5, and instantiations of 0 or 3, let the time run out in
the ZX check already (5, longer than the timeout), in the first instantiation (1 and 3, with a limit of 3:
`parameterized.py:185-188`), in every later check, or be used up exactly (1 and 3, with a limit of 4); the bound of
`TimeBounded` is reached: one less, and TLC finds it violated.
Two additional instantiations let the loop be entered, gone round and left at either
end.  Two rewrites, of seven rules any of which may come to apply after each, let every loop of
the ZX checker find work left by an inner or by a later one, twice.

**Fairness.**  Every thread that can take a step takes one (`WF` on the main thread, on each
worker, on the timer): they are preemptively scheduled, and mutexes are held for a bounded
time.  Time passes (`WF` on `DeadlinePasses`).  A *checker* may take forever, unless it has been
signalled: it polls its flag (in `DDChecker`, where a run is a finite sequence of gates,
`WF` on its steps is all that `RunReturns` needs, and so in `ZXChecker`, where every rule takes away
something that rules can take away finitely often).  `TimeoutEndsRun` assumes no more than that.  `RunEnds` adds
`CheckersEnd`: the computations are finite.

One wait gets no fairness: that of the main thread in `waitAndPop`, without a deadline.  `ResultQueue` delivers in one
step what is there, but the code may miss the notification (`ThreadSafeQueue.hpp:51`, the run
`queue_lost_wakeup`), and only the safety of the queue is shown to be that of `ResultQueue`.  So `FairSpec` lets the main
thread sleep with a result in the queue, and `RunEnds` says of the parallel flow that
a run ends *or* the main thread is `Asleep` for good, which is when a notification was lost: there is no other reason.  With a
deadline `waitAndPopUntil` returns, whatever is lost: `TimedCallReturns` shows it of the queue as it is written, and the
fairness of `Receive` and `GiveUp` with a timeout is no more than that.

No fairness is put on spurious wake-ups, nor on
starting calls.  Deadlock checking is on in every run of the two flows: a state
without a step is one in which the run is over, and `Terminated` makes that explicit.

**What the models showed besides** (see the hazards).  The properties name each of these as an exception; what
they say holds otherwise.

* *Flows*: an exception of one checker is lost if another ends the run first, for example that of a simulation if
  another one, handled before, refutes: its future is destroyed unread (`ExceptionSurfaces` says when
  this is so: after a decision, when the suspicion of the ZX checker meets simulations that have all passed, or when the
  time is up; and that it is so for no other reason).  An exception makes
  the parallel run wait for checkers nobody stops; a suspicion of the ZX checker with all
  simulations passed stops the checker that would have decided (`PromiseKept`); in the sequential
  flow a lost notification makes `join()` wait for the whole timeout, and the timer can go
  through the vector while it is reallocated; two circuits that consist of swaps have no operations
  left when `run()` looks, and are called equivalent without a look at what they permute.
* *Several runs*: without `reset()` a second run makes no simulations once `maxSims` have been
  made, so that nothing may be known when the ZX check comes to nothing: the assertion at
  `EquivalenceCheckingManager.cpp:550` that this takes the ZX checker alone does not hold then, nor
  with `maxSims = 0` (`VerdictFollowsResults` says exactly when).  And after a simulation that threw, a run
  without `reset()` would look for a stimulus more than there may be, for ever: `LifeCycle` goes on after an
  exception with `Reset` only.
* *ZX checker*: which wires are garbage is looked up under the position of the wire among the inputs
  (`ZXChecker.cpp:73`) and not under the logical qubit that is output there.  With a layout or an
  output permutation and partial outputs the wrong wire is skipped: two circuits of two qubits
  that differ by a Hadamard gate on the only output are called equivalent.  And `complete()` (line
  163) fills permutations with the physical qubits 0 to n-1, which need not exist when idle qubits
  were stripped: `at()` throws, and if there are ancillary qubits it does so in the constructor, which
  is `noexcept`.  Ancillary qubits are plugged with |0> at both ends (lines 51-54), also if they are output: two circuits
  that differ by a Hadamard gate on an ancillary qubit that is output are called equivalent, as
  what is left of its wire is a factor that nothing looks at (`ForgottenFactor`).
* *Parameterised circuits*: every check is given the whole timeout, whatever is left of it, and may take longer:
  its preprocessing knows no timeout, and checkers take their time to stop.  The call has thus no bound
  in terms of the timeout alone; what holds is that two checks and one instantiation come on top of the timeout, however long
  these take, and for every check the time to join its threads, which nobody measures (`TimeBounded`).  A remaining
  time of exactly 0 counts as no limit;
  the time of the last instantiation and check is not measured, that of the instantiation before
  is subtracted twice, and a refutation may be replaced by `no_information` on that account; if the
  time runs out in the loop, the totals lack the last check (`TotalsCoverChecks`).

## 4. What is proved

`ThreadSafeQueue_proofs` (constants: any sets of threads, values and cells, with `Null` in none
of them, no thread both producer and consumer):

* `TypeCorrect`, `ListStaysIntact`, `CellsOwnedOnce`, `RaceFree`: the four invariants;
* `QueueCorrect`: `Spec => ImplementsResultQueue`, the refinement.  `AdvanceTail` is
  the abstract `Push`, `PopHead` is `Deliver`, a `Recheck` that finds the queue empty is `GiveUp`,
  and every other step stutters.

The invariants are not inductive alone: whether the list is intact when `AdvanceTail` happens
depends on what `Link` has done, whether a pop may touch the head depends on who holds which
mutex.  The inductive invariant adds which mutex is held at which label, what the cell of a
push contains at each label, that a consumer at `"pop"` has found the list non-empty and
that it stays so while `headMutex` is held.

`SequentialCheck_proofs` (any configurations and circuits, any number of simulations and stimuli; each
theorem is one of `Spec`, a single run, and of `LifeSpec`, any number of runs of one manager):

* `TypeCorrect`: in particular `performed <= started <= maxSims` and no run out of range;
* `StimuliAlwaysSuffice`: `generated <= stimuli`.  It needs `CountsAgree` (how the three
  counters relate at each label), `ControlAgrees` (which labels belong to which stage) and
  `ClampHolds` (the constructor's clamp, lemma `PreparedIsClamped`);
* `CheckersSignalled`: with sequential memory, once the timer is through, the checker that
  runs has been signalled.  The invariant `SignalInv` says how far the timer has got: from
  `SetDone` on no checker is *started*, so the one that runs was in the vector when its
  range was evaluated, and the vector has not moved since;
* `PerformedSimulationsFinished`: one simulation more is counted as performed than has finished, at
  most, and only once the time is up: after that no further one begins.

and, about what a run concludes:

* `VerdictsFollow`: the verdict is the `Summary` of what was found, and `no_information` where
  nothing was.  `ResultsAgree` says which checkers can have been heard at which stage,
  `SimulationAgrees` what the simulations amount to while they go on, `OthersAgree` that the other
  checkers are run only while nothing is decided; without these `VerdictAgrees`, where a handler *replaces*
  the verdict, is not inductive.  `PromptInv` covers the second run that finds no simulations left to make;
* `PromiseIsKept`: from the same, and `UntimedInv`: without a timeout every checker that is configured is
  heard, unless the run ends before it with a decision.

`ParallelCheck_proofs` (any numbers of threads, simulations and stimuli, every interleaving, either kind
of memory):

* `TypeCorrect`, `OrderOfResultsIsIrrelevant`, `SimulationsAreAccountedFor`, `PromiseIsKept`,
  `ExceptionsSurface`, and the action property `SlotsAreHandedOver`;
* `ThreadsStayWithinLimit`: no more workers than threads, and a slot for each, *if* there are as many
  threads as checkers other than simulations (`EnoughThreads`).  The run
  `parallel_more_checkers_than_threads` shows that neither holds without this condition.

The inductive invariant follows an id from the worker to the queue and to the main thread.
`QueueAgrees` (an id is in the queue, or in the main thread's hand, once, and only if its worker has pushed
it) with `SlotsAgree` makes the slot of a result that is handled the one its checker is in.
`ResultsAgree` says that what is handled is what a checker finds: it can be cut short only after the main thread
has stopped listening.  `ThrownAgrees` says where a worker is that has thrown: about to push its id, in the
queue, or in the hand of the main thread, which then throws; so that an exception nobody has seen is one that nobody has
taken from the queue, and a run that returned had another reason (`StopAgrees`), or, if all simulations have been counted
(`CountsAgree`), none of them can have thrown.  `CountsAgree` counts simulations by their place.  On these rest `VerdictAgrees` and
`StopAgrees`, which says what has been heard when the main thread decides to stop; as for the
order of results, the step that matters is that `Summary` of the results, which are a set, is what each handler makes
of the verdict so far.

`ParameterizedCheck_proofs` (any configurations, circuits, time limit and number of instantiations;
durations of any length, with a longest of each kind, and none related to the timeout):

* `TotalsAreCovered`, `VerdictIsThatOfTheChecks`, `TimeIsBounded`.  `CountInv` and `VerdictInv` say what has
  been counted and what is still open at each label.  `TimeInv` says at each label what has passed and is not
  subtracted from the time left: the first check of instantiated circuits, of which the flow keeps no account, and what
  has been spent joining threads.  While the flow goes on the time left is not negative, except between the ZX check and the first
  instantiation (`VerdictInv`).
  From this follows the bound: the timeout, the check that is not measured, the instantiation and the check
  after which the time is up (or the last ones, which are not measured either), and the joins of all checks.
  How long a check takes does not enter, so that nothing is assumed of preprocessing or of how soon a
  checker stops.

`ZXChecker_proofs` (any circuits, any number of rewrites, whatever rules a rewrite makes applicable):

* `DiagramIsReduced`: when the wires are compared no rule applies, unless the checker was signalled.
  The procedures are nested and pass on one flag each, whether they have simplified
  anything.  `ReducedInv` says what this flag is worth: for each call on the stack, if nothing has been
  rewritten in this round, then every rule that applies is one that what is left of the round will `Try`
  (`Quiet`, `Pending`).  It is inductive because a round that found work is gone round again,
  and because each procedure that another calls tries a subset of the rules (`Tries`).
* `VerdictIsRight`.  `JudgedInv` is inductive because neither the rewriting nor a signal changes what the
  comparison is about; it leaves the verdict to be judged by the wires alone (`JudgedRightly`).  For that,
  `CompletedIs` says what `complete()` adds: it pairs what is free with what is
  missing by their ranks, which number any finite set of numbers (`Ranks`).  `InvertPermutationsIs`: the
  wire on which a qubit is output is found, no two on the same, and every wire is, unless there is garbage
  and a gap.  An output that is ancillary is the hard case, as its wire has been
  plugged and is not compared: both circuits have as many plugged wires as ancillary qubits, no
  other wire begins with one, so that these do (`PluggedAreAncillary`).  (Writing this down has
  brought `ForgottenFactor` to light, the exception for Hadamard gates on ancillary qubits; the
  instances had none.)

`DDChecker_proofs` (any number of qubits, circuits of any length with any layouts and outputs, any table of
gate costs, all schemes and checkers, a signal at any step):

* `TypeCorrect`, `RemainderStaysDecisive`, `CachedStaysCurrent`, `VerdictIsRight`, and the action property
  `SimulationsJudge`.

`RemainderInv` is the heart of `IInv`: what the diagrams have so far and what is `Left` of the circuits
`MakeUp` their meaning.  Each of the things a task manager does `Keeps` this (`GateApplied`,
`SwapsApplied`, `NextApplied`, `PermutationChanged`), on its side of the diagram (`LeftKeeps`, `SecondKeeps`,
`RightKeeps`), whoever asks for it and in whatever order, which is why no scheme matters (`WorkKeeps`).
The exceptions are what the other invariants are for: two gates cancel
(`CancelKeeps`) because both circuits still have the trivial layout (`ElidedInv`, which needs elided circuits); the cache of the lookahead
scheme (`LookaheadKeeps`) holds the next gate, which is not a swap and so remains next (`CacheInv`); the permutation is
corrected at the end only if no gate is left (`FinishedInv`).  At the comparison nothing is left, so
that it tells what the circuits do (`EqualTells`).

`Circuits_proofs` is what this rests on: a gate acts on logical qubits as on the physical ones that hold
them (`ActElsewhere`), it is undone by its inverse (`AdjointInverts`), and a gate more in the diagram is a gate
less that is left (`GateTaken`).  A circuit is a fold of its gates, and folds are defined by recursion.
Induction is not to be had, but least counterexamples are: `FoldExists` is proved from the
library's theorem that `<` is well-founded, and a claim about all the prefixes of a circuit by looking at the
shortest that violates it.

`Preprocessing_proofs` (circuits of any size, with any layouts, outputs, garbage and ancillary qubits; the three
optional constructor steps in the order of the code):

* `TypeCorrect`, `QubitsStayPaired`, `OutputsStay`.  While the last qubits of the larger circuit
  are taken out and put back, neither circuit is what the properties speak of.  `IInv` says that there is a whole circuit
  `w` of which the larger one is the part below some logical qubit (`IsPart`) and what was taken out is
  the rest, in reverse (`IsRest`).  `RemoveLast` and `Restore` leave `w` as it is, and stripping
  renumbers the logical qubits of both circuits by the same order-preserving function;
* `StrippedAreSuperfluous`, `AncillariesInTheEnd` from `JInv`: a qubit is gone or still to be looked at
  if it is superfluous (`Exact`), what was ancillary is (`AncillariesKept`), what was
  added is (`RaisedAreAncillary`), the qubits of the two circuits differ by what is counted (`Counted`), and
  no qubit comes from elsewhere (`NothingForeign`).

  The code takes least and greatest indices; that these exist for finite sets of any size rests on the
  library's theorem that `<` is well-founded on the naturals.

**Assumptions.**  The theorems hold for all values of the constants for which these hold, which TLC evaluates in
the runs: `NullAssumption`, `ThreadAssumption` (`Null` is none of the other values, no thread is both producer and
consumer), `InputAssumption` (of the flows: configurations and circuits are of their types; of `DDChecker`: the targets and
controls of a gate are distinct qubits, layouts are bijections, stimuli basis states and costs numbers),
`SchemesAssumption` (the kinds of checkers and schemes that there are; lookahead is the alternating checker's), `WordAssumption` (the
numbers asked for fit into a machine word), `SymbolicAssumption` (circuits of the parameterised flow have
parameters, or no operations at all), `TimeAssumption` (the durations that a check may report, those of joining its
threads and those of an instantiation each have a longest; that is all that `TimeIsBounded` takes for granted of them),
`InputsAssumption` (of the ZX checker: both circuits have the same numbers of qubits and of ancillary ones, as
`setupAncillariesAndGarbage` leaves them; layouts and gates permute, outputs differ), `CircuitsAssumption` (logical qubits of a circuit are numbered without gaps, no two physical
qubits stand for the same one, an output qubit is the output of one).  For the flows, what a *checker* finds is
the external assumption of `Configuration` (`Findings`), as in the runs.

**Only model-checked.**  No invariant and no action property.  All liveness (`TimedCallReturns`, `RunEnds`, `TimeoutEndsRun`, `RunReturns`),
which is beyond the prover.

## 5. What is not modelled

* *The diagrams*: decision diagrams and ZX-diagrams themselves, amplitudes, phases and tolerances (the
  arithmetic of external libraries), and with them what ancillary and garbage qubits do to a
  decision diagram (`reduceAncillae`, `reduceGarbage`, partial equivalence): whether a reduced
  diagram is close to the identity is decided in the library.
* *Optimisation passes*, which are the external library's.
* *In the ZX checker*: more than a permutation and Hadamard gates on wires that have been reduced; ancillary
  qubits other than the last ones, which are what `setupAncillariesAndGarbage` leaves behind.
* *Random numbers*: which stimuli and which values of parameters are drawn.
* *In the parallel flow*: a second run; `LifeCycle` is about the sequential and the symbolic one.
* *Strings and tables*: names and numeric codes of criteria, schemes and state types, the JSON and
  Python forms of configurations and results, the bindings, `verify()` and
  `verify_compilation()`, which convert and delegate, and the profiles, which are generated by
  running another compiler.

## 6. Plan

1. *An abstract specification of a run* (some checkers finish in some order, a verdict is returned once) that the
   parallel and the sequential flow both implement, with a refinement theorem for each.
2. *Several runs of the parallel flow*.
