------------------------------- MODULE DDChecker -------------------------------
(* One decision diagram checker: DDEquivalenceChecker::run with its three            *)
(* specialisations, the two task managers and the application schemes.               *)
(*                                                                                   *)
(* The alternating checker multiplies the gates of the first circuit to a matrix     *)
(* from the left and the inverted gates of the second from the right, so that what   *)
(* remains is the identity if the circuits are equivalent.  The construction checker *)
(* builds a matrix for each circuit, the simulation checker a state for each; both   *)
(* are compared at the end.  A task manager goes through one circuit and tracks      *)
(* which logical qubit a physical qubit holds.                                       *)
EXTENDS Circuits

CONSTANTS
    CircuitPairs,       \* pairs of circuits
    Configurations,     \* [kind, scheme, fused]: checker, application scheme, and
                        \* whether single-qubit gates are fused
    Stimuli,            \* basis states to simulate
    Costs               \* the table of the gate cost scheme: a function from pairs
                        \* of a type and a number of controls to numbers

\* The lookahead scheme needs a matrix and both of its sides: only the alternating checker
\* accepts it.
ASSUME SchemesAssumption ==
    \A c \in Configurations :
        /\ c.kind \in {"alternating", "construction", "simulation"}
        /\ c.scheme \in {"sequential", "one_to_one", "gate_cost", "proportional", "lookahead"}
        /\ c.scheme = "lookahead" => c.kind = "alternating"

ASSUME InputAssumption ==
    /\ \A pair \in CircuitPairs : IsCircuit(pair[1]) /\ IsCircuit(pair[2])
    /\ Stimuli \subseteq BasisStates
    /\ \A key \in DOMAIN Costs : Costs[key] \in Nat

VARIABLES
    circuits,           \* qc1 and qc2
    config,
    stimulus,           \* initialState of the simulation checker
    position,           \* for each task manager, the index of the gate that is next
    permutation,        \* and the logical qubit that each physical qubit holds
    diagrams,           \* functionality, or the internal states of the task managers
    cache,              \* op1 and op2 of the lookahead scheme
    apply,              \* how many gates of each circuit the scheme wants applied
    applied,            \* how many have been, since a task manager was called
    pc,
    done,               \* the flag set by signalDone
    equivalence

given == <<circuits, config>>
tasks == <<position, permutation, diagrams>>
counters == <<apply, applied>>
vars == <<given, stimulus, tasks, cache, counters, pc, done, equivalence>>

Tasks == {1, 2}
Alternating == config.kind = "alternating"
Simulation == config.kind = "simulation"

\* A diagram that has not been set, an operation that has not been cached
None == [s \in {} |-> s]

----------------------------------------------------------------------------
(* Task managers.  A task is a record [position, permutation, diagram]; the two of    *)
(* the alternating checker work on one diagram.                                       *)

Slot(i) == IF Alternating THEN 1 ELSE i

Task(i) == [position |-> position[i], permutation |-> permutation[i],
            diagram |-> diagrams[Slot(i)]]

TaskBecomes(i, t) ==
    /\ position' = [position EXCEPT ![i] = t.position]
    /\ permutation' = [permutation EXCEPT ![i] = t.permutation]
    /\ diagrams' = [diagrams EXCEPT ![Slot(i)] = t.diagram]

Ops(i) == circuits[i].ops

Finished(i, t) == t.position > Len(Ops(i))
AnyFinished == \E i \in Tasks : Finished(i, Task(i))

\* The second task manager of the alternating checker had its direction flipped.
FromRight(i) == Alternating /\ i = 2

\* (a mistake) The gates of the second circuit are not inverted.
ApplyGateUninverted(i, t) ==
    LET gate == GateDD(Ops(i)[t.position], t.permutation)
    IN  [t EXCEPT !.position = @ + 1,
                  !.diagram = IF FromRight(i) THEN Compose(@, gate) ELSE Compose(gate, @)]

ApplyGate(i, t) ==
    LET g == Ops(i)[t.position]
    IN  [t EXCEPT !.position = @ + 1,
                  !.diagram = IF FromRight(i)
                              THEN Compose(@, InverseGateDD(g, t.permutation))
                              ELSE Compose(GateDD(g, t.permutation), @)]

\* A swap that is next exchanges entries of the permutation and is not applied.
Swapped(perm, g) ==
    [perm EXCEPT ![g.targets[1]] = perm[g.targets[2]], ![g.targets[2]] = perm[g.targets[1]]]

ApplySwapOperations(i, t) ==
    LET stops == {k \in t.position .. Len(Ops(i)) + 1 :
                    k = Len(Ops(i)) + 1 \/ ~IsSwap(Ops(i)[k])}
        stop == Min(stops)
    IN  [t EXCEPT !.position = stop,
                  !.permutation = FoldLeft(Swapped, @,
                                           SubSeq(Ops(i), t.position, stop - 1))]

\* One turn of the loop of TaskManager::advance
ApplyNext(i, t) == ApplySwapOperations(i, ApplyGate(i, t))

ChangePermutation(i, t) ==
    LET output == circuits[i].output
    IN  [t EXCEPT !.permutation = output,
                  !.diagram = IF FromRight(i)
                              THEN Compose(@, Renaming(output, t.permutation))
                              ELSE Compose(Renaming(t.permutation, output), @)]

----------------------------------------------------------------------------
(* Application schemes: how many gates of each circuit are applied next *)

Remaining(i) == Len(Ops(i)) + 1 - position[i]

Fused == config.fused /\ Cardinality(UsedQubits(Ops(1)[position[1]])) = 1

GateCost ==
    LET g == Ops(1)[position[1]]
        key == <<g.type, Cardinality(g.controls)>>
    IN  IF Fused \/ key \notin DOMAIN Costs THEN 1 ELSE Costs[key]

Proportional ==
    LET fewer == Min({Remaining(1), Remaining(2)})
        more == Max({Remaining(1), Remaining(2)})
        ratio == Max({(more + (fewer \div 2)) \div fewer, 1})
    IN  IF Fused THEN <<1, 1>>
        ELSE IF Remaining(1) >= Remaining(2) THEN <<ratio, 1>> ELSE <<1, ratio>>

Steps ==
    CASE config.scheme = "sequential"   -> <<Len(Ops(1)), Len(Ops(2))>>
      [] config.scheme = "one_to_one"   -> <<1, 1>>
      [] config.scheme = "gate_cost"    -> <<1, GateCost>>
      [] config.scheme = "proportional" -> Proportional

----------------------------------------------------------------------------
Init ==
    /\ circuits \in CircuitPairs
    /\ config \in Configurations
    /\ stimulus = {}
    /\ position = [i \in Tasks |-> 1]
    /\ permutation = [i \in Tasks |-> circuits[i].layout]
    /\ diagrams = [i \in Tasks |-> None]
    /\ cache = [i \in Tasks |-> None]
    /\ apply = <<0, 0>> /\ applied = 0
    /\ pc = "new"
    /\ done = FALSE
    /\ equivalence = "no_information"

\* What a run starts from: the identity, or the stimulus
Origin(s) == IF Simulation THEN Column(s) ELSE Identity

\* (a mistake) The permutation is left as the last run made it.
InitializeKeepingPermutation ==
    /\ position' = [i \in Tasks |-> 1]
    /\ diagrams' = [i \in Tasks |-> IF Slot(i) = i THEN Origin(stimulus') ELSE None]
    /\ permutation' = permutation

\* (a mistake) The diagrams are left as they are.
InitializeWithoutState ==
    /\ position' = [i \in Tasks |-> 1]
    /\ permutation' = [i \in Tasks |-> circuits[i].layout]
    /\ diagrams' = diagrams

Initialize ==
    /\ position' = [i \in Tasks |-> 1]
    /\ permutation' = [i \in Tasks |-> circuits[i].layout]
    /\ diagrams' = [i \in Tasks |-> IF Slot(i) = i THEN Origin(stimulus') ELSE None]

\* The manager runs a checker once, but a simulation checker again and again, each
\* time with a new stimulus, until a simulation shows a difference.
Run ==
    /\ \/ pc = "new"
       \/ Simulation /\ pc = "returned" /\ equivalence # "not_equivalent"
    /\ IF Simulation THEN stimulus' \in Stimuli ELSE stimulus' = stimulus
    /\ Initialize
    /\ pc' = "loop"
    /\ UNCHANGED <<given, cache, counters, done, equivalence>>

SignalDone ==
    /\ ~done
    /\ done' = TRUE
    /\ UNCHANGED <<given, stimulus, tasks, cache, counters, pc, equivalence>>

----------------------------------------------------------------------------
(* execute() *)

Stopped == done \/ AnyFinished

LeaveLoop ==
    /\ pc = "loop" /\ Stopped
    /\ pc' = "finish1"
    /\ UNCHANGED <<given, stimulus, tasks, cache, counters, done, equivalence>>

SkipSwaps ==
    /\ pc = "loop" /\ ~Stopped
    /\ LET t == [i \in Tasks |-> ApplySwapOperations(i, Task(i))]
       IN  /\ position' = [i \in Tasks |-> t[i].position]
           /\ permutation' = [i \in Tasks |-> t[i].permutation]
    /\ pc' = "scheme"
    /\ UNCHANGED <<given, stimulus, diagrams, cache, counters, done, equivalence>>

NothingToApply ==
    /\ pc = "scheme" /\ Stopped
    /\ pc' = "loop"
    /\ UNCHANGED <<given, stimulus, tasks, cache, counters, done, equivalence>>

\* The alternating checker skips a gate that is next in both circuits.
GatesCancel ==
    /\ Alternating /\ config.scheme # "lookahead"
    /\ diagrams[1] = Identity
    /\ Ops(1)[position[1]] = Ops(2)[position[2]]

\* (a mistake) The iterators stay where they are.
CancelWithoutAdvancing ==
    /\ pc = "scheme" /\ ~Stopped /\ GatesCancel
    /\ pc' = "loop"
    /\ UNCHANGED <<given, stimulus, tasks, cache, counters, done, equivalence>>

Cancel ==
    /\ pc = "scheme" /\ ~Stopped /\ GatesCancel
    /\ position' = [i \in Tasks |-> position[i] + 1]
    /\ pc' = "loop"
    /\ UNCHANGED <<given, stimulus, permutation, diagrams, cache, counters, done,
                   equivalence>>

QueryScheme ==
    /\ pc = "scheme" /\ ~Stopped /\ ~GatesCancel /\ config.scheme # "lookahead"
    /\ apply' = Steps
    /\ pc' = "advance1"
    /\ UNCHANGED <<given, stimulus, tasks, cache, applied, done, equivalence>>

\* The lookahead scheme tries both operations, which it has cached or caches now, and
\* keeps the smaller result.  Sizes of diagrams are not modelled: either may be smaller.
Upcoming ==
    [i \in Tasks |-> IF cache[i] # None THEN cache[i]
                     ELSE IF i = 1 THEN GateDD(Ops(1)[position[1]], permutation[1])
                     ELSE InverseGateDD(Ops(2)[position[2]], permutation[2])]

\* (a mistake) The operation that has been applied stays in the cache.
LookaheadKeepingCache ==
    /\ pc = "scheme" /\ ~Stopped /\ config.scheme = "lookahead"
    /\ \E i \in Tasks :
        /\ diagrams' = [diagrams EXCEPT ![1] = IF i = 1 THEN Compose(Upcoming[1], @)
                                                        ELSE Compose(@, Upcoming[2])]
        /\ cache' = Upcoming
        /\ position' = [position EXCEPT ![i] = @ + 1]
    /\ apply' = <<0, 0>>
    /\ pc' = "advance1"
    /\ UNCHANGED <<given, stimulus, permutation, applied, done, equivalence>>

Lookahead ==
    /\ pc = "scheme" /\ ~Stopped /\ config.scheme = "lookahead"
    /\ \E i \in Tasks :
        /\ diagrams' = [diagrams EXCEPT ![1] = IF i = 1 THEN Compose(Upcoming[1], @)
                                                        ELSE Compose(@, Upcoming[2])]
        /\ cache' = [Upcoming EXCEPT ![i] = None]
        /\ position' = [position EXCEPT ![i] = @ + 1]
    /\ apply' = <<0, 0>>
    /\ pc' = "advance1"
    /\ UNCHANGED <<given, stimulus, permutation, applied, done, equivalence>>

\* A task manager applies gate after gate.  Whether to stop is asked before it is called,
\* not in between, and not at all before the alternating checker finishes and postprocesses
\* the first circuit.
ReadsDone(i) == applied = 0 /\ ~(Alternating /\ i = 1 /\ pc \in {"finish1", "post1"})
Skipped(i) == done /\ ReadsDone(i)

Advance(i, here) ==
    /\ pc = here /\ ~Skipped(i) /\ applied < apply[i] /\ ~Finished(i, Task(i))
    /\ TaskBecomes(i, ApplyNext(i, Task(i)))
    /\ applied' = applied + 1
    /\ UNCHANGED <<given, stimulus, cache, apply, pc, done, equivalence>>

LeaveAdvance(i, here, next) ==
    /\ pc = here /\ (Skipped(i) \/ applied >= apply[i] \/ Finished(i, Task(i)))
    /\ apply' = [apply EXCEPT ![i] = 0]
    /\ applied' = 0
    /\ pc' = next
    /\ UNCHANGED <<given, stimulus, tasks, cache, done, equivalence>>

----------------------------------------------------------------------------
(* finish(), postprocess() and the comparison *)

Finish(i, here) ==
    /\ pc = here /\ ~Skipped(i) /\ ~Finished(i, Task(i))
    /\ TaskBecomes(i, ApplyNext(i, Task(i)))
    /\ applied' = applied + 1
    /\ UNCHANGED <<given, stimulus, cache, apply, pc, done, equivalence>>

LeaveFinish(i, here, next) ==
    /\ pc = here /\ (Skipped(i) \/ Finished(i, Task(i)))
    /\ applied' = 0
    /\ pc' = next
    /\ UNCHANGED <<given, stimulus, tasks, cache, apply, done, equivalence>>

PostprocessTask(i, here, next) ==
    /\ pc = here
    /\ IF Skipped(i) THEN UNCHANGED tasks
       ELSE TaskBecomes(i, ChangePermutation(i, Task(i)))
    /\ pc' = next
    /\ UNCHANGED <<given, stimulus, cache, counters, done, equivalence>>

Equal == IF Alternating THEN diagrams[1] = Identity ELSE diagrams[1] = diagrams[2]

\* (a mistake) What an interrupted run has built is compared nevertheless.
CheckEquivalenceOfParts ==
    /\ pc = "check"
    /\ equivalence' = IF Equal THEN "equivalent" ELSE "not_equivalent"
    /\ pc' = "returned"
    /\ UNCHANGED <<given, stimulus, tasks, cache, counters, done>>

CheckEquivalence ==
    /\ pc = "check"
    /\ equivalence' = IF done THEN equivalence
                      ELSE IF Equal THEN "equivalent" ELSE "not_equivalent"
    /\ pc' = "returned"
    /\ UNCHANGED <<given, stimulus, tasks, cache, counters, done>>

Step ==
    \/ LeaveLoop \/ SkipSwaps \/ NothingToApply \/ Cancel \/ QueryScheme \/ Lookahead
    \/ Advance(1, "advance1") \/ LeaveAdvance(1, "advance1", "advance2")
    \/ Advance(2, "advance2") \/ LeaveAdvance(2, "advance2", "loop")
    \/ Finish(1, "finish1") \/ LeaveFinish(1, "finish1", "finish2")
    \/ Finish(2, "finish2") \/ LeaveFinish(2, "finish2", "post1")
    \/ PostprocessTask(1, "post1", "post2")
    \/ PostprocessTask(2, "post2", "check")
    \/ CheckEquivalence

Next == Run \/ SignalDone \/ Step

Spec == Init /\ [][Next]_vars

\* A run, once called, is executed by its thread: each of its steps changes pc or applied.
FairSpec == Spec /\ WF_<<applied, pc>>(Step)

----------------------------------------------------------------------------
(* Properties *)

\* Every variable that changes has its type, and no iterator goes past the end of its
\* circuit (TaskManager.hpp:44).
TypeOK ==
    /\ stimulus \in Stimuli \cup {{}}
    /\ \A i \in Tasks : position[i] \in 1 .. Len(Ops(i)) + 1
    /\ permutation \in [Tasks -> Layouts]
    /\ pc # "new" => \A i \in Tasks :
        diagrams[Slot(i)] \in IF Simulation THEN Columns ELSE Matrices
    /\ cache \in [Tasks -> Matrices \cup {None}]
    /\ apply \in Nat \X Nat /\ applied \in Nat
    /\ pc \in {"new", "loop", "scheme", "advance1", "advance2", "finish1", "finish2",
               "post1", "post2", "check", "returned"}
    /\ done \in BOOLEAN
    /\ equivalence \in {"no_information", "equivalent", "not_equivalent"}

\* Circuits for which it is right to skip a gate that both have next.  It is not right
\* for all of them: see AlternatingShowsEquivalence.
CancelsSoundly ==
    \/ ~Alternating \/ config.scheme = "lookahead"
    \/ \A i \in Tasks : Elided(circuits[i])

\* What is left of a circuit, to be run on what the task manager has at present
Rest(i) == Computes(SubSeq(Ops(i), position[i], Len(Ops(i))), permutation[i],
                    circuits[i].output)

\* At any time during a run, and wherever it has been interrupted, the diagrams together
\* with the gates not yet applied make up the circuits: no gate is lost, applied twice,
\* on the wrong side or to the wrong qubits, whatever scheme chooses the order and
\* however many swaps have been absorbed into the permutations
\* (DDEquivalenceChecker.cpp:157-215, TaskManager.hpp:77-128).
RemainderDecides ==
    pc # "new" /\ CancelsSoundly =>
        LET R1 == Rest(1)
            R2 == Rest(2)
            M1 == Meaning(circuits[1])
            M2 == Meaning(circuits[2])
        IN  IF Alternating
            THEN {<<R1[diagrams[1][s]], R2[s]>> : s \in BasisStates}
                    = {<<M1[s], M2[s]>> : s \in BasisStates}
            ELSE /\ Compose(R1, diagrams[1]) = Compose(M1, Origin(stimulus))
                 /\ Compose(R2, diagrams[2]) = Compose(M2, Origin(stimulus))

\* A cached operation is that of the gate that is next, on the qubits that it now means:
\* the cache outlives steps in which the other circuit is advanced and swaps are
\* absorbed (LookaheadApplicationScheme.cpp:38-50).
CachedIsCurrent ==
    pc \in {"loop", "scheme", "advance1", "advance2"} =>
        \A i \in Tasks : cache[i] # None =>
            /\ ~Finished(i, Task(i))
            /\ LET g == Ops(i)[position[i]]
               IN  cache[i] = IF i = 1 THEN GateDD(g, permutation[1])
                                       ELSE InverseGateDD(g, permutation[2])

\* The result of a checker is that of the circuits: "not equivalent" is never said of
\* equivalent ones, nor "equivalent" by a checker that can tell of others, also when the
\* run was interrupted at any point (DDEquivalenceChecker.cpp:121-126).
VerdictRight ==
    pc = "returned" /\ CancelsSoundly =>
        LET same == Meaning(circuits[1]) = Meaning(circuits[2])
        IN  /\ equivalence = "not_equivalent" => ~same
            /\ equivalence = "equivalent" /\ ~Simulation => same

\* A simulation checker is used again with other stimuli: whatever the earlier
\* simulations have left behind, a simulation that is not interrupted tells whether the
\* circuits agree on its own stimulus (DDSimulationChecker.cpp:34-58).
SimulationJudgesStimulus ==
    [][pc = "check" /\ pc' = "returned" /\ Simulation /\ ~done =>
        (equivalence' = "equivalent"
            <=> Meaning(circuits[1])[stimulus] = Meaning(circuits[2])[stimulus])]_vars

\* Every run returns: the loop of execute() always comes closer to the end of a circuit,
\* though a scheme may skip gates, or ask for none (DDEquivalenceChecker.cpp:157-176).
RunReturns == pc = "loop" ~> pc = "returned"

\* The documentation says that the alternating checker is capable of showing equivalence
\* and non-equivalence, and eliding permutations is an option: so whatever the circuits,
\* those that it calls equivalent are.  The code does not keep that: it
\* compares gates by their physical qubits, though the task managers may have swapped
\* what these hold (DDAlternatingChecker.cpp:68-77, 133-142).
AlternatingShowsEquivalence ==
    pc = "returned" /\ Alternating /\ equivalence = "equivalent" =>
        Meaning(circuits[1]) = Meaning(circuits[2])
================================================================================
