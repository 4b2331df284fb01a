----------------------------- MODULE Configuration -----------------------------
(***************************************************************************)
(* The part of ec::Configuration that steers a run, as a record            *)
(*                                                                         *)
(*   alternating, construction, simulation, zx   the run...Checker flags   *)
(*   maxSims    simulation.maxSims                                         *)
(*   parallel   execution.parallel                                         *)
(*   nthreads   execution.nthreads                                         *)
(*   timed      execution.timeout > 0                                      *)
(*                                                                         *)
(* and of the two circuits, as the checks see them:                        *)
(*                                                                         *)
(*   symbolic       a gate of one of them has a symbolic parameter         *)
(*   empty          neither has an operation: what they permute may still  *)
(*                  differ, as swaps have been elided by then              *)
(*   equivalent     the circuits are equivalent: what is to be found out   *)
(*   stimuli        the number of distinct basis states to simulate        *)
(*   transformable  both circuits can be turned into ZX-diagrams           *)
(*   alternatable   DDAlternatingChecker::canHandle both circuits          *)
(*   unbuildable    the checkers whose constructor may throw, as it does   *)
(*                  for a scheme the checker does not support, or when     *)
(*                  there is no memory left: one worker throws, another    *)
(*                  of the same kind need not                              *)
(*   unrunnable     the checkers that may throw while they run, likewise   *)
(***************************************************************************)
EXTENDS Naturals, Sequences, FiniteSets

\* EquivalenceCriterion.  The three shades of equivalence that the checkers
\* distinguish (exact, up to a global phase, up to phase) are one value here:
\* no control flow below tells them apart.
Criteria == {"NoInformation", "NotEquivalent", "Equivalent",
             "ProbablyEquivalent", "ProbablyNotEquivalent"}

Kinds == {"alternating", "construction", "zx", "simulation"}

Configurations ==
    [alternating : BOOLEAN, construction : BOOLEAN, simulation : BOOLEAN, zx : BOOLEAN,
     maxSims : Nat, parallel : BOOLEAN, nthreads : Nat, timed : BOOLEAN]

Circuits ==
    [symbolic : BOOLEAN, empty : BOOLEAN, equivalent : BOOLEAN, stimuli : Nat,
     transformable : BOOLEAN, alternatable : BOOLEAN, unbuildable : SUBSET Kinds, unrunnable : SUBSET Kinds]

\* How the program treats a variable that two threads access without a lock, which
\* is undefined behaviour: as a careless reader expects, or so that a thread may not
\* see what the other has written.
Memories == {"sequential", "relaxed"}

AnythingToExecute(c) ==
    \/ c.simulation /\ c.maxSims > 0
    \/ c.alternating \/ c.construction \/ c.zx

OtherCheckers(c) == {k \in {"alternating", "construction", "zx"} : c[k]}

OnlySingleTask(c) ==
    \/ c.simulation /\ c.maxSims = 1 /\ OtherCheckers(c) = {}
    \/ ~c.simulation /\ Cardinality(OtherCheckers(c)) = 1

OnlyZXCheckerConfigured(c) == ~c.simulation /\ OtherCheckers(c) = {"zx"}

OnlySimulationCheckerConfigured(c) == c.simulation /\ OtherCheckers(c) = {}

\* run() calls checkParallel, rather than checkSequential or checkSymbolic.
RunsInParallel(c, circuits) ==
    ~circuits.symbolic /\ c.parallel /\ c.nthreads > 1 /\ ~OnlySingleTask(c)

\* The constructor of EquivalenceCheckingManager: fall back to the construction
\* checker, and run no more simulations than there are stimuli.
Prepared(c, circuits) ==
    LET falls == c.alternating /\ ~circuits.alternatable
    IN [c EXCEPT !.alternating = @ /\ ~falls,
                 !.construction = @ \/ falls,
                 !.maxSims = IF c.simulation /\ @ > circuits.stimuli
                             THEN circuits.stimuli ELSE @]

\* What the run of a checker finds when nothing interrupts it.  The checkers
\* are taken to be sound: construction and alternating decide, a simulation
\* may miss a difference, and ZX proves equivalence or finds nothing (it says
\* nothing at all when there are ancillaries).
Findings(kind, circuits) ==
    CASE kind \in {"alternating", "construction"} ->
           {IF circuits.equivalent THEN "Equivalent" ELSE "NotEquivalent"}
      [] kind = "simulation" ->
           {"Equivalent"} \cup (IF circuits.equivalent THEN {} ELSE {"NotEquivalent"})
      [] kind = "zx" ->
           {"ProbablyNotEquivalent", "NoInformation"}
               \cup (IF circuits.equivalent THEN {"Equivalent"} ELSE {})

\* What run() may report: the truth, if a checker that decides has all the time that it
\* needs, and otherwise nothing that is not so.  The flows promise this, the flow for
\* parameterised circuits relies on it.  The one exception to the first: in parallel, a
\* suspicion of the ZX checker that all simulations call into question ends the run.  And
\* circuits without operations are called equivalent unseen.
Verdicts(c, circuits) ==
    {e \in Criteria :
       /\ e = "Equivalent" => circuits.equivalent \/ circuits.empty
       /\ e = "NotEquivalent" => ~circuits.equivalent /\ ~circuits.symbolic
       /\ e = "ProbablyEquivalent" => c.simulation /\ ~circuits.symbolic
       /\ e = "ProbablyNotEquivalent" => c.zx \/ circuits.symbolic
       /\ \/ AnythingToExecute(c)
          \/ e = "NoInformation"
       /\ AnythingToExecute(c) /\ circuits.empty => e = "Equivalent"
       /\ \/ e \in {"Equivalent", "NotEquivalent"}
          \/ c.timed \/ circuits.symbolic \/ ~(c.alternating \/ c.construction)
          \/ RunsInParallel(c, circuits) /\ c.zx /\ c.simulation /\ e = "NoInformation"}

\* What the results of checkers amount to, whatever the flow and the order in
\* which they came in: a decision, else a suspicion that all simulations together
\* call into question, else what the simulations suggest.  `seen` is a set of
\* pairs of a kind of checker and its result.  For stating properties.
Summary(seen, allSimulated) ==
    LET refuted == \E k \in Kinds : <<k, "NotEquivalent">> \in seen
        shown == \E k \in Kinds \ {"simulation"} : <<k, "Equivalent">> \in seen
        suspected == <<"zx", "ProbablyNotEquivalent">> \in seen
        simulated == <<"simulation", "Equivalent">> \in seen
    IN IF refuted THEN "NotEquivalent"
       ELSE IF shown THEN "Equivalent"
       ELSE IF suspected /\ simulated /\ allSimulated THEN "NoInformation"
       ELSE IF suspected THEN "ProbablyNotEquivalent"
       ELSE IF simulated THEN "ProbablyEquivalent"
       ELSE "NoInformation"
================================================================================
