--------------------------- MODULE ParameterizedCheck ---------------------------
(***************************************************************************)
(* check_parameterized: circuits with symbolic parameters are handed to    *)
(* the ZX checker, and if that does not show that they are equivalent,     *)
(* they are instantiated, with as many parameters as possible zero, then   *)
(* with random phases, then at random, and checked each time by a manager  *)
(* of their own.  What a manager reports is what its flows promise, see    *)
(* Configuration!Verdicts.                                                 *)
(*                                                                         *)
(* The flow keeps the totals of the simulations and of the time of all     *)
(* checks, which it writes into the last report, and the time that is left *)
(* of the timeout.  Every check is run with the whole timeout, though, and *)
(* may take longer than that: the time it reports includes preprocessing,  *)
(* which knows no timeout, and whatever the checkers take to notice that   *)
(* it is over, and does not include the time in which threads are joined.  *)
(***************************************************************************)
EXTENDS Configuration, Integers, FiniteSetsExt

CONSTANTS
    Requests,            \* the configurations asked for: a set of records
    CircuitPairs,        \* the pairs of circuits to compare: a set of records
    Limits,              \* the values of execution.timeout; 0 is none
    MaxInstantiations,   \* the largest value of parameterized.additional_instantiations
    CheckTimes,          \* the times that a check may report (preprocessing and checking)
    JoinTimes,           \* how long it may take on, waiting for its threads, when that is measured
    InstantiationTimes   \* how long an instantiation may take

ASSUME InputAssumption ==
    /\ Requests \subseteq Configurations /\ CircuitPairs \subseteq Circuits
    /\ Limits \subseteq Nat /\ MaxInstantiations \in Nat
    /\ CheckTimes \subseteq Nat /\ JoinTimes \subseteq Nat /\ InstantiationTimes \subseteq Nat

\* verify() calls for circuits with symbolic parameters only, which the optimizations
\* may turn into circuits without any operation.
ASSUME SymbolicAssumption == \A p \in CircuitPairs : p.symbolic \/ p.empty

\* Nothing takes forever; how long it takes has nothing to do with the timeout.
ASSUME TimeAssumption ==
    \A times \in {CheckTimes, JoinTimes, InstantiationTimes} :
        \E longest \in times : \A time \in times : time <= longest

VARIABLES
    circuits,      \* what there is to find out
    differing,     \* the instantiations in which the circuits (may) differ
    config,        \* the configuration asked for
    limit,         \* its execution.timeout
    additional,    \* its parameterized.additional_instantiations, n_checks
    pc,            \* which check comes next
    round,         \* the iteration of the loop over the additional instantiations
    timeout,       \* the time that is left
    runtime,       \* the time that the last instantiation by __instantiate_params took
    res,           \* the report of the last check
    totals,        \* total_runtime (with total_preprocessing_time), total_simulations_...
    spent,         \* history: what all checks together have really taken
    elapsed,       \* history: the time since the call
    instantiated,  \* history: the number of instantiations
    refuted        \* history: a check has reported that the circuits are not equivalent

input == <<circuits, differing, config, limit, additional>>
vars == <<input, pc, round, timeout, runtime, res, totals, spent, elapsed,
          instantiated, refuted>>

Nothing == [time |-> 0, started |-> 0, performed |-> 0]

Init ==
    /\ circuits \in CircuitPairs
    \* Random values tell circuits apart that differ at all.
    /\ differing \in IF circuits.equivalent THEN {{}}
                     ELSE {d \cup {"random"} : d \in SUBSET {"zero", "phases"}}
    /\ limit \in Limits
    /\ config \in {[c EXCEPT !.timed = limit > 0] : c \in Requests}
    /\ additional \in 0 .. MaxInstantiations
    /\ pc = "zx"
    /\ round = 0
    /\ timeout = limit
    /\ runtime = 0
    /\ res = [equivalence |-> "NoInformation", instantiations |-> 0,
              time |-> 0, started |-> 0, performed |-> 0]
    /\ totals = Nothing /\ spent = Nothing
    /\ elapsed = 0 /\ instantiated = 0 /\ refuted = FALSE

-----------------------------------------------------------------------------

\* __adjust_timeout
Adjusted(left, time) == IF left = 0 THEN 0 ELSE left - time

\* The circuits, instantiated: there is nothing symbolic about them any more.
Instances(how) ==
    {[circuits EXCEPT !.symbolic = FALSE, !.equivalent = e] :
       e \in IF how \notin differing THEN {TRUE}
             ELSE IF how = "phases" THEN BOOLEAN ELSE {FALSE}}

\* check_parameterized_zx: the flags are set once the constructor has changed its own.
ZXOnly ==
    [Prepared(config, circuits) EXCEPT !.alternating = FALSE, !.construction = FALSE,
                                       !.simulation = FALSE, !.zx = TRUE]

\* check_instantiated
WithoutZX(pair) == [Prepared(config, pair) EXCEPT !.zx = FALSE]

\* The reports of a manager, which may have taken longer than the timeout
Reports(c, pair) ==
    LET simulations == 0 .. IF c.simulation THEN c.maxSims ELSE 0
    IN {r \in [equivalence : Verdicts(c, pair), instantiations : {0}, time : CheckTimes,
               started : simulations, performed : simulations] :
          r.performed <= r.started}

\* __update_stats
Added(sums, r) == [field \in DOMAIN sums |-> sums[field] + r[field]]

\* The number of the instantiation is written, the totals are not (a mistake).
WrittenWithoutTotals(r, sums, n) == [r EXCEPT !.instantiations = n]

\* __write_stats
Written(r, sums, n) ==
    [r EXCEPT !.instantiations = n, !.time = sums.time, !.started = sums.started,
              !.performed = sums.performed]

Check(r) ==
    /\ spent' = Added(spent, r)
    /\ refuted' = (refuted \/ r.equivalence = "NotEquivalent")

\* An instantiation, a check with this report and the joining of its threads
Takes(instantiating, r) ==
    \E joining \in JoinTimes : elapsed' = elapsed + instantiating + r.time + joining

CheckZX ==
    /\ pc = "zx"
    /\ \E r \in Reports(ZXOnly, circuits) :
         /\ Check(r)
         /\ Takes(0, r)
         /\ res' = r
         /\ \/ /\ r.equivalence = "Equivalent"
               /\ pc' = "returned"
               /\ UNCHANGED <<totals, timeout>>
            \/ /\ r.equivalence # "Equivalent"
               /\ pc' = "instantiateZero"
               /\ totals' = Added(totals, r)
               /\ timeout' = Adjusted(limit, r.time)
    /\ UNCHANGED <<input, round, runtime, instantiated>>

InstantiateZero ==
    /\ pc = "instantiateZero"
    /\ runtime' \in InstantiationTimes
    /\ timeout' = Adjusted(timeout, runtime')
    /\ elapsed' = elapsed + runtime'
    /\ instantiated' = 1
    /\ \/ /\ timeout' < 0
          /\ res' = [Written(res, totals, 1) EXCEPT !.equivalence = "NoInformation"]
          /\ pc' = "returned"
       \/ /\ timeout' >= 0
          /\ pc' = "checkZero"
          /\ UNCHANGED res
    /\ UNCHANGED <<input, round, totals, spent, refuted>>

\* The loop begins whatever the check has found (a mistake).
CheckZeroContinuing ==
    /\ pc = "checkZero"
    /\ \E pair \in Instances("zero") : \E r \in Reports(WithoutZX(pair), pair) :
         /\ Check(r)
         /\ Takes(0, r)
         /\ totals' = Added(totals, r)
         /\ res' = r
         /\ pc' = "loop"
    /\ UNCHANGED <<input, round, timeout, runtime, instantiated>>

CheckZero ==
    /\ pc = "checkZero"
    /\ \E pair \in Instances("zero") : \E r \in Reports(WithoutZX(pair), pair) :
         /\ Check(r)
         /\ Takes(0, r)
         /\ totals' = Added(totals, r)
         /\ \/ /\ r.equivalence = "NotEquivalent"
               /\ res' = Written(r, totals', 1)
               /\ pc' = "returned"
            \/ /\ r.equivalence # "NotEquivalent"
               /\ res' = r
               /\ pc' = "loop"
    /\ UNCHANGED <<input, round, timeout, runtime, instantiated>>

\* The time that the check takes is not counted (a mistake, see CheckPhases).
AdjustedByInstantiation(r) == Adjusted(timeout, runtime')

\* The time left after an instantiation and a check
AdjustedByBoth(r) == Adjusted(Adjusted(timeout, runtime'), r.time)

CheckPhases ==
    /\ pc = "loop" /\ round < additional
    /\ round' = round + 1
    /\ instantiated' = instantiated + 1
    /\ runtime' \in InstantiationTimes
    /\ \E pair \in Instances("phases") : \E r \in Reports(WithoutZX(pair), pair) :
         /\ Check(r)
         /\ Takes(runtime', r)
         /\ timeout' = AdjustedByBoth(r)
         /\ \/ /\ timeout' < 0
               /\ res' = [Written(r, totals, round + 2) EXCEPT !.equivalence = "NoInformation"]
               /\ pc' = "returned"
               /\ UNCHANGED totals
            \/ /\ timeout' >= 0
               /\ totals' = Added(totals, r)
               /\ \/ /\ r.equivalence = "NotEquivalent"
                     /\ res' = Written(r, totals', round + 2)
                     /\ pc' = "returned"
                  \/ /\ r.equivalence # "NotEquivalent"
                     /\ res' = r
                     /\ UNCHANGED pc
    /\ UNCHANGED input

\* The last check; the time counted for its instantiation is that of the one before.
CheckRandom ==
    /\ pc = "loop" /\ round = additional
    /\ instantiated' = instantiated + 1
    /\ timeout' = Adjusted(timeout, runtime)
    /\ \E time \in InstantiationTimes, pair \in Instances("random") :
         \E r \in Reports(WithoutZX(pair), pair) :
           /\ Check(r)
           /\ Takes(time, r)
           /\ totals' = Added(totals, r)
           /\ res' = [Written(r, totals', additional + 2) EXCEPT
                        !.equivalence = IF timeout' < 0 THEN "NoInformation" ELSE @]
    /\ pc' = "returned"
    /\ UNCHANGED <<input, round, runtime>>

Terminated == pc = "returned" /\ UNCHANGED vars

Next ==
    CheckZX \/ InstantiateZero \/ CheckZero \/ CheckPhases \/ CheckRandom \/ Terminated

Spec == Init /\ [][Next]_vars

-----------------------------------------------------------------------------
(* Properties *)

\* "Number of circuit instantiations performed" (pyqcec.pyi:95), and the statistics of
\* all checks together, are in the report, whichever way the flow is left.  The one
\* exception: when the time runs out in the loop, the last check is not included.
TotalsCoverChecks ==
    pc = "returned" =>
        /\ res.instantiations = instantiated
        /\ \/ \A field \in DOMAIN spent : res[field] = spent[field]
           \/ timeout < 0 /\ 1 < instantiated /\ instantiated < additional + 2

\* The report is sound, as far as the managers are, which take circuits without operations
\* for equivalent; a check that shows non-equivalence is the last one and is
\* reported, unless the time is up by then; and "either equivalence or non-equivalence
\* can be proven" (docs/parametrized_circuits.md:24) if a checker that decides is
\* configured and there is no timeout.
VerdictFollowsChecks ==
    pc = "returned" =>
        /\ res.equivalence = "Equivalent" => circuits.equivalent \/ circuits.empty
        /\ res.equivalence = "NotEquivalent" => ~circuits.equivalent
        /\ refuted /\ timeout >= 0 => res.equivalence = "NotEquivalent"
        /\ limit = 0 /\ (config.alternating \/ config.construction)
             => res.equivalence \in {"Equivalent", "NotEquivalent"}

\* However many instantiations are asked for, two checks and one instantiation are all that
\* may come on top of the timeout, as long as the checks measure the time they take: what
\* the flow keeps no account of is the first check of instantiated circuits, and what it
\* cannot stop any more is the check at which the time runs out, or the last one.  What a
\* check takes beyond its measure, every check may add.  The one exception: a timeout that
\* is used up exactly (0 left) is taken for none at all.
TimeBounded ==
    limit > 0 /\ timeout # 0 =>
        elapsed < limit + 2 * Max(CheckTimes) + Max(InstantiationTimes)
                    + (instantiated + 1) * Max(JoinTimes)
================================================================================
