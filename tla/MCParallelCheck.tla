---------------------------- MODULE MCParallelCheck ----------------------------
(* Instances of ParallelCheck for TLC. *)
EXTENDS ParallelCheck

\* What the runs below ask for differs from this in a field or two.
Request == [alternating |-> TRUE, construction |-> FALSE, simulation |-> TRUE,
            zx |-> TRUE, maxSims |-> 3, parallel |-> TRUE, nthreads |-> 3,
            timed |-> FALSE]

Pair == [symbolic |-> FALSE, empty |-> FALSE, equivalent |-> TRUE, stimuli |-> 4,
         transformable |-> TRUE, alternatable |-> TRUE, unbuildable |-> {}, unrunnable |-> {}]

Pairs == {[Pair EXCEPT !.equivalent = e] : e \in BOOLEAN}

\* The default flow, with and without a timeout, on fewer threads than there are
\* tasks; the same without the ZX checker, whose slot is left to another simulation; and
\* simulations alone.
DefaultRequests ==
    {Request, [Request EXCEPT !.timed = TRUE], [Request EXCEPT !.zx = FALSE],
     [Request EXCEPT !.zx = FALSE, !.alternating = FALSE]}

\* Fewer stimuli than simulations asked for; circuits for which the construction checker
\* takes over and the ZX checker is switched off; simulations, some of which throw while
\* others may refute; and simulations and an alternating checker that may not be built.
DefaultPairs ==
    {[p EXCEPT !.stimuli = 2] : p \in Pairs}
        \cup {[Pair EXCEPT !.stimuli = 3, !.transformable = FALSE, !.alternatable = FALSE],
              [Pair EXCEPT !.stimuli = 2, !.unbuildable = {"simulation", "alternating"}],
              [Pair EXCEPT !.stimuli = 2, !.equivalent = FALSE,
                           !.unrunnable = {"simulation"}]}

\* Three checkers on two threads
MoreCheckersThanThreads ==
    {[Request EXCEPT !.construction = TRUE, !.simulation = FALSE, !.nthreads = 2]}

\* No checker that decides
NothingDecides == {[Request EXCEPT !.alternating = FALSE]}
================================================================================
