--------------------------- MODULE MCSequentialCheck ---------------------------
(* Instances of SequentialCheck and LifeCycle for TLC. *)
EXTENDS LifeCycle

\* What the runs below ask for differs from this in a field or two.
Request == [alternating |-> TRUE, construction |-> FALSE, simulation |-> TRUE,
            zx |-> TRUE, maxSims |-> 2, parallel |-> FALSE, nthreads |-> 2,
            timed |-> FALSE]

Pair == [symbolic |-> FALSE, empty |-> FALSE, equivalent |-> TRUE, stimuli |-> 4,
         transformable |-> TRUE, alternatable |-> TRUE, unbuildable |-> {}, unrunnable |-> {}]

Pairs == {[Pair EXCEPT !.equivalent = e] : e \in BOOLEAN}

\* Every choice of checkers, some with a timeout, and no simulations to perform
AllRequests ==
    {[Request EXCEPT !.alternating = a, !.construction = c, !.zx = z, !.simulation = s] :
        a, c, z, s \in BOOLEAN}
    \cup {[Request EXCEPT !.timed = TRUE, !.alternating = FALSE, !.construction = TRUE,
                         !.maxSims = 3],
          [Request EXCEPT !.timed = TRUE, !.simulation = FALSE],
         [Request EXCEPT !.maxSims = 0, !.alternating = FALSE]}

\* Few stimuli and circuits that are symbolic, empty or that a checker cannot handle; and
\* checkers that throw
AllPairs ==
    {[p EXCEPT !.stimuli = 1, !.transformable = t, !.symbolic = s] :
        p \in Pairs, t, s \in BOOLEAN}
    \cup {[p EXCEPT !.stimuli = 1, !.alternatable = FALSE] : p \in Pairs}
    \cup {[Pair EXCEPT !.stimuli = 1, !.unrunnable = {k}] : k \in Kinds}
    \cup {[Pair EXCEPT !.stimuli = 1, !.unbuildable = {k}] : k \in Kinds \ {"zx"}}
    \cup Pairs \cup {[p EXCEPT !.empty = TRUE] : p \in Pairs}

TimedRequest == {[Request EXCEPT !.timed = TRUE]}
================================================================================
