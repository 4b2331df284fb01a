-------------------------- MODULE MCParameterizedCheck --------------------------
(* An instance of ParameterizedCheck for TLC. *)
EXTENDS ParameterizedCheck

Request == [alternating |-> TRUE, construction |-> FALSE, simulation |-> TRUE,
            zx |-> TRUE, maxSims |-> 1, parallel |-> TRUE, nthreads |-> 2,
            timed |-> FALSE]

\* The default checkers, simulations only, and the ZX checker only
AllRequests ==
    {Request, [Request EXCEPT !.alternating = FALSE],
     [Request EXCEPT !.alternating = FALSE, !.simulation = FALSE]}

\* Circuits that are equivalent or not, that the alternating checker cannot handle, and
\* that have no operations left
Pair == [symbolic |-> TRUE, empty |-> FALSE, equivalent |-> TRUE, stimuli |-> 2,
         transformable |-> TRUE, alternatable |-> TRUE, unbuildable |-> {}, unrunnable |-> {}]

AllPairs ==
    {Pair, [Pair EXCEPT !.equivalent = FALSE], [Pair EXCEPT !.alternatable = FALSE],
     [Pair EXCEPT !.equivalent = FALSE, !.symbolic = FALSE, !.empty = TRUE]}
================================================================================
