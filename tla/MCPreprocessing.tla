---------------------------- MODULE MCPreprocessing ----------------------------
(* Instances of Preprocessing for TLC: circuits of up to three qubits. *)
EXTENDS Preprocessing

\* What is not output is garbage.
Circuit(layout, output, idle) ==
    [layout |-> layout, output |-> output, idle |-> idle, ancillary |-> {},
     garbage |-> Range(layout) \ Range(output)]

Physical(n) == 0 .. n - 1

PartialPermutations(n) == UNION {Injection(D, Physical(n)) : D \in SUBSET Physical(n)}

AllCircuits(n) ==
    {Circuit(l, o, i) : l \in Bijection(Physical(n), Physical(n)),
                        o \in PartialPermutations(n), i \in SUBSET Physical(n)}

\* All qubits are output, or all but one, or none.
AlmostAll(n) ==
    {c \in AllCircuits(n) : Cardinality(DOMAIN c.output) \in {0, n - 1, n}}

\* Logical qubits lie on the physical ones in order.
Plain(n) == {c \in AllCircuits(n) : \A p \in Physical(n) : c.layout[p] = p}

\* The last logical qubit is ancillary, or none is.
WithAncilla(pool) ==
    pool \cup {[c EXCEPT !.ancillary = {NQubits(c) - 1}] :
                    c \in {d \in pool : NQubits(d) > 0}}

SomePairs ==
    WithAncilla(Plain(2)) \X WithAncilla({c \in AlmostAll(2) : Cardinality(c.idle) < 2})
    \cup {c \in WithAncilla(Plain(3)) : Cardinality(c.idle) = 1 /\ DOMAIN c.output = 0..2}
             \X WithAncilla(Plain(2))
    \cup (Plain(2) \X AllCircuits(2))
    \cup (AllCircuits(0) \cup AllCircuits(1)) \X AllCircuits(2)
    \cup {c \in Plain(3) : Cardinality(c.idle) > 1} \X AllCircuits(1)
    \cup {c \in AlmostAll(2) : c.idle # {}} \X {c \in AlmostAll(3) : Cardinality(c.idle) = 2}
================================================================================
