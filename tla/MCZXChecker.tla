----------------------------- MODULE MCZXChecker -----------------------------
(* Instances of ZXChecker for TLC: circuits of two and three qubits. *)
EXTENDS ZXChecker

\* On these physical qubits, logical qubits lie in order.
Circuit(physical, output, carries, hadamards, nancillae) ==
    LET rank(q) == Cardinality({r \in physical : r < q})
    IN [layout |-> [q \in physical |-> rank(q)], output |-> output,
        carries |-> [q \in physical |-> carries[rank(q) + 1]],
        hadamards |-> hadamards, nancillae |-> nancillae]

\* The same with another layout
Laid(c, layout) == [c EXCEPT !.layout = layout]

PartialOutputs(physical) ==
    UNION {Injection(D, 0 .. Cardinality(physical) - 1) : D \in SUBSET physical}

\* Circuits on two qubits, with any outputs and layouts, on physical qubits with a gap too
Twos ==
    {Laid(Circuit(ph, o, c, h, 0), l) :
        ph \in {{0, 1}}, o \in PartialOutputs({0, 1}), c \in {<<0, 1>>, <<1, 0>>},
        h \in {{}, {1}}, l \in Bijection({0, 1}, {0, 1})}
    \cup {Circuit({1, 2}, o, <<0, 1>>, {}, 0) : o \in PartialOutputs({1, 2})}

\* Three qubits, of which one is ancillary or not
Threes(n) ==
    {Circuit({0, 1, 2}, o, c, h, n) :
        o \in PartialOutputs({0, 1, 2}), c \in {<<0, 1, 2>>, <<2, 0, 1>>}, h \in {{}, {2}}}
    \cup {Circuit({1, 2, 3}, o, <<0, 1, 2>>, {}, n) :
        o \in {(1 :> 0) @@ (2 :> 1), (1 :> 0) @@ (3 :> 2)}}

PlainThrees(n) ==
    {Circuit({0, 1, 2}, o, <<0, 1, 2>>, {}, n) :
        o \in {(0 :> 0) @@ (1 :> 1) @@ (2 :> 2), (0 :> 0) @@ (1 :> 1), (2 :> 0), (0 :> 1)}}

Identity == Circuit({0, 1}, (0 :> 0) @@ (1 :> 1), <<0, 1>>, {}, 0)

SomeInputs ==
    {[qc |-> pair, size |-> 0] :
       pair \in (Twos \X Twos) \cup UNION {PlainThrees(n) \X Threes(n) : n \in {0, 1}}}
    \cup {[qc |-> <<Identity, Identity>>, size |-> 2]}
================================================================================
