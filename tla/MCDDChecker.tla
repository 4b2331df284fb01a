------------------------------ MODULE MCDDChecker ------------------------------
(* Instances of DDChecker for TLC: two qubits, up to two gates in each circuit. *)
EXTENDS DDChecker

TwoQubits == {0, 1}

Gate(type, controls, targets) == [type |-> type, controls |-> controls, targets |-> targets]

Flips == {Gate("x", {}, <<0>>), Gate("dcx", {}, <<0, 1>>), Gate("swap", {}, <<0, 1>>)}

Programs == {<<>>, <<Gate("x", {0}, <<1>>)>>} \cup [1 .. 1 -> Flips] \cup [1 .. 2 -> Flips]

\* Layouts are relative: those of the second circuit may be trivial without loss.
SomePairs ==
    {<<Circuit(a, l[1], l[2]), Circuit(b, Trivial, Trivial)>> :
        a, b \in Programs, l \in {m \in Layouts \X Layouts : Trivial \in Range(m)}}

Configured(kind, scheme, fused) == [kind |-> kind, scheme |-> scheme, fused |-> fused]

SomeConfigurations ==
    {Configured("alternating", s, FALSE) :
        s \in {"sequential", "one_to_one", "lookahead", "proportional"}}
    \cup {Configured("alternating", "gate_cost", TRUE),
          Configured("construction", "proportional", TRUE),
          Configured("simulation", "gate_cost", FALSE)}

SomeStimuli == {{0}, {0, 1}}

SomeCosts == [k \in {<<"x", 1>>, <<"dcx", 0>>} |-> IF k[1] = "dcx" THEN 2 ELSE 0]

NaiveAlternating == {Configured("alternating", "one_to_one", FALSE)}
================================================================================
