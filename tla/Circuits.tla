------------------------------- MODULE Circuits -------------------------------
(* Circuits on a few qubits, what they compute, and the operations on their diagrams *)
(* that the decision diagram checkers ask of the MQT libraries.                      *)
(*                                                                                   *)
(* Gates are classical and reversible, so that a state is a basis state, the set of  *)
(* the qubits that are 1, and a diagram is a function on basis states.  Amplitudes   *)
(* and phases are left out: they have no part in which gate is applied when, to      *)
(* which qubits, and on which side.                                                  *)
EXTENDS Naturals, Sequences, FiniteSets, SequencesExt, Functions

CONSTANT Qubits

BasisStates == SUBSET Qubits

\* A layout says which logical qubit a physical qubit holds.
Layouts == Bijection(Qubits, Qubits)

Trivial == [q \in Qubits |-> q]

Gates == [type : {"x", "swap", "dcx"}, controls : SUBSET Qubits, targets : Seq(Qubits)]

\* A gate has as many targets as its type needs, and no qubit in two places.
IsGate(g) ==
    /\ g \in Gates
    /\ Len(g.targets) = IF g.type = "x" THEN 1 ELSE 2
    /\ \A j, k \in DOMAIN g.targets : g.targets[j] = g.targets[k] => j = k
    /\ \A j \in DOMAIN g.targets : g.targets[j] \notin g.controls

IsCircuit(c) ==
    /\ c.ops \in Seq(Gates) /\ \A k \in DOMAIN c.ops : IsGate(c.ops[k])
    /\ c.layout \in Layouts /\ c.output \in Layouts

Circuit(ops, layout, output) == [ops |-> ops, layout |-> layout, output |-> output]

UsedQubits(g) == g.controls \cup Range(g.targets)

----------------------------------------------------------------------------
(* What a gate does to a basis state *)

Flip(s, q) == (s \ {q}) \cup ({q} \ s)
ControlledFlip(s, c, t) == IF c \in s THEN Flip(s, t) ELSE s

Act(g, s) ==
    LET t == g.targets
        there(u) == ControlledFlip(u, t[1], t[2])
        back(u) == ControlledFlip(u, t[2], t[1])
    IN  CASE ~(g.controls \subseteq s) -> s
          [] g.controls \subseteq s /\ g.type = "x"    -> Flip(s, t[1])
          [] g.controls \subseteq s /\ g.type = "dcx"  -> back(there(s))
          [] g.controls \subseteq s /\ g.type = "swap" -> there(back(there(s)))

\* The gate on the logical qubits that its physical qubits hold
On(g, permutation) ==
    [g EXCEPT !.controls = {permutation[q] : q \in @},
              !.targets = [k \in DOMAIN @ |-> permutation[@[k]]]]

\* dcx is the only one of these gates that is not its own inverse.
Adjoint(g) == [g EXCEPT !.targets = Reverse(@)]

----------------------------------------------------------------------------
(* Diagrams of operators: dd::getDD, dd::getInverseDD, Package::multiply *)

Matrices == [BasisStates -> BasisStates]
Identity == [s \in BasisStates |-> s]

\* A state vector is a matrix with one column.
Columns == [{{}} -> BasisStates]
Column(s) == [k \in {{}} |-> s]

Compose(F, G) == [s \in DOMAIN G |-> F[G[s]]]

GateDD(g, permutation) == [s \in BasisStates |-> Act(On(g, permutation), s)]
InverseGateDD(g, permutation) == GateDD(Adjoint(g), permutation)

\* dd::changePermutation: the state of qubit from[p] becomes that of qubit to[p].
Renaming(from, to) ==
    [s \in BasisStates |-> {to[p] : p \in {q \in Qubits : from[q] \in s}}]

----------------------------------------------------------------------------
(* What a circuit computes, said without task managers: load the input into the     *)
(* physical qubits, run all the gates on them, read the output off.                 *)

Computes(ops, layout, output) ==
    [s \in BasisStates |->
        LET loaded == {p \in Qubits : layout[p] \in s}
            after(u, g) == Act(g, u)
        IN  {output[p] : p \in FoldLeft(after, loaded, ops)}]

Meaning(c) == Computes(c.ops, c.layout, c.output)

\* The swaps of a circuit are absorbed into its layouts before it is checked
\* (qc::CircuitOptimizer::elidePermutations).
IsSwap(g) == g.type = "swap" /\ g.controls = {}
Elided(c) == c.layout = Trivial /\ \A g \in Range(c.ops) : ~IsSwap(g)
===============================================================================
