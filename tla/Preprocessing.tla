----------------------------- MODULE Preprocessing -----------------------------
(* What the constructor of the manager does to the qubits of two circuits:           *)
(* stripIdleQubits removes qubits on which nothing happens, setupAncillariesAndGarbage*)
(* makes both circuits equally large.                                                *)
(*                                                                                   *)
(* Physical qubits keep their numbers.  Logical qubits are renumbered when one is    *)
(* removed, in layouts and output permutations and in both circuits, and a logical   *)
(* qubit of one circuit stands for that of the same number in the other.  The        *)
(* operations of the circuits do not change; what matters of them here is which      *)
(* physical qubits they leave alone.                                                 *)
EXTENDS Integers, Sequences, FiniteSets, SequencesExt, Functions

\* A circuit is a record [layout, output, garbage, ancillary, idle]: the logical qubits
\* that physical qubits hold before and after it, two sets of logical qubits, and the set
\* of the physical qubits that no operation acts on.
CONSTANT CircuitPairs

VARIABLES
    circuits,           \* qc1 and qc2
    original,           \* what they were (a history variable)
    big,                \* which of them is largerCircuit
    todo,               \* physical qubits of largerCircuitLayoutCopy not yet visited
    difference,         \* qubitDifference
    removed,            \* physical qubits and outputs taken out of the larger circuit
    wasGarbage,         \* logical qubits among them that are garbage
    stage

vars == <<circuits, original, big, todo, difference, removed, wasGarbage, stage>>

Both == {1, 2}
small == 3 - big

NQubits(c) == Cardinality(DOMAIN c.layout)
Logicals(c) == 0 .. NQubits(c) - 1
MaxLogical(c) == Max(Range(c.layout) \cup {-1})
Holder(c, l) == CHOOSE p \in DOMAIN c.layout : c.layout[p] = l

\* Physical qubits are numbers.  Logical qubits are numbered without gaps.
LayoutFits(c) ==
    /\ DOMAIN c.layout \subseteq Nat /\ IsFiniteSet(DOMAIN c.layout)
    /\ c.layout \in Bijection(DOMAIN c.layout, Logicals(c))

IsCircuit(c) ==
    c = [layout |-> c.layout, output |-> c.output, garbage |-> c.garbage,
         ancillary |-> c.ancillary, idle |-> c.idle]

WellFormed(c) ==
    /\ IsCircuit(c) /\ LayoutFits(c)
    /\ DOMAIN c.output \subseteq DOMAIN c.layout
    /\ c.output \in Injection(DOMAIN c.output, Logicals(c))
    /\ c.garbage \subseteq Logicals(c) \ Range(c.output) /\ c.ancillary \subseteq Logicals(c)

ASSUME CircuitsAssumption ==
    \A pair \in CircuitPairs : DOMAIN pair = {1, 2} /\ WellFormed(pair[1]) /\ WellFormed(pair[2])

----------------------------------------------------------------------------
(* Operations of qc::QuantumComputation *)

Outputs(c, p) == {c.output[q] : q \in {p} \cap DOMAIN c.output}

\* The logical qubits above l move down by one.
Erased(S, l) == {IF q > l THEN q - 1 ELSE q : q \in S \ {l}}

RemoveQubit(c, l) ==
    LET without(f) == Restrict(f, DOMAIN f \ {Holder(c, l)})
    IN  [c EXCEPT !.layout = without(@), !.output = without(@),
                  !.garbage = Erased(@, l), !.ancillary = Erased(@, l)]

AddAncillaryQubit(c, p, outputs) ==
    LET l == NQubits(c)
    IN  [c EXCEPT !.layout = [q \in DOMAIN @ \cup {p} |-> IF q = p THEN l ELSE @[q]],
                  !.output = [q \in DOMAIN @ \cup {p : o \in outputs} |->
                                IF q = p THEN CHOOSE o \in outputs : TRUE ELSE @[q]],
                  !.ancillary = @ \cup {l}]

\* New physical qubits come after those in use; they are output where they are, and no
\* operation acts on them.
FirstFree(c) == 1 + Max(DOMAIN c.layout \cup {-1})

AddAncillaryRegister(c, n) ==
    LET register == FirstFree(c) .. FirstFree(c) + n - 1
        logical(p) == NQubits(c) + p - FirstFree(c)
        extended(f) == [p \in DOMAIN f \cup register |-> IF p \in register THEN logical(p) ELSE f[p]]
    IN  [c EXCEPT !.layout = extended(@), !.output = extended(@),
                  !.ancillary = @ \cup {logical(p) : p \in register},
                  !.idle = @ \cup register]

\* Garbage is not output.
SetGarbage(c, l) ==
    [c EXCEPT !.garbage = @ \cup {l}, !.output = RestrictValues(@, LAMBDA o : o # l)]

----------------------------------------------------------------------------
Init ==
    /\ circuits \in CircuitPairs
    /\ original = circuits
    /\ big = IF NQubits(circuits[1]) > NQubits(circuits[2]) THEN 1 ELSE 2
    /\ todo = DOMAIN circuits[big].layout
    /\ difference = NQubits(circuits[big]) - NQubits(circuits[small])
    /\ removed = <<>>
    /\ wasGarbage = {}
    /\ stage = "strip"

----------------------------------------------------------------------------
(* stripIdleQubits: the physical qubits of the larger circuit from the last to the   *)
(* first                                                                             *)

\* (a mistake) The layout is not renumbered.
RenumberedOutputOnly(c, l) ==
    LET down(f) == [p \in DOMAIN f |-> IF f[p] > l THEN f[p] - 1 ELSE f[p]]
    IN  [c EXCEPT !.output = down(@)]

\* The logical qubits above l move down by one, in the permutations.
Renumbered(c, l) ==
    LET down(f) == [p \in DOMAIN f |-> IF f[p] > l THEN f[p] - 1 ELSE f[p]]
    IN  [c EXCEPT !.layout = down(@), !.output = down(@)]

Stripped(c, l) == Renumbered(RemoveQubit(c, l), l)

\* (a mistake) The logical qubit may be output elsewhere.
SafeIfNotOutput(c, p, l) == Outputs(c, p) \subseteq {l}

\* It is safe to remove a qubit that is not output, or that is output where it is.
Safe(c, p, l) ==
    \/ p \notin DOMAIN c.output /\ l \notin Range(c.output)
    \/ p \in DOMAIN c.output /\ c.output[p] = l

Visited == Max(todo)
Logical == circuits[big].layout[Visited]

OnlyInLarger ==
    difference > 0 /\ Logical > MaxLogical(circuits[small])

Strippable(i) ==
    LET p == Holder(circuits[i], Logical)
    IN  p \in circuits[i].idle /\ Safe(circuits[i], p, Logical)

StripFromLarger ==
    /\ stage = "strip" /\ todo # {} /\ OnlyInLarger /\ Strippable(big)
    /\ circuits' = [circuits EXCEPT ![big] = Stripped(@, Logical)]
    /\ difference' = difference - 1
    /\ todo' = todo \ {Visited}
    /\ UNCHANGED <<original, big, removed, wasGarbage, stage>>

\* (a mistake) The qubit is removed from the smaller circuit, but its permutations keep
\* their numbers.
StripFromBothUnevenly ==
    /\ stage = "strip" /\ todo # {} /\ ~OnlyInLarger /\ \A i \in Both : Strippable(i)
    /\ circuits' = [circuits EXCEPT ![big] = Stripped(@, Logical),
                                    ![small] = RemoveQubit(@, Logical)]
    /\ todo' = todo \ {Visited}
    /\ UNCHANGED <<original, big, difference, removed, wasGarbage, stage>>

StripFromBoth ==
    /\ stage = "strip" /\ todo # {} /\ ~OnlyInLarger /\ \A i \in Both : Strippable(i)
    /\ circuits' = [i \in Both |-> Stripped(circuits[i], Logical)]
    /\ todo' = todo \ {Visited}
    /\ UNCHANGED <<original, big, difference, removed, wasGarbage, stage>>

Keep ==
    /\ stage = "strip" /\ todo # {}
    /\ ~(Strippable(big) /\ (OnlyInLarger \/ Strippable(small)))
    /\ todo' = todo \ {Visited}
    /\ UNCHANGED <<circuits, original, big, difference, removed, wasGarbage, stage>>

----------------------------------------------------------------------------
(* setupAncillariesAndGarbage *)

BeginSetup ==
    /\ stage = "strip" /\ todo = {}
    /\ big' = IF NQubits(circuits[1]) > NQubits(circuits[2]) THEN 1 ELSE 2
    /\ difference' = NQubits(circuits[big']) - NQubits(circuits[3 - big'])
    /\ stage' = IF difference' = 0 THEN "done" ELSE "remove"
    /\ UNCHANGED <<circuits, original, todo, removed, wasGarbage>>

\* The last logical qubits are taken out of the larger circuit ...
RemoveLast ==
    /\ stage = "remove" /\ Len(removed) < difference
    /\ LET c == circuits[big]
           l == MaxLogical(c)
           p == Holder(c, l)
       IN  /\ removed' = Append(removed, [qubit |-> p, outputs |-> Outputs(c, p)])
           /\ wasGarbage' = wasGarbage \cup ({l} \cap c.garbage)
           /\ circuits' = [circuits EXCEPT ![big] = RemoveQubit(@, l)]
    /\ UNCHANGED <<original, big, todo, difference, stage>>

\* ... the smaller one gets as many ancillary qubits ...
AddRegister ==
    /\ stage = "remove" /\ Len(removed) = difference
    /\ circuits' = [circuits EXCEPT ![small] = AddAncillaryRegister(@, difference)]
    /\ stage' = "restore"
    /\ UNCHANGED <<original, big, todo, difference, removed, wasGarbage>>

\* ... and the larger one gets back its own, as ancillary qubits.
Readded(c, r) == AddAncillaryQubit(c, r.qubit, r.outputs)

\* (a mistake) Where the qubit was output is forgotten.
RestoreWithoutOutput ==
    /\ stage = "restore" /\ removed # <<>>
    /\ LET c == AddAncillaryQubit(circuits[big], Last(removed).qubit, {})
           l == NQubits(c) - 1
       IN  circuits' = [circuits EXCEPT
                ![big] = IF l \in wasGarbage THEN SetGarbage(c, l) ELSE c,
                ![small] = SetGarbage(@, l)]
    /\ removed' = Front(removed)
    /\ stage' = IF removed' = <<>> THEN "done" ELSE stage
    /\ UNCHANGED <<original, big, todo, difference, wasGarbage>>

\* (a mistake) The ancillary qubit of the smaller circuit is not made garbage.
RestoreWithoutGarbage ==
    /\ stage = "restore" /\ removed # <<>>
    /\ LET c == Readded(circuits[big], Last(removed))
           l == NQubits(c) - 1
       IN  circuits' = [circuits EXCEPT
                ![big] = IF l \in wasGarbage THEN SetGarbage(c, l) ELSE c]
    /\ removed' = Front(removed)
    /\ stage' = IF removed' = <<>> THEN "done" ELSE stage
    /\ UNCHANGED <<original, big, todo, difference, wasGarbage>>

Restore ==
    /\ stage = "restore" /\ removed # <<>>
    /\ LET c == Readded(circuits[big], Last(removed))
           l == NQubits(c) - 1
       IN  circuits' = [circuits EXCEPT
                ![big] = IF l \in wasGarbage THEN SetGarbage(c, l) ELSE c,
                ![small] = SetGarbage(@, l)]
    /\ removed' = Front(removed)
    /\ stage' = IF removed' = <<>> THEN "done" ELSE stage
    /\ UNCHANGED <<original, big, todo, difference, wasGarbage>>

Terminated == stage = "done" /\ UNCHANGED vars

\* DDAlternatingChecker::canHandle: no logical qubit is ancillary in both circuits and acted
\* on in both.
CanHandle(c1, c2) ==
    \A l \in c1.ancillary \cap c2.ancillary :
        Holder(c1, l) \in c1.idle \/ Holder(c2, l) \in c2.idle

Next ==
    \/ StripFromLarger \/ StripFromBoth \/ Keep
    \/ BeginSetup \/ RemoveLast \/ AddRegister \/ Restore
    \/ Terminated

Spec == Init /\ [][Next]_vars

----------------------------------------------------------------------------
(* Properties *)

\* The logical qubits of each circuit are always numbered from 0 without gaps, as the
\* vectors of flags that they index require, and outputs, garbage and ancillary qubits are
\* among them whenever the circuits are whole
\* (EquivalenceCheckingManager.cpp:46-53, 179-188).
TypeOK ==
    /\ \A i \in Both :
        /\ LayoutFits(circuits[i])
        /\ stage \in {"strip", "done"} => WellFormed(circuits[i])
    /\ big \in Both /\ difference \in Nat
    /\ todo \subseteq DOMAIN original[big].layout
    /\ stage \in {"strip", "remove", "restore", "done"}

Whole == stage \in {"strip", "done"}

\* The logical qubits of the register that the smaller circuit gets
Added(i) ==
    IF i # big /\ stage \in {"restore", "done"}
    THEN {l \in Logicals(circuits[i]) : l >= NQubits(circuits[i]) - difference}
    ELSE {}

\* The physical qubits that the circuit has had from the start
Own(i) == {p \in DOMAIN circuits[i].layout \cap DOMAIN original[i].layout :
             circuits[i].layout[p] \notin Added(i)}

\* However logical qubits are renumbered, two physical qubits of the circuits stand for the
\* same logical qubit if and only if they did from the start
\* (EquivalenceCheckingManager.cpp:92-177).
QubitsPaired ==
    \A p \in Own(1), q \in Own(2) :
        circuits[1].layout[p] = circuits[2].layout[q]
            <=> original[1].layout[p] = original[2].layout[q]

\* A qubit that stays is output where it was, as the qubit that it was, and is garbage if
\* it was, though the qubits of the larger circuit may be taken out and put back
\* (EquivalenceCheckingManager.cpp:210-233).
OutputsKept ==
    Whole => \A i \in Both : \A p, q \in Own(i) :
        /\ circuits[i].layout[q] \in Outputs(circuits[i], p)
                <=> original[i].layout[q] \in Outputs(original[i], p)
        /\ circuits[i].layout[q] \in circuits[i].garbage
                <=> original[i].layout[q] \in original[i].garbage

\* The circuit lets the logical qubit through unchanged, and outputs it where it was or
\* not at all.
Untouched(c, l) ==
    LET p == Holder(c, l)
    IN  /\ p \in c.idle
        /\ \A q \in DOMAIN c.output : (q = p) <=> c.output[q] = l

\* An input qubit of the circuits as they were that both of them, if both have it, leave
\* alone
Superfluous(l) ==
    \A i \in Both : l \in Logicals(original[i]) => Untouched(original[i], l)

Gone(i, l) == Whole /\ Holder(original[i], l) \notin Own(i)

\* A qubit is removed if and only if it makes no difference in either circuit, and then from
\* both: the one pass over a copy of the layout, in which the circuits change under way,
\* finds every such qubit and no other (EquivalenceCheckingManager.cpp:61-165).
ExactlySuperfluousStripped ==
    /\ \A i \in Both : \A l \in Logicals(original[i]) : Gone(i, l) =>
         /\ Superfluous(l)
         /\ \A j \in Both : l \in Logicals(original[j]) => Gone(j, l)
    /\ stage = "done" => \A i \in Both : \A l \in Logicals(original[i]) :
         Superfluous(l) => Gone(i, l)

\* In the end both circuits have the same logical qubits, and those that only one of them
\* had are ancillary in both, and garbage in the circuit that did not have them
\* (EquivalenceCheckingManager.hpp:183-186).  So the alternating checker is given up only for
\* the sake of ancillary qubits that both circuits had from the start.
AncillariesAgree ==
    stage = "done" =>
        /\ CanHandle(circuits[1], circuits[2]) <=> CanHandle(original[1], original[2])
        /\ Logicals(circuits[1]) = Logicals(circuits[2])
        /\ \A i \in Both : \A l \in Added(i) :
            /\ \A j \in Both : l \in circuits[j].ancillary
            /\ l \in circuits[i].garbage /\ l \notin Range(circuits[i].output)
=================================================================================
