------------------------------ MODULE ZXChecker ------------------------------
(***************************************************************************)
(* ZXEquivalenceChecker: the diagram of the first circuit, inverted, and   *)
(* of the second is rewritten until no rule applies, or until the checker  *)
(* is told to stop, and then compared with plain wires.                    *)
(*                                                                         *)
(* Of the diagram the loops only see which rules apply; every application  *)
(* of a rule, to a spider or a pair of them, takes away something that     *)
(* only a finite number of applications can take away.  What is left when  *)
(* nothing can be rewritten any more are either wires, or more than that.  *)
(*                                                                         *)
(* Of a circuit the comparison only sees the qubit that each output        *)
(* carries, and whether an odd number of Hadamard gates acts on it.  It is *)
(* a record                                                                *)
(*   layout, output  the logical qubits that physical qubits hold before   *)
(*                   and after it; what is not output is garbage           *)
(*   carries         the logical input that ends up on a physical qubit    *)
(*   hadamards       the physical qubits with a Hadamard gate              *)
(*   nancillae       how many logical qubits, the last, are ancillary      *)
(***************************************************************************)
EXTENDS Naturals, Sequences, FiniteSets, SequencesExt, Functions

CONSTANT Inputs   \* pairs of circuits and the rewrites they need: records [qc, size]

NQubits(c) == Cardinality(DOMAIN c.layout)
Logicals(c) == 0 .. NQubits(c) - 1

\* What the constructors of a circuit establish: every physical qubit has a logical one and
\* the gates permute them, and no two physical qubits output the same.
IsCircuit(c) ==
    /\ DOMAIN c.layout \subseteq Nat /\ IsFiniteSet(DOMAIN c.layout)
    /\ {c.layout, c.carries} \subseteq Bijection(DOMAIN c.layout, Logicals(c))
    /\ DOMAIN c.output \subseteq DOMAIN c.layout
    /\ c.output \in Injection(DOMAIN c.output, Logicals(c))
    /\ c.nancillae \in 0 .. NQubits(c)

\* setupAncillariesAndGarbage has made both as large, with as many ancillary qubits.
ASSUME InputsAssumption ==
    \A input \in Inputs :
        /\ IsCircuit(input.qc[1]) /\ IsCircuit(input.qc[2])
        /\ NQubits(input.qc[1]) = NQubits(input.qc[2])
        /\ input.qc[1].nancillae = input.qc[2].nancillae
        /\ input.size \in Nat

Rules == {"spider", "id", "pivotPauli", "localComp", "pivot", "gadget", "pivotGadget"}

VARIABLES
    qc,          \* the two circuits
    p,           \* p1 and p2, their permutations
    size,        \* a bound on the rewrites that the miter still allows
    applicable,  \* the rules that apply to it
    calls,       \* the procedures under way, the innermost last
    signalled,   \* done
    pc,
    equivalence

vars == <<qc, p, size, applicable, calls, signalled, pc, equivalence>>

-----------------------------------------------------------------------------
(* The permutations *)

Garbage(c) == Logicals(c) \ Range(c.output)
Ancillary(c) == {l \in Logicals(c) : l >= NQubits(c) - c.nancillae}

\* The position of a number in a set of them
Rank(S, x) == Cardinality({y \in S : y < x})

\* A partial permutation is completed on the numbers below n, from the least.
Completed(f, n) ==
    LET targets == (0 .. n - 1) \ Range(f)
        free == (0 .. n - 1) \ DOMAIN f
        filled == {q \in free : Rank(free, q) < Cardinality(targets)}
    IN  [q \in DOMAIN f \cup filled |->
            IF q \in DOMAIN f THEN f[q]
            ELSE CHOOSE t \in targets : Rank(targets, t) = Rank(free, q)]

\* The second after the first
Concat(p1, p2) == [v \in {v \in DOMAIN p1 : p1[v] \in DOMAIN p2} |-> p2[p1[v]]]

\* (a mistake) The wires are numbered like physical qubits.
InvertPermutationsWithoutLayout(c) == AntiFunction(Completed(c.output, NQubits(c)))

\* The wire at the end of which a logical qubit is output.  The wires of a diagram are
\* numbered like the logical qubits at their beginning.
InvertPermutations(c) ==
    Concat(AntiFunction(Completed(c.output, NQubits(c))),
           Completed(c.layout, NQubits(c)))

\* The last wires begin with an ancillary qubit, and end with it where p says.
Ancillae == Ancillary(qc[1])
Plugged(i) == {p[i][a] : a \in Ancillae}

-----------------------------------------------------------------------------
(* The loops.  A call is a record [proc, part, todo, more, simplified]: the  *)
(* calls left to make in its first part or in this round of its loop,        *)
(* whether any of those made has changed the diagram, and whether any of the *)
(* rounds before has.                                                        *)

First == [fullReduceApproximate |-> <<"fullReduce">>,
          fullReduce |-> <<"toGraphlike", "interiorClifford">>,
          clifford |-> <<>>,
          interiorClifford |-> <<"spider">>]

Round == [fullReduceApproximate |-> <<"approximateCliffords", "fullReduce">>,
          fullReduce |-> <<"clifford", "gadget", "interiorClifford", "pivotGadget">>,
          clifford |-> <<"interiorClifford", "pivot">>,
          interiorClifford |-> <<"id", "spider", "pivotPauli", "localComp">>]

NewCall(proc) == [proc |-> proc, part |-> "first", todo |-> First[proc],
                  more |-> FALSE, simplified |-> FALSE]

Call == Last(calls)
Callee == Head(Call.todo)
Reducing == pc = "reduce" /\ calls # <<>>

Init ==
    /\ \E input \in Inputs : qc = input.qc /\ size = input.size
    /\ p = <<InvertPermutations(qc[1]), InvertPermutations(qc[2])>>
    /\ applicable = {}
    /\ calls = <<>>
    /\ signalled = FALSE
    /\ pc = "construct"
    /\ equivalence = "NoInformation"

\* The constructor, in which an exception ends the program, and the call of run().
Construct ==
    /\ pc = "construct"
    /\ pc' = IF \A i \in {1, 2} : Ancillae \subseteq DOMAIN p[i] THEN "reduce" ELSE "terminated"
    /\ calls' = <<NewCall("fullReduceApproximate")>>
    /\ UNCHANGED <<qc, p, size, applicable, signalled, equivalence>>

\* A spider may come to match any rule, as long as there is something to rewrite.
Rematched == applicable' \in IF size' = 0 THEN {{}} ELSE SUBSET Rules

Enter ==
    /\ Reducing /\ Call.todo # <<>> /\ Callee \in DOMAIN First
    /\ calls' = Append([calls EXCEPT ![Len(calls)].todo = Tail(@)], NewCall(Callee))
    /\ UNCHANGED <<qc, p, size, applicable, signalled, pc, equivalence>>

\* toGraphlike, unless done, and approximateCliffords change the diagram but do not count.
Transform ==
    /\ Reducing /\ Call.todo # <<>> /\ Callee \in {"toGraphlike", "approximateCliffords"}
    /\ calls' = [calls EXCEPT ![Len(calls)].todo = Tail(@)]
    /\ UNCHANGED size
    /\ IF signalled /\ Callee = "toGraphlike" THEN UNCHANGED applicable ELSE Rematched
    /\ UNCHANGED <<qc, p, signalled, pc, equivalence>>

\* (a mistake) The change is not reported.
RewriteUnreported ==
    /\ Reducing /\ Call.todo # <<>> /\ Callee \in applicable
    /\ signalled => Callee = "gadget"
    /\ size' = size - 1
    /\ Rematched
    /\ UNCHANGED <<qc, p, calls, signalled, pc, equivalence>>

\* simplifyVertices, simplifyEdges and gadgetSimp apply a rule wherever it applies.
\* gadgetSimp looks at done only before it goes through the spiders, which delays its end.
Rewrite ==
    /\ Reducing /\ Call.todo # <<>> /\ Callee \in applicable
    /\ signalled => Callee = "gadget"
    /\ size' = size - 1
    /\ Rematched
    /\ calls' = [calls EXCEPT ![Len(calls)].more = TRUE]
    /\ UNCHANGED <<qc, p, signalled, pc, equivalence>>

Exhaust ==
    /\ Reducing /\ Call.todo # <<>> /\ Callee \in Rules
    /\ Callee \notin applicable \/ signalled
    /\ calls' = [calls EXCEPT ![Len(calls)].todo = Tail(@)]
    /\ UNCHANGED <<qc, p, size, applicable, signalled, pc, equivalence>>

Simplified(c) == c.simplified \/ c.more

\* (a mistake) The loop goes on for what an earlier round has changed.
AgainForever(c) == c.part = "first" \/ c.simplified \/ c.more

\* A round of the loop follows the first part, and every round that has changed something.
Again(c) == c.part = "first" \/ c.more

BeginRound ==
    /\ Reducing /\ Call.todo = <<>> /\ Again(Call) /\ ~signalled
    /\ calls' = Append(Front(calls),
                      [proc |-> Call.proc, part |-> "loop", todo |-> Round[Call.proc],
                       more |-> FALSE, simplified |-> Simplified(Call)])
    /\ UNCHANGED <<qc, p, size, applicable, signalled, pc, equivalence>>

Return ==
    /\ Reducing /\ Call.todo = <<>>
    /\ ~Again(Call) \/ signalled
    /\ LET callers == Front(calls)
       IN calls' = IF callers = <<>> THEN callers
                   ELSE [callers EXCEPT ![Len(callers)].more = @ \/ Simplified(Call)]
    /\ UNCHANGED <<qc, p, size, applicable, signalled, pc, equivalence>>

-----------------------------------------------------------------------------
(* The comparison *)

Holder(i, w) == CHOOSE q \in DOMAIN qc[i].layout : qc[i].layout[q] = w
Content(i, w) == qc[i].carries[Holder(i, w)]
Hadamard(i, w) == Holder(i, w) \in qc[i].hadamards

\* The miter begins with the wires of the first circuit, from their ends, and ends with
\* those of the second.
Ends(i) == Logicals(qc[i]) \ Plugged(i)
Partner(w) == CHOOSE v \in Logicals(qc[2]) : Content(2, v) = Content(1, w)

\* miter.getNEdges() == miter.getNQubits(), when there is one edge for each wire
OnlyWires ==
    /\ size = 0
    /\ \A w \in Ends(1) : Content(1, w) \notin Ancillae /\ Partner(w) \in Ends(2)

GarbageInBoth == Garbage(qc[1]) \cap Garbage(qc[2])

\* The position of a wire among the inputs of the miter, which is looked up among the
\* logical qubits that are garbage
Skipped(w) == Rank(Ends(1), w) \in GarbageInBoth

\* The logical qubits that are output at the two ends of a wire
Output(i) == AntiFunction(p[i])
Named(w) == w \in DOMAIN Output(1) /\ Partner(w) \in DOMAIN Output(2)
Crossed(w) == Hadamard(1, w) # Hadamard(2, Partner(w))

\* The wires that the loop over them stumbles upon
Differing ==
    {w \in Ends(1) : /\ ~Skipped(w)
                     /\ ~Crossed(w) /\ Named(w) => Output(1)[w] # Output(2)[Partner(w)]}

AnyAncilla == qc[1].nancillae > 0 \/ qc[2].nancillae > 0

\* at() throws for a wire without a name.
CompareThrows ==
    /\ OnlyWires /\ Differing # {}
    /\ ~Crossed(Min(Differing)) /\ ~Named(Min(Differing))

Compare ==
    /\ pc = "reduce" /\ calls = <<>>
    /\ IF CompareThrows THEN pc' = "threw" /\ UNCHANGED equivalence
       ELSE /\ pc' = "returned"
            /\ LET equivalent == OnlyWires /\ Differing = {}
               IN equivalence' =
                    IF signalled \/ (~equivalent /\ AnyAncilla) THEN "NoInformation"
                    ELSE IF equivalent THEN "Equivalent" ELSE "ProbablyNotEquivalent"
    /\ UNCHANGED <<qc, p, size, applicable, calls, signalled>>

\* signalDone(), called by another thread at any time
SignalDone ==
    /\ pc = "reduce" /\ ~signalled
    /\ signalled' = TRUE
    /\ UNCHANGED <<qc, p, size, applicable, calls, pc, equivalence>>

Over == pc \in {"returned", "threw", "terminated"}

Terminated == Over /\ UNCHANGED vars

Step == Construct \/ Enter \/ Transform \/ Rewrite \/ Exhaust \/ BeginRound \/ Return \/ Compare

Next == Step \/ SignalDone \/ Terminated

Spec == Init /\ [][Next]_vars /\ WF_vars(Step)

-----------------------------------------------------------------------------
(* Properties *)

\* The diagram is rewritten "until no further rewrites can be made"
\* (docs/equivalence_checking.md:72): what the loops within loops report to each other of
\* what they have changed is enough for none of them to end too early, and a suspicion is
\* voiced only of a diagram to which no rule applies.
NothingLeftToReduce ==
    pc = "returned" /\ equivalence # "NoInformation" => applicable = {}

\* What the physical qubit that outputs l carries, an ancillary qubit being |0>
Outputs(i, l) ==
    LET q == AntiFunction(qc[i].output)[l]
    IN  <<{qc[i].carries[q]} \ Ancillary(qc[i]), q \in qc[i].hadamards>>

SameOutputs ==
    \A l \in Range(qc[1].output) \cap Range(qc[2].output) : Outputs(1, l) = Outputs(2, l)

\* The number under which a wire is looked up among the garbage is not that of the
\* qubit that is output there.
SkippedByMistake ==
    \E w \in Ends(1) : Skipped(w) /\ w \in DOMAIN Output(1) /\ Output(1)[w] \notin GarbageInBoth

\* A wire that begins and ends with |0> is a factor, which is left out.
ForgottenFactor ==
    \E l \in Ancillae \cap Range(qc[1].output) \cap Range(qc[2].output) :
        Hadamard(1, p[1][l]) # Hadamard(2, p[2][l])

\* Not all logical qubits are output, and the numbers of the physical ones have gaps.
Gap == \E i \in {1, 2} : Garbage(qc[i]) # {} /\ DOMAIN qc[i].layout # Logicals(qc[i])

\* "Capable of showing: equivalence" (docs/equivalence_checking.md:80): whatever the layouts,
\* and whatever is garbage or ancillary, circuits that are called equivalent agree on the
\* qubits that they output, unless the wrong wires are skipped (ZXChecker.cpp:73) or an
\* ancillary qubit is assumed to end with |0> and does not (51-54); if they agree, all is
\* output and the diagram comes down to wires, then that is noticed; and there is an answer
\* unless complete() has chosen physical qubits that do not exist (163).
VerdictRight ==
    /\ equivalence = "Equivalent" => SameOutputs \/ SkippedByMistake \/ ForgottenFactor
    /\ pc = "returned" /\ size = 0 /\ ~signalled /\ SameOutputs =>
         \/ equivalence = "Equivalent"
         \/ \E i \in {1, 2} : Garbage(qc[i]) # {} \/ Ancillary(qc[i]) # {}
    /\ pc \in {"threw", "terminated"} => Gap

\* The checker comes to an end, as a rule can be applied only finitely often and no loop
\* goes on without that.
RunReturns == <>Over
================================================================================
