-------------------------- MODULE Preprocessing_proofs --------------------------
(* What the constructor of the manager does to the qubits: proofs for all pairs of   *)
(* circuits, of any size.                                                            *)
(*                                                                                   *)
(* While qubits of the larger circuit are taken out and put back, there is a whole   *)
(* circuit of which it is a part, and what has been taken out is the rest.  Whether  *)
(* qubits are paired and output as they were is a matter of that whole circuit,      *)
(* which does not change meanwhile: IInv.  Which qubits are gone, ancillary and idle *)
(* is followed from step to step: JInv.                                              *)
EXTENDS Preprocessing, TLAPS, FiniteSetTheorems, WellFoundedInduction

\* c is what is left of w when only the logical qubits below n remain, r what has been
\* taken out, and g the logical qubits among it that are garbage.
IsPart(c, w, n) ==
    /\ IsCircuit(c)
    /\ c.layout = [p \in {q \in DOMAIN w.layout : w.layout[q] < n} |-> w.layout[p]]
    /\ c.output = [p \in {q \in DOMAIN w.output : w.layout[q] < n} |-> w.output[p]]
    /\ c.garbage = {l \in w.garbage : l < n}
    /\ c.ancillary \subseteq 0 .. n - 1

IsRest(r, g, w) ==
    /\ \A k \in 1 .. Len(r) :
         LET p == Holder(w, NQubits(w) - k)
         IN  r[k] = [qubit |-> p, outputs |-> Outputs(w, p)]
    /\ g \subseteq w.garbage
    /\ \A l \in w.garbage : l >= NQubits(w) - Len(r) => l \in g

SplitInto(w) ==
    /\ WellFormed(w)
    /\ removed \in Seq([qubit : Nat, outputs : SUBSET Nat]) /\ Len(removed) <= NQubits(w)
    /\ IsPart(circuits[big], w, NQubits(w) - Len(removed))
    /\ IsRest(removed, wasGarbage, w)

\* The two circuits, the larger of them being w when it is whole
WholePair(w) == [i \in Both |-> IF i = big THEN w ELSE circuits[i]]

\* The logical qubits that circuit i has been given, and the physical ones that it has kept,
\* when b is the larger circuit, st the stage and d the difference
AddedIn(cs, i, b, st, d) ==
    IF i # b /\ st \in {"restore", "done"}
    THEN {l \in Logicals(cs[i]) : l >= NQubits(cs[i]) - d}
    ELSE {}

OwnIn(cs, os, b, st, d) ==
    [i \in Both |-> {p \in DOMAIN cs[i].layout \cap DOMAIN os[i].layout :
                       cs[i].layout[p] \notin AddedIn(cs, i, b, st, d)}]

\* The physical qubits own[i] of cs[i] are paired and output as those of os[i] were.
Faithful(cs, os, own) ==
    /\ \A p \in own[1], q \in own[2] :
         cs[1].layout[p] = cs[2].layout[q] <=> os[1].layout[p] = os[2].layout[q]
    /\ \A i \in Both : \A p, q \in own[i] :
         /\ cs[i].layout[q] \in Outputs(cs[i], p) <=> os[i].layout[q] \in Outputs(os[i], p)
         /\ cs[i].layout[q] \in cs[i].garbage <=> os[i].layout[q] \in os[i].garbage

\* The properties of pairs of whole circuits
Sound(cs) == Faithful(cs, original, OwnIn(cs, original, big, stage, difference))

Typed ==
    /\ original \in CircuitPairs /\ DOMAIN circuits = Both
    /\ big \in Both /\ difference \in Nat
    /\ stage \in {"strip", "remove", "restore", "done"}

\* Until ancillary qubits are added, no circuit has any physical qubit that it did not have.
NothingNew == \A i \in Both : DOMAIN circuits[i].layout \subseteq DOMAIN original[i].layout

StripInv ==
    stage = "strip" =>
        /\ difference = NQubits(circuits[big]) - NQubits(circuits[small])
        /\ todo \subseteq DOMAIN circuits[big].layout
        /\ NothingNew /\ removed = <<>> /\ wasGarbage = {}

WholeInv == Whole => Sound(circuits) /\ \A i \in Both : WellFormed(circuits[i])

SplitInv ==
    ~Whole =>
        /\ WellFormed(circuits[small])
        /\ \E w :
             /\ SplitInto(w) /\ Sound(WholePair(w))
             /\ stage = "remove" =>
                  /\ difference = NQubits(w) - NQubits(circuits[small])
                  /\ DOMAIN w.layout \subseteq DOMAIN original[big].layout
                  /\ DOMAIN circuits[small].layout \subseteq DOMAIN original[small].layout
             /\ stage = "restore" =>
                  NQubits(circuits[small]) = NQubits(w) /\ difference <= NQubits(w)
             /\ Len(removed) <= difference

IInv ==
    /\ Typed /\ StripInv /\ WholeInv /\ SplitInv
    /\ stage # "strip" => todo = {}

-----------------------------------------------------------------------------------
(* Numbers *)

\* A set of numbers has a least element.
LEMMA LeastOf ==
    ASSUME NEW T, T \subseteq Nat, T # {}
    PROVE  \E x \in T : \A y \in T : x <= y
<1> DEFINE R == OpToRel(<, Nat)
<1>1. IsWellFoundedOn(R, Nat)
  BY NatLessThanWellFounded
<1>2. \A x, y \in T : <<y, x>> \in R <=> y < x
  BY DEF OpToRel
<1> HIDE DEF R
<1>3. PICK x \in T : \A y \in T : <<y, x>> \notin R
  BY <1>1, WFMin
<1>4. \A y \in T : ~(y < x)
  BY <1>2, <1>3
<1> QED
  BY <1>4

HasGreatest(T) == \E x \in T : \A y \in T : x >= y

\* A finite set of numbers has a greatest element, by induction on its size.
LEMMA GreatestOf ==
    ASSUME NEW S, S \subseteq Nat, IsFiniteSet(S), S # {}
    PROVE  HasGreatest(S)
<1> DEFINE Bad(T) == T \subseteq Nat /\ IsFiniteSet(T) /\ T # {} /\ ~HasGreatest(T)
           sizes == {n \in Nat : \E T \in SUBSET Nat : Bad(T) /\ Cardinality(T) = n}
<1>1. CASE sizes # {}
  <2>1. PICK n \in sizes : \A m \in sizes : n <= m
    BY <1>1, LeastOf
  <2>2. PICK T \in SUBSET Nat : Bad(T) /\ Cardinality(T) = n
    BY <2>1
  <2>3. PICK x \in T : TRUE
    BY <2>2
  <2> DEFINE U == T \ {x}
  <2>4. IsFiniteSet(U) /\ Cardinality(U) = n - 1 /\ n \in Nat /\ Cardinality(U) \in Nat
    BY <2>2, FS_RemoveElement, FS_CardinalityType
  <2>5. CASE U = {}
    <3>1. \A y \in T : y = x
      BY <2>5
    <3> QED
      BY <2>2, <3>1 DEF HasGreatest
  <2>6. CASE U # {}
    <3>1. n - 1 \notin sizes
      BY <2>1, <2>4
    <3>2. HasGreatest(U)
      BY <2>2, <2>4, <2>6, <3>1
    <3>3. PICK u \in U : \A y \in U : u >= y
      BY <3>2 DEF HasGreatest
    <3>4. CASE u >= x
      BY <2>2, <3>3, <3>4 DEF HasGreatest
    <3>5. CASE ~(u >= x)
      <4>1. \A y \in T : x >= y
        BY <2>2, <3>3, <3>5
      <4> QED
        BY <2>2, <4>1 DEF HasGreatest
    <3> QED
      BY <3>4, <3>5
  <2> QED
    BY <2>5, <2>6
<1>2. CASE sizes = {}
  <2>1. Cardinality(S) \in Nat
    BY FS_CardinalityType
  <2> QED
    BY <1>2, <2>1
<1> QED
  BY <1>1, <1>2

\* What Max returns, also with the default of those who ask for the qubits of a circuit
LEMMA MaxIs ==
    ASSUME NEW S, S \subseteq Nat, IsFiniteSet(S)
    PROVE  /\ S # {} => Max(S) \in S /\ \A x \in S : x <= Max(S)
           /\ Max(S \cup {-1}) \in Int /\ Max(S \cup {-1}) >= -1
           /\ \A x \in S : x <= Max(S \cup {-1})
<1>1. ASSUME S # {}
      PROVE  Max(S) \in S /\ \A x \in S : x <= Max(S)
  <2>1. \E x \in S : \A y \in S : x >= y
    BY <1>1, GreatestOf DEF HasGreatest
  <2>2. Max(S) = CHOOSE x \in S : \A y \in S : x >= y
    BY DEF Max
  <2>3. Max(S) \in S /\ \A y \in S : Max(S) >= y
    BY <2>1, <2>2
  <2> QED
    BY <2>3
<1> DEFINE T == S \cup {-1}
<1>2. \E x \in T : \A y \in T : x >= y
  <2>1. CASE S = {}
    BY <2>1
  <2>2. CASE S # {}
    <3>1. PICK x \in S : \A y \in S : x >= y
      BY <2>2, GreatestOf DEF HasGreatest
    <3>2. \A y \in T : x >= y
      BY <3>1
    <3> QED
      BY <3>2
  <2> QED
    BY <2>1, <2>2
<1>3. Max(T) = CHOOSE x \in T : \A y \in T : x >= y
  BY DEF Max
<1>4. Max(T) \in T /\ \A y \in T : Max(T) >= y
  <2> HIDE DEF T
  <2> QED
    BY <1>2, <1>3
<1>5. Max(T) \in Int /\ Max(T) >= -1 /\ \A x \in S : x <= Max(T)
  <2>1. S \subseteq T /\ \A x \in T : x \in Int /\ x >= -1
    OBVIOUS
  <2>2. \A x \in S : x \in Int
    OBVIOUS
  <2> DEFINE m == Max(T)
  <2>3. m \in Int /\ m >= -1 /\ \A y \in S : m >= y
    BY <1>4, <2>1
  <2> HIDE DEF m
  <2>4. \A x \in S : x <= m
    BY <2>2, <2>3
  <2> QED
    BY <2>3, <2>4 DEF m
<1> QED
  BY <1>1, <1>5

-----------------------------------------------------------------------------------
(* Circuits *)

\* What it means that a function is an injection, or a bijection
LEMMA InjectionIs ==
    ASSUME NEW f, NEW S, NEW T
    PROVE  /\ f \in Injection(S, T)
                <=> f = [x \in S |-> f[x]] /\ IsInjective(f) /\ Range(f) \subseteq T /\ S = DOMAIN f
           /\ f \in Bijection(S, T)
                <=> f = [x \in S |-> f[x]] /\ IsInjective(f) /\ Range(f) = T /\ S = DOMAIN f
  BY DEF Injection, Bijection, Surjection, IsInjective, Range

\* The layout of a circuit, spelled out
LEMMA LayoutFitsIs ==
    ASSUME NEW c
    PROVE  LayoutFits(c) <=> /\ DOMAIN c.layout \subseteq Nat /\ IsFiniteSet(DOMAIN c.layout)
                             /\ c.layout = [p \in DOMAIN c.layout |-> c.layout[p]]
                             /\ IsInjective(c.layout) /\ Range(c.layout) = Logicals(c)
  BY InjectionIs DEF LayoutFits

\* The outputs of a circuit, spelled out
LEMMA OutputFitsIs ==
    ASSUME NEW c
    PROVE  c.output \in Injection(DOMAIN c.output, Logicals(c))
             <=> /\ c.output = [p \in DOMAIN c.output |-> c.output[p]]
                 /\ IsInjective(c.output) /\ Range(c.output) \subseteq Logicals(c)
  BY InjectionIs

\* The logical qubits of a circuit, and the physical qubit that holds one
LEMMA LayoutIs ==
    ASSUME NEW c, LayoutFits(c)
    PROVE  /\ NQubits(c) \in Nat /\ Logicals(c) = 0 .. NQubits(c) - 1
           /\ \A p \in DOMAIN c.layout : c.layout[p] \in Logicals(c)
           /\ \A p, q \in DOMAIN c.layout : c.layout[p] = c.layout[q] => p = q
           /\ \A l \in Logicals(c) :
                /\ Holder(c, l) \in DOMAIN c.layout /\ c.layout[Holder(c, l)] = l
                /\ \A p \in DOMAIN c.layout : c.layout[p] = l => p = Holder(c, l)
           /\ MaxLogical(c) = NQubits(c) - 1
<1>1. NQubits(c) \in Nat
  BY FS_CardinalityType DEF LayoutFits, NQubits
<1>2. /\ Logicals(c) = 0 .. NQubits(c) - 1
      /\ \A p \in DOMAIN c.layout : c.layout[p] \in Logicals(c)
      /\ \A p, q \in DOMAIN c.layout : c.layout[p] = c.layout[q] => p = q
  BY LayoutFitsIs DEF Logicals, Range, IsInjective
<1>3. ASSUME NEW l \in Logicals(c)
      PROVE  /\ Holder(c, l) \in DOMAIN c.layout /\ c.layout[Holder(c, l)] = l
             /\ \A p \in DOMAIN c.layout : c.layout[p] = l => p = Holder(c, l)
  <2>1. \E p \in DOMAIN c.layout : c.layout[p] = l
    <3>1. l \in Range(c.layout)
      BY LayoutFitsIs
    <3> QED
      BY <3>1 DEF Range
  <2>2. Holder(c, l) \in DOMAIN c.layout /\ c.layout[Holder(c, l)] = l
    BY <2>1 DEF Holder
  <2> QED
    BY <1>2, <2>2
<1>4. MaxLogical(c) = NQubits(c) - 1
  <2> DEFINE n == NQubits(c)
             T == Range(c.layout) \cup {-1}
  <2>1. T = (0 .. n - 1) \cup {-1}
    BY <1>2, LayoutFitsIs
  <2>2. MaxLogical(c) = CHOOSE x \in T : \A y \in T : x >= y
    BY DEF MaxLogical, Max
  <2> HIDE DEF T, n
  <2>3. n \in Nat
    BY <1>1 DEF n
  <2>4. n - 1 \in T /\ \A y \in T : n - 1 >= y
    BY <2>1, <2>3
  <2>5. MaxLogical(c) \in T /\ \A y \in T : MaxLogical(c) >= y
    BY <2>2, <2>4
  <2>6. MaxLogical(c) = n - 1
    BY <2>1, <2>3, <2>4, <2>5
  <2> QED
    BY <2>6 DEF n
<1> QED
  BY <1>1, <1>2, <1>3, <1>4

-----------------------------------------------------------------------------------
(* Operations *)

IsWithout(d, c, l, h) ==
    /\ IsCircuit(d) /\ d.idle = c.idle
    /\ d.layout = [p \in DOMAIN c.layout \ {h} |-> c.layout[p]]
    /\ d.output = [p \in DOMAIN c.output \ {h} |-> c.output[p]]
    /\ d.garbage = Erased(c.garbage, l) /\ d.ancillary = Erased(c.ancillary, l)

\* What is left of a circuit from which a qubit has been removed
LEMMA RemoveQubitIs ==
    ASSUME NEW c, IsCircuit(c), NEW l
    PROVE  IsWithout(RemoveQubit(c, l), c, l, Holder(c, l))
<1> DEFINE d == RemoveQubit(c, l)
           L == [p \in DOMAIN c.layout \ {Holder(c, l)} |-> c.layout[p]]
           O == [p \in DOMAIN c.output \ {Holder(c, l)} |-> c.output[p]]
           G == Erased(c.garbage, l)
           A == Erased(c.ancillary, l)
<1>1. d = [c EXCEPT !.layout = L, !.output = O, !.garbage = G, !.ancillary = A]
  BY DEF RemoveQubit, Restrict
<1> HIDE DEF d, L, O, G, A
<1>2. IsCircuit(d) /\ d.idle = c.idle /\ d.layout = L /\ d.output = O
      /\ d.garbage = G /\ d.ancillary = A
  BY <1>1 DEF IsCircuit
<1> QED
  BY <1>2 DEF IsWithout, d, L, O, G, A

Down(x, l) == IF x > l THEN x - 1 ELSE x

\* Moving down what is above l keeps numbers apart that are not l.
LEMMA DownIs ==
    ASSUME NEW n \in Nat, NEW l \in 0 .. n - 1
    PROVE  /\ \A x \in 0 .. n - 1 : x # l => Down(x, l) \in 0 .. n - 2
           /\ \A x, y \in Int : x # l /\ y # l => (Down(x, l) = Down(y, l) <=> x = y)
           /\ \A y \in 0 .. n - 2 : \E x \in 0 .. n - 1 : x # l /\ Down(x, l) = y
<1>1. \A x \in 0 .. n - 1 : x # l => Down(x, l) \in 0 .. n - 2
  BY DEF Down
<1>2. \A x, y \in Int : x # l /\ y # l => (Down(x, l) = Down(y, l) <=> x = y)
  BY DEF Down
<1>3. ASSUME NEW y \in 0 .. n - 2
      PROVE  \E x \in 0 .. n - 1 : x # l /\ Down(x, l) = y
  <2>1. CASE y < l
    <3>1. y \in 0 .. n - 1 /\ y # l /\ Down(y, l) = y
      BY <2>1 DEF Down
    <3> QED
      BY <3>1
  <2>2. CASE y >= l
    <3>1. y + 1 \in 0 .. n - 1 /\ y + 1 # l /\ Down(y + 1, l) = y
      BY <2>2 DEF Down
    <3> QED
      BY <3>1
  <2> QED
    BY <2>1, <2>2
<1> QED
  BY <1>1, <1>2, <1>3

IsStripped(d, c, l, h) ==
    /\ IsCircuit(d) /\ d.idle = c.idle
    /\ d.layout = [p \in DOMAIN c.layout \ {h} |-> Down(c.layout[p], l)]
    /\ d.output = [p \in DOMAIN c.output \ {h} |-> Down(c.output[p], l)]
    /\ d.garbage = {Down(x, l) : x \in c.garbage \ {l}}
    /\ d.ancillary = {Down(x, l) : x \in c.ancillary \ {l}}

\* What is left of a circuit that has been stripped of a qubit
LEMMA StrippedIs ==
    ASSUME NEW c, IsCircuit(c), NEW l
    PROVE  IsStripped(Stripped(c, l), c, l, Holder(c, l))
<1> DEFINE d == Stripped(c, l)
           h == Holder(c, l)
<1> DEFINE e == RemoveQubit(c, l)
<1>1. /\ IsCircuit(e) /\ e.idle = c.idle
      /\ e.layout = [p \in DOMAIN c.layout \ {h} |-> c.layout[p]]
      /\ e.output = [p \in DOMAIN c.output \ {h} |-> c.output[p]]
      /\ e.garbage = Erased(c.garbage, l) /\ e.ancillary = Erased(c.ancillary, l)
  BY RemoveQubitIs DEF IsWithout
<1>2. d = Renumbered(e, l)
  BY DEF Stripped
<1> HIDE DEF e, d, h
<1>3. /\ IsCircuit(d) /\ d.idle = e.idle /\ d.garbage = e.garbage /\ d.ancillary = e.ancillary
      /\ d.layout = [p \in DOMAIN e.layout |-> Down(e.layout[p], l)]
      /\ d.output = [p \in DOMAIN e.output |-> Down(e.output[p], l)]
  BY <1>1, <1>2 DEF IsCircuit, Renumbered, Down
<1>4. /\ d.layout = [p \in DOMAIN c.layout \ {h} |-> Down(c.layout[p], l)]
      /\ d.output = [p \in DOMAIN c.output \ {h} |-> Down(c.output[p], l)]
  BY <1>1, <1>3
<1>5. \A S : Erased(S, l) = {Down(x, l) : x \in S \ {l}}
  BY DEF Erased, Down
<1>6. IsStripped(d, c, l, h)
  BY <1>1, <1>3, <1>4, <1>5 DEF IsStripped
<1> QED
  BY <1>6 DEF d, h

\* A circuit without one of its qubits has one qubit less.
LEMMA OneLess ==
    ASSUME NEW c, LayoutFits(c), NEW l \in Logicals(c), NEW d,
           DOMAIN d.layout = DOMAIN c.layout \ {Holder(c, l)}
    PROVE  /\ NQubits(d) = NQubits(c) - 1 /\ NQubits(d) \in Nat
           /\ DOMAIN d.layout \subseteq Nat /\ IsFiniteSet(DOMAIN d.layout)
<1>1. DOMAIN c.layout \subseteq Nat /\ IsFiniteSet(DOMAIN c.layout)
      /\ Holder(c, l) \in DOMAIN c.layout
  BY LayoutIs DEF LayoutFits
<1>2. IsFiniteSet(DOMAIN d.layout) /\ Cardinality(DOMAIN d.layout) = Cardinality(DOMAIN c.layout) - 1
  BY <1>1, FS_RemoveElement
<1>3. Cardinality(DOMAIN d.layout) \in Nat
  BY <1>2, FS_CardinalityType
<1> QED
  BY <1>1, <1>2, <1>3 DEF NQubits

\* A circuit that is stripped of a qubit that is output nowhere else stays well-formed.
LEMMA StrippedFits ==
    ASSUME NEW c, WellFormed(c), NEW l \in Logicals(c), NEW h, h = Holder(c, l),
           \A p \in DOMAIN c.output : c.output[p] = l => p = h,
           NEW d, d = Stripped(c, l)
    PROVE  WellFormed(d) /\ NQubits(d) = NQubits(c) - 1
<1> DEFINE n == NQubits(c)
<1>1. /\ IsCircuit(d)
      /\ d.layout = [p \in DOMAIN c.layout \ {h} |-> Down(c.layout[p], l)]
      /\ d.output = [p \in DOMAIN c.output \ {h} |-> Down(c.output[p], l)]
      /\ d.garbage = {Down(x, l) : x \in c.garbage \ {l}}
      /\ d.ancillary = {Down(x, l) : x \in c.ancillary \ {l}}
  <2>1. IsCircuit(c)
    BY DEF WellFormed
  <2>2. IsStripped(d, c, l, h)
    BY <2>1, StrippedIs
  <2> QED
    BY <2>2 DEF IsStripped
<1>2. /\ n \in Nat /\ Logicals(c) = 0 .. n - 1 /\ l \in 0 .. n - 1
      /\ \A p \in DOMAIN c.layout : c.layout[p] \in 0 .. n - 1
      /\ \A p, q \in DOMAIN c.layout : c.layout[p] = c.layout[q] => p = q
      /\ h \in DOMAIN c.layout /\ c.layout[h] = l
      /\ \A m \in 0 .. n - 1 : Holder(c, m) \in DOMAIN c.layout /\ c.layout[Holder(c, m)] = m
  BY LayoutIs DEF WellFormed
<1>3. /\ DOMAIN c.output \subseteq DOMAIN c.layout
      /\ \A p \in DOMAIN c.output : c.output[p] \in 0 .. n - 1
      /\ \A p, q \in DOMAIN c.output : c.output[p] = c.output[q] => p = q
      /\ c.garbage \subseteq 0 .. n - 1 /\ c.ancillary \subseteq 0 .. n - 1
      /\ \A p \in DOMAIN c.output : c.output[p] \notin c.garbage
  <2>1. /\ DOMAIN c.output \subseteq DOMAIN c.layout
        /\ c.output \in Injection(DOMAIN c.output, Logicals(c))
        /\ c.garbage \subseteq Logicals(c) \ Range(c.output) /\ c.ancillary \subseteq Logicals(c)
    BY DEF WellFormed
  <2>2. IsInjective(c.output) /\ Range(c.output) \subseteq Logicals(c)
    BY <2>1, OutputFitsIs
  <2> QED
    BY <1>2, <2>1, <2>2 DEF Range, IsInjective
<1>4. NQubits(d) = n - 1 /\ DOMAIN d.layout \subseteq Nat /\ IsFiniteSet(DOMAIN d.layout)
  <2>1. DOMAIN d.layout = DOMAIN c.layout \ {Holder(c, l)} /\ LayoutFits(c)
    BY <1>1 DEF WellFormed
  <2> QED
    BY <2>1, OneLess
<1>5. Logicals(d) = 0 .. n - 2
  BY <1>2, <1>4 DEF Logicals
<1> HIDE DEF n
<1>6. /\ \A x \in 0 .. n - 1 : x # l => Down(x, l) \in 0 .. n - 2
      /\ \A x, y \in 0 .. n - 1 : x # l /\ y # l => (Down(x, l) = Down(y, l) <=> x = y)
      /\ \A y \in 0 .. n - 2 : \E x \in 0 .. n - 1 : x # l /\ Down(x, l) = y
  <2>1. n \in Nat /\ l \in 0 .. n - 1
    BY <1>2
  <2>2. /\ \A x \in 0 .. n - 1 : x # l => Down(x, l) \in 0 .. n - 2
        /\ \A x, y \in Int : x # l /\ y # l => (Down(x, l) = Down(y, l) <=> x = y)
        /\ \A y \in 0 .. n - 2 : \E x \in 0 .. n - 1 : x # l /\ Down(x, l) = y
    BY <2>1, DownIs
  <2>3. \A x \in 0 .. n - 1 : x \in Int
    OBVIOUS
  <2> QED
    BY <2>2, <2>3
<1>7. /\ DOMAIN d.layout = DOMAIN c.layout \ {h}
      /\ \A p \in DOMAIN d.layout : p \in DOMAIN c.layout /\ d.layout[p] = Down(c.layout[p], l)
                                    /\ c.layout[p] \in 0 .. n - 1 /\ c.layout[p] # l
      /\ DOMAIN d.output = DOMAIN c.output \ {h}
      /\ \A p \in DOMAIN d.output : p \in DOMAIN c.output /\ d.output[p] = Down(c.output[p], l)
                                    /\ c.output[p] \in 0 .. n - 1 /\ c.output[p] # l
  BY <1>1, <1>2, <1>3
<1>8. LayoutFits(d)
  <2>1. IsInjective(d.layout)
    <3>1. ASSUME NEW p \in DOMAIN d.layout, NEW q \in DOMAIN d.layout, d.layout[p] = d.layout[q]
          PROVE  p = q
      <4>1. Down(c.layout[p], l) = Down(c.layout[q], l)
        BY <1>7, <3>1
      <4>2. c.layout[p] = c.layout[q]
        BY <1>6, <1>7, <4>1
      <4> QED
        BY <1>2, <1>7, <4>2
    <3> QED
      BY <3>1 DEF IsInjective
  <2>2. \A p \in DOMAIN d.layout : d.layout[p] \in 0 .. n - 2
    BY <1>6, <1>7
  <2>3. ASSUME NEW y \in 0 .. n - 2
        PROVE  \E p \in DOMAIN d.layout : d.layout[p] = y
    <3>1. PICK x \in 0 .. n - 1 : x # l /\ Down(x, l) = y
      BY <1>6
    <3>2. Holder(c, x) \in DOMAIN d.layout /\ d.layout[Holder(c, x)] = y
      BY <1>2, <1>7, <3>1
    <3> QED
      BY <3>2
  <2>4. Range(d.layout) = 0 .. n - 2
    BY <2>2, <2>3 DEF Range
  <2> QED
    BY <1>1, <1>4, <1>5, <1>7, <2>1, <2>4, LayoutFitsIs
<1>9. DOMAIN d.output \subseteq DOMAIN d.layout
  BY <1>3, <1>7
<1>10. IsInjective(d.output)
  <2>1. ASSUME NEW p \in DOMAIN d.output, NEW q \in DOMAIN d.output, d.output[p] = d.output[q]
        PROVE  p = q
    <3>1. Down(c.output[p], l) = Down(c.output[q], l)
      BY <1>7, <2>1
    <3>2. c.output[p] = c.output[q]
      BY <1>6, <1>7, <3>1
    <3> QED
      BY <1>3, <1>7, <3>2
  <2> QED
    BY <2>1 DEF IsInjective
<1>11. Range(d.output) \subseteq 0 .. n - 2
  BY <1>6, <1>7 DEF Range
<1>12. d.garbage \subseteq 0 .. n - 2 /\ d.ancillary \subseteq 0 .. n - 2
  BY <1>1, <1>3, <1>6
<1>13. \A p \in DOMAIN d.output : d.output[p] \notin d.garbage
  <2> SUFFICES ASSUME NEW p \in DOMAIN d.output, NEW x \in c.garbage \ {l},
                      d.output[p] = Down(x, l)
               PROVE  FALSE
    BY <1>1
  <2>1. x \in 0 .. n - 1 /\ x # l /\ Down(c.output[p], l) = Down(x, l)
    BY <1>3, <1>7
  <2>2. c.output[p] = x
    BY <1>6, <1>7, <2>1
  <2> QED
    BY <1>3, <1>7, <2>2
<1>14. d.garbage \subseteq Logicals(d) \ Range(d.output)
  BY <1>5, <1>12, <1>13 DEF Range
<1> QED
  <2>1. d.output \in Injection(DOMAIN d.output, Logicals(d))
    BY <1>1, <1>5, <1>7, <1>10, <1>11, OutputFitsIs
  <2> QED
    BY <1>1, <1>4, <1>5, <1>8, <1>9, <1>12, <1>14, <2>1 DEF WellFormed, n

-----------------------------------------------------------------------------------
(* What a step keeps *)

\* Pairs of circuits that agree on some physical qubits are as faithful on them.
LEMMA FaithfulStays ==
    ASSUME NEW cs, NEW ds, NEW os, NEW own, NEW kept, Faithful(cs, os, own),
           \A i \in Both : kept[i] \subseteq own[i],
           \A p \in kept[1], q \in kept[2] :
              ds[1].layout[p] = ds[2].layout[q] <=> cs[1].layout[p] = cs[2].layout[q],
           \A i \in Both : \A p, q \in kept[i] :
              /\ ds[i].layout[q] \in Outputs(ds[i], p) <=> cs[i].layout[q] \in Outputs(cs[i], p)
              /\ ds[i].layout[q] \in ds[i].garbage <=> cs[i].layout[q] \in cs[i].garbage
    PROVE  Faithful(ds, os, kept)
<1>1. kept[1] \subseteq own[1] /\ kept[2] \subseteq own[2]
  BY DEF Both
<1>2. \A p \in kept[1], q \in kept[2] :
        ds[1].layout[p] = ds[2].layout[q] <=> os[1].layout[p] = os[2].layout[q]
  BY <1>1 DEF Faithful
<1>3. \A i \in Both : \A p, q \in kept[i] :
        /\ ds[i].layout[q] \in Outputs(ds[i], p) <=> os[i].layout[q] \in Outputs(os[i], p)
        /\ ds[i].layout[q] \in ds[i].garbage <=> os[i].layout[q] \in os[i].garbage
  BY DEF Faithful
<1> QED
  BY <1>2, <1>3 DEF Faithful

\* The qubits that are left of a stripped circuit are output where they were.
LEMMA StrippedKeeps ==
    ASSUME NEW c, WellFormed(c), NEW l \in Logicals(c), NEW h, h = Holder(c, l),
           \A p \in DOMAIN c.output : c.output[p] = l => p = h,
           NEW d, d = Stripped(c, l)
    PROVE  /\ DOMAIN d.layout = DOMAIN c.layout \ {h}
           /\ \A p \in DOMAIN d.layout :
                d.layout[p] = Down(c.layout[p], l) /\ c.layout[p] \in Nat /\ c.layout[p] # l
           /\ \A p, q \in DOMAIN d.layout :
                /\ d.layout[q] \in Outputs(d, p) <=> c.layout[q] \in Outputs(c, p)
                /\ d.layout[q] \in d.garbage <=> c.layout[q] \in c.garbage
<1> DEFINE n == NQubits(c)
<1>1. /\ d.layout = [p \in DOMAIN c.layout \ {h} |-> Down(c.layout[p], l)]
      /\ d.output = [p \in DOMAIN c.output \ {h} |-> Down(c.output[p], l)]
      /\ d.garbage = {Down(x, l) : x \in c.garbage \ {l}}
  <2>1. IsCircuit(c)
    BY DEF WellFormed
  <2>2. IsStripped(d, c, l, h)
    BY <2>1, StrippedIs
  <2> QED
    BY <2>2 DEF IsStripped
<1>2. /\ n \in Nat /\ l \in 0 .. n - 1 /\ Logicals(c) = 0 .. n - 1
      /\ \A p \in DOMAIN c.layout : c.layout[p] \in 0 .. n - 1
      /\ \A p \in DOMAIN c.layout : c.layout[p] = l => p = h
  BY LayoutIs DEF WellFormed
<1>3. /\ \A p \in DOMAIN c.output : c.output[p] \in 0 .. n - 1
      /\ c.garbage \subseteq 0 .. n - 1
  BY <1>2, OutputFitsIs DEF WellFormed, Range
<1> HIDE DEF n
<1>4. \A x, y \in 0 .. n - 1 : x # l /\ y # l => (Down(x, l) = Down(y, l) <=> x = y)
  <2>1. \A x, y \in Int : x # l /\ y # l => (Down(x, l) = Down(y, l) <=> x = y)
    BY <1>2, DownIs
  <2>2. \A x \in 0 .. n - 1 : x \in Int
    OBVIOUS
  <2> QED
    BY <2>1, <2>2
<1>5. \A p \in DOMAIN d.layout : p \in DOMAIN c.layout /\ p # h
                                 /\ d.layout[p] = Down(c.layout[p], l)
                                 /\ c.layout[p] \in 0 .. n - 1 /\ c.layout[p] # l
  BY <1>1, <1>2
<1>6. ASSUME NEW p \in DOMAIN d.layout, NEW q \in DOMAIN d.layout
      PROVE  d.layout[q] \in Outputs(d, p) <=> c.layout[q] \in Outputs(c, p)
  <2>1. CASE p \in DOMAIN c.output
    <3>1. Outputs(c, p) = {c.output[p]} /\ Outputs(d, p) = {d.output[p]}
      BY <1>1, <1>5, <2>1 DEF Outputs
    <3>2. d.output[p] = Down(c.output[p], l) /\ c.output[p] \in 0 .. n - 1 /\ c.output[p] # l
      BY <1>1, <1>3, <1>5, <2>1
    <3>3. d.layout[q] = d.output[p] <=> c.layout[q] = c.output[p]
      BY <1>4, <1>5, <3>2
    <3> QED
      BY <3>1, <3>3
  <2>2. CASE p \notin DOMAIN c.output
    <3>1. Outputs(c, p) = {} /\ Outputs(d, p) = {}
      BY <1>1, <2>2 DEF Outputs
    <3> QED
      BY <3>1
  <2> QED
    BY <2>1, <2>2
<1>7. ASSUME NEW q \in DOMAIN d.layout
      PROVE  d.layout[q] \in d.garbage <=> c.layout[q] \in c.garbage
  <2>1. ASSUME d.layout[q] \in d.garbage
        PROVE  c.layout[q] \in c.garbage
    <3>1. PICK x \in c.garbage \ {l} : d.layout[q] = Down(x, l)
      BY <1>1, <2>1
    <3>2. c.layout[q] = x
      BY <1>3, <1>4, <1>5, <3>1
    <3> QED
      BY <3>1, <3>2
  <2>2. ASSUME c.layout[q] \in c.garbage
        PROVE  d.layout[q] \in d.garbage
    BY <1>1, <1>5, <2>2
  <2> QED
    BY <2>1, <2>2
<1>8. \A p \in DOMAIN d.layout :
        d.layout[p] = Down(c.layout[p], l) /\ c.layout[p] \in Nat /\ c.layout[p] # l
  <2>1. \A x \in 0 .. n - 1 : x \in Nat
    OBVIOUS
  <2> QED
    BY <1>5, <2>1
<1> QED
  BY <1>1, <1>6, <1>7, <1>8

\* An injective numbering of a finite set from 0 without gaps counts it.
LEMMA Numbered ==
    ASSUME NEW S, IsFiniteSet(S), NEW n \in Nat, NEW f, S = DOMAIN f,
           f = [x \in S |-> f[x]], IsInjective(f), Range(f) = 0 .. n - 1
    PROVE  Cardinality(S) = n
<1>1. f \in Injection(S, 0 .. n - 1) /\ f \in Surjection(S, 0 .. n - 1)
  BY DEF Range, IsInjective, Injection, Surjection
<1>2. IsFiniteSet(0 .. n - 1) /\ Cardinality(0 .. n - 1) = n
  <2> DEFINE a == 0
             b == n - 1
  <2>1. a \in Int /\ b \in Int /\ (IF a > b THEN 0 ELSE b - a + 1) = n
    OBVIOUS
  <2> HIDE DEF a, b
  <2>2. IsFiniteSet(a .. b) /\ Cardinality(a .. b) = IF a > b THEN 0 ELSE b - a + 1
    BY <2>1, FS_Interval, Zenon
  <2> QED
    BY <2>1, <2>2 DEF a, b
<1>3. Cardinality(0 .. n - 1) = Cardinality(S)
  BY <1>1, FS_Surjection
<1> QED
  BY <1>2, <1>3

\* A circuit without its last qubits
LEMMA PartIs ==
    ASSUME NEW w, WellFormed(w), NEW n \in 0 .. NQubits(w), NEW c, IsPart(c, w, n)
    PROVE  /\ LayoutFits(c) /\ NQubits(c) = n
           /\ \A l \in 0 .. n - 1 : Holder(c, l) = Holder(w, l)
<1> DEFINE m == NQubits(w)
<1>1. /\ m \in Nat /\ Logicals(w) = 0 .. m - 1
      /\ \A p \in DOMAIN w.layout : w.layout[p] \in 0 .. m - 1
      /\ \A p, q \in DOMAIN w.layout : w.layout[p] = w.layout[q] => p = q
      /\ \A l \in 0 .. m - 1 : Holder(w, l) \in DOMAIN w.layout /\ w.layout[Holder(w, l)] = l
  BY LayoutIs DEF WellFormed
<1>2. n \in 0 .. m
  OBVIOUS
<1> HIDE DEF m
<1>3. /\ \A p \in DOMAIN c.layout : p \in DOMAIN w.layout /\ w.layout[p] < n /\ c.layout[p] = w.layout[p]
      /\ \A p \in DOMAIN w.layout : w.layout[p] < n => p \in DOMAIN c.layout
  BY DEF IsPart
<1>4. DOMAIN c.layout \subseteq Nat /\ IsFiniteSet(DOMAIN c.layout)
  <2>1. DOMAIN w.layout \subseteq Nat /\ IsFiniteSet(DOMAIN w.layout)
    BY DEF WellFormed, LayoutFits
  <2> QED
    BY <1>3, <2>1, FS_Subset
<1>5. IsInjective(c.layout)
  BY <1>1, <1>3 DEF IsInjective
<1>6. ASSUME NEW l \in 0 .. n - 1
      PROVE  /\ Holder(w, l) \in DOMAIN c.layout /\ c.layout[Holder(w, l)] = l
             /\ \A p \in DOMAIN c.layout : c.layout[p] = l => p = Holder(w, l)
  <2>1. l \in 0 .. m - 1 /\ l < n
    BY <1>1, <1>2
  <2> QED
    BY <1>1, <1>3, <2>1
<1>7. \A p \in DOMAIN c.layout : c.layout[p] \in 0 .. n - 1
  <2>1. \A x \in 0 .. m - 1 : x < n => x \in 0 .. n - 1
    BY <1>1, <1>2
  <2> QED
    BY <1>1, <1>3, <2>1
<1>8. Range(c.layout) = 0 .. n - 1
  BY <1>6, <1>7 DEF Range
<1>9. Cardinality(DOMAIN c.layout) = n
  <2>1. n \in Nat /\ c.layout = [p \in DOMAIN c.layout |-> c.layout[p]]
    BY <1>1, <1>2 DEF IsPart
  <2> QED
    BY <1>4, <1>5, <1>8, <2>1, Numbered
<1>10. \A l \in 0 .. n - 1 : Holder(c, l) = Holder(w, l)
  BY <1>6 DEF Holder
<1> QED
  <2>1. c.layout = [p \in DOMAIN c.layout |-> c.layout[p]]
    BY DEF IsPart
  <2> QED
    BY <1>4, <1>5, <1>8, <1>9, <1>10, <2>1, LayoutFitsIs DEF Logicals, NQubits

-----------------------------------------------------------------------------------
(* Taking qubits out and putting them back *)

\* A whole circuit is a part of itself, and a part without missing qubits is whole.
LEMMA WholeIsPart ==
    ASSUME NEW w, WellFormed(w)
    PROVE  /\ IsPart(w, w, NQubits(w))
           /\ \A c : IsPart(c, w, NQubits(w)) =>
                WellFormed(c) /\ c.layout = w.layout /\ c.output = w.output /\ c.garbage = w.garbage
<1> DEFINE n == NQubits(w)
<1>1. /\ n \in Nat /\ Logicals(w) = 0 .. n - 1 /\ IsCircuit(w)
      /\ \A p \in DOMAIN w.layout : w.layout[p] \in 0 .. n - 1
      /\ DOMAIN w.output \subseteq DOMAIN w.layout
      /\ w.garbage \subseteq 0 .. n - 1 /\ w.ancillary \subseteq 0 .. n - 1
  BY LayoutIs DEF WellFormed
<1>2. \A x \in 0 .. n - 1 : x < n
  BY <1>1
<1>3. /\ w.layout = [p \in DOMAIN w.layout |-> w.layout[p]]
      /\ w.output = [p \in DOMAIN w.output |-> w.output[p]]
  BY LayoutFitsIs, OutputFitsIs DEF WellFormed
<1>4. /\ {q \in DOMAIN w.layout : w.layout[q] < n} = DOMAIN w.layout
      /\ {q \in DOMAIN w.output : w.layout[q] < n} = DOMAIN w.output
      /\ {l \in w.garbage : l < n} = w.garbage
  BY <1>1, <1>2
<1>5. IsPart(w, w, n)
  BY <1>1, <1>3, <1>4 DEF IsPart
<1>6. ASSUME NEW c, IsPart(c, w, n)
      PROVE  WellFormed(c) /\ c.layout = w.layout /\ c.output = w.output /\ c.garbage = w.garbage
  <2>1. /\ c.layout = w.layout /\ c.output = w.output /\ c.garbage = w.garbage
        /\ IsCircuit(c) /\ c.ancillary \subseteq 0 .. n - 1
    BY <1>3, <1>4, <1>6 DEF IsPart
  <2>2. Logicals(c) = Logicals(w)
    BY <2>1 DEF Logicals, NQubits
  <2> QED
    BY <1>1, <2>1, <2>2 DEF WellFormed, LayoutFits
<1> QED
  BY <1>5, <1>6

\* The last qubit of a part, and what is left without it
LEMMA LastTaken ==
    ASSUME NEW w, WellFormed(w), NEW n \in 1 .. NQubits(w), NEW c, IsPart(c, w, n),
           NEW h, h = Holder(c, n - 1)
    PROVE  /\ MaxLogical(c) = n - 1 /\ h = Holder(w, n - 1) /\ h \in Nat
           /\ Outputs(c, h) = Outputs(w, h) /\ (n - 1 \in c.garbage <=> n - 1 \in w.garbage)
           /\ IsPart(RemoveQubit(c, n - 1), w, n - 1)
<1> DEFINE m == NQubits(w)
           d == RemoveQubit(c, n - 1)
<1>1. /\ m \in Nat /\ Logicals(w) = 0 .. m - 1
      /\ \A p \in DOMAIN w.layout : w.layout[p] \in 0 .. m - 1
      /\ \A p, q \in DOMAIN w.layout : w.layout[p] = w.layout[q] => p = q
      /\ \A l \in 0 .. m - 1 : Holder(w, l) \in DOMAIN w.layout /\ w.layout[Holder(w, l)] = l
  BY LayoutIs DEF WellFormed
<1>2. /\ DOMAIN w.output \subseteq DOMAIN w.layout /\ DOMAIN w.layout \subseteq Nat
      /\ w.garbage \subseteq 0 .. m - 1
  BY <1>1 DEF WellFormed, LayoutFits
<1>3. n \in 1 .. m
  OBVIOUS
<1> HIDE DEF m
<1>4. n \in 0 .. m /\ n - 1 \in 0 .. m - 1 /\ n - 1 \in 0 .. n - 1
  BY <1>1, <1>3
<1>5. LayoutFits(c) /\ NQubits(c) = n /\ h = Holder(w, n - 1)
  BY <1>4, PartIs DEF m
<1>6. MaxLogical(c) = n - 1
  BY <1>5, LayoutIs
<1>7. h \in DOMAIN w.layout /\ w.layout[h] = n - 1
  BY <1>1, <1>4, <1>5
<1>8. Outputs(c, h) = Outputs(w, h)
  <2>1. h \in DOMAIN c.output <=> h \in DOMAIN w.output
    BY <1>3, <1>7 DEF IsPart
  <2>2. h \in DOMAIN c.output => c.output[h] = w.output[h]
    BY DEF IsPart
  <2> QED
    BY <2>1, <2>2 DEF Outputs
<1>9. n - 1 \in c.garbage <=> n - 1 \in w.garbage
  BY <1>3 DEF IsPart
<1>10. /\ IsCircuit(d)
       /\ d.layout = [p \in DOMAIN c.layout \ {h} |-> c.layout[p]]
       /\ d.output = [p \in DOMAIN c.output \ {h} |-> c.output[p]]
       /\ d.garbage = Erased(c.garbage, n - 1) /\ d.ancillary = Erased(c.ancillary, n - 1)
  <2>1. IsCircuit(c)
    BY DEF IsPart
  <2>2. IsWithout(d, c, n - 1, h)
    BY <2>1, RemoveQubitIs
  <2> QED
    BY <2>2 DEF IsWithout
<1> HIDE DEF d
<1>11. \A q \in DOMAIN w.layout : w.layout[q] < n - 1 <=> w.layout[q] < n /\ q # h
  <2>1. \A q \in DOMAIN w.layout : w.layout[q] = n - 1 <=> q = h
    BY <1>1, <1>7
  <2>2. \A x \in 0 .. m - 1 : x < n - 1 <=> x < n /\ x # n - 1
    BY <1>1, <1>3
  <2> QED
    BY <1>1, <2>1, <2>2
<1>12. d.layout = [p \in {q \in DOMAIN w.layout : w.layout[q] < n - 1} |-> w.layout[p]]
  <2>1. c.layout = [p \in {q \in DOMAIN w.layout : w.layout[q] < n} |-> w.layout[p]]
    BY DEF IsPart
  <2>2. DOMAIN c.layout \ {h} = {q \in DOMAIN w.layout : w.layout[q] < n - 1}
    BY <1>11, <2>1
  <2>3. \A p \in DOMAIN c.layout : c.layout[p] = w.layout[p]
    BY <2>1
  <2> QED
    BY <1>10, <2>2, <2>3
<1>13. d.output = [p \in {q \in DOMAIN w.output : w.layout[q] < n - 1} |-> w.output[p]]
  <2>1. c.output = [p \in {q \in DOMAIN w.output : w.layout[q] < n} |-> w.output[p]]
    BY DEF IsPart
  <2>2. DOMAIN c.output \ {h} = {q \in DOMAIN w.output : w.layout[q] < n - 1}
    BY <1>2, <1>11, <2>1
  <2>3. \A p \in DOMAIN c.output : c.output[p] = w.output[p]
    BY <2>1
  <2> QED
    BY <1>10, <2>2, <2>3
<1>14. \A S : (\A x \in S : x \in 0 .. n - 1) => Erased(S, n - 1) = S \ {n - 1}
  <2> SUFFICES ASSUME NEW S, \A x \in S : x \in 0 .. n - 1
               PROVE  Erased(S, n - 1) = S \ {n - 1}
    OBVIOUS
  <2>1. \A x \in S : (IF x > n - 1 THEN x - 1 ELSE x) = x
    BY <1>3
  <2> QED
    BY <2>1 DEF Erased
<1>15. d.garbage = {l \in w.garbage : l < n - 1}
  <2>1. c.garbage = {l \in w.garbage : l < n}
    BY DEF IsPart
  <2>2. \A x \in c.garbage : x \in 0 .. n - 1
    BY <1>1, <1>2, <1>3, <2>1
  <2>3. \A l \in w.garbage : l < n - 1 <=> l < n /\ l # n - 1
    BY <1>1, <1>2, <1>3
  <2>4. d.garbage = c.garbage \ {n - 1}
    BY <1>10, <1>14, <2>2
  <2> QED
    BY <2>1, <2>3, <2>4
<1>16. d.ancillary \subseteq 0 .. n - 2
  <2>1. \A x \in c.ancillary : x \in 0 .. n - 1
    BY DEF IsPart
  <2>2. d.ancillary = c.ancillary \ {n - 1}
    BY <1>10, <1>14, <2>1
  <2>3. \A x \in 0 .. n - 1 : x # n - 1 => x \in 0 .. n - 2
    BY <1>3
  <2> QED
    BY <2>1, <2>2, <2>3
<1>17. IsPart(d, w, n - 1)
  <2>1. (n - 1) - 1 = n - 2
    BY <1>3
  <2> QED
    BY <1>10, <1>12, <1>13, <1>15, <1>16, <2>1 DEF IsPart
<1> QED
  BY <1>2, <1>5, <1>6, <1>7, <1>8, <1>9, <1>17 DEF d

IsReadded(d, c, p, n, outputs) ==
    /\ IsCircuit(d)
    /\ d.layout = [q \in DOMAIN c.layout \cup {p} |-> IF q = p THEN n ELSE c.layout[q]]
    /\ d.output = [q \in DOMAIN c.output \cup {p : o \in outputs} |->
                     IF q = p THEN CHOOSE o \in outputs : TRUE ELSE c.output[q]]
    /\ d.garbage = c.garbage /\ d.ancillary = c.ancillary \cup {n}

\* A circuit that has got another qubit
LEMMA ReaddedIs ==
    ASSUME NEW c, IsCircuit(c), NEW n, NQubits(c) = n, NEW p, NEW outputs
    PROVE  IsReadded(AddAncillaryQubit(c, p, outputs), c, p, n, outputs)
<1> DEFINE d == AddAncillaryQubit(c, p, outputs)
           L == [q \in DOMAIN c.layout \cup {p} |-> IF q = p THEN n ELSE c.layout[q]]
           O == [q \in DOMAIN c.output \cup {p : o \in outputs} |->
                   IF q = p THEN CHOOSE o \in outputs : TRUE ELSE c.output[q]]
<1>1. d = [c EXCEPT !.layout = L, !.output = O, !.ancillary = c.ancillary \cup {n}]
  BY DEF AddAncillaryQubit
<1> HIDE DEF d, L, O
<1>2. IsCircuit(d) /\ d.layout = L /\ d.output = O
      /\ d.garbage = c.garbage /\ d.ancillary = c.ancillary \cup {n}
  BY <1>1 DEF IsCircuit
<1> QED
  BY <1>2 DEF IsReadded, d, L, O

\* A part that gets back the qubit that was taken out last
LEMMA Restored ==
    ASSUME NEW w, WellFormed(w), NEW n \in 0 .. NQubits(w) - 1, NEW c, IsPart(c, w, n),
           NEW h, h = Holder(w, n), NEW d, d = AddAncillaryQubit(c, h, Outputs(w, h)),
           NEW g, n \in g <=> n \in w.garbage,
           NEW e, e = IF n \in g THEN SetGarbage(d, n) ELSE d
    PROVE  NQubits(d) - 1 = n /\ IsPart(e, w, n + 1)
<1> DEFINE m == NQubits(w)
<1>1. /\ m \in Nat /\ Logicals(w) = 0 .. m - 1
      /\ \A p \in DOMAIN w.layout : w.layout[p] \in 0 .. m - 1
      /\ \A p, q \in DOMAIN w.layout : w.layout[p] = w.layout[q] => p = q
      /\ \A l \in 0 .. m - 1 : Holder(w, l) \in DOMAIN w.layout /\ w.layout[Holder(w, l)] = l
  BY LayoutIs DEF WellFormed
<1>2. /\ DOMAIN w.output \subseteq DOMAIN w.layout
      /\ w.garbage \subseteq 0 .. m - 1
      /\ \A p \in DOMAIN w.output : w.output[p] \notin w.garbage
  BY <1>1 DEF WellFormed, Range
<1>3. n \in 0 .. m - 1
  OBVIOUS
<1> HIDE DEF m
<1>4. n \in 0 .. m
  BY <1>1, <1>3
<1>5. LayoutFits(c) /\ NQubits(c) = n
  BY <1>4, PartIs DEF m
<1>6. IsReadded(d, c, h, n, Outputs(w, h))
  BY <1>5, ReaddedIs DEF IsPart
<1>7. h \in DOMAIN w.layout /\ w.layout[h] = n
  BY <1>1, <1>3
<1>8. h \notin DOMAIN c.layout
  BY <1>3, <1>7 DEF IsPart
<1>9. NQubits(d) - 1 = n
  <2>1. IsFiniteSet(DOMAIN c.layout) /\ Cardinality(DOMAIN c.layout) = n
    BY <1>5 DEF LayoutFits, NQubits
  <2>2. DOMAIN d.layout = DOMAIN c.layout \cup {h}
    BY <1>6 DEF IsReadded
  <2>3. Cardinality(DOMAIN d.layout) = n + 1
    BY <1>8, <2>1, <2>2, FS_AddElement
  <2> QED
    BY <1>3, <2>3 DEF NQubits
<1>10. \A q \in DOMAIN w.layout : w.layout[q] < n + 1 <=> w.layout[q] < n \/ q = h
  <2>1. \A q \in DOMAIN w.layout : w.layout[q] = n <=> q = h
    BY <1>1, <1>7
  <2>2. \A x \in 0 .. m - 1 : x < n + 1 <=> x < n \/ x = n
    BY <1>1, <1>3
  <2> QED
    BY <1>1, <2>1, <2>2
<1>11. d.layout = [p \in {q \in DOMAIN w.layout : w.layout[q] < n + 1} |-> w.layout[p]]
  <2>1. c.layout = [p \in {q \in DOMAIN w.layout : w.layout[q] < n} |-> w.layout[p]]
    BY DEF IsPart
  <2>2. DOMAIN c.layout \cup {h} = {q \in DOMAIN w.layout : w.layout[q] < n + 1}
    BY <1>7, <1>10, <2>1
  <2>3. \A p \in DOMAIN c.layout : c.layout[p] = w.layout[p]
    BY <2>1
  <2>4. d.layout = [q \in DOMAIN c.layout \cup {h} |-> IF q = h THEN n ELSE c.layout[q]]
    BY <1>6 DEF IsReadded
  <2> QED
    BY <1>7, <2>2, <2>3, <2>4
<1>12. d.output = [p \in {q \in DOMAIN w.output : w.layout[q] < n + 1} |-> w.output[p]]
  <2>1. c.output = [p \in {q \in DOMAIN w.output : w.layout[q] < n} |-> w.output[p]]
    BY DEF IsPart
  <2>2. \A p \in DOMAIN c.output : c.output[p] = w.output[p]
    BY <2>1
  <2>3. d.output = [q \in DOMAIN c.output \cup {h : o \in Outputs(w, h)} |->
                      IF q = h THEN CHOOSE o \in Outputs(w, h) : TRUE ELSE c.output[q]]
    BY <1>6 DEF IsReadded
  <2>4. CASE h \in DOMAIN w.output
    <3>1. Outputs(w, h) = {w.output[h]}
      BY <2>4 DEF Outputs
    <3>2. {h : o \in Outputs(w, h)} = {h} /\ (CHOOSE o \in Outputs(w, h) : TRUE) = w.output[h]
      BY <3>1
    <3>3. DOMAIN c.output \cup {h} = {q \in DOMAIN w.output : w.layout[q] < n + 1}
      BY <1>2, <1>10, <2>1, <2>4
    <3>4. d.output = [q \in DOMAIN c.output \cup {h} |-> IF q = h THEN w.output[h] ELSE c.output[q]]
      BY <2>3, <3>2
    <3> QED
      BY <2>2, <3>3, <3>4
  <2>5. CASE h \notin DOMAIN w.output
    <3>1. Outputs(w, h) = {}
      BY <2>5 DEF Outputs
    <3>2. {h : o \in Outputs(w, h)} = {}
      BY <3>1
    <3>3. DOMAIN c.output \cup {} = {q \in DOMAIN w.output : w.layout[q] < n + 1}
      BY <1>2, <1>10, <2>1, <2>5
    <3>4. h \notin DOMAIN c.output
      BY <2>1, <2>5
    <3> QED
      BY <2>2, <2>3, <3>2, <3>3, <3>4
  <2> QED
    BY <2>4, <2>5
<1>13. d.ancillary \subseteq 0 .. (n + 1) - 1
  <2>1. \A x \in 0 .. n - 1 : x \in 0 .. (n + 1) - 1
    BY <1>3
  <2>2. n \in 0 .. (n + 1) - 1
    BY <1>3
  <2> QED
    BY <1>6, <2>1, <2>2 DEF IsReadded, IsPart
<1>14. \A l \in w.garbage : l < n + 1 <=> l < n \/ l = n
  BY <1>1, <1>2, <1>3
<1>15. c.garbage = {l \in w.garbage : l < n} /\ d.garbage = c.garbage /\ IsCircuit(d)
  BY <1>6 DEF IsReadded, IsPart
<1>16. CASE n \in w.garbage
  <2>1. e = SetGarbage(d, n)
    BY <1>16
  <2>2. /\ IsCircuit(e) /\ e.layout = d.layout /\ e.ancillary = d.ancillary
        /\ e.garbage = d.garbage \cup {n}
        /\ e.output = [x \in {y \in DOMAIN d.output : d.output[y] # n} |-> d.output[x]]
    BY <1>15, <2>1 DEF SetGarbage, IsCircuit, RestrictValues, Restrict
  <2>3. e.garbage = {l \in w.garbage : l < n + 1}
    BY <1>14, <1>15, <1>16, <2>2
  <2>4. \A y \in DOMAIN d.output : d.output[y] # n
    BY <1>2, <1>12, <1>16
  <2>5. e.output = d.output
    BY <1>12, <2>2, <2>4
  <2> QED
    BY <1>9, <1>11, <1>12, <1>13, <2>2, <2>3, <2>5 DEF IsPart
<1>17. CASE n \notin w.garbage
  <2>1. e = d
    BY <1>17
  <2>2. e.garbage = {l \in w.garbage : l < n + 1}
    BY <1>14, <1>15, <1>17, <2>1
  <2> QED
    BY <1>9, <1>11, <1>12, <1>13, <1>15, <2>1, <2>2 DEF IsPart
<1> QED
  BY <1>16, <1>17

\* A circuit whose qubit l is made garbage
LEMMA GarbageSet ==
    ASSUME NEW c, WellFormed(c), NEW l \in Logicals(c), NEW d, d = SetGarbage(c, l)
    PROVE  /\ WellFormed(d) /\ d.layout = c.layout
           /\ \A p, q : c.layout[q] # l =>
                /\ d.layout[q] \in Outputs(d, p) <=> c.layout[q] \in Outputs(c, p)
                /\ d.layout[q] \in d.garbage <=> c.layout[q] \in c.garbage
<1>1. /\ IsCircuit(d) /\ d.layout = c.layout /\ d.ancillary = c.ancillary
      /\ d.garbage = c.garbage \cup {l}
      /\ d.output = [x \in {y \in DOMAIN c.output : c.output[y] # l} |-> c.output[x]]
  BY DEF WellFormed, IsCircuit, SetGarbage, RestrictValues, Restrict
<1>2. /\ DOMAIN d.output \subseteq DOMAIN c.output
      /\ \A y \in DOMAIN d.output : d.output[y] = c.output[y] /\ d.output[y] # l
      /\ \A y \in DOMAIN c.output : c.output[y] # l => y \in DOMAIN d.output
      /\ d.output = [x \in DOMAIN d.output |-> d.output[x]]
  BY <1>1
<1>3. IsInjective(c.output) /\ Range(c.output) \subseteq Logicals(c)
  BY OutputFitsIs DEF WellFormed
<1>4. Logicals(d) = Logicals(c)
  BY <1>1 DEF Logicals, NQubits
<1>5. IsInjective(d.output)
  BY <1>2, <1>3 DEF IsInjective
<1>6. Range(d.output) \subseteq Range(c.output) \ {l}
  BY <1>2 DEF Range
<1>7. d.output \in Injection(DOMAIN d.output, Logicals(d))
  BY <1>2, <1>3, <1>4, <1>5, <1>6, OutputFitsIs
<1>8. LayoutFits(d)
  BY <1>1, <1>4 DEF WellFormed, LayoutFits
<1>9. d.garbage \subseteq Logicals(d) \ Range(d.output)
  BY <1>1, <1>4, <1>6 DEF WellFormed
<1>10. WellFormed(d)
  BY <1>1, <1>2, <1>4, <1>7, <1>8, <1>9 DEF WellFormed
<1>11. ASSUME NEW p, NEW q, c.layout[q] # l
       PROVE  d.layout[q] \in Outputs(d, p) <=> c.layout[q] \in Outputs(c, p)
  BY <1>1, <1>2, <1>11 DEF Outputs
<1>12. ASSUME NEW q, c.layout[q] # l
       PROVE  d.layout[q] \in d.garbage <=> c.layout[q] \in c.garbage
  BY <1>1, <1>12
<1> QED
  BY <1>1, <1>10, <1>11, <1>12

\* A circuit that has got a register of n ancillary qubits
LEMMA RegisterAdded ==
    ASSUME NEW c, WellFormed(c), NEW n \in Nat, NEW d, d = AddAncillaryRegister(c, n)
    PROVE  /\ WellFormed(d) /\ NQubits(d) = NQubits(c) + n /\ NQubits(c) \in Nat
           /\ d.garbage = c.garbage /\ DOMAIN c.layout \subseteq DOMAIN d.layout
           /\ \A p \in DOMAIN d.layout :
                p \in DOMAIN c.layout <=> d.layout[p] < NQubits(c)
           /\ \A p \in DOMAIN c.layout :
                d.layout[p] = c.layout[p] /\ Outputs(d, p) = Outputs(c, p)
<1> DEFINE m == NQubits(c)
           f == FirstFree(c)
           R == f .. f + n - 1
           At(p) == m + p - f
           Old == 0 .. m - 1
           New == m .. m + n - 1
           All == 0 .. (m + n) - 1
<1>1. /\ m \in Nat /\ Logicals(c) = Old /\ IsCircuit(c)
      /\ \A p \in DOMAIN c.layout : c.layout[p] \in Old
      /\ \A p, q \in DOMAIN c.layout : c.layout[p] = c.layout[q] => p = q
      /\ \A l \in Old : Holder(c, l) \in DOMAIN c.layout /\ c.layout[Holder(c, l)] = l
  BY LayoutIs DEF WellFormed
<1>2. /\ DOMAIN c.output \subseteq DOMAIN c.layout
      /\ \A p \in DOMAIN c.output : c.output[p] \in Old
      /\ \A p, q \in DOMAIN c.output : c.output[p] = c.output[q] => p = q
      /\ c.garbage \subseteq Old /\ c.ancillary \subseteq Old
      /\ \A p \in DOMAIN c.output : c.output[p] \notin c.garbage
  <2>1. IsInjective(c.output) /\ Range(c.output) \subseteq Logicals(c)
    BY OutputFitsIs DEF WellFormed
  <2>2. /\ DOMAIN c.output \subseteq DOMAIN c.layout
        /\ c.garbage \subseteq Logicals(c) \ Range(c.output) /\ c.ancillary \subseteq Logicals(c)
    BY DEF WellFormed
  <2> QED
    BY <1>1, <2>1, <2>2 DEF IsInjective, Range
<1>3. DOMAIN c.layout \subseteq Nat /\ IsFiniteSet(DOMAIN c.layout)
  BY DEF WellFormed, LayoutFits
<1>4. f \in Nat /\ \A p \in DOMAIN c.layout : p < f
  <2> DEFINE g == Max(DOMAIN c.layout \cup {-1})
  <2>1. g \in Int /\ g >= -1 /\ \A p \in DOMAIN c.layout : p <= g
    BY <1>3, MaxIs
  <2>2. f = 1 + g
    BY DEF FirstFree
  <2> HIDE DEF f, g
  <2> QED
    BY <1>3, <2>1, <2>2
<1>5. /\ IsCircuit(d) /\ d.garbage = c.garbage
      /\ d.layout = [p \in DOMAIN c.layout \cup R |-> IF p \in R THEN At(p) ELSE c.layout[p]]
      /\ d.output = [p \in DOMAIN c.output \cup R |-> IF p \in R THEN At(p) ELSE c.output[p]]
      /\ d.ancillary = c.ancillary \cup {At(p) : p \in R}
  <2> DEFINE L == [p \in DOMAIN c.layout \cup R |-> IF p \in R THEN At(p) ELSE c.layout[p]]
             O == [p \in DOMAIN c.output \cup R |-> IF p \in R THEN At(p) ELSE c.output[p]]
             A == c.ancillary \cup {At(p) : p \in R}
             I == c.idle \cup R
  <2>1. d = [c EXCEPT !.layout = L, !.output = O, !.ancillary = A, !.idle = I]
    BY DEF AddAncillaryRegister
  <2> HIDE DEF L, O, A, I
  <2>2. IsCircuit(d) /\ d.garbage = c.garbage /\ d.layout = L /\ d.output = O /\ d.ancillary = A
    BY <1>1, <2>1 DEF IsCircuit
  <2> QED
    BY <2>2 DEF L, O, A
<1> HIDE DEF f, m
<1>6. /\ \A p \in R : At(p) \in New
      /\ \A p, q \in R : At(p) = At(q) => p = q
      /\ \A l \in New : \E p \in R : At(p) = l
      /\ R \subseteq Nat
  <2>1. \A l \in New : l - m + f \in R /\ At(l - m + f) = l
    BY <1>1, <1>4
  <2>2. \A l \in New : \E p \in R : At(p) = l
    BY <2>1
  <2>3. /\ \A p \in R : At(p) \in New
        /\ \A p, q \in R : At(p) = At(q) => p = q
        /\ R \subseteq Nat
    BY <1>1, <1>4
  <2> QED
    BY <2>2, <2>3
<1>7. \A p \in DOMAIN c.layout : p \notin R
  BY <1>3, <1>4
<1>8. IsFiniteSet(R)
  <2> DEFINE b == f + n - 1
  <2>1. f \in Int /\ b \in Int
    BY <1>4
  <2> HIDE DEF b
  <2>2. IsFiniteSet(f .. b)
    BY <2>1, FS_Interval, Zenon
  <2> QED
    BY <2>2 DEF b
<1> HIDE DEF R, At
<1>9. All = Old \cup New /\ Old \cap New = {} /\ m + n \in Nat
      /\ (\A l \in Old : l < m) /\ \A l \in New : ~(l < m)
  BY <1>1
<1> HIDE DEF Old, New, All
<1>10. ASSUME NEW p \in DOMAIN d.layout
       PROVE  \/ p \in DOMAIN c.layout /\ p \notin R /\ d.layout[p] = c.layout[p] /\ d.layout[p] \in Old
              \/ p \in R /\ d.layout[p] = At(p) /\ d.layout[p] \in New
  <2>1. CASE p \in R
    <3>1. d.layout[p] = At(p)
      BY <1>5, <2>1
    <3>2. At(p) \in New
      BY <1>6, <2>1
    <3> QED
      BY <2>1, <3>1, <3>2
  <2>2. CASE p \notin R
    <3>1. p \in DOMAIN c.layout /\ d.layout[p] = c.layout[p]
      BY <1>5, <2>2
    <3> QED
      BY <1>1, <2>2, <3>1
  <2> QED
    BY <2>1, <2>2
<1>11. ASSUME NEW p \in DOMAIN d.output
       PROVE  \/ p \in DOMAIN c.output /\ p \notin R /\ d.output[p] = c.output[p] /\ d.output[p] \in Old
              \/ p \in R /\ d.output[p] = At(p) /\ d.output[p] \in New
  <2>1. CASE p \in R
    <3>1. d.output[p] = At(p)
      BY <1>5, <2>1
    <3>2. At(p) \in New
      BY <1>6, <2>1
    <3> QED
      BY <2>1, <3>1, <3>2
  <2>2. CASE p \notin R
    <3>1. p \in DOMAIN c.output /\ d.output[p] = c.output[p]
      BY <1>5, <2>2
    <3> QED
      BY <1>2, <2>2, <3>1
  <2> QED
    BY <2>1, <2>2
<1>12. LayoutFits(d) /\ NQubits(d) = m + n
  <2>1. IsInjective(d.layout)
    <3> SUFFICES ASSUME NEW p \in DOMAIN d.layout, NEW q \in DOMAIN d.layout,
                        d.layout[p] = d.layout[q]
                 PROVE  p = q
      BY DEF IsInjective
    <3>1. \/ p \in R /\ q \in R /\ At(p) = At(q)
          \/ p \in DOMAIN c.layout /\ q \in DOMAIN c.layout /\ c.layout[p] = c.layout[q]
      BY <1>9, <1>10
    <3> QED
      BY <1>1, <1>6, <3>1
  <2>2. Range(d.layout) = All
    <3>1. \A p \in DOMAIN d.layout : d.layout[p] \in All
      BY <1>9, <1>10
    <3>2. ASSUME NEW l \in All
          PROVE  \E p \in DOMAIN d.layout : d.layout[p] = l
      <4>1. CASE l \in Old
        <5>1. Holder(c, l) \in DOMAIN c.layout /\ c.layout[Holder(c, l)] = l
          BY <1>1, <4>1
        <5>2. Holder(c, l) \in DOMAIN d.layout /\ d.layout[Holder(c, l)] = l
          BY <1>5, <1>7, <5>1
        <5> QED
          BY <5>2
      <4>2. CASE l \in New
        <5>1. PICK p \in R : At(p) = l
          BY <1>6, <4>2
        <5>2. p \in DOMAIN d.layout /\ d.layout[p] = l
          BY <1>5, <5>1
        <5> QED
          BY <5>2
      <4> QED
        BY <1>9, <4>1, <4>2
    <3> QED
      BY <3>1, <3>2 DEF Range
  <2>3. /\ DOMAIN d.layout \subseteq Nat /\ IsFiniteSet(DOMAIN d.layout)
        /\ d.layout = [p \in DOMAIN d.layout |-> d.layout[p]]
    BY <1>3, <1>5, <1>6, <1>8, FS_Union
  <2>4. Cardinality(DOMAIN d.layout) = m + n
    <3> DEFINE k == m + n
    <3> HIDE DEF k
    <3>1. k \in Nat /\ Range(d.layout) = 0 .. k - 1
      BY <1>9, <2>2 DEF k, All
    <3>2. Cardinality(DOMAIN d.layout) = k
      BY <2>1, <2>3, <3>1, Numbered
    <3> QED
      BY <3>2 DEF k
  <2> QED
    <3>1. NQubits(d) = m + n
      BY <2>4 DEF NQubits
    <3>2. Logicals(d) = All
      BY <3>1 DEF Logicals, All
    <3> QED
      BY <2>1, <2>2, <2>3, <3>1, <3>2, LayoutFitsIs
<1>13. Logicals(d) = All
  BY <1>12 DEF Logicals, All
<1>14. d.output \in Injection(DOMAIN d.output, Logicals(d))
  <2>1. IsInjective(d.output)
    <3> SUFFICES ASSUME NEW p \in DOMAIN d.output, NEW q \in DOMAIN d.output,
                        d.output[p] = d.output[q]
                 PROVE  p = q
      BY DEF IsInjective
    <3>1. \/ p \in R /\ q \in R /\ At(p) = At(q)
          \/ p \in DOMAIN c.output /\ q \in DOMAIN c.output /\ c.output[p] = c.output[q]
      BY <1>9, <1>11
    <3> QED
      BY <1>2, <1>6, <3>1
  <2>2. Range(d.output) \subseteq Logicals(d)
    BY <1>9, <1>11, <1>13 DEF Range
  <2>3. d.output = [p \in DOMAIN d.output |-> d.output[p]]
    BY <1>5
  <2> QED
    BY <2>1, <2>2, <2>3, OutputFitsIs
<1>15. d.garbage \subseteq Logicals(d) \ Range(d.output)
  <2>1. \A p \in DOMAIN d.output : d.output[p] \notin d.garbage
    BY <1>2, <1>5, <1>9, <1>11
  <2> QED
    <3>1. d.garbage \subseteq Logicals(d)
      BY <1>2, <1>5, <1>9, <1>13
    <3>2. \A x \in Range(d.output) : \E p \in DOMAIN d.output : x = d.output[p]
      BY DEF Range
    <3> QED
      BY <2>1, <3>1, <3>2
<1>16. d.ancillary \subseteq Logicals(d)
  BY <1>2, <1>5, <1>6, <1>9, <1>13
<1>17. WellFormed(d)
  BY <1>2, <1>5, <1>12, <1>14, <1>15, <1>16 DEF WellFormed
<1>18. \A p \in DOMAIN d.layout : p \in DOMAIN c.layout <=> d.layout[p] < m
  BY <1>7, <1>9, <1>10
<1>19. \A p \in DOMAIN c.layout : d.layout[p] = c.layout[p] /\ Outputs(d, p) = Outputs(c, p)
  BY <1>2, <1>5, <1>7 DEF Outputs
<1> QED
  BY <1>1, <1>5, <1>12, <1>17, <1>18, <1>19 DEF m

\* Before any are added, all physical qubits are the circuit's own ...
LEMMA OwnEarly ==
    ASSUME NEW cs, NEW os, NEW b, NEW st, st \in {"strip", "remove"}, NEW d, NEW i \in Both
    PROVE  OwnIn(cs, os, b, st, d)[i] = DOMAIN cs[i].layout \cap DOMAIN os[i].layout
  BY DEF OwnIn, AddedIn

\* ... and also later, if there is nothing to add.
LEMMA OwnWithoutAny ==
    ASSUME NEW cs, NEW os, NEW b, NEW i \in Both, NQubits(cs[i]) \in Nat
    PROVE  OwnIn(cs, os, b, "done", 0)[i] = DOMAIN cs[i].layout \cap DOMAIN os[i].layout
<1> DEFINE n == NQubits(cs[i])
<1>1. n \in Nat
  OBVIOUS
<1> HIDE DEF n
<1>2. {l \in 0 .. n - 1 : l >= n - 0} = {}
  BY <1>1
<1>3. AddedIn(cs, i, b, "done", 0) = {}
  BY <1>2 DEF AddedIn, Logicals, n
<1> QED
  BY <1>3 DEF OwnIn

\* Pairs that differ at most in what is ancillary or idle
Alike(cs, ds) ==
    \A i \in Both : /\ ds[i].layout = cs[i].layout /\ ds[i].output = cs[i].output
                   /\ ds[i].garbage = cs[i].garbage

\* Such pairs are equally faithful.
LEMMA AlikeIsFaithful ==
    ASSUME NEW cs, NEW ds, Alike(cs, ds), NEW os, NEW own, NEW kept, Faithful(cs, os, own),
           \A i \in Both : kept[i] = own[i]
    PROVE  Faithful(ds, os, kept)
<1>1. \A i \in Both : kept[i] \subseteq own[i]
  OBVIOUS
<1>2. \A p \in kept[1], q \in kept[2] :
         ds[1].layout[p] = ds[2].layout[q] <=> cs[1].layout[p] = cs[2].layout[q]
  BY DEF Alike, Both
<1>3. \A i \in Both : \A p, q \in kept[i] :
        /\ ds[i].layout[q] \in Outputs(ds[i], p) <=> cs[i].layout[q] \in Outputs(cs[i], p)
        /\ ds[i].layout[q] \in ds[i].garbage <=> cs[i].layout[q] \in cs[i].garbage
  BY DEF Alike, Outputs
<1> QED
  BY <1>1, <1>2, <1>3, FaithfulStays

\* Their physical qubits are equally their own.
LEMMA AlikeOwn ==
    ASSUME NEW cs, NEW ds, Alike(cs, ds), NEW os, NEW b, NEW st, NEW d, NEW i \in Both
    PROVE  OwnIn(ds, os, b, st, d)[i] = OwnIn(cs, os, b, st, d)[i]
  BY DEF Alike, OwnIn, AddedIn, Logicals, NQubits

-----------------------------------------------------------------------------------
(* The steps *)

\* A qubit that is safe to remove is output nowhere else.
LEMMA SafeIs ==
    ASSUME NEW c, WellFormed(c), NEW l \in Logicals(c), NEW h, Safe(c, h, l)
    PROVE  \A p \in DOMAIN c.output : c.output[p] = l => p = h
<1>1. IsInjective(c.output)
  BY OutputFitsIs DEF WellFormed
<1> QED
  BY <1>1 DEF Safe, IsInjective, Range

\* The circuits cs are stripped of a qubit, which one of them may not have if its number is
\* above all of that circuit's.
StripTo(cs, ds, l) ==
    \A i \in Both :
        /\ WellFormed(cs[i])
        /\ \/ /\ l \in Logicals(cs[i]) /\ Safe(cs[i], Holder(cs[i], l), l)
              /\ ds[i] = Stripped(cs[i], l)
           \/ l >= NQubits(cs[i]) /\ ds[i] = cs[i]

KeptOf(kept, own, ds) == \A i \in Both : kept[i] \subseteq own[i] \cap DOMAIN ds[i].layout

\* What stripping a qubit leaves of a pair
LEMMA StripIsSound ==
    ASSUME NEW cs, NEW ds, NEW l \in Nat, StripTo(cs, ds, l),
           NEW os, NEW own, NEW kept, Faithful(cs, os, own), KeptOf(kept, own, ds)
    PROVE  /\ Faithful(ds, os, kept)
           /\ \A i \in Both : WellFormed(ds[i]) /\ DOMAIN ds[i].layout \subseteq DOMAIN cs[i].layout
<1>1. ASSUME NEW i \in Both
      PROVE  /\ WellFormed(ds[i]) /\ DOMAIN ds[i].layout \subseteq DOMAIN cs[i].layout
             /\ \A p \in DOMAIN ds[i].layout :
                  /\ ds[i].layout[p] = Down(cs[i].layout[p], l)
                  /\ cs[i].layout[p] \in Int /\ cs[i].layout[p] # l
             /\ \A p, q \in DOMAIN ds[i].layout :
                  /\ ds[i].layout[q] \in Outputs(ds[i], p) <=> cs[i].layout[q] \in Outputs(cs[i], p)
                  /\ ds[i].layout[q] \in ds[i].garbage <=> cs[i].layout[q] \in cs[i].garbage
  <2> DEFINE c == cs[i]
             d == ds[i]
  <2>0. /\ WellFormed(c)
        /\ \/ l \in Logicals(c) /\ Safe(c, Holder(c, l), l) /\ d = Stripped(c, l)
           \/ l >= NQubits(c) /\ d = c
    BY DEF StripTo
  <2>1. CASE l \in Logicals(c) /\ Safe(c, Holder(c, l), l) /\ d = Stripped(c, l)
    <3> HIDE DEF c, d
    <3>1. \A p \in DOMAIN c.output : c.output[p] = l => p = Holder(c, l)
      BY <2>0, <2>1, SafeIs
    <3>2. WellFormed(d)
      BY <2>0, <2>1, <3>1, StrippedFits
    <3>3. /\ DOMAIN d.layout = DOMAIN c.layout \ {Holder(c, l)}
          /\ \A p \in DOMAIN d.layout :
               d.layout[p] = Down(c.layout[p], l) /\ c.layout[p] \in Nat /\ c.layout[p] # l
          /\ \A p, q \in DOMAIN d.layout :
               /\ d.layout[q] \in Outputs(d, p) <=> c.layout[q] \in Outputs(c, p)
               /\ d.layout[q] \in d.garbage <=> c.layout[q] \in c.garbage
      BY <2>0, <2>1, <3>1, StrippedKeeps
    <3>4. \A x \in Nat : x \in Int
      OBVIOUS
    <3> QED
      BY <3>2, <3>3, <3>4 DEF c, d
  <2>2. CASE l >= NQubits(c) /\ d = c
    <3>1. NQubits(c) \in Nat /\ \A p \in DOMAIN c.layout : c.layout[p] \in 0 .. NQubits(c) - 1
      BY <2>0, LayoutIs DEF WellFormed
    <3> DEFINE n == NQubits(c)
    <3>2. n \in Nat /\ l >= n
      BY <2>2, <3>1
    <3> HIDE DEF n
    <3>3. \A x \in 0 .. n - 1 : x \in Int /\ x # l /\ Down(x, l) = x
      BY <3>2 DEF Down
    <3>4. \A p \in DOMAIN c.layout : c.layout[p] \in 0 .. n - 1
      BY <3>1 DEF n
    <3> QED
      BY <2>0, <2>2, <3>3, <3>4
  <2> QED
    BY <2>0, <2>1, <2>2
<1>2. \A x, y \in Int : x # l /\ y # l => (Down(x, l) = Down(y, l) <=> x = y)
  BY DEF Down
<1>3. \A i \in Both : kept[i] \subseteq own[i] /\ kept[i] \subseteq DOMAIN ds[i].layout
  BY DEF KeptOf
<1>4. ASSUME NEW p \in kept[1], NEW q \in kept[2]
      PROVE  ds[1].layout[p] = ds[2].layout[q] <=> cs[1].layout[p] = cs[2].layout[q]
  <2>1. 1 \in Both /\ 2 \in Both
    BY DEF Both
  <2>2. p \in DOMAIN ds[1].layout /\ q \in DOMAIN ds[2].layout
    BY <1>3, <2>1
  <2>3. /\ ds[1].layout[p] = Down(cs[1].layout[p], l)
        /\ cs[1].layout[p] \in Int /\ cs[1].layout[p] # l
        /\ ds[2].layout[q] = Down(cs[2].layout[q], l)
        /\ cs[2].layout[q] \in Int /\ cs[2].layout[q] # l
    BY <1>1, <2>1, <2>2
  <2> QED
    BY <1>2, <2>3
<1>5. \A i \in Both : \A p, q \in kept[i] :
        /\ ds[i].layout[q] \in Outputs(ds[i], p) <=> cs[i].layout[q] \in Outputs(cs[i], p)
        /\ ds[i].layout[q] \in ds[i].garbage <=> cs[i].layout[q] \in cs[i].garbage
  BY <1>1, <1>3
<1>6. Faithful(ds, os, kept)
  BY <1>3, <1>4, <1>5, FaithfulStays
<1> QED
  BY <1>1, <1>6

\* Where a step of stripIdleQubits begins
LEMMA Stripping ==
    ASSUME IInv, stage = "strip", todo # {}
    PROVE  /\ \A i \in Both : WellFormed(circuits[i])
           /\ Sound(circuits) /\ big \in Both /\ small \in Both /\ small # big
           /\ \A i \in Both : i = big \/ i = small
           /\ Visited \in todo /\ Visited = Holder(circuits[big], Logical)
           /\ Logical \in Logicals(circuits[big]) /\ Logical \in Nat
           /\ OnlyInLarger => Logical >= NQubits(circuits[small])
           /\ ~OnlyInLarger => Logical \in Logicals(circuits[small])
           /\ \A i \in Both : NQubits(circuits[i]) \in Nat
<1>1. \A i \in Both : WellFormed(circuits[i])
  BY DEF IInv, WholeInv, Whole
<1>2. Sound(circuits)
  BY DEF IInv, WholeInv, Whole
<1>3. /\ big \in Both /\ small \in Both /\ small # big
      /\ \A i \in Both : i = big \/ i = small
  BY DEF IInv, Typed, Both, small
<1> DEFINE c == circuits[big]
           d == circuits[small]
<1>4. /\ WellFormed(c) /\ WellFormed(d) /\ todo \subseteq DOMAIN c.layout
      /\ difference = NQubits(c) - NQubits(d) /\ difference \in Nat
  BY <1>1, <1>3 DEF IInv, StripInv, Typed
<1>5. Logical = c.layout[Visited]
  BY DEF Logical
<1> HIDE DEF c, d
<1>6. Visited \in todo
  <2>1. DOMAIN c.layout \subseteq Nat /\ IsFiniteSet(DOMAIN c.layout)
    BY <1>4 DEF WellFormed, LayoutFits
  <2>2. todo \subseteq Nat /\ IsFiniteSet(todo)
    BY <1>4, <2>1, FS_Subset
  <2> QED
    BY <2>2, MaxIs DEF Visited
<1>7. /\ NQubits(c) \in Nat /\ NQubits(d) \in Nat
      /\ Logicals(c) = 0 .. NQubits(c) - 1 /\ Logicals(d) = 0 .. NQubits(d) - 1
      /\ MaxLogical(d) = NQubits(d) - 1
  BY <1>4, LayoutIs DEF WellFormed
<1>8. Logical \in Logicals(c) /\ Visited = Holder(c, Logical)
  BY <1>4, <1>5, <1>6, LayoutIs DEF WellFormed
<1>9. OnlyInLarger <=> difference > 0 /\ Logical > NQubits(d) - 1
  BY <1>7 DEF OnlyInLarger, d
<1> DEFINE n == NQubits(c)
           m == NQubits(d)
           l == Logical
<1>10. n \in Nat /\ m \in Nat /\ l \in 0 .. n - 1 /\ difference = n - m /\ difference \in Nat
  BY <1>4, <1>7, <1>8
<1> HIDE DEF n, m, l
<1>11. /\ l \in Nat
       /\ difference > 0 /\ l > m - 1 => l >= m
       /\ ~(difference > 0 /\ l > m - 1) => l \in 0 .. m - 1
  BY <1>10
<1>12. /\ Logical \in Nat
       /\ OnlyInLarger => Logical >= NQubits(d)
       /\ ~OnlyInLarger => Logical \in Logicals(d)
  BY <1>7, <1>9, <1>11 DEF l, m
<1>13. \A i \in Both : NQubits(circuits[i]) \in Nat
  BY <1>1, LayoutIs DEF WellFormed
<1> QED
  BY <1>1, <1>2, <1>3, <1>6, <1>8, <1>12, <1>13 DEF c, d

\* At first the circuits are what they were.
LEMMA InitIInv == Init => IInv
<1> SUFFICES ASSUME Init PROVE IInv
  OBVIOUS
<1>1. /\ DOMAIN circuits = Both /\ \A i \in Both : WellFormed(circuits[i])
      /\ original = circuits /\ circuits \in CircuitPairs
  BY CircuitsAssumption DEF Init, Both
<1>2. \A i \in Both : NQubits(circuits[i]) \in Nat
  BY <1>1, LayoutIs DEF WellFormed
<1>3. big \in Both /\ NQubits(circuits[big]) >= NQubits(circuits[small])
  BY <1>2 DEF Init, Both, small
<1>4. small \in Both
  BY <1>3 DEF Both, small
<1>5. difference \in Nat
  <2> DEFINE n == NQubits(circuits[big])
             m == NQubits(circuits[small])
  <2>1. n \in Nat /\ m \in Nat /\ n >= m /\ difference = n - m
    BY <1>2, <1>3, <1>4 DEF Init
  <2> HIDE DEF n, m
  <2> QED
    BY <2>1
<1>6. Typed
  BY <1>1, <1>3, <1>5 DEF Typed, Init
<1>7. Sound(circuits)
  BY <1>1 DEF Sound, Faithful
<1> QED
  BY <1>1, <1>6, <1>7 DEF IInv, StripInv, WholeInv, SplitInv, NothingNew, Init, Whole

\* What is left when a qubit has been stripped
LEMMA StripsSoundly ==
    ASSUME IInv, stage = "strip", todo # {}, DOMAIN circuits' = Both, difference' \in Nat,
           \A i \in Both :
              \/ /\ Logical \in Logicals(circuits[i])
                 /\ Safe(circuits[i], Holder(circuits[i], Logical), Logical)
                 /\ circuits'[i] = Stripped(circuits[i], Logical)
              \/ Logical >= NQubits(circuits[i]) /\ circuits'[i] = circuits[i],
           circuits'[big] = Stripped(circuits[big], Logical),
           difference' = NQubits(circuits'[big]) - NQubits(circuits'[small]),
           todo' = todo \ {Visited},
           UNCHANGED <<original, big, removed, wasGarbage, stage>>
    PROVE  IInv'
<1>1. /\ \A i \in Both : WellFormed(circuits[i])
      /\ Sound(circuits) /\ big \in Both /\ small \in Both
      /\ Visited \in todo /\ Visited = Holder(circuits[big], Logical)
      /\ Logical \in Logicals(circuits[big]) /\ Logical \in Nat
  BY Stripping
<1> DEFINE cs == circuits
           ds == circuits'
           own == OwnIn(circuits, original, big, stage, difference)
           kept == OwnIn(circuits', original, big, stage, difference')
<1>3. Faithful(cs, original, own)
  BY <1>1 DEF Sound
<1>4. \A i \in Both : /\ own[i] = DOMAIN cs[i].layout \cap DOMAIN original[i].layout
                      /\ kept[i] = DOMAIN ds[i].layout \cap DOMAIN original[i].layout
  BY OwnEarly
<1> HIDE DEF own, kept
<1>5. ASSUME NEW i \in Both
      PROVE  DOMAIN ds[i].layout \subseteq DOMAIN cs[i].layout
  <2>1. CASE ds[i] = cs[i]
    BY <2>1
  <2>2. CASE ds[i] = Stripped(cs[i], Logical)
    <3>1. IsCircuit(cs[i])
      BY <1>1 DEF WellFormed
    <3>2. IsStripped(ds[i], cs[i], Logical, Holder(cs[i], Logical))
      BY <2>2, <3>1, StrippedIs
    <3> QED
      BY <3>2 DEF IsStripped
  <2> QED
    BY <2>1, <2>2
<1>6. KeptOf(kept, own, ds)
  BY <1>4, <1>5 DEF KeptOf
<1>7. /\ Faithful(ds, original, kept)
      /\ \A i \in Both : WellFormed(ds[i]) /\ DOMAIN ds[i].layout \subseteq DOMAIN cs[i].layout
  <2> DEFINE l == Logical
  <2>1. l \in Nat /\ StripTo(cs, ds, l)
    BY <1>1 DEF StripTo
  <2> HIDE DEF l, cs, ds
  <2> QED
    BY <1>3, <1>6, <2>1, StripIsSound
<1>8. Sound(circuits)'
  BY <1>7 DEF Sound, kept
<1>9. todo' \subseteq DOMAIN circuits'[big].layout
  <2>1. IsCircuit(circuits[big]) /\ todo \subseteq DOMAIN circuits[big].layout
    BY <1>1 DEF WellFormed, IInv, StripInv
  <2>2. IsStripped(circuits'[big], circuits[big], Logical, Visited)
    BY <1>1, <2>1, StrippedIs
  <2>3. DOMAIN circuits'[big].layout = DOMAIN circuits[big].layout \ {Visited}
    BY <2>2 DEF IsStripped
  <2> QED
    BY <2>1, <2>3
<1>10. NothingNew'
  BY <1>5 DEF IInv, StripInv, NothingNew
<1>11. Typed'
  BY DEF IInv, Typed
<1>12. StripInv'
  <2>1. removed' = <<>> /\ wasGarbage' = {}
    BY DEF IInv, StripInv
  <2>2. small' = small
    BY DEF small
  <2> QED
    BY <1>9, <1>10, <2>1, <2>2 DEF StripInv
<1>13. WholeInv' /\ SplitInv' /\ (stage' # "strip" => todo' = {})
  BY <1>7, <1>8 DEF WholeInv, SplitInv, Whole
<1> QED
  BY <1>11, <1>12, <1>13 DEF IInv

\* ... from the larger circuit,
LEMMA StripFromLargerStep == IInv /\ StripFromLarger => IInv'
<1> SUFFICES ASSUME IInv, StripFromLarger PROVE IInv'
  OBVIOUS
<1>1. stage = "strip" /\ todo # {} /\ OnlyInLarger /\ Strippable(big)
  BY DEF StripFromLarger
<1>2. /\ \A i \in Both : WellFormed(circuits[i])
      /\ big \in Both /\ small \in Both /\ small # big
      /\ \A i \in Both : i = big \/ i = small
      /\ Logical \in Logicals(circuits[big])
      /\ Logical >= NQubits(circuits[small])
      /\ \A i \in Both : NQubits(circuits[i]) \in Nat
  BY <1>1, Stripping
<1>3. /\ DOMAIN circuits' = Both
      /\ circuits'[big] = Stripped(circuits[big], Logical)
      /\ circuits'[small] = circuits[small]
  BY <1>2 DEF StripFromLarger, IInv, Typed
<1>4. Safe(circuits[big], Holder(circuits[big], Logical), Logical)
  BY <1>1 DEF Strippable
<1>5. NQubits(circuits'[big]) = NQubits(circuits[big]) - 1
  <2>1. \A p \in DOMAIN circuits[big].output :
           circuits[big].output[p] = Logical => p = Holder(circuits[big], Logical)
    BY <1>2, <1>4, SafeIs
  <2> QED
    BY <1>2, <1>3, <2>1, StrippedFits
<1>6. difference' \in Nat /\ difference' = NQubits(circuits'[big]) - NQubits(circuits'[small])
  <2> DEFINE n == NQubits(circuits[big])
             m == NQubits(circuits[small])
  <2>1. n \in Nat /\ m \in Nat /\ difference = n - m /\ difference \in Nat /\ difference > 0
    BY <1>1, <1>2 DEF IInv, StripInv, Typed, OnlyInLarger
  <2>2. difference' = difference - 1
    BY DEF StripFromLarger
  <2>3. NQubits(circuits'[big]) = n - 1 /\ NQubits(circuits'[small]) = m
    BY <1>3, <1>5
  <2> HIDE DEF n, m
  <2>4. difference - 1 \in Nat /\ difference - 1 = (n - 1) - m
    BY <2>1
  <2> QED
    BY <2>2, <2>3, <2>4
<1>7. \A i \in Both :
        \/ /\ Logical \in Logicals(circuits[i])
           /\ Safe(circuits[i], Holder(circuits[i], Logical), Logical)
           /\ circuits'[i] = Stripped(circuits[i], Logical)
        \/ Logical >= NQubits(circuits[i]) /\ circuits'[i] = circuits[i]
  BY <1>2, <1>3, <1>4
<1>8. todo' = todo \ {Visited} /\ UNCHANGED <<original, big, removed, wasGarbage, stage>>
  BY DEF StripFromLarger
<1> QED
  BY <1>1, <1>3, <1>6, <1>7, <1>8, StripsSoundly

\* ... or from both.
LEMMA StripFromBothStep == IInv /\ StripFromBoth => IInv'
<1> SUFFICES ASSUME IInv, StripFromBoth PROVE IInv'
  OBVIOUS
<1>1. stage = "strip" /\ todo # {} /\ ~OnlyInLarger /\ \A i \in Both : Strippable(i)
  BY DEF StripFromBoth
<1>2. /\ \A i \in Both : WellFormed(circuits[i])
      /\ big \in Both /\ small \in Both /\ small # big
      /\ \A i \in Both : i = big \/ i = small
      /\ Logical \in Logicals(circuits[big])
      /\ Logical \in Logicals(circuits[small])
      /\ \A i \in Both : NQubits(circuits[i]) \in Nat
  BY <1>1, Stripping
<1>3. DOMAIN circuits' = Both /\ \A i \in Both : circuits'[i] = Stripped(circuits[i], Logical)
  BY DEF StripFromBoth
<1>4. \A i \in Both : /\ Logical \in Logicals(circuits[i])
                      /\ Safe(circuits[i], Holder(circuits[i], Logical), Logical)
  BY <1>1, <1>2 DEF Strippable
<1>5. ASSUME NEW i \in Both
      PROVE  NQubits(circuits'[i]) = NQubits(circuits[i]) - 1
  <2>1. \A p \in DOMAIN circuits[i].output :
           circuits[i].output[p] = Logical => p = Holder(circuits[i], Logical)
    BY <1>2, <1>4, SafeIs
  <2> QED
    BY <1>2, <1>3, <1>4, <2>1, StrippedFits
<1>6. difference' \in Nat /\ difference' = NQubits(circuits'[big]) - NQubits(circuits'[small])
  <2> DEFINE n == NQubits(circuits[big])
             m == NQubits(circuits[small])
  <2>1. n \in Nat /\ m \in Nat /\ difference = n - m /\ difference \in Nat
    BY <1>1, <1>2 DEF IInv, StripInv, Typed
  <2>2. difference' = difference
    BY DEF StripFromBoth
  <2>3. NQubits(circuits'[big]) = n - 1 /\ NQubits(circuits'[small]) = m - 1
    BY <1>2, <1>5
  <2> HIDE DEF n, m
  <2>4. difference = (n - 1) - (m - 1)
    BY <2>1
  <2> QED
    BY <2>1, <2>2, <2>3, <2>4
<1>7. \A i \in Both :
        \/ /\ Logical \in Logicals(circuits[i])
           /\ Safe(circuits[i], Holder(circuits[i], Logical), Logical)
           /\ circuits'[i] = Stripped(circuits[i], Logical)
        \/ Logical >= NQubits(circuits[i]) /\ circuits'[i] = circuits[i]
  BY <1>3, <1>4
<1>8. todo' = todo \ {Visited} /\ UNCHANGED <<original, big, removed, wasGarbage, stage>>
  BY DEF StripFromBoth
<1>9. circuits'[big] = Stripped(circuits[big], Logical)
  BY <1>2, <1>3
<1> QED
  BY <1>1, <1>3, <1>6, <1>7, <1>8, <1>9, StripsSoundly

\* A qubit is kept.
LEMMA KeepStep == IInv /\ Keep => IInv'
<1> SUFFICES ASSUME IInv, Keep PROVE IInv'
  OBVIOUS
<1>1. /\ stage = "strip" /\ todo' = todo \ {Visited}
      /\ UNCHANGED <<circuits, original, big, difference, removed, wasGarbage, stage>>
  BY DEF Keep
<1>2. Typed' /\ StripInv'
  BY <1>1 DEF IInv, Typed, StripInv, NothingNew, small
<1>3. Sound(circuits)'
  <2>1. Sound(circuits)
    BY <1>1 DEF IInv, WholeInv, Whole
  <2> QED
    BY <1>1, <2>1 DEF Sound
<1>4. WholeInv' /\ SplitInv' /\ (stage' # "strip" => todo' = {})
  BY <1>1, <1>3 DEF IInv, WholeInv, SplitInv, Whole
<1> QED
  BY <1>2, <1>4 DEF IInv

\* The larger circuit is whole when setupAncillariesAndGarbage begins.
LEMMA BeginSetupStep == IInv /\ BeginSetup => IInv'
<1> SUFFICES ASSUME IInv, BeginSetup PROVE IInv'
  OBVIOUS
<1>1. /\ stage = "strip" /\ todo = {}
      /\ big' = IF NQubits(circuits[1]) > NQubits(circuits[2]) THEN 1 ELSE 2
      /\ difference' = NQubits(circuits[big']) - NQubits(circuits[3 - big'])
      /\ stage' = IF difference' = 0 THEN "done" ELSE "remove"
      /\ UNCHANGED <<circuits, original, todo, removed, wasGarbage>>
  BY DEF BeginSetup
<1>2. /\ \A i \in Both : WellFormed(circuits[i])
      /\ Sound(circuits) /\ NothingNew /\ removed = <<>> /\ wasGarbage = {}
      /\ original \in CircuitPairs /\ DOMAIN circuits = Both
  BY <1>1 DEF IInv, WholeInv, StripInv, Typed, Whole
<1>3. \A i \in Both : NQubits(circuits[i]) \in Nat
  BY <1>2, LayoutIs DEF WellFormed
<1>4. /\ big' \in Both /\ 3 - big' \in Both /\ small' = 3 - big'
      /\ NQubits(circuits[big']) >= NQubits(circuits[3 - big'])
  BY <1>1, <1>3 DEF Both, small
<1>a. PICK w : w = circuits[big']
  OBVIOUS
<1> DEFINE n == NQubits(w)
           m == NQubits(circuits[small'])
<1>5. n \in Nat /\ m \in Nat /\ difference' = n - m /\ n >= m /\ WellFormed(w)
  BY <1>1, <1>2, <1>3, <1>4, <1>a
<1>6. difference' \in Nat
  <2> HIDE DEF n, m
  <2>1. n - m \in Nat
    BY <1>5
  <2> QED
    BY <1>5, <2>1
<1>7. Typed'
  BY <1>1, <1>2, <1>4, <1>6 DEF Typed
<1>8. StripInv' /\ (stage' # "strip" => todo' = {})
  BY <1>1 DEF StripInv
<1>9. CASE stage' = "done"
  <2>1. difference' = 0
    BY <1>1, <1>9
  <2>2. Sound(circuits)'
    <3> DEFINE own == OwnIn(circuits, original, big, stage, difference)
               kept == OwnIn(circuits, original, big', "done", 0)
    <3>1. \A i \in Both : kept[i] = own[i]
      <4>1. \A i \in Both : own[i] = DOMAIN circuits[i].layout \cap DOMAIN original[i].layout
        BY <1>1, OwnEarly
      <4>2. \A i \in Both : kept[i] = DOMAIN circuits[i].layout \cap DOMAIN original[i].layout
        BY <1>3, OwnWithoutAny
      <4> QED
        BY <4>1, <4>2
    <3>2. Faithful(circuits, original, own)
      BY <1>2 DEF Sound
    <3> HIDE DEF own, kept
    <3>3. Alike(circuits, circuits)
      BY DEF Alike
    <3>4. Faithful(circuits, original, kept)
      BY <3>1, <3>2, <3>3, AlikeIsFaithful
    <3> QED
      BY <1>1, <1>9, <2>1, <3>4 DEF Sound, kept
  <2>3. WholeInv' /\ SplitInv'
    BY <1>1, <1>2, <1>9, <2>2 DEF WholeInv, SplitInv, Whole
  <2> QED
    BY <1>7, <1>8, <2>3 DEF IInv
<1>10. CASE stage' = "remove"
  <2>1. SplitInto(w)'
    <3>1. IsPart(circuits'[big'], w, n - Len(removed'))
      <4>1. IsPart(w, w, n)
        BY <1>5, WholeIsPart
      <4>2. Len(removed') = 0 /\ circuits'[big'] = w
        BY <1>1, <1>2, <1>a
      <4>3. n - 0 = n
        BY <1>5
      <4> QED
        BY <4>1, <4>2, <4>3
    <3>2. IsRest(removed', wasGarbage', w)
      <4>1. removed' = <<>> /\ wasGarbage' = {} /\ w.garbage \subseteq 0 .. n - 1
        BY <1>1, <1>2, <1>5 DEF WellFormed, Logicals
      <4>2. \A l \in 0 .. n - 1 : ~(l >= n - 0)
        <5> HIDE DEF n
        <5> QED
          BY <1>5
      <4> QED
        BY <4>1, <4>2 DEF IsRest
    <3>3. removed' \in Seq([qubit : Nat, outputs : SUBSET Nat]) /\ Len(removed') <= n
      BY <1>1, <1>2, <1>5
    <3> QED
      BY <1>5, <3>1, <3>2, <3>3 DEF SplitInto
  <2>3. Sound(WholePair(w))'
    <3> DEFINE ds == WholePair(w)'
               own == OwnIn(circuits, original, big, stage, difference)
               mid == OwnIn(circuits, original, big', stage', difference')
               kept == OwnIn(ds, original, big', stage', difference')
    <3>1. Alike(circuits, ds)
      BY <1>1, <1>a DEF Alike, WholePair
    <3>2. \A i \in Both : own[i] = DOMAIN circuits[i].layout \cap DOMAIN original[i].layout
      BY <1>1, OwnEarly
    <3>3. \A i \in Both : mid[i] = DOMAIN circuits[i].layout \cap DOMAIN original[i].layout
      BY <1>10, OwnEarly
    <3>4. \A i \in Both : kept[i] = mid[i]
      BY <3>1, AlikeOwn
    <3>5. Faithful(circuits, original, own)
      BY <1>2 DEF Sound
    <3>6. \A i \in Both : kept[i] = own[i]
      BY <3>2, <3>3, <3>4
    <3> HIDE DEF own, mid, kept, ds
    <3>7. Faithful(ds, original, kept)
      BY <3>1, <3>5, <3>6, AlikeIsFaithful
    <3> QED
      BY <1>1, <3>7 DEF Sound, kept, ds
  <2>4. /\ difference' = NQubits(w) - NQubits(circuits'[small'])
        /\ DOMAIN w.layout \subseteq DOMAIN original'[big'].layout
        /\ DOMAIN circuits'[small'].layout \subseteq DOMAIN original'[small'].layout
        /\ Len(removed') <= difference'
    BY <1>1, <1>2, <1>4, <1>5, <1>6, <1>a DEF NothingNew
  <2>5. WellFormed(circuits[small])'
    BY <1>1, <1>2, <1>4
  <2>6. SplitInv'
    <3>1. (difference' = NQubits(w) - NQubits(circuits'[small'])) /\ stage' # "restore"
      BY <1>10, <2>4
    <3> HIDE DEF n, m
    <3> QED
      BY <1>10, <2>1, <2>3, <2>4, <2>5, <3>1 DEF SplitInv
  <2>7. WholeInv'
    BY <1>10 DEF WholeInv, Whole
  <2> QED
    BY <1>7, <1>8, <2>6, <2>7 DEF IInv
<1> QED
  BY <1>1, <1>9, <1>10

\* One more qubit is taken out of the same whole circuit.
LEMMA RemoveLastStep == IInv /\ RemoveLast => IInv'
<1> SUFFICES ASSUME IInv, RemoveLast PROVE IInv'
  OBVIOUS
<1> DEFINE c == circuits[big]
           last == MaxLogical(c)
           p == Holder(c, last)
<1>1. /\ stage = "remove" /\ Len(removed) < difference
      /\ removed' = Append(removed, [qubit |-> p, outputs |-> Outputs(c, p)])
      /\ wasGarbage' = wasGarbage \cup ({last} \cap c.garbage)
      /\ circuits' = [circuits EXCEPT ![big] = RemoveQubit(c, last)]
      /\ UNCHANGED <<original, big, todo, difference, stage>>
  BY DEF RemoveLast
<1>2. /\ original \in CircuitPairs /\ DOMAIN circuits = Both
      /\ big \in Both /\ difference \in Nat /\ small \in Both /\ small # big
      /\ \A i \in Both : i = big \/ i = small
  BY DEF IInv, Typed, Both, small
<1>3. PICK w :
        /\ SplitInto(w) /\ Sound(WholePair(w))
        /\ difference = NQubits(w) - NQubits(circuits[small])
        /\ DOMAIN w.layout \subseteq DOMAIN original[big].layout
        /\ DOMAIN circuits[small].layout \subseteq DOMAIN original[small].layout
        /\ Len(removed) <= difference
  BY <1>1 DEF IInv, SplitInv, Whole
<1>4. WellFormed(circuits[small])
  BY <1>1 DEF IInv, SplitInv, Whole
<1> DEFINE m == NQubits(w)
           s == Len(removed)
           n == m - s
<1>5. /\ WellFormed(w) /\ removed \in Seq([qubit : Nat, outputs : SUBSET Nat]) /\ s <= m
      /\ IsPart(c, w, n) /\ IsRest(removed, wasGarbage, w)
  BY <1>3 DEF SplitInto
<1>6. m \in Nat /\ s \in Nat /\ NQubits(circuits[small]) \in Nat
  BY <1>4, <1>5, LayoutIs DEF WellFormed
<1>7. n \in 1 .. m /\ m - (s + 1) = n - 1 /\ s + 1 <= m /\ s + 1 <= difference
  <2> DEFINE k == NQubits(circuits[small])
  <2>1. s < difference /\ difference = m - k /\ k \in Nat
    BY <1>1, <1>3, <1>6
  <2> HIDE DEF k, m, s
  <2> QED
    BY <1>2, <1>6, <2>1
<1> HIDE DEF c, m, s, n, last, p
<1>8. last = n - 1
  BY <1>5, <1>7, LastTaken DEF last, m
<1>9. /\ p = Holder(w, n - 1) /\ p \in Nat /\ Outputs(c, p) = Outputs(w, p)
      /\ (n - 1 \in c.garbage <=> n - 1 \in w.garbage)
      /\ IsPart(RemoveQubit(c, n - 1), w, n - 1)
  <2>1. p = Holder(c, n - 1)
    BY <1>8 DEF p
  <2> QED
    BY <1>5, <1>7, <2>1, LastTaken DEF m
<1>10. circuits'[big] = RemoveQubit(c, n - 1) /\ circuits'[small] = circuits[small]
       /\ DOMAIN circuits' = Both
  BY <1>1, <1>2, <1>8
<1>11. Outputs(w, p) \subseteq Nat
  <2>1. Range(w.output) \subseteq 0 .. m - 1
    BY <1>5, OutputFitsIs DEF WellFormed, Logicals, m
  <2> QED
    BY <2>1 DEF Outputs, Range
<1> DEFINE r == [qubit |-> p, outputs |-> Outputs(w, p)]
<1>12. removed' = Append(removed, r) /\ r \in [qubit : Nat, outputs : SUBSET Nat]
  BY <1>1, <1>9, <1>11
<1> HIDE DEF r
<1>13. /\ removed' \in Seq([qubit : Nat, outputs : SUBSET Nat]) /\ Len(removed') = s + 1
       /\ \A k \in 1 .. s : removed'[k] = removed[k]
       /\ removed'[s + 1] = r
  BY <1>5, <1>12 DEF s
<1>14. IsRest(removed', wasGarbage', w)
  <2>1. ASSUME NEW k \in 1 .. s + 1
        PROVE  removed'[k] = [qubit |-> Holder(w, m - k), outputs |-> Outputs(w, Holder(w, m - k))]
    <3>1. CASE k = s + 1
      <4>1. m - k = n - 1
        BY <1>7, <3>1
      <4> QED
        BY <1>9, <1>13, <3>1, <4>1 DEF r
    <3>2. CASE k # s + 1
      <4>1. k \in 1 .. s
        BY <1>6, <3>2
      <4>2. removed[k] = [qubit |-> Holder(w, m - k), outputs |-> Outputs(w, Holder(w, m - k))]
        BY <1>5, <4>1 DEF IsRest, m, s
      <4> QED
        BY <1>13, <4>1, <4>2
    <3> QED
      BY <3>1, <3>2
  <2>2. wasGarbage' \subseteq w.garbage /\ \A l \in w.garbage : l >= m - (s + 1) => l \in wasGarbage'
    <3>1. w.garbage \subseteq 0 .. m - 1
      BY <1>5 DEF WellFormed, Logicals, m
    <3>2. \A l \in 0 .. m - 1 : l >= m - (s + 1) => l = n - 1 \/ l >= m - s
      BY <1>6, <1>7
    <3>3. wasGarbage \subseteq w.garbage /\ \A l \in w.garbage : l >= m - s => l \in wasGarbage
      BY <1>5 DEF IsRest, m, s
    <3>4. wasGarbage' = wasGarbage \cup ({n - 1} \cap c.garbage)
      BY <1>1, <1>8
    <3> QED
      BY <1>9, <3>1, <3>2, <3>3, <3>4
  <2> QED
    BY <1>13, <2>1, <2>2 DEF IsRest, m
<1>15. SplitInto(w)'
  <2>1. IsPart(circuits'[big'], w, m - Len(removed')) /\ Len(removed') <= m
    BY <1>1, <1>7, <1>9, <1>10, <1>13
  <2> QED
    BY <1>5, <1>13, <1>14, <2>1 DEF SplitInto, m
<1>16. Sound(WholePair(w))'
  <2> DEFINE cs == WholePair(w)
             ds == WholePair(w)'
             own == OwnIn(cs, original, big, stage, difference)
             kept == OwnIn(ds, original, big, stage, difference)
  <2>1. Alike(cs, ds)
    BY <1>1, <1>2, <1>10 DEF Alike, WholePair
  <2>2. \A i \in Both : kept[i] = own[i]
    <3> HIDE DEF cs, ds
    <3> QED
      BY <2>1, AlikeOwn
  <2>3. Faithful(cs, original, own)
    BY <1>3 DEF Sound
  <2> HIDE DEF cs, ds, own, kept
  <2>4. Faithful(ds, original, kept)
    BY <2>1, <2>2, <2>3, AlikeIsFaithful
  <2> QED
    BY <1>1, <2>4 DEF Sound, ds, kept
<1>17. small' = small
  BY <1>1 DEF small
<1>18. SplitInv'
  <2>1. WellFormed(circuits[small])'
    BY <1>4, <1>10, <1>17
  <2>2. /\ difference' = NQubits(w) - NQubits(circuits'[small'])
        /\ DOMAIN w.layout \subseteq DOMAIN original'[big'].layout
        /\ DOMAIN circuits'[small'].layout \subseteq DOMAIN original'[small'].layout
        /\ stage' # "restore"
    BY <1>1, <1>3, <1>10, <1>17
  <2>3. Len(removed') <= difference'
    BY <1>1, <1>7, <1>13
  <2> QED
    BY <1>15, <1>16, <2>1, <2>2, <2>3 DEF SplitInv
<1>19. Typed' /\ StripInv' /\ WholeInv' /\ (stage' # "strip" => todo' = {})
  BY <1>1, <1>2, <1>10 DEF IInv, Typed, StripInv, WholeInv, Whole
<1> QED
  BY <1>18, <1>19 DEF IInv

\* The smaller circuit gets as many qubits as the whole larger one has more.
LEMMA AddRegisterStep == IInv /\ AddRegister => IInv'
<1> SUFFICES ASSUME IInv, AddRegister PROVE IInv'
  OBVIOUS
<1>1. /\ stage = "remove" /\ Len(removed) = difference /\ stage' = "restore"
      /\ circuits' = [circuits EXCEPT ![small] = AddAncillaryRegister(circuits[small], difference)]
      /\ UNCHANGED <<original, big, todo, difference, removed, wasGarbage>>
  BY DEF AddRegister
<1>2. /\ original \in CircuitPairs /\ DOMAIN circuits = Both
      /\ big \in Both /\ difference \in Nat /\ small \in Both /\ small # big
      /\ \A i \in Both : i = big \/ i = small
  BY DEF IInv, Typed, Both, small
<1>3. PICK w :
        /\ SplitInto(w) /\ Sound(WholePair(w))
        /\ difference = NQubits(w) - NQubits(circuits[small])
        /\ DOMAIN w.layout \subseteq DOMAIN original[big].layout
        /\ DOMAIN circuits[small].layout \subseteq DOMAIN original[small].layout
        /\ Len(removed) <= difference
  BY <1>1 DEF IInv, SplitInv, Whole
<1> DEFINE c == circuits[small]
           d == AddAncillaryRegister(c, difference)
<1>4. WellFormed(c)
  BY <1>1 DEF IInv, SplitInv, Whole
<1>5. circuits'[big] = circuits[big] /\ circuits'[small] = d /\ DOMAIN circuits' = Both
  BY <1>1, <1>2
<1>6. /\ WellFormed(d) /\ NQubits(d) = NQubits(c) + difference /\ NQubits(c) \in Nat
      /\ d.garbage = c.garbage /\ DOMAIN c.layout \subseteq DOMAIN d.layout
      /\ \A p \in DOMAIN d.layout : p \in DOMAIN c.layout <=> d.layout[p] < NQubits(c)
      /\ \A p \in DOMAIN c.layout : d.layout[p] = c.layout[p] /\ Outputs(d, p) = Outputs(c, p)
  BY <1>2, <1>4, RegisterAdded
<1> HIDE DEF d
<1>7. WellFormed(w) /\ NQubits(w) \in Nat
  BY <1>3, LayoutIs DEF SplitInto, WellFormed
<1>8. /\ NQubits(d) = NQubits(w) /\ difference <= NQubits(w)
      /\ NQubits(d) - difference = NQubits(c)
  <2> DEFINE m == NQubits(w)
             k == NQubits(c)
  <2>1. m \in Nat /\ k \in Nat /\ difference = m - k /\ NQubits(d) = k + difference
    BY <1>3, <1>6, <1>7
  <2> HIDE DEF m, k
  <2>2. k + difference = m /\ difference <= m /\ (k + difference) - difference = k
    BY <1>2, <2>1
  <2> QED
    BY <2>1, <2>2 DEF m, k
<1>9. small' = small
  BY <1>1 DEF small
<1>10. SplitInto(w)'
  BY <1>1, <1>3, <1>5 DEF SplitInto
<1>11. Sound(WholePair(w))'
  <2> DEFINE cs == WholePair(w)
             ds == WholePair(w)'
             own == OwnIn(cs, original, big, stage, difference)
             kept == OwnIn(ds, original, big, "restore", difference)
  <2>1. /\ cs[big] = w /\ ds[big] = w /\ cs[small] = c /\ ds[small] = d
    BY <1>1, <1>2, <1>5 DEF WholePair
  <2>2. Faithful(cs, original, own)
    BY <1>3 DEF Sound
  <2>3. \A i \in Both : own[i] = DOMAIN cs[i].layout \cap DOMAIN original[i].layout
    BY <1>1, OwnEarly
  <2>4. kept[big] = own[big]
    <3>1. kept[big] = DOMAIN w.layout \cap DOMAIN original[big].layout
      BY <1>2, <2>1 DEF OwnIn, AddedIn
    <3> QED
      BY <1>2, <2>1, <2>3, <3>1
  <2>5. kept[small] = own[small]
    <3>1. AddedIn(ds, small, big, "restore", difference) = {l \in Logicals(d) : l >= NQubits(c)}
      BY <1>2, <1>8, <2>1 DEF AddedIn
    <3>2. kept[small] = {p \in DOMAIN d.layout \cap DOMAIN original[small].layout :
                           d.layout[p] \notin {l \in Logicals(d) : l >= NQubits(c)}}
      BY <1>2, <2>1, <3>1 DEF OwnIn
    <3>3. \A p \in DOMAIN d.layout : d.layout[p] \in Logicals(d) /\ d.layout[p] \in Nat
      BY <1>6, LayoutIs DEF WellFormed
    <3>4. \A p \in DOMAIN d.layout :
             p \in DOMAIN c.layout <=> d.layout[p] \notin {l \in Logicals(d) : l >= NQubits(c)}
      <4> DEFINE k == NQubits(c)
      <4>1. k \in Nat
        BY <1>6
      <4> HIDE DEF k
      <4>2. \A x \in Nat : x < k <=> ~(x >= k)
        BY <4>1
      <4> QED
        BY <1>6, <3>3, <4>2 DEF k
    <3>5. kept[small] = DOMAIN c.layout \cap DOMAIN original[small].layout
      BY <1>6, <3>2, <3>4
    <3> QED
      BY <1>2, <2>1, <2>3, <3>5
  <2>6. \A i \in Both : kept[i] \subseteq own[i]
    BY <1>2, <2>4, <2>5
  <2>7. \A i \in Both : \A p, q \in kept[i] :
           /\ ds[i].layout[p] = cs[i].layout[p]
           /\ ds[i].layout[q] \in Outputs(ds[i], p) <=> cs[i].layout[q] \in Outputs(cs[i], p)
           /\ ds[i].layout[q] \in ds[i].garbage <=> cs[i].layout[q] \in cs[i].garbage
    <3>1. \A p \in kept[small] : p \in DOMAIN c.layout
      BY <1>2, <2>1, <2>3, <2>5
    <3> HIDE DEF kept, own, c, cs, ds
    <3>2. \A p, q \in kept[small] :
             /\ ds[small].layout[p] = cs[small].layout[p]
             /\ ds[small].layout[q] \in Outputs(ds[small], p)
                   <=> cs[small].layout[q] \in Outputs(cs[small], p)
             /\ ds[small].layout[q] \in ds[small].garbage
                   <=> cs[small].layout[q] \in cs[small].garbage
      BY <1>6, <2>1, <3>1
    <3>3. \A p, q \in kept[big] :
             /\ ds[big].layout[p] = cs[big].layout[p]
             /\ ds[big].layout[q] \in Outputs(ds[big], p)
                   <=> cs[big].layout[q] \in Outputs(cs[big], p)
             /\ ds[big].layout[q] \in ds[big].garbage
                   <=> cs[big].layout[q] \in cs[big].garbage
      BY <2>1
    <3> QED
      BY <1>2, <3>2, <3>3
  <2> HIDE DEF cs, ds, own, kept
  <2>8. \A p \in kept[1], q \in kept[2] :
           ds[1].layout[p] = ds[2].layout[q] <=> cs[1].layout[p] = cs[2].layout[q]
    BY <2>7 DEF Both
  <2>9. Faithful(ds, original, kept)
    BY <2>2, <2>6, <2>7, <2>8, FaithfulStays
  <2> QED
    BY <1>1, <2>9 DEF Sound, ds, kept
<1>12. SplitInv'
  <2>1. WellFormed(circuits[small])'
    BY <1>5, <1>6, <1>9
  <2>2. NQubits(circuits'[small']) = NQubits(w) /\ difference' <= NQubits(w)
        /\ Len(removed') <= difference' /\ stage' # "remove"
    BY <1>1, <1>2, <1>5, <1>8, <1>9
  <2> QED
    BY <1>10, <1>11, <2>1, <2>2 DEF SplitInv
<1>13. Typed' /\ StripInv' /\ WholeInv' /\ (stage' # "strip" => todo' = {})
  BY <1>1, <1>2, <1>5 DEF IInv, Typed, StripInv, WholeInv, Whole
<1> QED
  BY <1>12, <1>13 DEF IInv

\* One qubit is put back, and its counterpart in the smaller circuit is made garbage.
LEMMA RestoreStep == IInv /\ Restore => IInv'
<1> SUFFICES ASSUME IInv, Restore PROVE IInv'
  OBVIOUS
<1> DEFINE c == circuits[big]
           r == Last(removed)
           d == AddAncillaryQubit(c, r.qubit, r.outputs)
           last == NQubits(d) - 1
           e == IF last \in wasGarbage THEN SetGarbage(d, last) ELSE d
           f == circuits[small]
<1>1. /\ stage = "restore" /\ removed # <<>>
      /\ circuits' = [circuits EXCEPT ![big] = e, ![small] = SetGarbage(f, last)]
      /\ removed' = Front(removed)
      /\ stage' = IF removed' = <<>> THEN "done" ELSE stage
      /\ UNCHANGED <<original, big, todo, difference, wasGarbage>>
  <2>1. big # small
    BY DEF IInv, Typed, Both, small
  <2> QED
    BY <2>1 DEF Restore, Readded
<1>2. /\ original \in CircuitPairs /\ DOMAIN circuits = Both
      /\ big \in Both /\ difference \in Nat /\ small \in Both /\ small # big
      /\ \A i \in Both : i = big \/ i = small
  BY DEF IInv, Typed, Both, small
<1>3. PICK w :
        /\ SplitInto(w) /\ Sound(WholePair(w))
        /\ NQubits(f) = NQubits(w) /\ difference <= NQubits(w)
        /\ Len(removed) <= difference
  BY <1>1 DEF IInv, SplitInv, Whole
<1>4. WellFormed(f)
  BY <1>1 DEF IInv, SplitInv, Whole
<1> DEFINE m == NQubits(w)
           s == Len(removed)
           n == m - s
<1>5. /\ WellFormed(w) /\ removed \in Seq([qubit : Nat, outputs : SUBSET Nat]) /\ s <= m
      /\ IsPart(c, w, n) /\ IsRest(removed, wasGarbage, w)
  BY <1>3 DEF SplitInto
<1>6. /\ s \in Nat \ {0} /\ r = removed[s]
      /\ removed' \in Seq([qubit : Nat, outputs : SUBSET Nat]) /\ Len(removed') = s - 1
      /\ \A k \in 1 .. s - 1 : removed'[k] = removed[k]
  <2>1. s \in Nat /\ s # 0
    BY <1>1, <1>5
  <2>2. removed' = SubSeq(removed, 1, s - 1) /\ r = removed[s]
    BY <1>1 DEF Front, Last
  <2> DEFINE T == [qubit : Nat, outputs : SUBSET Nat]
  <2>3. \A x \in Seq(T) : Len(x) = s =>
           /\ SubSeq(x, 1, s - 1) \in Seq(T) /\ Len(SubSeq(x, 1, s - 1)) = s - 1
           /\ \A k \in 1 .. s - 1 : SubSeq(x, 1, s - 1)[k] = x[k]
    <3> HIDE DEF s, T
    <3> QED
      BY <2>1
  <2> QED
    BY <1>5, <2>1, <2>2, <2>3
<1>7. m \in Nat
  BY <1>5, LayoutIs DEF WellFormed
<1>8. /\ n \in 0 .. m - 1 /\ n + 1 = m - (s - 1) /\ s - 1 <= m /\ s - 1 <= difference
      /\ m - s = n /\ n >= m - difference
  <2>1. s <= difference /\ s <= m
    BY <1>3, <1>5
  <2> HIDE DEF m, s
  <2> QED
    BY <1>2, <1>6, <1>7, <2>1
<1> HIDE DEF c, d, e, f, r, m, s, n, last
<1> DEFINE h == Holder(w, n)
<1>9. r = [qubit |-> h, outputs |-> Outputs(w, h)]
  <2>1. s \in 1 .. Len(removed)
    BY <1>6 DEF s
  <2>2. removed[s] = [qubit |-> Holder(w, m - s), outputs |-> Outputs(w, Holder(w, m - s))]
    BY <1>5, <2>1 DEF IsRest, m
  <2> QED
    BY <1>6, <1>8, <2>2
<1>10. d = AddAncillaryQubit(c, h, Outputs(w, h))
  BY <1>9 DEF d
<1>11. n \in wasGarbage <=> n \in w.garbage
  BY <1>5, <1>8 DEF IsRest, m, s
<1> HIDE DEF h
<1>12. last = n /\ IsPart(e, w, n + 1)
  <2> DEFINE e0 == IF n \in wasGarbage THEN SetGarbage(d, n) ELSE d
  <2>1. n \in 0 .. NQubits(w) - 1
    BY <1>8 DEF m
  <2> HIDE DEF e0
  <2>2. NQubits(d) - 1 = n /\ IsPart(e0, w, n + 1)
    BY <1>5, <1>10, <1>11, <2>1, Restored DEF h, e0
  <2> QED
    BY <2>2 DEF last, e, e0
<1>13. /\ circuits'[big] = e /\ circuits'[small] = SetGarbage(f, n) /\ DOMAIN circuits' = Both
  BY <1>1, <1>2, <1>12
<1> DEFINE g == SetGarbage(f, n)
<1>14. n \in Logicals(f)
  BY <1>3, <1>8 DEF Logicals, m
<1>15. /\ WellFormed(g) /\ g.layout = f.layout
       /\ \A p, q : f.layout[q] # n =>
            /\ g.layout[q] \in Outputs(g, p) <=> f.layout[q] \in Outputs(f, p)
            /\ g.layout[q] \in g.garbage <=> f.layout[q] \in f.garbage
  BY <1>4, <1>14, GarbageSet
<1> HIDE DEF g
<1>16. small' = small
  BY <1>1 DEF small
<1>17. SplitInto(w)'
  <2>1. IsPart(circuits'[big'], w, m - Len(removed')) /\ Len(removed') <= m
    BY <1>1, <1>6, <1>8, <1>12, <1>13
  <2>2. IsRest(removed', wasGarbage', w)
    <3>1. \A k \in 1 .. s - 1 :
            removed'[k] = [qubit |-> Holder(w, m - k), outputs |-> Outputs(w, Holder(w, m - k))]
      <4>1. \A k \in 1 .. s - 1 : k \in 1 .. s
        BY <1>6
      <4>2. \A k \in 1 .. s :
              removed[k] = [qubit |-> Holder(w, m - k), outputs |-> Outputs(w, Holder(w, m - k))]
        BY <1>5 DEF IsRest, m, s
      <4> QED
        BY <1>6, <4>1, <4>2
    <3>2. \A l \in w.garbage : l >= m - (s - 1) => l \in wasGarbage
      <4>1. w.garbage \subseteq 0 .. m - 1
        BY <1>5 DEF WellFormed, Logicals, m
      <4>2. \A l \in 0 .. m - 1 : l >= m - (s - 1) => l >= m - s
        BY <1>6, <1>7
      <4>3. \A l \in w.garbage : l >= m - s => l \in wasGarbage
        BY <1>5 DEF IsRest, m, s
      <4> QED
        BY <4>1, <4>2, <4>3
    <3>3. wasGarbage \subseteq w.garbage
      BY <1>5 DEF IsRest
    <3> QED
      BY <1>1, <1>6, <3>1, <3>2, <3>3 DEF IsRest, m
  <2> QED
    BY <1>5, <1>6, <2>1, <2>2 DEF SplitInto, m
<1>18. Sound(WholePair(w))'
  <2> DEFINE cs == WholePair(w)
             ds == WholePair(w)'
             own == OwnIn(cs, original, big, stage, difference)
             kept == OwnIn(ds, original, big, stage', difference)
  <2>1. cs[big] = w /\ ds[big] = w /\ cs[small] = f /\ ds[small] = g
    BY <1>1, <1>2, <1>13 DEF WholePair, f, g
  <2>2. Faithful(cs, original, own)
    BY <1>3 DEF Sound
  <2>3. stage' \in {"restore", "done"}
    BY <1>1
  <2>4. kept[big] = own[big]
    BY <1>2, <2>1 DEF OwnIn, AddedIn
  <2>5. AddedIn(cs, small, big, stage, difference) = {l \in Logicals(f) : l >= m - difference}
    BY <1>1, <1>2, <1>3, <2>1 DEF AddedIn, m
  <2>6. AddedIn(ds, small, big, stage', difference) = {l \in Logicals(f) : l >= m - difference}
    <3>1. NQubits(g) = m /\ Logicals(g) = Logicals(f)
      BY <1>3, <1>15 DEF NQubits, Logicals, m
    <3> QED
      BY <1>2, <2>1, <2>3, <3>1 DEF AddedIn
  <2>7. kept[small] = own[small]
    BY <1>2, <1>15, <2>1, <2>5, <2>6 DEF OwnIn
  <2>8. \A q \in kept[small] : f.layout[q] # n
    <3>1. \A q \in own[small] : f.layout[q] \notin {l \in Logicals(f) : l >= m - difference}
      BY <1>2, <2>1, <2>5 DEF OwnIn
    <3> QED
      BY <1>8, <1>14, <2>7, <3>1
  <2> HIDE DEF cs, ds, own, kept
  <2>9. \A i \in Both : kept[i] \subseteq own[i]
    BY <1>2, <2>4, <2>7
  <2>10. \A i \in Both : \A p, q \in kept[i] :
           /\ ds[i].layout[p] = cs[i].layout[p]
           /\ ds[i].layout[q] \in Outputs(ds[i], p) <=> cs[i].layout[q] \in Outputs(cs[i], p)
           /\ ds[i].layout[q] \in ds[i].garbage <=> cs[i].layout[q] \in cs[i].garbage
    <3>1. \A p, q \in kept[small] :
             /\ ds[small].layout[p] = cs[small].layout[p]
             /\ ds[small].layout[q] \in Outputs(ds[small], p)
                   <=> cs[small].layout[q] \in Outputs(cs[small], p)
             /\ ds[small].layout[q] \in ds[small].garbage
                   <=> cs[small].layout[q] \in cs[small].garbage
      BY <1>15, <2>1, <2>8
    <3>2. \A p, q \in kept[big] :
             /\ ds[big].layout[p] = cs[big].layout[p]
             /\ ds[big].layout[q] \in Outputs(ds[big], p)
                   <=> cs[big].layout[q] \in Outputs(cs[big], p)
             /\ ds[big].layout[q] \in ds[big].garbage
                   <=> cs[big].layout[q] \in cs[big].garbage
      BY <2>1
    <3> QED
      BY <1>2, <3>1, <3>2
  <2>11. \A p \in kept[1], q \in kept[2] :
           ds[1].layout[p] = ds[2].layout[q] <=> cs[1].layout[p] = cs[2].layout[q]
    BY <2>10 DEF Both
  <2>12. Faithful(ds, original, kept)
    BY <2>2, <2>9, <2>10, <2>11, FaithfulStays
  <2> QED
    BY <1>1, <2>12 DEF Sound, ds, kept
<1>19. Typed' /\ StripInv' /\ (stage' # "strip" => todo' = {})
  BY <1>1, <1>2, <1>13 DEF IInv, Typed, StripInv
<1>20. CASE stage' = "restore"
  <2>1. WellFormed(circuits[small])'
    BY <1>13, <1>15, <1>16 DEF g
  <2>2. NQubits(circuits'[small']) = NQubits(w) /\ difference' <= NQubits(w)
        /\ Len(removed') <= difference' /\ stage' # "remove"
    <3>1. NQubits(g) = NQubits(f)
      BY <1>15 DEF NQubits
    <3> QED
      BY <1>1, <1>3, <1>6, <1>8, <1>13, <1>16, <1>20, <3>1 DEF g
  <2>3. SplitInv' /\ WholeInv'
    BY <1>17, <1>18, <1>20, <2>1, <2>2 DEF SplitInv, WholeInv, Whole
  <2> QED
    BY <1>19, <2>3 DEF IInv
<1>21. CASE stage' = "done"
  <2>1. IsPart(circuits'[big], w, NQubits(w))
    <3>1. removed' = <<>>
      BY <1>1, <1>21
    <3>2. s - 1 = 0
      BY <1>6, <3>1
    <3>3. n + 1 = m
      BY <1>7, <1>8, <3>2
    <3> QED
      BY <1>12, <1>13, <3>3 DEF m
  <2>2. /\ WellFormed(circuits'[big]) /\ circuits'[big].layout = w.layout
        /\ circuits'[big].output = w.output /\ circuits'[big].garbage = w.garbage
    BY <1>5, <2>1, WholeIsPart
  <2>3. \A i \in Both : WellFormed(circuits'[i])
    BY <1>2, <1>13, <1>15, <2>2 DEF g
  <2>4. Sound(circuits)'
    <3> DEFINE cs == WholePair(w)'
               ds == circuits'
               own == OwnIn(cs, original, big, stage', difference)
               kept == OwnIn(ds, original, big, stage', difference)
    <3>1. Alike(cs, ds)
      BY <1>1, <1>2, <2>2 DEF Alike, WholePair
    <3>2. Faithful(cs, original, own)
      BY <1>1, <1>18 DEF Sound
    <3>3. \A i \in Both : kept[i] = own[i]
      <4> HIDE DEF cs, ds
      <4> QED
        BY <3>1, AlikeOwn
    <3> HIDE DEF cs, ds, own, kept
    <3>4. Faithful(ds, original, kept)
      BY <3>1, <3>2, <3>3, AlikeIsFaithful
    <3> QED
      BY <1>1, <3>4 DEF Sound, ds, kept
  <2>5. WholeInv' /\ SplitInv'
    BY <1>21, <2>3, <2>4 DEF WholeInv, SplitInv, Whole
  <2> QED
    BY <1>19, <2>5 DEF IInv
<1> QED
  BY <1>1, <1>20, <1>21

-----------------------------------------------------------------------------------
(* The theorems *)

\* The invariant holds in every reachable state.
LEMMA Invariance == Spec => []IInv
<1>1. ASSUME IInv, UNCHANGED vars
      PROVE  IInv'
  <2> DEFINE same == UNCHANGED <<circuits, original, big, todo, difference, removed, wasGarbage, stage>>
  <2>1. same
    BY <1>1 DEF vars
  <2>2. Typed' /\ StripInv' /\ WholeInv' /\ (stage' # "strip" => todo' = {})
    BY <1>1, <2>1 DEF IInv, Typed, StripInv, WholeInv, NothingNew, Sound, Whole, small
  <2>3. SplitInv'
    BY <1>1, <2>1 DEF IInv, SplitInv, SplitInto, WholePair, Sound, Whole, small
  <2> QED
    BY <2>2, <2>3 DEF IInv
<1>2. IInv /\ [Next]_vars => IInv'
  BY <1>1, StripFromLargerStep, StripFromBothStep, KeepStep, BeginSetupStep, RemoveLastStep,
     AddRegisterStep, RestoreStep DEF Next, Terminated
<1> QED
  BY <1>2, InitIInv, PTL DEF Spec

\* In states of the invariant, the larger circuit is a part of a whole one.
LEMMA PartOfWhole ==
    ASSUME IInv, ~Whole
    PROVE  /\ WellFormed(circuits[small]) /\ LayoutFits(circuits[big])
           /\ \E w : /\ Sound(WholePair(w))
                    /\ DOMAIN circuits[big].layout \subseteq DOMAIN w.layout
                    /\ \A p \in DOMAIN circuits[big].layout : circuits[big].layout[p] = w.layout[p]
<1>1. PICK w : SplitInto(w) /\ Sound(WholePair(w))
  BY DEF IInv, SplitInv
<1> DEFINE m == NQubits(w)
           s == Len(removed)
           c == circuits[big]
<1>2. /\ WellFormed(w) /\ IsPart(c, w, m - s) /\ s \in Nat /\ s <= m
  BY <1>1 DEF SplitInto
<1>3. m \in Nat
  BY <1>2, LayoutIs DEF WellFormed
<1>4. m - s \in 0 .. m
  <2> HIDE DEF m, s
  <2> QED
    BY <1>2, <1>3
<1>5. LayoutFits(c)
  <2> HIDE DEF s, c
  <2> QED
    BY <1>2, <1>4, PartIs
<1>6. /\ DOMAIN c.layout \subseteq DOMAIN w.layout
      /\ \A p \in DOMAIN c.layout : c.layout[p] = w.layout[p]
  BY <1>2 DEF IsPart
<1> QED
  BY <1>1, <1>5, <1>6 DEF IInv, SplitInv

\* The logical qubits of each circuit are always numbered from 0 without gaps, and outputs,
\* garbage and ancillary qubits are among them whenever the circuits are whole.
THEOREM TypeCorrect == Spec => []TypeOK
<1>1. IInv => TypeOK
  <2> SUFFICES ASSUME IInv PROVE TypeOK
    OBVIOUS
  <2>1. big \in Both /\ small \in Both /\ \A i \in Both : i = big \/ i = small
    BY DEF IInv, Typed, Both, small
  <2>2. \A i \in Both : LayoutFits(circuits[i]) /\ (Whole => WellFormed(circuits[i]))
    <3>1. CASE Whole
      BY <3>1 DEF IInv, WholeInv, WellFormed
    <3>2. CASE ~Whole
      BY <2>1, <3>2, PartOfWhole DEF WellFormed
    <3> QED
      BY <3>1, <3>2
  <2>3. todo \subseteq DOMAIN original[big].layout
    BY <2>1 DEF IInv, StripInv, NothingNew
  <2> QED
    BY <2>1, <2>2, <2>3 DEF TypeOK, Whole, IInv, Typed
<1> QED
  BY <1>1, Invariance, PTL

\* However logical qubits are renumbered, two physical qubits of the circuits stand for the
\* same logical qubit if and only if they did from the start.
THEOREM QubitsStayPaired == Spec => []QubitsPaired
<1>1. IInv => QubitsPaired
  <2> SUFFICES ASSUME IInv, NEW p \in Own(1), NEW q \in Own(2)
               PROVE  circuits[1].layout[p] = circuits[2].layout[q]
                         <=> original[1].layout[p] = original[2].layout[q]
    BY DEF QubitsPaired
  <2>1. 1 \in Both /\ 2 \in Both
    BY DEF Both
  <2>2. \A i \in Both : OwnIn(circuits, original, big, stage, difference)[i] = Own(i)
    BY DEF OwnIn, AddedIn, Own, Added
  <2>3. CASE Whole
    <3>1. Sound(circuits)
      BY <2>3 DEF IInv, WholeInv
    <3> QED
      BY <2>1, <2>2, <3>1 DEF Sound, Faithful
  <2>4. CASE ~Whole
    <3>1. PICK w : /\ Sound(WholePair(w))
                   /\ DOMAIN circuits[big].layout \subseteq DOMAIN w.layout
                   /\ \A x \in DOMAIN circuits[big].layout : circuits[big].layout[x] = w.layout[x]
      BY <2>4, PartOfWhole
    <3> DEFINE cs == WholePair(w)
               own == OwnIn(cs, original, big, stage, difference)
    <3>2. ASSUME NEW i \in Both
          PROVE  Own(i) \subseteq own[i] /\ \A x \in Own(i) : cs[i].layout[x] = circuits[i].layout[x]
      <4>1. CASE i = big
        BY <3>1, <4>1 DEF WholePair, OwnIn, AddedIn, Own, Added
      <4>2. CASE i # big
        <5>1. cs[i] = circuits[i]
          BY <4>2 DEF WholePair
        <5>2. AddedIn(cs, i, big, stage, difference) = Added(i)
          BY <5>1 DEF AddedIn, Added
        <5> QED
          BY <5>1, <5>2 DEF OwnIn, Own
      <4> QED
        BY <4>1, <4>2
    <3>3. Faithful(cs, original, own)
      BY <3>1 DEF Sound
    <3> HIDE DEF cs, own
    <3>4. /\ p \in own[1] /\ cs[1].layout[p] = circuits[1].layout[p]
          /\ q \in own[2] /\ cs[2].layout[q] = circuits[2].layout[q]
      BY <2>1, <3>2
    <3> QED
      BY <3>3, <3>4 DEF Faithful
  <2> QED
    BY <2>3, <2>4
<1> QED
  BY <1>1, Invariance, PTL

\* A qubit that stays is output where it was, as the qubit that it was, and is garbage if it
\* was, though the qubits of the larger circuit may be taken out and put back.
THEOREM OutputsStay == Spec => []OutputsKept
<1>1. IInv => OutputsKept
  <2> SUFFICES ASSUME IInv, Whole PROVE OutputsKept
    BY DEF OutputsKept
  <2>1. \A i \in Both : OwnIn(circuits, original, big, stage, difference)[i] = Own(i)
    BY DEF OwnIn, AddedIn, Own, Added
  <2>2. Sound(circuits)
    BY DEF IInv, WholeInv
  <2> QED
    BY <2>1, <2>2 DEF Sound, Faithful, OutputsKept
<1> QED
  BY <1>1, Invariance, PTL

------

-----------------------------------------------------------------------------------
(* Superfluous qubits *)

\* The physical qubits of a circuit that have not been stripped, also while they are taken out
Stays(i) ==
    Own(i) \cup (IF i = big THEN {removed[k].qubit : k \in DOMAIN removed} \cap DOMAIN original[i].layout
                 ELSE {})

OnlySuperfluousGone ==
    \A i \in Both : \A p \in DOMAIN original[i].layout \ Stays(i) : Superfluous(original[i].layout[p])

TogetherGone ==
    \A p \in DOMAIN original[1].layout, q \in DOMAIN original[2].layout :
        original[1].layout[p] = original[2].layout[q] => (p \in Stays(1) <=> q \in Stays(2))

\* What is superfluous and not yet gone will still be visited.
SuperfluousAhead ==
    \A i \in Both : \A p \in Stays(i) :
        Superfluous(original[i].layout[p]) =>
            \E q \in todo : original[big].layout[q] = original[i].layout[p]

Exact == OnlySuperfluousGone /\ TogetherGone /\ SuperfluousAhead

\* The logical qubits that only the larger circuit had, in either circuit
Raised(i) ==
    IF stage \in {"restore", "done"}
    THEN {l \in Logicals(circuits[i]) : l >= NQubits(circuits[small]) - difference} ELSE {}

\* Other qubits are ancillary, and left alone, if they were.
AncillariesKept ==
    \A i \in Both : \A p \in DOMAIN circuits[i].layout \cap DOMAIN original[i].layout :
        circuits[i].layout[p] \notin Raised(i) =>
            /\ circuits[i].layout[p] \in circuits[i].ancillary
                  <=> original[i].layout[p] \in original[i].ancillary
            /\ p \in circuits[i].idle <=> p \in original[i].idle

RaisedAreAncillary ==
    /\ \A i \in Both : Raised(i) \subseteq circuits[i].ancillary
    /\ \A p \in DOMAIN circuits[small].layout :
          circuits[small].layout[p] \in Raised(small) =>
            /\ p \in circuits[small].idle
            /\ circuits[small].layout[p] < NQubits(circuits[big]) =>
                  circuits[small].layout[p] \in circuits[small].garbage

\* Both circuits get equally large.
Counted ==
    /\ stage = "restore" => NQubits(circuits[big]) + Len(removed) = NQubits(circuits[small])
    /\ stage = "done" => removed = <<>> /\ NQubits(circuits[1]) = NQubits(circuits[2])

\* Physical qubits that were not added have been there from the start.
NothingForeign ==
    stage \in {"restore", "done"} =>
        /\ \A i \in Both : \A p \in DOMAIN circuits[i].layout :
              circuits[i].layout[p] \notin Added(i) => p \in DOMAIN original[i].layout
        /\ \A k \in DOMAIN removed : removed[k].qubit \in DOMAIN original[big].layout

JInv == Exact /\ AncillariesKept /\ RaisedAreAncillary /\ Counted /\ NothingForeign

\* c is what has become of o, apart from untouched qubits.
Shrunk(c, o) ==
    /\ WellFormed(c) /\ WellFormed(o) /\ DOMAIN c.layout \subseteq DOMAIN o.layout
    /\ \A p \in DOMAIN c.layout : p \in c.idle <=> p \in o.idle
    /\ \A p, q \in DOMAIN c.layout :
         c.layout[q] \in Outputs(c, p) <=> o.layout[q] \in Outputs(o, p)
    /\ \A p \in DOMAIN o.layout \ DOMAIN c.layout : Untouched(o, o.layout[p])

\* A qubit may be removed from what is left of a circuit if and only if the circuit did not
\* touch it.
LEMMA RemovableIsUntouched ==
    ASSUME NEW c, NEW o, Shrunk(c, o), NEW p \in DOMAIN c.layout
    PROVE  p \in c.idle /\ Safe(c, p, c.layout[p]) <=> Untouched(o, o.layout[p])
<1> DEFINE L == c.layout[p]
           l == o.layout[p]
<1>1. p \in DOMAIN o.layout /\ p = Holder(o, l)
  BY LayoutIs DEF Shrunk, WellFormed
<1>2. /\ DOMAIN c.output \subseteq DOMAIN c.layout /\ DOMAIN o.output \subseteq DOMAIN o.layout
      /\ IsInjective(c.output) /\ IsInjective(o.output)
      /\ Range(c.output) \subseteq Logicals(c) /\ Range(o.output) \subseteq Logicals(o)
  BY OutputFitsIs DEF Shrunk, WellFormed
<1>3. Untouched(o, l) <=> p \in o.idle /\ \A q \in DOMAIN o.output : (q = p) <=> o.output[q] = l
  BY <1>1 DEF Untouched
<1>4. \A q \in DOMAIN c.layout : L \in Outputs(c, q) <=> l \in Outputs(o, q)
  BY DEF Shrunk
<1>5. \A q \in DOMAIN o.output : q \notin DOMAIN c.layout => o.output[q] # l
  <2> SUFFICES ASSUME NEW q \in DOMAIN o.output, q \notin DOMAIN c.layout
               PROVE  o.output[q] # l
    OBVIOUS
  <2>1. q \in DOMAIN o.layout /\ Untouched(o, o.layout[q])
    BY <1>2 DEF Shrunk
  <2>2. Holder(o, o.layout[q]) = q
    BY <2>1, LayoutIs DEF Shrunk, WellFormed
  <2>3. o.output[q] = o.layout[q]
    BY <2>1, <2>2 DEF Untouched
  <2>4. o.layout[q] # l
    BY <1>1, <2>1, LayoutIs DEF Shrunk, WellFormed
  <2> QED
    BY <2>3, <2>4
<1>6. p \in DOMAIN c.output <=> p \in DOMAIN o.output
  <2>1. ASSUME p \in DOMAIN c.output
        PROVE  p \in DOMAIN o.output
    <3>1. c.output[p] \in Logicals(c)
      BY <1>2, <2>1 DEF Range
    <3>2. PICK x \in DOMAIN c.layout : c.layout[x] = c.output[p]
      BY <3>1, LayoutIs DEF Shrunk, WellFormed
    <3>3. c.layout[x] \in Outputs(c, p)
      BY <2>1, <3>2 DEF Outputs
    <3>4. o.layout[x] \in Outputs(o, p)
      BY <3>3 DEF Shrunk
    <3> QED
      BY <3>4 DEF Outputs
  <2>2. ASSUME p \in DOMAIN o.output
        PROVE  p \in DOMAIN c.output
    <3>1. o.output[p] \in Logicals(o)
      BY <1>2, <2>2 DEF Range
    <3>2. PICK x \in DOMAIN o.layout : o.layout[x] = o.output[p]
      BY <3>1, LayoutIs DEF Shrunk, WellFormed
    <3>3. x \in DOMAIN c.layout
      <4> SUFFICES ASSUME x \notin DOMAIN c.layout PROVE FALSE
        OBVIOUS
      <4>1. Untouched(o, o.layout[x]) /\ x # p
        BY <3>2 DEF Shrunk
      <4>2. Holder(o, o.layout[x]) = x
        BY <3>2, LayoutIs DEF Shrunk, WellFormed
      <4> QED
        BY <2>2, <3>2, <4>1, <4>2 DEF Untouched
    <3>4. o.layout[x] \in Outputs(o, p)
      BY <2>2, <3>2 DEF Outputs
    <3>5. c.layout[x] \in Outputs(c, p)
      BY <3>3, <3>4 DEF Shrunk
    <3> QED
      BY <3>5 DEF Outputs
  <2> QED
    BY <2>1, <2>2
<1>7. \A q \in DOMAIN c.layout : \A x : x \in Outputs(c, q) <=> q \in DOMAIN c.output /\ c.output[q] = x
  BY DEF Outputs
<1>8. \A q : \A x : x \in Outputs(o, q) <=> q \in DOMAIN o.output /\ o.output[q] = x
  BY DEF Outputs
<1>9. Safe(c, p, L) <=> \A q \in DOMAIN o.output : (q = p) <=> o.output[q] = l
  <2>1. CASE p \in DOMAIN c.output
    <3>1. Safe(c, p, L) <=> c.output[p] = L
      BY <2>1 DEF Safe
    <3>2. c.output[p] = L <=> o.output[p] = l
      BY <1>4, <1>6, <1>7, <1>8, <2>1
    <3>3. o.output[p] = l => \A q \in DOMAIN o.output : o.output[q] = l => q = p
      BY <1>2, <1>6, <2>1 DEF IsInjective
    <3> QED
      BY <1>6, <2>1, <3>1, <3>2, <3>3
  <2>2. CASE p \notin DOMAIN c.output
    <3>1. Safe(c, p, L) <=> \A q \in DOMAIN c.output : c.output[q] # L
      BY <2>2 DEF Safe, Range
    <3>2. (\A q \in DOMAIN c.output : c.output[q] # L) <=> \A q \in DOMAIN c.layout : L \notin Outputs(c, q)
      BY <1>2, <1>7
    <3>3. (\A q \in DOMAIN o.output : o.output[q] # l) <=> \A q \in DOMAIN c.layout : l \notin Outputs(o, q)
      BY <1>2, <1>5, <1>8
    <3>4. p \notin DOMAIN o.output
      BY <1>6, <2>2
    <3> QED
      BY <1>4, <3>1, <3>2, <3>3, <3>4
  <2> QED
    BY <2>1, <2>2
<1> QED
  BY <1>3, <1>9 DEF Shrunk

\* The circuits while they are stripped
LEMMA WhileStripping ==
    ASSUME IInv, stage = "strip"
    PROVE  /\ \A i \in Both : Own(i) = DOMAIN circuits[i].layout /\ Stays(i) = DOMAIN circuits[i].layout
           /\ \A i \in Both : /\ WellFormed(circuits[i]) /\ WellFormed(original[i])
                              /\ DOMAIN circuits[i].layout \subseteq DOMAIN original[i].layout
           /\ Faithful(circuits, original, [i \in Both |-> DOMAIN circuits[i].layout])
<1>1. \A i \in Both : DOMAIN circuits[i].layout \subseteq DOMAIN original[i].layout
  BY DEF IInv, StripInv, NothingNew
<1>2. \A i \in Both : Own(i) = DOMAIN circuits[i].layout
  BY <1>1 DEF Own, Added
<1>3. \A i \in Both : Stays(i) = DOMAIN circuits[i].layout
  <2>1. removed = <<>>
    BY DEF IInv, StripInv
  <2>2. DOMAIN removed = {}
    BY <2>1
  <2> QED
    BY <1>2, <2>2 DEF Stays
<1>4. \A i \in Both : WellFormed(circuits[i]) /\ WellFormed(original[i])
  BY CircuitsAssumption DEF IInv, WholeInv, Whole, Typed, Both
<1>5. Faithful(circuits, original, [i \in Both |-> DOMAIN circuits[i].layout])
  <2> DEFINE own == OwnIn(circuits, original, big, stage, difference)
             kept == [i \in Both |-> DOMAIN circuits[i].layout]
  <2>1. Faithful(circuits, original, own)
    BY DEF IInv, WholeInv, Whole, Sound
  <2>2. \A i \in Both : own[i] = DOMAIN circuits[i].layout \cap DOMAIN original[i].layout
    BY OwnEarly
  <2>3. \A i \in Both : kept[i] = own[i]
    BY <1>1, <2>2
  <2>4. Alike(circuits, circuits)
    BY DEF Alike
  <2> HIDE DEF own, kept
  <2>5. Faithful(circuits, original, kept)
    BY <2>1, <2>3, <2>4, AlikeIsFaithful
  <2> QED
    BY <2>5 DEF kept
<1> QED
  BY <1>1, <1>2, <1>3, <1>4, <1>5

\* A qubit may be removed from a circuit when that circuit, as it was, did not touch it.
LEMMA StrippableIs ==
    ASSUME IInv, JInv, stage = "strip", NEW i \in Both, NEW p \in DOMAIN circuits[i].layout,
           circuits[i].layout[p] = Logical
    PROVE  Strippable(i) <=> Untouched(original[i], original[i].layout[p])
<1> DEFINE c == circuits[i]
           o == original[i]
<1>1. /\ WellFormed(c) /\ WellFormed(o) /\ DOMAIN c.layout \subseteq DOMAIN o.layout
      /\ Stays(i) = DOMAIN c.layout
  BY WhileStripping
<1>2. Shrunk(c, o)
  <2>1. \A q \in DOMAIN c.layout : q \in c.idle <=> q \in o.idle
    <3>1. Raised(i) = {}
      BY DEF Raised
    <3> QED
      BY <1>1, <3>1 DEF JInv, AncillariesKept
  <2>2. \A q, x \in DOMAIN c.layout : c.layout[x] \in Outputs(c, q) <=> o.layout[x] \in Outputs(o, q)
    <3>1. Faithful(circuits, original, [j \in Both |-> DOMAIN circuits[j].layout])
      BY WhileStripping
    <3> QED
      BY <3>1 DEF Faithful
  <2>3. \A q \in DOMAIN o.layout \ DOMAIN c.layout : Untouched(o, o.layout[q])
    <3>1. \A q \in DOMAIN o.layout : o.layout[q] \in Logicals(o)
      BY <1>1, LayoutIs DEF WellFormed
    <3>2. \A q \in DOMAIN o.layout \ DOMAIN c.layout : Superfluous(o.layout[q])
      BY <1>1 DEF JInv, Exact, OnlySuperfluousGone
    <3> QED
      BY <3>1, <3>2 DEF Superfluous
  <2> QED
    BY <1>1, <2>1, <2>2, <2>3 DEF Shrunk
<1>3. Holder(c, Logical) = p
  BY <1>1, LayoutIs DEF WellFormed
<1>4. p \in c.idle /\ Safe(c, p, c.layout[p]) <=> Untouched(o, o.layout[p])
  <2> HIDE DEF c, o
  <2>1. p \in DOMAIN c.layout
    BY DEF c
  <2> QED
    BY <1>2, <2>1, RemovableIsUntouched
<1> QED
  BY <1>3, <1>4 DEF Strippable

\* Circuits that have a logical qubit of the same number had it from the start.
LEMMA PartnerIs ==
    ASSUME IInv, stage = "strip", NEW p \in DOMAIN circuits[big].layout,
           NEW q \in DOMAIN circuits[small].layout
    PROVE  circuits[big].layout[p] = circuits[small].layout[q]
              <=> original[big].layout[p] = original[small].layout[q]
<1>1. Faithful(circuits, original, [i \in Both |-> DOMAIN circuits[i].layout])
  BY WhileStripping
<1>2. (big = 1 /\ small = 2) \/ (big = 2 /\ small = 1)
  BY DEF IInv, Typed, Both, small
<1>3. \A x \in DOMAIN circuits[1].layout, y \in DOMAIN circuits[2].layout :
         circuits[1].layout[x] = circuits[2].layout[y] <=> original[1].layout[x] = original[2].layout[y]
  BY <1>1 DEF Faithful, Both
<1> QED
  BY <1>2, <1>3

\* The qubit that is visited is removed if and only if it is superfluous.
LEMMA VisitedIsSuperfluous ==
    ASSUME IInv, JInv, stage = "strip", todo # {}
    PROVE  Superfluous(original[big].layout[Visited])
              <=> Strippable(big) /\ (OnlyInLarger \/ Strippable(small))
<1> DEFINE l == original[big].layout[Visited]
<1>1. /\ big \in Both /\ small \in Both /\ small # big /\ \A i \in Both : i = big \/ i = small
      /\ Visited = Holder(circuits[big], Logical) /\ Logical \in Logicals(circuits[big])
      /\ OnlyInLarger => Logical >= NQubits(circuits[small])
      /\ ~OnlyInLarger => Logical \in Logicals(circuits[small])
      /\ \A i \in Both : WellFormed(circuits[i]) /\ NQubits(circuits[i]) \in Nat
  BY Stripping
<1>2. /\ \A i \in Both : Stays(i) = DOMAIN circuits[i].layout
      /\ \A i \in Both : /\ WellFormed(original[i])
                         /\ DOMAIN circuits[i].layout \subseteq DOMAIN original[i].layout
  BY WhileStripping
<1>3. Visited \in DOMAIN circuits[big].layout /\ circuits[big].layout[Visited] = Logical
  BY <1>1, LayoutIs DEF WellFormed
<1>4. l \in Logicals(original[big])
  BY <1>1, <1>2, <1>3, LayoutIs DEF WellFormed
<1>5. Strippable(big) <=> Untouched(original[big], l)
  BY <1>1, <1>3, StrippableIs
<1>6. CASE ~OnlyInLarger
  <2> DEFINE q == Holder(circuits[small], Logical)
  <2>1. q \in DOMAIN circuits[small].layout /\ circuits[small].layout[q] = Logical
    BY <1>1, <1>6, LayoutIs DEF WellFormed
  <2> HIDE DEF q
  <2>2. original[small].layout[q] = l
    BY <1>3, <2>1, PartnerIs
  <2>3. Strippable(small) <=> Untouched(original[small], l)
    BY <1>1, <2>1, <2>2, StrippableIs
  <2>4. l \in Logicals(original[small])
    <3>1. q \in DOMAIN original[small].layout
      BY <1>1, <1>2, <2>1
    <3> QED
      BY <1>1, <1>2, <2>2, <3>1, LayoutIs DEF WellFormed
  <2>5. Superfluous(l) <=> Untouched(original[big], l) /\ Untouched(original[small], l)
    BY <1>1, <1>4, <2>4 DEF Superfluous
  <2> QED
    BY <1>5, <1>6, <2>3, <2>5
<1>7. CASE OnlyInLarger
  <2>1. l \notin Logicals(original[small])
    <3> SUFFICES ASSUME l \in Logicals(original[small]) PROVE FALSE
      OBVIOUS
    <3>1. PICK q \in DOMAIN original[small].layout : original[small].layout[q] = l
      BY <1>1, <1>2, LayoutIs DEF WellFormed
    <3>2. Visited \in Stays(big) /\ Visited \in DOMAIN original[big].layout
      BY <1>1, <1>2, <1>3
    <3>3. (big = 1 /\ small = 2) \/ (big = 2 /\ small = 1)
      BY <1>1 DEF Both, small
    <3>4. q \in Stays(small)
      BY <3>1, <3>2, <3>3 DEF JInv, Exact, TogetherGone
    <3>5. q \in DOMAIN circuits[small].layout
      BY <1>1, <1>2, <3>4
    <3>6. circuits[small].layout[q] = Logical
      BY <1>3, <3>1, <3>5, PartnerIs
    <3>7. Logical \in Logicals(circuits[small])
      BY <1>1, <3>5, <3>6, LayoutIs DEF WellFormed
    <3> DEFINE k == NQubits(circuits[small])
    <3>8. Logical \in 0 .. k - 1 /\ Logical >= k /\ k \in Nat
      BY <1>1, <1>7, <3>7 DEF Logicals
    <3> HIDE DEF k
    <3> QED
      BY <3>8
  <2>2. Superfluous(l) <=> Untouched(original[big], l)
    BY <1>1, <1>4, <2>1 DEF Superfluous
  <2> QED
    BY <1>5, <1>7, <2>2
<1> QED
  BY <1>6, <1>7

\* The holders of the logical qubit that is visited
LEMMA HoldersOfVisited ==
    ASSUME IInv, stage = "strip", todo # {}, NEW i \in Both, NEW p \in DOMAIN circuits[i].layout
    PROVE  circuits[i].layout[p] = Logical <=> original[i].layout[p] = original[big].layout[Visited]
<1>1. /\ big \in Both /\ small \in Both /\ small # big /\ \A j \in Both : j = big \/ j = small
      /\ Visited = Holder(circuits[big], Logical) /\ Logical \in Logicals(circuits[big])
      /\ \A j \in Both : WellFormed(circuits[j])
  BY Stripping
<1>2. /\ \A j \in Both : WellFormed(original[j])
      /\ \A j \in Both : DOMAIN circuits[j].layout \subseteq DOMAIN original[j].layout
  BY WhileStripping
<1>3. Visited \in DOMAIN circuits[big].layout /\ circuits[big].layout[Visited] = Logical
  BY <1>1, LayoutIs DEF WellFormed
<1>4. CASE i = big
  <2>1. circuits[i].layout[p] = Logical <=> p = Visited
    BY <1>1, <1>3, <1>4, LayoutIs DEF WellFormed
  <2>2. p \in DOMAIN original[big].layout /\ Visited \in DOMAIN original[big].layout
    BY <1>1, <1>2, <1>3, <1>4
  <2>3. original[i].layout[p] = original[big].layout[Visited] <=> p = Visited
    BY <1>1, <1>2, <1>4, <2>2, LayoutIs DEF WellFormed
  <2> QED
    BY <2>1, <2>3
<1>5. CASE i = small
  <2>1. circuits[big].layout[Visited] = circuits[small].layout[p]
           <=> original[big].layout[Visited] = original[small].layout[p]
    BY <1>3, <1>5, PartnerIs
  <2> QED
    BY <1>3, <1>5, <2>1
<1> QED
  BY <1>1, <1>4, <1>5

\* A superfluous qubit is removed from whatever circuit has it.
LEMMA StrippedExactly ==
    ASSUME IInv, JInv, stage = "strip", todo # {}, stage' = "strip", todo' = todo \ {Visited},
           UNCHANGED <<original, big, removed>>,
           Superfluous(original[big].layout[Visited]),
           \A i \in Both : DOMAIN circuits'[i].layout
                              = {p \in DOMAIN circuits[i].layout : circuits[i].layout[p] # Logical}
    PROVE  Exact'
<1> DEFINE l == original[big].layout[Visited]
<1>1. \A i \in Both : /\ Stays(i) = DOMAIN circuits[i].layout
                      /\ DOMAIN circuits[i].layout \subseteq DOMAIN original[i].layout
  BY WhileStripping
<1>2. \A i \in Both : Stays(i)' = DOMAIN circuits'[i].layout
  <2>1. removed' = <<>>
    BY DEF IInv, StripInv
  <2>2. \A i \in Both : Own(i)' = DOMAIN circuits'[i].layout
    <3>1. \A i \in Both : DOMAIN circuits'[i].layout \subseteq DOMAIN original'[i].layout
      BY <1>1
    <3> QED
      BY <3>1 DEF Own, Added
  <2>3. DOMAIN removed' = {}
    BY <2>1
  <2> QED
    BY <2>2, <2>3 DEF Stays
<1>3. \A i \in Both : \A p \in DOMAIN circuits[i].layout :
         circuits[i].layout[p] = Logical <=> original[i].layout[p] = l
  BY HoldersOfVisited
<1>4. \A x : Superfluous(x)' <=> Superfluous(x)
  BY DEF Superfluous
<1> HIDE DEF l
<1>5. Superfluous(l)
  BY DEF l
<1>6. OnlySuperfluousGone'
  <2> SUFFICES ASSUME NEW i \in Both, NEW p \in DOMAIN original[i].layout \ Stays(i)'
               PROVE  Superfluous(original[i].layout[p])
    BY <1>4 DEF OnlySuperfluousGone
  <2>1. p \in DOMAIN original[i].layout /\ p \notin DOMAIN circuits'[i].layout
    BY <1>2
  <2>2. CASE p \in DOMAIN circuits[i].layout
    <3>1. circuits[i].layout[p] = Logical
      BY <2>1, <2>2
    <3>2. original[i].layout[p] = l
      BY <1>3, <2>2, <3>1
    <3> QED
      BY <1>5, <3>2
  <2>3. CASE p \notin DOMAIN circuits[i].layout
    <3>1. Superfluous(original[i].layout[p])
      BY <1>1, <2>1, <2>3 DEF JInv, Exact, OnlySuperfluousGone
    <3> QED
      BY <3>1
  <2> QED
    BY <2>2, <2>3
<1>7. TogetherGone'
  <2> SUFFICES ASSUME NEW p \in DOMAIN original[1].layout, NEW q \in DOMAIN original[2].layout,
                      original[1].layout[p] = original[2].layout[q]
               PROVE  p \in Stays(1)' <=> q \in Stays(2)'
    BY DEF TogetherGone
  <2>1. 1 \in Both /\ 2 \in Both
    BY DEF Both
  <2>2. p \in Stays(1) <=> q \in Stays(2)
    BY DEF JInv, Exact, TogetherGone
  <2>3. p \in DOMAIN circuits[1].layout => (circuits[1].layout[p] = Logical <=> original[1].layout[p] = l)
    BY <1>3, <2>1
  <2>4. q \in DOMAIN circuits[2].layout => (circuits[2].layout[q] = Logical <=> original[2].layout[q] = l)
    BY <1>3, <2>1
  <2>5. p \in Stays(1)' <=> p \in DOMAIN circuits[1].layout /\ circuits[1].layout[p] # Logical
    BY <1>2, <2>1
  <2>6. q \in Stays(2)' <=> q \in DOMAIN circuits[2].layout /\ circuits[2].layout[q] # Logical
    BY <1>2, <2>1
  <2>7. Stays(1) = DOMAIN circuits[1].layout /\ Stays(2) = DOMAIN circuits[2].layout
    BY <1>1, <2>1
  <2> QED
    BY <2>2, <2>3, <2>4, <2>5, <2>6, <2>7
<1>8. SuperfluousAhead'
  <2> SUFFICES ASSUME NEW i \in Both, NEW p \in Stays(i)', Superfluous(original[i].layout[p])
               PROVE  \E q \in todo' : original[big].layout[q] = original[i].layout[p]
    BY <1>4 DEF SuperfluousAhead
  <2>1. p \in DOMAIN circuits[i].layout /\ circuits[i].layout[p] # Logical
    BY <1>2
  <2>2. PICK q \in todo : original[big].layout[q] = original[i].layout[p]
    BY <1>1, <2>1 DEF JInv, Exact, SuperfluousAhead
  <2>3. q # Visited
    BY <1>3, <2>1, <2>2 DEF l
  <2> QED
    BY <2>2, <2>3
<1> QED
  BY <1>6, <1>7, <1>8 DEF Exact

\* A qubit that is kept is not superfluous.
LEMMA KeptExactly ==
    ASSUME IInv, JInv, Keep
    PROVE  Exact'
<1>1. /\ stage = "strip" /\ todo # {} /\ todo' = todo \ {Visited}
      /\ ~(Strippable(big) /\ (OnlyInLarger \/ Strippable(small)))
      /\ UNCHANGED <<circuits, original, big, difference, removed, wasGarbage, stage>>
  BY DEF Keep
<1>2. ~Superfluous(original[big].layout[Visited])
  BY <1>1, VisitedIsSuperfluous
<1>3. (\A i \in Both : Stays(i)' = Stays(i)) /\ \A x : Superfluous(x)' <=> Superfluous(x)
  BY <1>1 DEF Stays, Own, Added, Superfluous, small
<1>4. OnlySuperfluousGone' /\ TogetherGone'
  <2>1. 1 \in Both /\ 2 \in Both
    BY DEF Both
  <2> QED
    BY <1>1, <1>3, <2>1 DEF JInv, Exact, OnlySuperfluousGone, TogetherGone
<1>5. SuperfluousAhead'
  <2> SUFFICES ASSUME NEW i \in Both, NEW p \in Stays(i), Superfluous(original[i].layout[p])
               PROVE  \E q \in todo' : original[big].layout[q] = original[i].layout[p]
    BY <1>1, <1>3 DEF SuperfluousAhead
  <2>1. PICK q \in todo : original[big].layout[q] = original[i].layout[p]
    BY DEF JInv, Exact, SuperfluousAhead
  <2>2. q # Visited
    BY <1>2, <2>1
  <2> QED
    BY <1>1, <2>1, <2>2
<1> QED
  BY <1>4, <1>5 DEF Exact

\* What is ancillary in a stripped circuit
LEMMA StrippedAncillary ==
    ASSUME NEW cs, NEW ds, NEW l \in Nat, StripTo(cs, ds, l), NEW i \in Both
    PROVE  /\ DOMAIN ds[i].layout = {p \in DOMAIN cs[i].layout : cs[i].layout[p] # l}
           /\ ds[i].idle = cs[i].idle
           /\ \A p \in DOMAIN ds[i].layout :
                ds[i].layout[p] \in ds[i].ancillary <=> cs[i].layout[p] \in cs[i].ancillary
<1> DEFINE c == cs[i]
           d == ds[i]
           n == NQubits(c)
<1>1. /\ WellFormed(c)
      /\ \/ l \in Logicals(c) /\ Safe(c, Holder(c, l), l) /\ d = Stripped(c, l)
         \/ l >= NQubits(c) /\ d = c
  BY DEF StripTo
<1> HIDE DEF c, d
<1>2. /\ n \in Nat /\ Logicals(c) = 0 .. n - 1 /\ IsCircuit(c)
      /\ \A p \in DOMAIN c.layout : c.layout[p] \in 0 .. n - 1
      /\ c.ancillary \subseteq 0 .. n - 1
  BY <1>1, LayoutIs DEF WellFormed
<1>3. CASE l >= n /\ d = c
  <2>1. \A x \in 0 .. n - 1 : x # l
    <3> HIDE DEF n
    <3> QED
      BY <1>2, <1>3
  <2> QED
    BY <1>2, <1>3, <2>1 DEF c, d
<1>4. CASE l \in Logicals(c) /\ d = Stripped(c, l)
  <2> DEFINE h == Holder(c, l)
  <2>1. IsStripped(d, c, l, h)
    BY <1>2, <1>4, StrippedIs
  <2>2. \A p \in DOMAIN c.layout : c.layout[p] = l <=> p = h
    BY <1>1, <1>4, LayoutIs DEF WellFormed
  <2>3. /\ d.layout = [p \in DOMAIN c.layout \ {h} |-> Down(c.layout[p], l)]
        /\ d.ancillary = {Down(x, l) : x \in c.ancillary \ {l}} /\ d.idle = c.idle
    BY <2>1 DEF IsStripped
  <2>4. DOMAIN d.layout = {p \in DOMAIN c.layout : c.layout[p] # l}
    BY <2>2, <2>3
  <2>5. \A x, y \in 0 .. n - 1 : x # l /\ y # l => (Down(x, l) = Down(y, l) <=> x = y)
    <3>1. \A x, y \in Int : x # l /\ y # l => (Down(x, l) = Down(y, l) <=> x = y)
      BY DEF Down
    <3>2. \A x \in 0 .. n - 1 : x \in Int
      OBVIOUS
    <3> QED
      BY <3>1, <3>2
  <2>6. ASSUME NEW p \in DOMAIN d.layout
        PROVE  d.layout[p] \in d.ancillary <=> c.layout[p] \in c.ancillary
    <3>1. /\ d.layout[p] = Down(c.layout[p], l) /\ c.layout[p] # l
          /\ c.layout[p] \in 0 .. n - 1
      BY <1>2, <2>3, <2>4
    <3>2. ASSUME d.layout[p] \in d.ancillary
          PROVE  c.layout[p] \in c.ancillary
      <4>1. PICK x \in c.ancillary \ {l} : d.layout[p] = Down(x, l)
        BY <2>3, <3>2
      <4>2. c.layout[p] = x
        BY <1>2, <2>5, <3>1, <4>1
      <4> QED
        BY <4>1, <4>2
    <3>3. ASSUME c.layout[p] \in c.ancillary
          PROVE  d.layout[p] \in d.ancillary
      BY <2>3, <3>1, <3>3
    <3> QED
      BY <3>2, <3>3
  <2> QED
    BY <2>3, <2>4, <2>6 DEF c, d
<1> QED
  BY <1>1, <1>3, <1>4

\* What a step of stripIdleQubits that removes a qubit leaves
LEMMA StripJInv ==
    ASSUME IInv, JInv, stage = "strip", todo # {}, stage' = "strip", todo' = todo \ {Visited},
           UNCHANGED <<original, big, removed>>,
           Superfluous(original[big].layout[Visited]), StripTo(circuits, circuits', Logical)
    PROVE  JInv'
<1>1. Logical \in Nat
  BY Stripping
<1>2. \A i \in Both :
         /\ DOMAIN circuits'[i].layout = {p \in DOMAIN circuits[i].layout : circuits[i].layout[p] # Logical}
         /\ circuits'[i].idle = circuits[i].idle
         /\ \A p \in DOMAIN circuits'[i].layout :
              circuits'[i].layout[p] \in circuits'[i].ancillary
                 <=> circuits[i].layout[p] \in circuits[i].ancillary
  <2> DEFINE l == Logical
             cs == circuits
             ds == circuits'
  <2>1. l \in Nat /\ StripTo(cs, ds, l)
    BY <1>1
  <2> HIDE DEF l, cs, ds
  <2>2. \A i \in Both :
         /\ DOMAIN ds[i].layout = {p \in DOMAIN cs[i].layout : cs[i].layout[p] # l}
         /\ ds[i].idle = cs[i].idle
         /\ \A p \in DOMAIN ds[i].layout :
              ds[i].layout[p] \in ds[i].ancillary <=> cs[i].layout[p] \in cs[i].ancillary
    BY <2>1, StrippedAncillary
  <2> QED
    BY <2>2 DEF l, cs, ds
<1>3. Exact'
  BY <1>2, StrippedExactly
<1>4. \A i \in Both : Raised(i) = {} /\ Raised(i)' = {}
  BY DEF Raised
<1>5. AncillariesKept'
  <2> SUFFICES ASSUME NEW i \in Both,
                      NEW p \in DOMAIN circuits'[i].layout \cap DOMAIN original[i].layout
               PROVE  /\ circuits'[i].layout[p] \in circuits'[i].ancillary
                            <=> original[i].layout[p] \in original[i].ancillary
                      /\ p \in circuits'[i].idle <=> p \in original[i].idle
    BY DEF AncillariesKept
  <2>1. p \in DOMAIN circuits[i].layout \cap DOMAIN original[i].layout
    BY <1>2
  <2>2. /\ circuits[i].layout[p] \in circuits[i].ancillary
              <=> original[i].layout[p] \in original[i].ancillary
        /\ p \in circuits[i].idle <=> p \in original[i].idle
    BY <1>4, <2>1 DEF JInv, AncillariesKept
  <2> QED
    BY <1>2, <2>2
<1>6. RaisedAreAncillary'
  <2>1. small \in Both /\ small' = small
    BY DEF IInv, Typed, Both, small
  <2> QED
    BY <1>4, <2>1 DEF RaisedAreAncillary
<1> QED
  BY <1>3, <1>5, <1>6 DEF JInv, Counted, NothingForeign

\* The three steps of stripIdleQubits
LEMMA StrippingJInv == IInv /\ JInv /\ (StripFromLarger \/ StripFromBoth \/ Keep) => JInv'
<1>1. ASSUME IInv, JInv, StripFromLarger
      PROVE  JInv'
  <2>1. stage = "strip" /\ todo # {} /\ OnlyInLarger /\ Strippable(big)
    BY <1>1 DEF StripFromLarger
  <2>2. /\ \A i \in Both : WellFormed(circuits[i])
        /\ big \in Both /\ small \in Both /\ small # big
        /\ \A i \in Both : i = big \/ i = small
        /\ Logical \in Logicals(circuits[big])
        /\ Logical >= NQubits(circuits[small])
    BY <1>1, <2>1, Stripping
  <2>3. circuits'[big] = Stripped(circuits[big], Logical) /\ circuits'[small] = circuits[small]
    BY <1>1, <2>2 DEF StripFromLarger, IInv, Typed
  <2>4. Safe(circuits[big], Holder(circuits[big], Logical), Logical)
    BY <2>1 DEF Strippable
  <2>5. StripTo(circuits, circuits', Logical)
    BY <2>2, <2>3, <2>4 DEF StripTo
  <2>6. Superfluous(original[big].layout[Visited])
    BY <1>1, <2>1, VisitedIsSuperfluous
  <2>7. stage' = "strip" /\ todo' = todo \ {Visited} /\ UNCHANGED <<original, big, removed>>
    BY <1>1, <2>1 DEF StripFromLarger
  <2> QED
    BY <1>1, <2>1, <2>5, <2>6, <2>7, StripJInv
<1>2. ASSUME IInv, JInv, StripFromBoth
      PROVE  JInv'
  <2>1. stage = "strip" /\ todo # {} /\ ~OnlyInLarger /\ \A i \in Both : Strippable(i)
    BY <1>2 DEF StripFromBoth
  <2>2. /\ \A i \in Both : WellFormed(circuits[i])
        /\ big \in Both /\ small \in Both
        /\ \A i \in Both : i = big \/ i = small
        /\ Logical \in Logicals(circuits[big])
        /\ Logical \in Logicals(circuits[small])
    BY <1>2, <2>1, Stripping
  <2>3. \A i \in Both : circuits'[i] = Stripped(circuits[i], Logical)
    BY <1>2 DEF StripFromBoth
  <2>4. \A i \in Both : /\ Logical \in Logicals(circuits[i])
                        /\ Safe(circuits[i], Holder(circuits[i], Logical), Logical)
    BY <2>1, <2>2 DEF Strippable
  <2>5. StripTo(circuits, circuits', Logical)
    BY <2>2, <2>3, <2>4 DEF StripTo
  <2>6. Superfluous(original[big].layout[Visited])
    BY <1>2, <2>1, <2>2, VisitedIsSuperfluous
  <2>7. stage' = "strip" /\ todo' = todo \ {Visited} /\ UNCHANGED <<original, big, removed>>
    BY <1>2, <2>1 DEF StripFromBoth
  <2> QED
    BY <1>2, <2>1, <2>5, <2>6, <2>7, StripJInv
<1>3. ASSUME IInv, JInv, Keep
      PROVE  JInv'
  <2>1. Exact'
    BY <1>3, KeptExactly
  <2>2. UNCHANGED <<circuits, original, big, difference, removed, stage>> /\ small' = small
    BY <1>3 DEF Keep, small
  <2>3. \A i : Raised(i)' = Raised(i)
    BY <2>2 DEF Raised
  <2>4. AncillariesKept' /\ RaisedAreAncillary' /\ Counted' /\ NothingForeign'
    BY <1>3, <2>2, <2>3 DEF JInv, AncillariesKept, RaisedAreAncillary, Counted, NothingForeign, Keep
  <2> QED
    BY <2>1, <2>4 DEF JInv
<1> QED
  BY <1>1, <1>2, <1>3

\* At first nothing is gone, and the larger circuit has every logical qubit.
LEMMA InitJInv == Init => JInv
<1> SUFFICES ASSUME Init PROVE JInv
  OBVIOUS
<1>1. IInv /\ stage = "strip" /\ original = circuits /\ todo = DOMAIN circuits[big].layout
  BY InitIInv DEF Init
<1>2. /\ \A i \in Both : Stays(i) = DOMAIN original[i].layout
      /\ \A i \in Both : WellFormed(original[i])
  BY <1>1, WhileStripping
<1>3. \A i \in Both : Raised(i) = {}
  BY <1>1 DEF Raised
<1>4. big \in Both /\ small \in Both
  BY <1>1 DEF IInv, Typed, Both, small
<1>5. SuperfluousAhead
  <2> SUFFICES ASSUME NEW i \in Both, NEW p \in DOMAIN original[i].layout
               PROVE  \E q \in todo : original[big].layout[q] = original[i].layout[p]
    BY <1>2 DEF SuperfluousAhead
  <2>1. Logicals(original[i]) \subseteq Logicals(original[big])
    <3> DEFINE n == NQubits(original[i])
               m == NQubits(original[big])
    <3>1. n \in Nat /\ m \in Nat
      BY <1>2, <1>4, LayoutIs DEF WellFormed
    <3>2. n <= m
      <4>1. NQubits(circuits[1]) \in Nat /\ NQubits(circuits[2]) \in Nat
        BY <1>1, <1>2, LayoutIs DEF WellFormed, Both
      <4>2. big = IF NQubits(circuits[1]) > NQubits(circuits[2]) THEN 1 ELSE 2
        BY DEF Init
      <4> QED
        BY <1>1, <4>1, <4>2 DEF Both
    <3> HIDE DEF n, m
    <3>3. 0 .. n - 1 \subseteq 0 .. m - 1
      BY <3>1, <3>2
    <3> QED
      BY <3>3 DEF Logicals, n, m
  <2>2. original[i].layout[p] \in Logicals(original[big])
    BY <1>2, <2>1, LayoutIs DEF WellFormed
  <2> QED
    BY <1>1, <1>2, <1>4, <2>2, LayoutIs DEF WellFormed
<1>6. OnlySuperfluousGone /\ TogetherGone
  BY <1>2 DEF OnlySuperfluousGone, TogetherGone, Both
<1>7. AncillariesKept /\ RaisedAreAncillary /\ Counted /\ NothingForeign
  BY <1>1, <1>3, <1>4 DEF AncillariesKept, RaisedAreAncillary, Counted, NothingForeign
<1> QED
  BY <1>5, <1>6, <1>7 DEF JInv, Exact

\* What is gone does not change after stripIdleQubits.
LEMMA NothingElseGone ==
    ASSUME JInv, todo = {}, todo' = {}, original' = original, \A i \in Both : Stays(i)' = Stays(i)
    PROVE  Exact'
<1>1. \A x : Superfluous(x)' <=> Superfluous(x)
  BY DEF Superfluous
<1>2. OnlySuperfluousGone'
  BY <1>1 DEF JInv, Exact, OnlySuperfluousGone
<1>3. TogetherGone'
  BY DEF JInv, Exact, TogetherGone, Both
<1>4. SuperfluousAhead'
  BY <1>1 DEF JInv, Exact, SuperfluousAhead
<1> QED
  BY <1>2, <1>3, <1>4 DEF Exact

\* Nothing has been raised when setupAncillariesAndGarbage begins.
LEMMA BeginSetupJInv == IInv /\ JInv /\ BeginSetup => JInv'
<1> SUFFICES ASSUME IInv, JInv, BeginSetup PROVE JInv'
  OBVIOUS
<1>1. /\ stage = "strip" /\ todo = {}
      /\ big' = IF NQubits(circuits[1]) > NQubits(circuits[2]) THEN 1 ELSE 2
      /\ difference' = NQubits(circuits[big']) - NQubits(circuits[3 - big'])
      /\ stage' = IF difference' = 0 THEN "done" ELSE "remove"
      /\ UNCHANGED <<circuits, original, todo, removed, wasGarbage>>
  BY DEF BeginSetup
<1>2. /\ \A i \in Both : Stays(i) = DOMAIN circuits[i].layout
      /\ \A i \in Both : /\ WellFormed(circuits[i])
                         /\ DOMAIN circuits[i].layout \subseteq DOMAIN original[i].layout
  BY <1>1, WhileStripping
<1>3. removed = <<>>
  BY <1>1 DEF IInv, StripInv
<1>4. big' \in Both /\ small' \in Both /\ small' = 3 - big'
  BY <1>1 DEF Both, small
<1>5. \A i \in Both : NQubits(circuits[i]) \in Nat
  BY <1>2, LayoutIs DEF WellFormed
<1>6. stage' = "done" => NQubits(circuits[1]) = NQubits(circuits[2]) /\ difference' = 0
  <2>1. stage' = "done" => difference' = 0
    BY <1>1
  <2>2. difference' = 0 => NQubits(circuits[1]) = NQubits(circuits[2])
    <3>1. /\ NQubits(circuits[1]) \in Nat /\ NQubits(circuits[2]) \in Nat
          /\ big' = 1 \/ big' = 2
      BY <1>4, <1>5 DEF Both
    <3>2. CASE big' = 1
      <4>1. difference' = NQubits(circuits[1]) - NQubits(circuits[2])
        BY <1>1, <3>2
      <4> QED
        BY <3>1, <4>1
    <3>3. CASE big' = 2
      <4>1. difference' = NQubits(circuits[2]) - NQubits(circuits[1])
        BY <1>1, <3>3
      <4> QED
        BY <3>1, <4>1
    <3> QED
      BY <3>1, <3>2, <3>3
  <2> QED
    BY <2>1, <2>2
<1>7. \A i \in Both : stage' = "done" =>
         {l \in Logicals(circuits[i]) : l >= NQubits(circuits[small']) - difference'} = {}
  <2> SUFFICES ASSUME NEW i \in Both, stage' = "done", NEW l \in Logicals(circuits[i])
               PROVE  ~(l >= NQubits(circuits[small']) - difference')
    OBVIOUS
  <2> DEFINE n == NQubits(circuits[i])
  <2>1. NQubits(circuits[small']) = n /\ difference' = 0 /\ n \in Nat /\ l \in 0 .. n - 1
    BY <1>4, <1>5, <1>6 DEF Both, Logicals
  <2> HIDE DEF n
  <2>2. ~(l >= n - 0)
    BY <2>1
  <2> QED
    BY <2>1, <2>2
<1>8. \A i \in Both : Raised(i)' = {} /\ Added(i)' = {}
  <2>1. stage' \in {"done", "remove"}
    BY <1>1
  <2>2. \A i \in Both : i # big' => i = small'
    <3>1. big' = 1 => small' = 2
      BY <1>4
    <3>2. big' = 2 => small' = 1
      BY <1>4
    <3> QED
      BY <1>4, <3>1, <3>2 DEF Both
  <2>3. \A i \in Both : Raised(i)' = {}
    BY <1>1, <1>7, <2>1 DEF Raised
  <2>4. \A i \in Both : Added(i)' = {}
    BY <1>1, <1>7, <2>1, <2>2 DEF Added
  <2> QED
    BY <2>3, <2>4
<1>9. Exact'
  <2>1. \A i \in Both : Own(i)' = DOMAIN circuits[i].layout
    BY <1>1, <1>2, <1>8 DEF Own
  <2>2. DOMAIN removed' = {}
    BY <1>1, <1>3
  <2>3. \A i \in Both : Stays(i)' = Stays(i)
    BY <1>2, <2>1, <2>2 DEF Stays
  <2> QED
    BY <1>1, <2>3, NothingElseGone
<1>10. AncillariesKept'
  <2>1. \A i \in Both : Raised(i) = {}
    BY <1>1 DEF Raised
  <2> QED
    BY <1>1, <1>8, <2>1 DEF JInv, AncillariesKept
<1>11. RaisedAreAncillary'
  BY <1>4, <1>8 DEF RaisedAreAncillary
<1>12. Counted'
  BY <1>1, <1>3, <1>6 DEF Counted
<1>13. NothingForeign'
  <2>1. DOMAIN removed' = {}
    BY <1>1, <1>3
  <2> QED
    BY <1>1, <1>2, <2>1 DEF NothingForeign
<1> QED
  BY <1>9, <1>10, <1>11, <1>12, <1>13 DEF JInv

\* A qubit that is taken out stays.
LEMMA RemoveLastJInv == IInv /\ JInv /\ RemoveLast => JInv'
<1> SUFFICES ASSUME IInv, JInv, RemoveLast PROVE JInv'
  OBVIOUS
<1> DEFINE c == circuits[big]
           last == MaxLogical(c)
           p == Holder(c, last)
           d == RemoveQubit(c, last)
<1>1. /\ stage = "remove" /\ Len(removed) < difference
      /\ removed' = Append(removed, [qubit |-> p, outputs |-> Outputs(c, p)])
      /\ circuits' = [circuits EXCEPT ![big] = d]
      /\ UNCHANGED <<original, big, todo, difference, stage>>
  BY DEF RemoveLast
<1>2. /\ DOMAIN circuits = Both /\ big \in Both /\ small \in Both /\ small # big /\ small' = small
      /\ \A i \in Both : i = big \/ i = small
      /\ todo = {}
  BY <1>1 DEF IInv, Typed, Both, small
<1>3. circuits'[big] = d /\ circuits'[small] = circuits[small]
  BY <1>1, <1>2
<1>4. PICK w :
        /\ SplitInto(w) /\ difference = NQubits(w) - NQubits(circuits[small])
        /\ WellFormed(circuits[small])
  BY <1>1 DEF IInv, SplitInv, Whole
<1> DEFINE m == NQubits(w)
           s == Len(removed)
           n == m - s
<1>5. /\ WellFormed(w) /\ removed \in Seq([qubit : Nat, outputs : SUBSET Nat]) /\ IsPart(c, w, n)
  BY <1>4 DEF SplitInto
<1>6. n \in 1 .. m
  <2> DEFINE k == NQubits(circuits[small])
  <2>1. m \in Nat /\ s \in Nat /\ s < difference /\ difference = m - k /\ k \in Nat
    BY <1>1, <1>4, <1>5, LayoutIs DEF WellFormed
  <2> HIDE DEF k, m, s
  <2> QED
    BY <2>1
<1> HIDE DEF c, d, m, s, n, last, p
<1>7. LayoutFits(c) /\ NQubits(c) = n
  <2>1. n \in 0 .. m
    BY <1>6
  <2> QED
    BY <1>5, <2>1, PartIs DEF m
<1>8. last = n - 1 /\ n - 1 \in 0 .. n - 1
  BY <1>6, <1>7, LayoutIs DEF last
<1>9. p \in DOMAIN c.layout /\ c.layout[p] = last
  <2>1. last \in Logicals(c)
    BY <1>7, <1>8 DEF Logicals
  <2> QED
    BY <1>7, <2>1, LayoutIs DEF p
<1>10. /\ d.layout = [q \in DOMAIN c.layout \ {p} |-> c.layout[q]]
       /\ d.idle = c.idle /\ d.ancillary = Erased(c.ancillary, last)
  <2>1. IsCircuit(c)
    BY <1>5 DEF IsPart
  <2>2. IsWithout(d, c, last, p)
    BY <2>1, RemoveQubitIs DEF d, p
  <2> QED
    BY <2>2 DEF IsWithout
<1>11. d.ancillary = c.ancillary \ {last}
  <2>1. \A x \in c.ancillary : x \in 0 .. n - 1
    BY <1>5 DEF IsPart
  <2>2. \A x \in c.ancillary : (IF x > last THEN x - 1 ELSE x) = x
    BY <1>6, <1>8, <2>1
  <2> QED
    BY <1>10, <2>2 DEF Erased
<1>12. \A q \in DOMAIN d.layout : /\ q \in DOMAIN c.layout /\ d.layout[q] = c.layout[q]
                                  /\ d.layout[q] \in d.ancillary <=> c.layout[q] \in c.ancillary
  <2>1. \A q \in DOMAIN c.layout : c.layout[q] = last => q = p
    BY <1>7, <1>9, LayoutIs
  <2> QED
    BY <1>10, <1>11, <2>1
<1>13. \A i \in Both : Stays(i)' = Stays(i)
  <2>1. \A i \in Both : Added(i) = {} /\ Added(i)' = {}
    BY <1>1 DEF Added
  <2>2. {removed'[k].qubit : k \in DOMAIN removed'} = {removed[k].qubit : k \in DOMAIN removed} \cup {p}
    <3> DEFINE T == [qubit : Nat, outputs : SUBSET Nat]
               x == [qubit |-> p, outputs |-> Outputs(c, p)]
    <3>1. x.qubit = p
      OBVIOUS
    <3> HIDE DEF T, x
    <3>2. removed \in Seq(T) /\ removed' = Append(removed, x)
      BY <1>1, <1>5 DEF T, x, c, p, last
    <3>3. /\ DOMAIN removed = 1 .. s /\ DOMAIN removed' = 1 .. s + 1 /\ s \in Nat
          /\ \A k \in 1 .. s : removed'[k] = removed[k]
          /\ removed'[s + 1] = x
      BY <3>2 DEF s
    <3>4. 1 .. s + 1 = (1 .. s) \cup {s + 1}
      BY <3>3
    <3> QED
      BY <3>1, <3>3, <3>4
  <2>3. ASSUME NEW i \in Both, i = small
        PROVE  Stays(i)' = Stays(i)
    <3>1. Own(i)' = Own(i)
      BY <1>1, <1>2, <1>3, <2>1, <2>3 DEF Own
    <3> QED
      BY <1>1, <1>2, <2>3, <3>1 DEF Stays
  <2>4. ASSUME NEW i \in Both, i = big
        PROVE  Stays(i)' = Stays(i)
    <3> DEFINE O == DOMAIN original[i].layout
    <3>1. Stays(i) = Own(i) \cup ({removed[k].qubit : k \in DOMAIN removed} \cap O)
      BY <2>4 DEF Stays
    <3>2. Stays(i)' = Own(i)' \cup ({removed'[k].qubit : k \in DOMAIN removed'} \cap O)
      BY <1>1, <2>4 DEF Stays
    <3>3. Own(i) = DOMAIN c.layout \cap O
      BY <2>1, <2>4 DEF Own, c
    <3>4. Own(i)' = Own(i) \ {p}
      <4>1. DOMAIN circuits'[i].layout = DOMAIN c.layout \ {p}
        BY <1>3, <1>10, <2>4
      <4>2. Own(i)' = (DOMAIN c.layout \ {p}) \cap O
        BY <1>1, <2>1, <4>1 DEF Own
      <4> QED
        BY <3>3, <4>2
    <3> QED
      BY <1>9, <2>2, <3>1, <3>2, <3>3, <3>4
  <2> QED
    BY <1>2, <2>3, <2>4
<1>14. Exact'
  BY <1>1, <1>2, <1>13, NothingElseGone
<1>15. \A i \in Both : Raised(i) = {} /\ Raised(i)' = {}
  BY <1>1 DEF Raised
<1>16. AncillariesKept'
  <2> SUFFICES ASSUME NEW i \in Both,
                      NEW q \in DOMAIN circuits'[i].layout \cap DOMAIN original[i].layout
               PROVE  /\ circuits'[i].layout[q] \in circuits'[i].ancillary
                            <=> original[i].layout[q] \in original[i].ancillary
                      /\ q \in circuits'[i].idle <=> q \in original[i].idle
    BY <1>1 DEF AncillariesKept
  <2>1. CASE i = small
    BY <1>2, <1>3, <1>15, <2>1 DEF JInv, AncillariesKept
  <2>2. CASE i = big
    <3>1. q \in DOMAIN d.layout /\ q \in DOMAIN original[big].layout
      BY <1>3, <2>2
    <3>2. /\ c.layout[q] \in c.ancillary <=> original[big].layout[q] \in original[big].ancillary
          /\ q \in c.idle <=> q \in original[big].idle
      BY <1>2, <1>12, <1>15, <3>1 DEF JInv, AncillariesKept, c
    <3> QED
      BY <1>3, <1>10, <1>12, <2>2, <3>1, <3>2
  <2> QED
    BY <1>2, <2>1, <2>2
<1>17. RaisedAreAncillary' /\ Counted' /\ NothingForeign'
  BY <1>1, <1>2, <1>15 DEF RaisedAreAncillary, Counted, NothingForeign
<1> QED
  BY <1>14, <1>16, <1>17 DEF JInv

\* The physical qubits of a register are idle, its logical qubits ancillary.
LEMMA RegisterIsIdle ==
    ASSUME NEW c, WellFormed(c), NEW n \in Nat, NEW d, d = AddAncillaryRegister(c, n)
    PROVE  /\ \A p \in DOMAIN c.layout : /\ d.layout[p] \in d.ancillary <=> c.layout[p] \in c.ancillary
                                         /\ p \in d.idle <=> p \in c.idle
           /\ \A p \in DOMAIN d.layout \ DOMAIN c.layout : d.layout[p] \in d.ancillary /\ p \in d.idle
<1> DEFINE m == NQubits(c)
           f == FirstFree(c)
           R == f .. f + n - 1
           At(p) == m + p - f
           Old == 0 .. m - 1
<1>1. /\ m \in Nat /\ IsCircuit(c)
      /\ \A p \in DOMAIN c.layout : c.layout[p] \in Old
  BY LayoutIs DEF WellFormed
<1>2. DOMAIN c.layout \subseteq Nat /\ IsFiniteSet(DOMAIN c.layout)
  BY DEF WellFormed, LayoutFits
<1>3. f \in Nat /\ \A p \in DOMAIN c.layout : p < f
  <2> DEFINE g == Max(DOMAIN c.layout \cup {-1})
  <2>1. g \in Int /\ g >= -1 /\ \A p \in DOMAIN c.layout : p <= g
    BY <1>2, MaxIs
  <2>2. f = 1 + g
    BY DEF FirstFree
  <2> HIDE DEF f, g
  <2> QED
    BY <1>2, <2>1, <2>2
<1>4. /\ d.idle = c.idle \cup R
      /\ d.layout = [p \in DOMAIN c.layout \cup R |-> IF p \in R THEN At(p) ELSE c.layout[p]]
      /\ d.ancillary = c.ancillary \cup {At(p) : p \in R}
  <2> DEFINE L == [p \in DOMAIN c.layout \cup R |-> IF p \in R THEN At(p) ELSE c.layout[p]]
             O == [p \in DOMAIN c.output \cup R |-> IF p \in R THEN At(p) ELSE c.output[p]]
             A == c.ancillary \cup {At(p) : p \in R}
             I == c.idle \cup R
  <2>1. d = [c EXCEPT !.layout = L, !.output = O, !.ancillary = A, !.idle = I]
    BY DEF AddAncillaryRegister
  <2> HIDE DEF L, O, A, I
  <2>2. d.idle = I /\ d.layout = L /\ d.ancillary = A
    BY <1>1, <2>1 DEF IsCircuit
  <2> QED
    BY <2>2 DEF L, A, I
<1> HIDE DEF f, m
<1>5. (\A p \in R : ~(At(p) \in Old)) /\ \A p \in DOMAIN c.layout : p \notin R
  <2>1. \A p \in R : At(p) >= m
    BY <1>1, <1>3
  <2>2. \A x \in Old : ~(x >= m)
    BY <1>1
  <2> QED
    BY <1>2, <1>3, <2>1, <2>2
<1> HIDE DEF R, At, Old
<1>6. ASSUME NEW p \in DOMAIN c.layout
      PROVE  /\ d.layout[p] \in d.ancillary <=> c.layout[p] \in c.ancillary
             /\ p \in d.idle <=> p \in c.idle
  BY <1>1, <1>4, <1>5
<1>7. ASSUME NEW p \in DOMAIN d.layout \ DOMAIN c.layout
      PROVE  d.layout[p] \in d.ancillary /\ p \in d.idle
  BY <1>4
<1> QED
  BY <1>6, <1>7

\* What the smaller circuit gets is idle, ancillary and no qubit of its own.
LEMMA AddRegisterJInv == IInv /\ JInv /\ AddRegister => JInv'
<1> SUFFICES ASSUME IInv, JInv, AddRegister PROVE JInv'
  OBVIOUS
<1> DEFINE c == circuits[small]
           d == AddAncillaryRegister(c, difference)
           k == NQubits(c)
           top(f) == {l \in Logicals(f) : l >= k}
<1>1. /\ stage = "remove" /\ Len(removed) = difference /\ stage' = "restore"
      /\ circuits' = [circuits EXCEPT ![small] = d]
      /\ UNCHANGED <<original, big, todo, difference, removed, wasGarbage>>
  BY DEF AddRegister
<1>2. /\ DOMAIN circuits = Both /\ big \in Both /\ small \in Both /\ small # big /\ small' = small
      /\ \A i \in Both : i = big \/ i = small
      /\ todo = {} /\ difference \in Nat
  BY <1>1 DEF IInv, Typed, Both, small
<1>3. circuits'[big] = circuits[big] /\ circuits'[small] = d
  BY <1>1, <1>2
<1>4. PICK w :
        /\ SplitInto(w) /\ difference = NQubits(w) - k
        /\ DOMAIN w.layout \subseteq DOMAIN original[big].layout
        /\ DOMAIN circuits[small].layout \subseteq DOMAIN original[small].layout
        /\ WellFormed(c)
  BY <1>1 DEF IInv, SplitInv, Whole
<1>5. /\ WellFormed(d) /\ NQubits(d) = k + difference /\ k \in Nat
      /\ DOMAIN c.layout \subseteq DOMAIN d.layout
      /\ \A p \in DOMAIN d.layout : p \in DOMAIN c.layout <=> d.layout[p] < k
      /\ \A p \in DOMAIN c.layout : d.layout[p] = c.layout[p]
  <2>1. WellFormed(c) /\ difference \in Nat
    BY <1>2, <1>4
  <2>2. /\ WellFormed(d) /\ NQubits(d) = NQubits(c) + difference /\ NQubits(c) \in Nat
        /\ d.garbage = c.garbage /\ DOMAIN c.layout \subseteq DOMAIN d.layout
        /\ \A p \in DOMAIN d.layout : p \in DOMAIN c.layout <=> d.layout[p] < NQubits(c)
        /\ \A p \in DOMAIN c.layout : d.layout[p] = c.layout[p] /\ Outputs(d, p) = Outputs(c, p)
    BY <2>1, RegisterAdded
  <2> QED
    BY <2>2
<1>6. /\ \A p \in DOMAIN c.layout : /\ d.layout[p] \in d.ancillary <=> c.layout[p] \in c.ancillary
                                    /\ p \in d.idle <=> p \in c.idle
      /\ \A p \in DOMAIN d.layout \ DOMAIN c.layout : d.layout[p] \in d.ancillary /\ p \in d.idle
  BY <1>2, <1>4, RegisterIsIdle
<1> HIDE DEF c, d
<1>7. NQubits(d) - difference = k
  <2> HIDE DEF k
  <2> QED
    BY <1>2, <1>5
<1>8. NQubits(circuits[big]) = k /\ k + Len(removed) = NQubits(d)
  <2> DEFINE m == NQubits(w)
  <2>1. m \in Nat
    BY <1>4, LayoutIs DEF SplitInto, WellFormed
  <2>2. IsPart(circuits[big], w, m - Len(removed)) /\ WellFormed(w)
    BY <1>4 DEF SplitInto
  <2>3. k \in Nat /\ difference \in Nat /\ difference = m - k /\ Len(removed) = difference
    BY <1>1, <1>2, <1>4, <1>5
  <2>4. m - Len(removed) = k /\ k \in 0 .. m /\ k + Len(removed) = k + difference
    <3> HIDE DEF k, m
    <3> QED
      BY <2>1, <2>3
  <2> HIDE DEF k
  <2>5. IsPart(circuits[big], w, k) /\ k \in 0 .. m
    BY <2>2, <2>4
  <2>6. NQubits(circuits[big]) = k
    BY <2>2, <2>5, PartIs
  <2> QED
    BY <1>5, <2>4, <2>6
<1>9. \A p \in DOMAIN d.layout : p \in DOMAIN c.layout <=> d.layout[p] \notin top(d)
  <2>1. \A p \in DOMAIN d.layout : d.layout[p] \in Logicals(d) /\ d.layout[p] \in Nat
    BY <1>5, LayoutIs DEF WellFormed
  <2> HIDE DEF k
  <2>2. \A x \in Nat : x < k <=> ~(x >= k)
    BY <1>5
  <2> QED
    BY <1>5, <2>1, <2>2
<1>10. top(circuits[big]) = {}
  <2>1. Logicals(circuits[big]) = 0 .. k - 1
    BY <1>8 DEF Logicals
  <2> HIDE DEF k
  <2>2. \A l \in 0 .. k - 1 : ~(l >= k)
    BY <1>5
  <2> QED
    BY <2>1, <2>2
<1>11. \A i \in Both : /\ i = big => Raised(i)' = {} /\ Added(i)' = {} /\ Added(i) = {}
                       /\ i = small => Raised(i)' = top(d) /\ Added(i)' = top(d) /\ Added(i) = {}
                       /\ Raised(i) = {}
  <2>1. NQubits(circuits'[small']) - difference' = k
    BY <1>1, <1>2, <1>3, <1>7
  <2>2. \A i \in Both : Raised(i)' = top(circuits'[i])
    <3> HIDE DEF k
    <3> QED
      BY <1>1, <2>1 DEF Raised
  <2>3. \A i \in Both : i = small => Added(i)' = top(circuits'[i])
    <3>1. \A i \in Both : i = small => NQubits(circuits'[i]) - difference' = k
      BY <1>2, <2>1
    <3> HIDE DEF k
    <3> QED
      BY <1>1, <1>2, <3>1 DEF Added
  <2>4. \A i \in Both : Added(i) = {} /\ Raised(i) = {}
    BY <1>1 DEF Added, Raised
  <2>5. \A i \in Both : i = big => Added(i)' = {}
    BY <1>1 DEF Added
  <2> HIDE DEF k, top
  <2> QED
    BY <1>3, <1>10, <2>2, <2>3, <2>4, <2>5
<1> HIDE DEF top
<1>12. \A i \in Both : Stays(i)' = Stays(i)
  <2>1. ASSUME NEW i \in Both, i = small
        PROVE  Stays(i)' = Stays(i)
    <3> DEFINE O == DOMAIN original[i].layout
    <3>1. Own(i) = DOMAIN c.layout \cap O
      BY <1>11, <2>1 DEF Own, c
    <3>2. Own(i)' = {p \in DOMAIN d.layout \cap O : d.layout[p] \notin top(d)}
      <4>1. circuits'[i] = d /\ original' = original /\ Added(i)' = top(d)
        BY <1>1, <1>3, <1>11, <2>1
      <4> QED
        BY <4>1 DEF Own
    <3>3. Own(i)' = Own(i)
      BY <1>5, <1>9, <3>1, <3>2
    <3> QED
      BY <1>1, <1>2, <2>1, <3>3 DEF Stays
  <2>2. ASSUME NEW i \in Both, i = big
        PROVE  Stays(i)' = Stays(i)
    <3>1. Own(i)' = Own(i)
      BY <1>1, <1>3, <1>11, <2>2 DEF Own
    <3> QED
      BY <1>1, <3>1 DEF Stays
  <2> QED
    BY <1>2, <2>1, <2>2
<1>13. Exact'
  BY <1>1, <1>2, <1>12, NothingElseGone
<1>14. AncillariesKept'
  <2> SUFFICES ASSUME NEW i \in Both,
                      NEW q \in DOMAIN circuits'[i].layout \cap DOMAIN original[i].layout,
                      circuits'[i].layout[q] \notin Raised(i)'
               PROVE  /\ circuits'[i].layout[q] \in circuits'[i].ancillary
                            <=> original[i].layout[q] \in original[i].ancillary
                      /\ q \in circuits'[i].idle <=> q \in original[i].idle
    BY <1>1 DEF AncillariesKept
  <2>1. CASE i = big
    BY <1>3, <1>11, <2>1 DEF JInv, AncillariesKept
  <2>2. CASE i = small
    <3>1. q \in DOMAIN d.layout /\ q \in DOMAIN original[i].layout /\ d.layout[q] \notin top(d)
      BY <1>3, <1>11, <2>2
    <3>2. q \in DOMAIN c.layout
      BY <1>9, <3>1
    <3>3. /\ c.layout[q] \in c.ancillary <=> original[i].layout[q] \in original[i].ancillary
          /\ q \in c.idle <=> q \in original[i].idle
      BY <1>11, <2>2, <3>1, <3>2 DEF JInv, AncillariesKept, c
    <3>4. circuits'[i] = d
      BY <1>3, <2>2
    <3> QED
      BY <1>6, <3>2, <3>3, <3>4
  <2> QED
    BY <1>2, <2>1, <2>2
<1>15. RaisedAreAncillary'
  <2>1. ASSUME NEW p \in DOMAIN d.layout, d.layout[p] \in top(d)
        PROVE  d.layout[p] \in d.ancillary /\ p \in d.idle /\ ~(d.layout[p] < k)
    BY <1>5, <1>6, <1>9, <2>1
  <2>2. top(d) \subseteq d.ancillary
    <3> SUFFICES ASSUME NEW l \in top(d) PROVE l \in d.ancillary
      OBVIOUS
    <3>1. l \in Logicals(d)
      BY DEF top
    <3>2. PICK p \in DOMAIN d.layout : d.layout[p] = l
      BY <1>5, <3>1, LayoutIs DEF WellFormed
    <3> QED
      BY <2>1, <3>2
  <2>3. \A i \in Both : Raised(i)' \subseteq circuits'[i].ancillary
    BY <1>2, <1>3, <1>11, <2>2
  <2>4. Raised(small)' = top(d)
    <3>1. PICK i \in Both : i = small
      BY <1>2
    <3>2. Raised(i)' = top(d)
      BY <1>11, <3>1
    <3>3. Raised(small)' = Raised(i)'
      BY <1>2, <3>1 DEF Raised
    <3> QED
      BY <3>2, <3>3
  <2>5. circuits'[small'] = d /\ NQubits(circuits'[big']) = k
    BY <1>1, <1>2, <1>3, <1>8
  <2> HIDE DEF k
  <2> QED
    BY <2>1, <2>3, <2>4, <2>5 DEF RaisedAreAncillary
<1>16. Counted'
  <2>1. NQubits(circuits'[big']) + Len(removed') = NQubits(circuits'[small'])
    BY <1>1, <1>2, <1>3, <1>8
  <2> QED
    BY <1>1, <2>1 DEF Counted
<1>17. NothingForeign'
  <2>1. \A x \in DOMAIN removed' : removed'[x].qubit \in DOMAIN original'[big'].layout
    <3> DEFINE m == NQubits(w)
    <3>1. /\ WellFormed(w) /\ Len(removed) <= m /\ IsRest(removed, wasGarbage, w)
          /\ DOMAIN removed = 1 .. Len(removed) /\ Len(removed) \in Nat
      BY <1>4 DEF SplitInto
    <3>2. \A x \in 1 .. Len(removed) : removed[x].qubit = Holder(w, m - x)
      BY <3>1 DEF IsRest
    <3>3. m \in Nat /\ Logicals(w) = 0 .. m - 1
      BY <3>1, LayoutIs DEF WellFormed
    <3>4. \A l \in Logicals(w) : Holder(w, l) \in DOMAIN w.layout
      BY <3>1, LayoutIs DEF WellFormed
    <3> HIDE DEF m
    <3>5. \A x \in 1 .. Len(removed) : m - x \in 0 .. m - 1
      BY <3>1, <3>3
    <3>6. \A x \in DOMAIN removed : removed[x].qubit \in DOMAIN w.layout
      BY <3>1, <3>2, <3>3, <3>4, <3>5
    <3> QED
      BY <1>1, <1>4, <3>6
  <2>2. ASSUME NEW i \in Both, NEW p \in DOMAIN circuits'[i].layout,
               circuits'[i].layout[p] \notin Added(i)'
        PROVE  p \in DOMAIN original'[i].layout
    <3>1. CASE i = big
      <4>1. DOMAIN circuits[big].layout \subseteq DOMAIN w.layout
        BY <1>4 DEF SplitInto, IsPart
      <4> QED
        BY <1>1, <1>3, <1>4, <3>1, <4>1
    <3>2. CASE i = small
      <4>1. p \in DOMAIN d.layout /\ d.layout[p] \notin top(d)
        BY <1>3, <1>11, <2>2, <3>2
      <4>2. p \in DOMAIN c.layout
        BY <1>9, <4>1
      <4> QED
        BY <1>1, <1>4, <3>2, <4>2 DEF c
    <3> QED
      BY <1>2, <3>1, <3>2
  <2> QED
    BY <2>1, <2>2 DEF NothingForeign
<1> QED
  BY <1>13, <1>14, <1>15, <1>16, <1>17 DEF JInv

\* What the larger circuit gets back is ancillary, and garbage in the smaller one.
LEMMA RestoreJInv == IInv /\ JInv /\ Restore => JInv'
<1> SUFFICES ASSUME IInv, JInv, Restore PROVE JInv'
  OBVIOUS
<1> DEFINE c == circuits[big]
           r == Last(removed)
           d == AddAncillaryQubit(c, r.qubit, r.outputs)
           last == NQubits(d) - 1
           e == IF last \in wasGarbage THEN SetGarbage(d, last) ELSE d
           f == circuits[small]
           g == SetGarbage(f, last)
<1>1. /\ stage = "restore" /\ removed # <<>>
      /\ circuits' = [circuits EXCEPT ![big] = e, ![small] = g]
      /\ removed' = Front(removed)
      /\ stage' = IF removed' = <<>> THEN "done" ELSE stage
      /\ UNCHANGED <<original, big, todo, difference, wasGarbage>>
  <2>1. big # small
    BY DEF IInv, Typed, Both, small
  <2> QED
    BY <2>1 DEF Restore, Readded
<1>2. /\ DOMAIN circuits = Both /\ big \in Both /\ small \in Both /\ small # big /\ small' = small
      /\ \A i \in Both : i = big \/ i = small
      /\ todo = {} /\ difference \in Nat
  BY <1>1 DEF IInv, Typed, Both, small
<1>3. circuits'[big] = e /\ circuits'[small] = g
  BY <1>1, <1>2
<1>4. PICK w :
        /\ SplitInto(w) /\ NQubits(f) = NQubits(w) /\ difference <= NQubits(w)
        /\ Len(removed) <= difference /\ WellFormed(f)
  BY <1>1 DEF IInv, SplitInv, Whole
<1> DEFINE m == NQubits(w)
           s == Len(removed)
           n == m - s
           h == Holder(w, n)
           T == [qubit : Nat, outputs : SUBSET Nat]
<1>5. /\ WellFormed(w) /\ removed \in Seq(T) /\ s <= m /\ s \in Nat
      /\ IsPart(c, w, n) /\ IsRest(removed, wasGarbage, w)
  BY <1>4 DEF SplitInto
<1>6. /\ s \in Nat \ {0} /\ r = removed[s] /\ DOMAIN removed = 1 .. s
      /\ DOMAIN removed' = 1 .. s - 1 /\ Len(removed') = s - 1
      /\ \A k \in 1 .. s - 1 : removed'[k] = removed[k]
  <2>1. s \in Nat /\ s # 0
    BY <1>1, <1>5
  <2>2. removed' = SubSeq(removed, 1, s - 1) /\ r = removed[s]
    BY <1>1 DEF Front, Last
  <2>3. \A x \in Seq(T) : Len(x) = s =>
           /\ DOMAIN x = 1 .. s /\ DOMAIN SubSeq(x, 1, s - 1) = 1 .. s - 1
           /\ Len(SubSeq(x, 1, s - 1)) = s - 1
           /\ \A k \in 1 .. s - 1 : SubSeq(x, 1, s - 1)[k] = x[k]
    <3> HIDE DEF s, T
    <3> QED
      BY <2>1
  <2> QED
    BY <1>5, <2>1, <2>2, <2>3
<1>7. m \in Nat
  BY <1>5, LayoutIs DEF WellFormed
<1>8. /\ n \in 0 .. m - 1 /\ n \in 0 .. m /\ m - s = n /\ n >= m - difference
      /\ n + 1 + (s - 1) = m /\ (s - 1 = 0 => n + 1 = m) /\ n + 1 \in 0 .. m
  <2>1. s <= difference /\ s <= m
    BY <1>4, <1>5
  <2> HIDE DEF m, s
  <2> QED
    BY <1>2, <1>6, <1>7, <2>1
<1> HIDE DEF c, d, e, f, g, r, m, s, n, h, last, T
<1>9. r = [qubit |-> h, outputs |-> Outputs(w, h)]
  <2>1. s \in 1 .. Len(removed)
    BY <1>6 DEF s
  <2>2. removed[s] = [qubit |-> Holder(w, m - s), outputs |-> Outputs(w, Holder(w, m - s))]
    BY <1>5, <2>1 DEF IsRest, m
  <2> QED
    BY <1>6, <1>8, <2>2 DEF h
<1>10. d = AddAncillaryQubit(c, h, Outputs(w, h))
  BY <1>9 DEF d
<1>11. n \in wasGarbage <=> n \in w.garbage
  BY <1>5, <1>8 DEF IsRest, m, s
<1>12. last = n /\ IsPart(e, w, n + 1)
  <2> DEFINE e0 == IF n \in wasGarbage THEN SetGarbage(d, n) ELSE d
  <2>1. n \in 0 .. NQubits(w) - 1
    BY <1>8 DEF m
  <2> HIDE DEF e0
  <2>2. NQubits(d) - 1 = n /\ IsPart(e0, w, n + 1)
    BY <1>5, <1>10, <1>11, <2>1, Restored DEF h, e0
  <2> QED
    BY <2>2 DEF last, e, e0
<1>13. LayoutFits(c) /\ NQubits(c) = n /\ NQubits(e) = n + 1 /\ IsCircuit(c)
  <2>1. LayoutFits(c) /\ NQubits(c) = n
    BY <1>5, <1>8, PartIs DEF m
  <2> DEFINE t == n + 1
  <2>2. t \in 0 .. m /\ IsPart(e, w, t)
    BY <1>8, <1>12
  <2> HIDE DEF t
  <2>3. NQubits(e) = t
    BY <1>5, <2>2, PartIs DEF m
  <2>4. IsCircuit(c)
    BY <1>5 DEF IsPart
  <2> QED
    BY <2>1, <2>3, <2>4 DEF t
<1>14. h \in DOMAIN w.layout /\ w.layout[h] = n
  <2>1. n \in Logicals(w)
    BY <1>8 DEF Logicals, m
  <2> QED
    BY <1>5, <2>1, LayoutIs DEF WellFormed, h
<1>15. /\ DOMAIN e.layout = DOMAIN c.layout \cup {h} /\ e.layout[h] = n
       /\ \A q \in DOMAIN c.layout : q # h /\ e.layout[q] = c.layout[q] /\ c.layout[q] \in 0 .. n - 1
       /\ e.ancillary = c.ancillary \cup {n} /\ e.idle = c.idle
  <2>1. d.layout = [q \in DOMAIN c.layout \cup {h} |-> IF q = h THEN n ELSE c.layout[q]]
        /\ d.ancillary = c.ancillary \cup {n} /\ IsCircuit(d)
    <3>1. IsReadded(d, c, h, n, Outputs(w, h))
      BY <1>10, <1>13, ReaddedIs
    <3> QED
      BY <3>1 DEF IsReadded
  <2>2. d.idle = c.idle
    BY <1>10, <1>13 DEF AddAncillaryQubit, IsCircuit
  <2>3. e.layout = d.layout /\ e.ancillary = d.ancillary /\ e.idle = d.idle
    BY <2>1 DEF e, SetGarbage, IsCircuit
  <2>4. \A q \in DOMAIN c.layout : c.layout[q] \in 0 .. n - 1
    BY <1>13, LayoutIs
  <2>5. h \notin DOMAIN c.layout
    <3>1. \A q \in DOMAIN c.layout : w.layout[q] < n
      BY <1>5 DEF IsPart
    <3> QED
      BY <1>8, <1>14, <3>1
  <2> QED
    BY <2>1, <2>2, <2>3, <2>4, <2>5
<1>16. /\ g.layout = f.layout /\ g.ancillary = f.ancillary /\ g.idle = f.idle
       /\ g.garbage = f.garbage \cup {n} /\ NQubits(g) = m
  <2>1. IsCircuit(f)
    BY <1>4 DEF WellFormed
  <2>2. /\ g.layout = f.layout /\ g.ancillary = f.ancillary /\ g.idle = f.idle
        /\ g.garbage = f.garbage \cup {n}
    BY <1>12, <2>1 DEF g, SetGarbage, IsCircuit
  <2> QED
    BY <1>4, <2>2 DEF NQubits, m, f
<1> DEFINE k == m - difference
           top(x) == {l \in Logicals(x) : l >= k}
<1>17. stage' \in {"restore", "done"}
  BY <1>1
<1>18. top(e) = top(c) \cup {n} /\ top(g) = top(f)
  <2>1. Logicals(e) = Logicals(c) \cup {n}
    <3>1. 0 .. (n + 1) - 1 = (0 .. n - 1) \cup {n}
      BY <1>8
    <3> QED
      BY <1>13, <3>1 DEF Logicals
  <2>2. Logicals(g) = Logicals(f)
    BY <1>16 DEF Logicals, NQubits
  <2> QED
    BY <1>8, <2>1, <2>2
<1>19. \A i \in Both :
         /\ i = big => Raised(i) = top(c) /\ Raised(i)' = top(e) /\ Added(i) = {} /\ Added(i)' = {}
         /\ i = small => Raised(i) = top(f) /\ Raised(i)' = top(g) /\ Added(i) = top(f) /\ Added(i)' = top(g)
  <2>1. NQubits(circuits[small]) = m /\ NQubits(circuits'[small']) = m /\ difference' = difference
    BY <1>1, <1>2, <1>3, <1>4, <1>16 DEF m, f
  <2> HIDE DEF top
  <2>2. \A i \in Both : Raised(i) = top(circuits[i]) /\ Raised(i)' = top(circuits'[i])
    BY <1>1, <1>17, <2>1 DEF Raised, top
  <2>3. \A i \in Both : i = big => Added(i) = {} /\ Added(i)' = {}
    BY <1>1 DEF Added
  <2>4. \A i \in Both : i = small => Added(i) = top(circuits[i]) /\ Added(i)' = top(circuits'[i])
    BY <1>1, <1>2, <1>17, <2>1 DEF Added, top
  <2> QED
    BY <1>3, <2>2, <2>3, <2>4 DEF c, f
<1> HIDE DEF top, k
<1>20. \A i \in Both : Stays(i)' = Stays(i)
  <2>1. ASSUME NEW i \in Both, i = small
        PROVE  Stays(i)' = Stays(i)
    <3>1. circuits'[i] = g /\ circuits[i] = f /\ original' = original /\ Added(i)' = Added(i)
      BY <1>1, <1>3, <1>18, <1>19, <2>1 DEF f
    <3>2. Own(i)' = Own(i)
      BY <1>16, <3>1 DEF Own
    <3> QED
      BY <1>1, <1>2, <2>1, <3>2 DEF Stays
  <2>2. ASSUME NEW i \in Both, i = big
        PROVE  Stays(i)' = Stays(i)
    <3> DEFINE O == DOMAIN original[i].layout
    <3>1. circuits'[i] = e /\ circuits[i] = c /\ original' = original
          /\ Added(i)' = {} /\ Added(i) = {}
      BY <1>1, <1>3, <1>19, <2>2 DEF c
    <3>2. Own(i) = DOMAIN c.layout \cap O
      BY <3>1 DEF Own
    <3>3. Own(i)' = (DOMAIN c.layout \cup {h}) \cap O
      BY <1>15, <3>1 DEF Own
    <3>4. {removed[x].qubit : x \in DOMAIN removed} = {removed'[x].qubit : x \in DOMAIN removed'} \cup {h}
      <4>1. 1 .. s = (1 .. s - 1) \cup {s}
        BY <1>6
      <4>2. removed[s].qubit = h
        BY <1>6, <1>9
      <4> QED
        BY <1>6, <4>1, <4>2
    <3>5. Stays(i) = Own(i) \cup ({removed[x].qubit : x \in DOMAIN removed} \cap O)
      BY <2>2 DEF Stays
    <3>6. Stays(i)' = Own(i)' \cup ({removed'[x].qubit : x \in DOMAIN removed'} \cap O)
      BY <1>1, <2>2 DEF Stays
    <3> QED
      BY <3>2, <3>3, <3>4, <3>5, <3>6
  <2> QED
    BY <1>2, <2>1, <2>2
<1>21. Exact'
  BY <1>1, <1>2, <1>20, NothingElseGone
<1>22. AncillariesKept'
  <2> SUFFICES ASSUME NEW i \in Both,
                      NEW q \in DOMAIN circuits'[i].layout \cap DOMAIN original[i].layout,
                      circuits'[i].layout[q] \notin Raised(i)'
               PROVE  /\ circuits'[i].layout[q] \in circuits'[i].ancillary
                            <=> original[i].layout[q] \in original[i].ancillary
                      /\ q \in circuits'[i].idle <=> q \in original[i].idle
    BY <1>1 DEF AncillariesKept
  <2>1. CASE i = small
    <3>1. circuits'[i] = g /\ circuits[i] = f /\ Raised(i)' = Raised(i)
      BY <1>3, <1>18, <1>19, <2>1 DEF f
    <3> QED
      BY <1>16, <3>1 DEF JInv, AncillariesKept
  <2>2. CASE i = big
    <3>1. circuits'[i] = e /\ circuits[i] = c /\ Raised(i)' = Raised(i) \cup {n}
      BY <1>3, <1>18, <1>19, <2>2 DEF c
    <3>2. q \in DOMAIN e.layout /\ e.layout[q] \notin Raised(i) /\ e.layout[q] # n
      BY <3>1
    <3>3. q \in DOMAIN c.layout /\ e.layout[q] = c.layout[q]
      BY <1>15, <3>2
    <3>4. e.layout[q] \in e.ancillary <=> c.layout[q] \in c.ancillary
      BY <1>15, <3>2, <3>3
    <3>5. /\ c.layout[q] \in c.ancillary <=> original[i].layout[q] \in original[i].ancillary
          /\ q \in c.idle <=> q \in original[i].idle
      BY <3>1, <3>2, <3>3 DEF JInv, AncillariesKept
    <3> QED
      BY <1>15, <3>1, <3>4, <3>5
  <2> QED
    BY <1>2, <2>1, <2>2
<1>23. RaisedAreAncillary'
  <2>1. top(c) \subseteq c.ancillary /\ top(f) \subseteq f.ancillary
    BY <1>2, <1>19 DEF JInv, RaisedAreAncillary, c, f
  <2>2. \A i \in Both : Raised(i)' \subseteq circuits'[i].ancillary
    BY <1>2, <1>3, <1>15, <1>16, <1>18, <1>19, <2>1
  <2>3. Raised(small)' = top(f) /\ Raised(small) = top(f)
    <3>1. PICK i \in Both : i = small
      BY <1>2
    <3>2. Raised(i)' = top(f) /\ Raised(i) = top(f)
      BY <1>18, <1>19, <3>1
    <3>3. Raised(small)' = Raised(i)'
      BY <1>2, <3>1 DEF Raised
    <3> QED
      BY <3>1, <3>2, <3>3
  <2>4. ASSUME NEW p \in DOMAIN g.layout, g.layout[p] \in top(f)
        PROVE  p \in g.idle /\ (g.layout[p] < n + 1 => g.layout[p] \in g.garbage)
    <3>1. p \in f.idle /\ (f.layout[p] < n => f.layout[p] \in f.garbage)
      BY <1>13, <1>16, <2>3, <2>4 DEF JInv, RaisedAreAncillary, c, f
    <3>2. f.layout[p] \in Nat
      <4>1. f.layout[p] \in Logicals(f) /\ Logicals(f) = 0 .. NQubits(f) - 1 /\ NQubits(f) \in Nat
        BY <1>4, <1>16, LayoutIs DEF WellFormed
      <4> QED
        BY <4>1
    <3>3. f.layout[p] < n + 1 => f.layout[p] < n \/ f.layout[p] = n
      BY <1>8, <3>2
    <3> QED
      BY <1>16, <3>1, <3>3
  <2>5. circuits'[small'] = g /\ NQubits(circuits'[big']) = n + 1
    BY <1>1, <1>2, <1>3, <1>13
  <2> QED
    BY <2>2, <2>3, <2>4, <2>5 DEF RaisedAreAncillary
<1>24. Counted'
  <2>1. NQubits(circuits'[big']) = n + 1 /\ NQubits(circuits'[small']) = m
    BY <1>1, <1>2, <1>3, <1>13, <1>16
  <2>2. stage' = "restore" => NQubits(circuits'[big']) + Len(removed') = NQubits(circuits'[small'])
    <3>1. NQubits(circuits'[big']) + Len(removed') = (n + 1) + (s - 1)
      BY <1>6, <2>1
    <3> QED
      BY <1>8, <2>1, <3>1
  <2>3. stage' = "done" => removed' = <<>> /\ NQubits(circuits'[1]) = NQubits(circuits'[2])
    <3> SUFFICES ASSUME stage' = "done"
                 PROVE  removed' = <<>> /\ NQubits(circuits'[1]) = NQubits(circuits'[2])
      OBVIOUS
    <3>1. removed' = <<>>
      BY <1>1
    <3>2. s - 1 = 0
      BY <1>6, <3>1
    <3>3. NQubits(circuits'[big]) = m /\ NQubits(circuits'[small]) = m
      BY <1>3, <1>8, <1>13, <1>16, <3>2
    <3>4. (big = 1 /\ small = 2) \/ (big = 2 /\ small = 1)
      BY <1>2 DEF Both, small
    <3> QED
      BY <3>1, <3>3, <3>4
  <2> QED
    BY <2>2, <2>3 DEF Counted
<1>25. NothingForeign'
  <2>1. /\ \A i \in Both : \A p \in DOMAIN circuits[i].layout :
              circuits[i].layout[p] \notin Added(i) => p \in DOMAIN original[i].layout
        /\ \A x \in 1 .. s : removed[x].qubit \in DOMAIN original[big].layout
    BY <1>1, <1>6 DEF JInv, NothingForeign
  <2>2. \A x \in DOMAIN removed' : removed'[x].qubit \in DOMAIN original'[big'].layout
    <3>1. \A x \in 1 .. s - 1 : x \in 1 .. s
      BY <1>6
    <3> QED
      BY <1>1, <1>6, <2>1, <3>1
  <2>3. ASSUME NEW i \in Both, NEW p \in DOMAIN circuits'[i].layout,
               circuits'[i].layout[p] \notin Added(i)'
        PROVE  p \in DOMAIN original'[i].layout
    <3>1. CASE i = big
      <4>1. h \in DOMAIN original[big].layout
        <5>1. s \in 1 .. s /\ removed[s].qubit = h
          BY <1>6, <1>9
        <5> QED
          BY <2>1, <5>1
      <4>2. p \in DOMAIN c.layout \cup {h}
        BY <1>3, <1>15, <2>3, <3>1
      <4>3. \A x \in DOMAIN c.layout : x \in DOMAIN original[big].layout
        BY <1>2, <1>19, <2>1 DEF c
      <4> QED
        BY <1>1, <3>1, <4>1, <4>2, <4>3
    <3>2. CASE i = small
      <4>1. circuits'[i] = g /\ circuits[i] = f /\ Added(i)' = Added(i)
        BY <1>3, <1>18, <1>19, <3>2 DEF f
      <4> QED
        BY <1>1, <1>16, <2>1, <2>3, <4>1
    <3> QED
      BY <1>2, <3>1, <3>2
  <2> QED
    BY <2>2, <2>3 DEF NothingForeign
<1> QED
  BY <1>21, <1>22, <1>23, <1>24, <1>25 DEF JInv

\* Both invariants hold in every reachable state.
LEMMA BothInvariant == Spec => [](IInv /\ JInv)
<1>1. ASSUME JInv, UNCHANGED vars
      PROVE  JInv'
  <2>1. UNCHANGED <<circuits, original, big, todo, difference, removed, stage>> /\ small' = small
    BY <1>1 DEF vars, small
  <2>2. \A i \in Both : Stays(i)' = Stays(i) /\ Raised(i)' = Raised(i) /\ Added(i)' = Added(i)
    BY <2>1 DEF Stays, Own, Added, Raised
  <2>3. Raised(small)' = Raised(small)
    BY <2>1 DEF Raised
  <2>4. \A x : Superfluous(x)' <=> Superfluous(x)
    BY <2>1 DEF Superfluous
  <2>5. Exact'
    BY <1>1, <2>1, <2>2, <2>4
       DEF JInv, Exact, OnlySuperfluousGone, TogetherGone, SuperfluousAhead, Both
  <2>6. AncillariesKept' /\ RaisedAreAncillary' /\ Counted' /\ NothingForeign'
    BY <1>1, <2>1, <2>2, <2>3 DEF JInv, AncillariesKept, RaisedAreAncillary, Counted, NothingForeign
  <2> QED
    BY <2>5, <2>6 DEF JInv
<1>2. IInv /\ JInv /\ [Next]_vars => JInv'
  BY <1>1, StrippingJInv, BeginSetupJInv, RemoveLastJInv, AddRegisterJInv, RestoreJInv
     DEF Next, Terminated
<1> QED
  BY <1>2, InitJInv, Invariance, PTL DEF Spec

\* A qubit is removed if and only if it makes no difference in either circuit, and then from
\* both, whatever the circuits do to their other qubits and however they are permuted.
THEOREM StrippedAreSuperfluous == Spec => []ExactlySuperfluousStripped
<1>1. IInv /\ JInv => ExactlySuperfluousStripped
  <2> SUFFICES ASSUME IInv, JInv PROVE ExactlySuperfluousStripped
    OBVIOUS
  <2>1. \A i \in Both : WellFormed(original[i])
    BY CircuitsAssumption DEF IInv, Typed, Both
  <2>2. \A i \in Both : \A l \in Logicals(original[i]) :
           /\ Holder(original[i], l) \in DOMAIN original[i].layout
           /\ original[i].layout[Holder(original[i], l)] = l
    BY <2>1, LayoutIs DEF WellFormed
  <2>3. Whole => \A i \in Both : Stays(i) = Own(i)
    <3>1. Whole => removed = <<>>
      BY DEF Whole, IInv, StripInv, JInv, Counted
    <3>2. removed = <<>> => DOMAIN removed = {}
      OBVIOUS
    <3> QED
      BY <3>1, <3>2 DEF Stays
  <2>4. ASSUME NEW i \in Both, NEW l \in Logicals(original[i]), Gone(i, l)
        PROVE  /\ Superfluous(l)
               /\ \A j \in Both : l \in Logicals(original[j]) => Gone(j, l)
    <3> DEFINE p == Holder(original[i], l)
    <3>1. Whole /\ p \in DOMAIN original[i].layout \ Stays(i) /\ original[i].layout[p] = l
      BY <2>2, <2>3, <2>4 DEF Gone
    <3>2. Superfluous(l)
      BY <3>1 DEF JInv, Exact, OnlySuperfluousGone
    <3>3. ASSUME NEW j \in Both, l \in Logicals(original[j])
          PROVE  Holder(original[j], l) \notin Stays(j)
      <4> DEFINE q == Holder(original[j], l)
      <4>1. q \in DOMAIN original[j].layout /\ original[j].layout[q] = l
        BY <2>2, <3>3
      <4> HIDE DEF p, q
      <4>2. CASE i = j
        BY <3>1, <4>2 DEF p, q
      <4>3. CASE i = 1 /\ j = 2
        BY <3>1, <4>1, <4>3 DEF JInv, Exact, TogetherGone, q
      <4>4. CASE i = 2 /\ j = 1
        BY <3>1, <4>1, <4>4 DEF JInv, Exact, TogetherGone, q
      <4> QED
        BY <4>2, <4>3, <4>4 DEF Both
    <3> QED
      BY <2>3, <3>1, <3>2, <3>3 DEF Gone
  <2>5. ASSUME stage = "done", NEW i \in Both, NEW l \in Logicals(original[i]), Superfluous(l)
        PROVE  Gone(i, l)
    <3> DEFINE p == Holder(original[i], l)
    <3>1. Whole /\ todo = {} /\ original[i].layout[p] = l
      BY <2>2, <2>5 DEF Whole, IInv
    <3>2. p \notin Stays(i)
      BY <2>5, <3>1 DEF JInv, Exact, SuperfluousAhead
    <3> QED
      BY <2>3, <3>1, <3>2 DEF Gone
  <2> QED
    BY <2>4, <2>5 DEF ExactlySuperfluousStripped
<1> QED
  BY <1>1, BothInvariant, PTL

\* Two physical qubits that stand for the same ancillary qubit and are both acted on
Clash(cs, p, q) ==
    /\ cs[1].layout[p] = cs[2].layout[q]
    /\ cs[1].layout[p] \in cs[1].ancillary /\ cs[2].layout[q] \in cs[2].ancillary
    /\ p \notin cs[1].idle /\ q \notin cs[2].idle

\* What the alternating checker cannot handle, in terms of physical qubits
LEMMA CanHandleIs ==
    ASSUME NEW cs, \A i \in Both : WellFormed(cs[i])
    PROVE  CanHandle(cs[1], cs[2])
              <=> \A p \in DOMAIN cs[1].layout, q \in DOMAIN cs[2].layout : ~Clash(cs, p, q)
<1>1. \A i \in Both : /\ cs[i].ancillary \subseteq Logicals(cs[i]) /\ LayoutFits(cs[i])
  BY DEF WellFormed
<1>2. \A i \in Both : \A l \in cs[i].ancillary :
         /\ Holder(cs[i], l) \in DOMAIN cs[i].layout /\ cs[i].layout[Holder(cs[i], l)] = l
         /\ \A p \in DOMAIN cs[i].layout : cs[i].layout[p] = l => p = Holder(cs[i], l)
  BY <1>1, LayoutIs
<1>3. 1 \in Both /\ 2 \in Both
  BY DEF Both
<1>4. ASSUME CanHandle(cs[1], cs[2]), NEW p \in DOMAIN cs[1].layout, NEW q \in DOMAIN cs[2].layout,
             Clash(cs, p, q)
      PROVE  FALSE
  <2> DEFINE l == cs[1].layout[p]
  <2>1. l \in cs[1].ancillary \cap cs[2].ancillary /\ p = Holder(cs[1], l) /\ q = Holder(cs[2], l)
    BY <1>2, <1>3, <1>4 DEF Clash
  <2> QED
    BY <1>4, <2>1 DEF CanHandle, Clash
<1>5. ASSUME \A p \in DOMAIN cs[1].layout, q \in DOMAIN cs[2].layout : ~Clash(cs, p, q),
             NEW l \in cs[1].ancillary \cap cs[2].ancillary
      PROVE  Holder(cs[1], l) \in cs[1].idle \/ Holder(cs[2], l) \in cs[2].idle
  BY <1>2, <1>3, <1>5 DEF Clash
<1> QED
  BY <1>4, <1>5 DEF CanHandle

\* In the end both circuits have the same logical qubits, and those that only one of them had
\* are ancillary in both, and garbage in the circuit that did not have them.  The alternating
\* checker can handle them if and only if it could have handled the circuits as they were.
THEOREM AncillariesInTheEnd == Spec => []AncillariesAgree
<1>1. ASSUME IInv, JInv, QubitsPaired, stage = "done"
      PROVE  AncillariesAgree
  <2> DEFINE Top == Raised(small)
  <2>1. /\ \A i \in Both : WellFormed(circuits[i]) /\ WellFormed(original[i])
        /\ big \in Both /\ small \in Both /\ small # big /\ \A i \in Both : i = big \/ i = small
        /\ removed = <<>> /\ DOMAIN removed = {}
        /\ NQubits(circuits[1]) = NQubits(circuits[2])
    BY <1>1, CircuitsAssumption DEF IInv, WholeInv, Whole, Typed, JInv, Counted, Both, small
  <2>2. Logicals(circuits[1]) = Logicals(circuits[2])
    BY <2>1 DEF Logicals
  <2>3. \A i \in Both : Logicals(circuits[i]) = Logicals(circuits[small])
    BY <2>1, <2>2 DEF Both
  <2>4. \A i \in Both : Raised(i) = Top /\ Stays(i) = Own(i)
    BY <1>1, <2>1, <2>3 DEF Raised, Stays
  <2>5. \A i \in Both : Added(i) = IF i = small THEN Top ELSE {}
    BY <1>1, <2>1 DEF Added, Raised
  <2> HIDE DEF Top
  <2>6. \A i \in Both : Top \subseteq circuits[i].ancillary
    BY <1>1, <2>4 DEF JInv, RaisedAreAncillary
  <2>7. \A p \in DOMAIN circuits[small].layout : circuits[small].layout[p] \in Top =>
           /\ p \in circuits[small].idle
           /\ circuits[small].layout[p] < NQubits(circuits[big]) =>
                circuits[small].layout[p] \in circuits[small].garbage
    BY <1>1, <2>1, <2>4 DEF JInv, RaisedAreAncillary
  <2>8. \A i \in Both : \A p \in DOMAIN circuits[i].layout \cap DOMAIN original[i].layout :
           circuits[i].layout[p] \notin Top =>
             /\ circuits[i].layout[p] \in circuits[i].ancillary
                   <=> original[i].layout[p] \in original[i].ancillary
             /\ p \in circuits[i].idle <=> p \in original[i].idle
    BY <1>1, <2>4 DEF JInv, AncillariesKept
  <2>9. \A p \in Own(1), q \in Own(2) :
           circuits[1].layout[p] = circuits[2].layout[q] <=> original[1].layout[p] = original[2].layout[q]
    BY <1>1 DEF QubitsPaired
  <2>10. 1 \in Both /\ 2 \in Both /\ (small = 1 \/ small = 2)
    BY <2>1 DEF Both
  <2>11. \A i \in Both : \A p \in Own(i) :
            /\ p \in DOMAIN circuits[i].layout /\ p \in DOMAIN original[i].layout
            /\ circuits[i].layout[p] \notin Added(i)
    BY DEF Own
  <2>12. ASSUME NEW p \in DOMAIN circuits[1].layout, NEW q \in DOMAIN circuits[2].layout,
                Clash(circuits, p, q)
         PROVE  \E x \in DOMAIN original[1].layout, y \in DOMAIN original[2].layout :
                   Clash(original, x, y)
    <3> DEFINE l == circuits[1].layout[p]
    <3>1. l = circuits[2].layout[q] /\ p \notin circuits[1].idle /\ q \notin circuits[2].idle
      BY <2>12 DEF Clash
    <3>2. l \notin Top
      BY <2>7, <2>10, <3>1
    <3>3. l \notin Added(1) /\ l \notin Added(2)
      BY <2>5, <2>10, <3>2
    <3>4. p \in DOMAIN original[1].layout /\ q \in DOMAIN original[2].layout
      BY <1>1, <2>10, <3>1, <3>3 DEF JInv, NothingForeign
    <3>5. p \in Own(1) /\ q \in Own(2)
      BY <3>1, <3>3, <3>4 DEF Own
    <3>6. Clash(original, p, q)
      BY <2>8, <2>9, <2>10, <2>12, <3>1, <3>2, <3>4, <3>5 DEF Clash
    <3> QED
      BY <3>4, <3>6
  <2>13. ASSUME NEW p \in DOMAIN original[1].layout, NEW q \in DOMAIN original[2].layout,
                Clash(original, p, q)
         PROVE  \E x \in DOMAIN circuits[1].layout, y \in DOMAIN circuits[2].layout :
                   Clash(circuits, x, y)
    <3> DEFINE l == original[1].layout[p]
    <3>1. l = original[2].layout[q] /\ p \notin original[1].idle /\ q \notin original[2].idle
      BY <2>13 DEF Clash
    <3>2. l \in Logicals(original[1]) /\ Holder(original[1], l) = p
      BY <2>1, <2>10, LayoutIs DEF WellFormed
    <3>3. ~Superfluous(l)
      BY <2>10, <3>1, <3>2 DEF Superfluous, Untouched
    <3>4. p \in Own(1) /\ q \in Own(2)
      BY <1>1, <2>4, <2>10, <3>1, <3>3 DEF JInv, Exact, OnlySuperfluousGone
    <3>5. circuits[1].layout[p] = circuits[2].layout[q]
      BY <2>9, <3>1, <3>4
    <3>6. circuits[1].layout[p] \notin Top
      BY <2>5, <2>10, <2>11, <3>4, <3>5
    <3>7. Clash(circuits, p, q)
      BY <2>8, <2>10, <2>11, <2>13, <3>4, <3>5, <3>6 DEF Clash
    <3> QED
      BY <2>10, <2>11, <3>4, <3>7
  <2>14. CanHandle(circuits[1], circuits[2]) <=> CanHandle(original[1], original[2])
    <3>1. CanHandle(circuits[1], circuits[2])
            <=> \A p \in DOMAIN circuits[1].layout, q \in DOMAIN circuits[2].layout : ~Clash(circuits, p, q)
      BY <2>1, CanHandleIs
    <3>2. CanHandle(original[1], original[2])
            <=> \A p \in DOMAIN original[1].layout, q \in DOMAIN original[2].layout : ~Clash(original, p, q)
      BY <2>1, CanHandleIs
    <3> QED
      BY <2>12, <2>13, <3>1, <3>2
  <2>15. ASSUME NEW i \in Both, NEW l \in Added(i)
         PROVE  /\ \A j \in Both : l \in circuits[j].ancillary
                /\ l \in circuits[i].garbage /\ l \notin Range(circuits[i].output)
    <3>1. i = small /\ l \in Top
      BY <2>5
    <3>2. l \in Logicals(circuits[small])
      BY <1>1, <2>1, <3>1 DEF Added
    <3>3. PICK p \in DOMAIN circuits[small].layout : circuits[small].layout[p] = l
      BY <2>1, <3>2, LayoutIs DEF WellFormed
    <3>4. l < NQubits(circuits[big])
      <4> DEFINE n == NQubits(circuits[big])
      <4>1. n \in Nat /\ l \in 0 .. n - 1
        BY <2>1, <2>3, <3>2, LayoutIs DEF WellFormed
      <4> HIDE DEF n
      <4>2. l < n
        BY <4>1
      <4> QED
        BY <4>2 DEF n
    <3>5. l \in circuits[small].garbage
      BY <2>7, <3>1, <3>3, <3>4
    <3>6. l \notin Range(circuits[small].output)
      BY <2>1, <3>5 DEF WellFormed
    <3> QED
      BY <2>6, <3>1, <3>5, <3>6
  <2> QED
    BY <2>2, <2>14, <2>15 DEF AncillariesAgree
<1>2. stage # "done" => AncillariesAgree
  BY DEF AncillariesAgree
<1>3. IInv /\ JInv /\ QubitsPaired => AncillariesAgree
  BY <1>1, <1>2
<1> QED
  BY <1>3, BothInvariant, QubitsStayPaired, PTL
=================================================================================
