---------------------------- MODULE Circuits_proofs ----------------------------
(* What gates, circuits and their diagrams do, for any number of qubits and circuits *)
(* of any length.  A circuit is run by folding its gates, and what a fold does is    *)
(* proved without induction: the lengths at which a claim fails have a least element *)
(* if there are any (LeastOf), and the claim holds before it.                        *)
EXTENDS Circuits, TLAPS, WellFoundedInduction

-----------------------------------------------------------------------------------
(* Numbers *)

\* A set of numbers has a least element,
LEMMA LeastOf ==
    ASSUME NEW T, T \subseteq Nat, T # {}
    PROVE  /\ Min(T) \in T /\ \A y \in T : Min(T) <= y
<1> DEFINE R == OpToRel(<, Nat)
<1>1. IsWellFoundedOn(R, Nat)
  BY NatLessThanWellFounded
<1>2. \A x, y \in T : <<y, x>> \in R <=> y < x
  BY DEF OpToRel
<1> HIDE DEF R
<1>3. PICK x \in T : \A y \in T : <<y, x>> \notin R
  BY <1>1, WFMin
<1>4. \A y \in T : ~(y < x)
  BY <1>2, <1>3
<1>5. \A y \in T : x <= y
  BY <1>4
<1> QED
  BY <1>5 DEF Min

\* and, if they have an upper bound, a greatest one.
LEMMA GreatestOf ==
    ASSUME NEW n \in Nat, NEW S, S \subseteq 1 .. n, S # {}
    PROVE  /\ Max(S) \in S /\ \A y \in S : y <= Max(S)
<1> DEFINE bounds == {b \in Nat : \A y \in S : y <= b}
<1>1. n \in bounds
  OBVIOUS
<1>2. bounds \subseteq Nat /\ bounds # {}
  BY <1>1
<1> DEFINE b == Min(bounds)
<1>3. b \in bounds /\ \A c \in bounds : b <= c
  BY <1>2, LeastOf
<1> HIDE DEF b
<1>4. b \in S
  <2> SUFFICES ASSUME b \notin S PROVE FALSE
    OBVIOUS
  <2>1. \A y \in S : y \in Nat /\ y >= 1 /\ y <= b - 1
    BY <1>3
  <2>2. b \in Nat /\ b >= 1
    <3>1. PICK y \in S : TRUE
      OBVIOUS
    <3> QED
      BY <1>3, <2>1, <3>1
  <2>3. b - 1 \in bounds
    BY <2>1, <2>2
  <2> QED
    BY <1>3, <2>2, <2>3
<1>5. \A y \in S : b >= y
  BY <1>3
<1>6. \A y \in S : y \in Nat
  OBVIOUS
<1>7. \E x \in S : \A y \in S : x >= y
  BY <1>4, <1>5
<1> QED
  BY <1>6, <1>7 DEF Max

-----------------------------------------------------------------------------------
(* Folds *)

\* f folds with G the values at the numbers up to m, for each set of them.
IsFold(f, m, V, base, G) ==
    /\ f \in [SUBSET (1 .. m) -> V]
    /\ \A s \in SUBSET (1 .. m) : f[s] = IF s = {} THEN base ELSE G[<<Max(s), f[s \ {Max(s)}]>>]

\* Over any number of elements there is a function that folds them, from the last one down.
LEMMA FoldExists ==
    ASSUME NEW n \in Nat, NEW V, NEW base \in V, NEW G \in [(1 .. n) \X V -> V]
    PROVE  \E f : IsFold(f, n, V, base, G)
<1> DEFINE bad == {m \in 0 .. n : ~ \E f : IsFold(f, m, V, base, G)}
<1> SUFFICES ASSUME bad # {} PROVE FALSE
  OBVIOUS
<1>1. bad \subseteq Nat
  OBVIOUS
<1> DEFINE m == Min(bad)
<1>2. m \in bad /\ \A k \in bad : m <= k
  BY <1>1, LeastOf
<1> HIDE DEF m
<1>3. m \in 0 .. n /\ ~ \E f : IsFold(f, m, V, base, G)
  BY <1>2
<1>4. CASE m = 0
  <2> DEFINE f == [s \in SUBSET (1 .. 0) |-> base]
  <2>1. \A s \in SUBSET (1 .. 0) : s = {} /\ f[s] = base
    OBVIOUS
  <2>2. IsFold(f, 0, V, base, G)
    BY <2>1 DEF IsFold
  <2> QED
    BY <1>3, <1>4, <2>2
<1>5. CASE m # 0
  <2> DEFINE l == m - 1
  <2>0. l \in Nat /\ l \in 0 .. n /\ m = l + 1 /\ ~(m <= l) /\ m \in 1 .. n /\ m \notin 1 .. l
        /\ 1 .. l \subseteq 1 .. n /\ m \in Nat
    BY <1>3, <1>5
  <2> HIDE DEF l
  <2>1. PICK f : IsFold(f, l, V, base, G)
    BY <1>2, <2>0
  <2> DEFINE g == [s \in SUBSET (1 .. m) |-> IF m \in s THEN G[<<m, f[s \ {m}]>>] ELSE f[s]]
  <2>2. \A s \in SUBSET (1 .. m) : s \ {m} \in SUBSET (1 .. l) /\ f[s \ {m}] \in V
    <3>1. \A k \in 1 .. m : k # m => k \in 1 .. l
      BY <2>0
    <3> QED
      BY <2>1, <3>1 DEF IsFold
  <2>3. g \in [SUBSET (1 .. m) -> V]
    <3> SUFFICES ASSUME NEW s \in SUBSET (1 .. m) PROVE g[s] \in V
      OBVIOUS
    <3>1. CASE m \in s
      BY <2>0, <2>2, <3>1
    <3>2. CASE m \notin s
      <4>1. s \ {m} = s
        BY <3>2
      <4> QED
        BY <2>2, <3>2, <4>1
    <3> QED
      BY <3>1, <3>2
  <2>4. ASSUME NEW s \in SUBSET (1 .. m)
        PROVE  g[s] = IF s = {} THEN base ELSE G[<<Max(s), g[s \ {Max(s)}]>>]
    <3>1. CASE m \in s
      <4>1. s # {}
        BY <3>1
      <4>2. Max(s) = m
        <5>1. Max(s) \in s /\ \A y \in s : y <= Max(s)
          BY <2>0, <4>1, GreatestOf
        <5>2. Max(s) \in 1 .. m /\ m <= Max(s)
          BY <3>1, <5>1
        <5> QED
          BY <2>0, <5>2
      <4>3. g[s \ {m}] = f[s \ {m}]
        OBVIOUS
      <4> QED
        BY <3>1, <4>1, <4>2, <4>3
    <3>2. CASE m \notin s
      <4>1. s \ {m} = s
        BY <3>2
      <4>2. s \in SUBSET (1 .. l)
        BY <2>2, <4>1
      <4>3. f[s] = IF s = {} THEN base ELSE G[<<Max(s), f[s \ {Max(s)}]>>]
        BY <2>1, <4>2 DEF IsFold
      <4>4. s \ {Max(s)} \in SUBSET (1 .. m) /\ m \notin s \ {Max(s)}
        BY <3>2
      <4>5. g[s] = f[s] /\ g[s \ {Max(s)}] = f[s \ {Max(s)}]
        BY <3>2, <4>4
      <4> QED
        BY <4>3, <4>5
    <3> QED
      BY <3>1, <3>2
  <2> HIDE DEF g
  <2>5. IsFold(g, m, V, base, G)
    BY <2>3, <2>4 DEF IsFold
  <2> QED
    BY <1>3, <2>5
<1> QED
  BY <1>4, <1>5

\* The prefixes of a fold, one after the other
IsTrace(t, n, V, base, G) ==
    /\ t \in [0 .. n -> V] /\ t[0] = base
    /\ \A k \in 1 .. n : t[k] = G[<<k, t[k - 1]>>]

\* The set of the first numbers, its greatest element, and what it is without that
LEMMA PrefixIs ==
    ASSUME NEW k \in Nat \ {0}
    PROVE  1 .. k # {} /\ Max(1 .. k) = k /\ (1 .. k) \ {k} = 1 .. k - 1
<1> DEFINE s == 1 .. k
<1>1. s \subseteq 1 .. k /\ s # {} /\ k \in s
  OBVIOUS
<1>2. Max(s) \in s /\ \A y \in s : y <= Max(s)
  BY <1>1, GreatestOf
<1>3. Max(s) \in 1 .. k /\ k <= Max(s)
  BY <1>1, <1>2
<1>4. Max(s) = k
  BY <1>3
<1>5. s \ {k} = 1 .. k - 1
  OBVIOUS
<1> QED
  BY <1>1, <1>4, <1>5

\* A function that takes each step of the fold on the prefixes gives the trace.
LEMMA TraceOf ==
    ASSUME NEW n \in Nat, NEW V, NEW base \in V, NEW G \in [(1 .. n) \X V -> V], NEW f,
           f[{}] = base,
           \A k \in 1 .. n : f[1 .. k - 1] \in V => f[1 .. k] = G[<<k, f[1 .. k - 1]>>]
    PROVE  IsTrace([k \in 0 .. n |-> f[1 .. k]], n, V, base, G)
<1> DEFINE t == [k \in 0 .. n |-> f[1 .. k]]
           bad == {k \in 0 .. n : t[k] \notin V}
<1>1. t[0] = base
  <2>1. 1 .. 0 = {} /\ 0 \in 0 .. n
    OBVIOUS
  <2> QED
    BY <2>1
<1>2. \A k \in 1 .. n : k \in 0 .. n /\ k - 1 \in 0 .. n
  OBVIOUS
<1>3. \A k \in 1 .. n : t[k - 1] \in V => t[k] = G[<<k, t[k - 1]>>]
  BY <1>2
<1> HIDE DEF t
<1>4. bad = {}
  <2> SUFFICES ASSUME bad # {} PROVE FALSE
    OBVIOUS
  <2> DEFINE k == Min(bad)
  <2>1. bad \subseteq Nat
    OBVIOUS
  <2>2. k \in bad /\ \A j \in bad : k <= j
    BY <2>1, LeastOf
  <2> HIDE DEF k
  <2>3. k \in 0 .. n /\ t[k] \notin V
    BY <2>2
  <2>4. k \in 1 .. n
    BY <1>1, <2>3
  <2>5. k - 1 \in 0 .. n /\ ~(k <= k - 1)
    BY <2>4
  <2>6. t[k - 1] \in V
    BY <2>2, <2>5
  <2>7. <<k, t[k - 1]>> \in (1 .. n) \X V
    BY <2>4, <2>6
  <2> QED
    BY <1>3, <2>3, <2>4, <2>6, <2>7
<1>5. t \in [0 .. n -> V]
  BY <1>4 DEF t
<1>6. \A k \in 1 .. n : t[k] = G[<<k, t[k - 1]>>]
  BY <1>2, <1>3, <1>5
<1> QED
  BY <1>1, <1>5, <1>6 DEF IsTrace, t

\* There is one trace only.
LEMMA TraceUnique ==
    ASSUME NEW n \in Nat, NEW V, NEW base, NEW G, NEW t, NEW w,
           IsTrace(t, n, V, base, G), IsTrace(w, n, V, base, G)
    PROVE  t = w
<1> DEFINE bad == {k \in 0 .. n : t[k] # w[k]}
<1>1. CASE bad = {}
  BY <1>1 DEF IsTrace
<1>2. CASE bad # {}
  <2> DEFINE k == Min(bad)
  <2>1. bad \subseteq Nat
    OBVIOUS
  <2>2. k \in bad /\ \A j \in bad : k <= j
    BY <1>2, <2>1, LeastOf
  <2> HIDE DEF k
  <2>3. k \in 0 .. n /\ t[k] # w[k]
    BY <2>2
  <2>4. k \in 1 .. n
    BY <2>3 DEF IsTrace
  <2>5. k - 1 \in 0 .. n /\ ~(k <= k - 1)
    BY <2>4
  <2>6. t[k - 1] = w[k - 1]
    BY <2>2, <2>5
  <2> QED
    BY <2>3, <2>4, <2>6 DEF IsTrace
<1> QED
  BY <1>1, <1>2

-----------------------------------------------------------------------------------
(* What gates do to the states of qubits *)

\* The states of qubits of which some are put in others' places
Read(l, u) == {l[q] : q \in u}

\* A flip can be undone, and touches no other qubit,
LEMMA FlipIs ==
    ASSUME NEW u \in BasisStates, NEW q \in Qubits
    PROVE  /\ Flip(u, q) \in BasisStates
           /\ Flip(Flip(u, q), q) = u
           /\ \A r \in Qubits \ {q} : r \in Flip(u, q) <=> r \in u
  BY DEF Flip, BasisStates

\* nor does one that is controlled.
LEMMA ControlledFlipIs ==
    ASSUME NEW u \in BasisStates, NEW c \in Qubits, NEW q \in Qubits, c # q
    PROVE  /\ ControlledFlip(u, c, q) \in BasisStates
           /\ ControlledFlip(ControlledFlip(u, c, q), c, q) = u
           /\ \A r \in Qubits \ {q} : r \in ControlledFlip(u, c, q) <=> r \in u
  BY FlipIs DEF ControlledFlip, BasisStates

\* A layout puts no two qubits in one place, and one in each.
LEMMA LayoutIs ==
    ASSUME NEW l \in Layouts
    PROVE  /\ l \in [Qubits -> Qubits]
           /\ \A p, q \in Qubits : l[p] = l[q] => p = q
           /\ \A q \in Qubits : \E p \in Qubits : l[p] = q
  BY DEF Layouts, Bijection, Injection, Surjection, IsInjective

\* Flipping a qubit and reading the state elsewhere is flipping elsewhere,
LEMMA FlipElsewhere ==
    ASSUME NEW l \in Layouts, NEW u \in BasisStates, NEW q \in Qubits
    PROVE  /\ Read(l, u) \in BasisStates
           /\ Read(l, Flip(u, q)) = Flip(Read(l, u), l[q])
           /\ l[q] \in Read(l, u) <=> q \in u
<1>1. /\ l \in [Qubits -> Qubits]
      /\ \A r, v \in Qubits : l[r] = l[v] => r = v
  BY LayoutIs
<1>2. u \subseteq Qubits
  BY DEF BasisStates
<1>3. \A r \in Qubits : l[r] \in Read(l, u) <=> r \in u
  BY <1>1, <1>2 DEF Read
<1>4. Read(l, Flip(u, q)) = Flip(Read(l, u), l[q])
  <2>1. ASSUME NEW x PROVE x \in Read(l, Flip(u, q)) <=> x \in Flip(Read(l, u), l[q])
    BY <1>1, <1>2 DEF Read, Flip
  <2> QED
    BY <2>1
<1> QED
  BY <1>1, <1>2, <1>3, <1>4 DEF Read, BasisStates

\* also if the flip is controlled.
LEMMA ControlledFlipElsewhere ==
    ASSUME NEW l \in Layouts, NEW u \in BasisStates, NEW c \in Qubits, NEW q \in Qubits
    PROVE  Read(l, ControlledFlip(u, c, q)) = ControlledFlip(Read(l, u), l[c], l[q])
  BY FlipElsewhere DEF ControlledFlip

\* The targets of a gate
First(g) == g.targets[1]
Second(g) == g.targets[2]

\* The targets of a gate are distinct qubits, and none of them controls it.
LEMMA GateIs ==
    ASSUME NEW g, IsGate(g)
    PROVE  /\ g.controls \subseteq Qubits /\ g.type \in {"x", "swap", "dcx"}
           /\ First(g) \in Qubits \ g.controls
           /\ g.type = "x" => g.targets = <<First(g)>>
           /\ g.type # "x" => /\ Second(g) \in Qubits \ g.controls /\ First(g) # Second(g)
                              /\ g.targets = <<First(g), Second(g)>>
<1>1. /\ g.type \in {"x", "swap", "dcx"} /\ g.controls \in SUBSET Qubits /\ g.targets \in Seq(Qubits)
      /\ Len(g.targets) = IF g.type = "x" THEN 1 ELSE 2
      /\ \A j, k \in DOMAIN g.targets : g.targets[j] = g.targets[k] => j = k
      /\ \A j \in DOMAIN g.targets : g.targets[j] \notin g.controls
  BY DEF IsGate, Gates
<1>2. DOMAIN g.targets = 1 .. Len(g.targets) /\ \A j \in DOMAIN g.targets : g.targets[j] \in Qubits
  BY <1>1
<1>3. CASE g.type = "x"
  <2>1. Len(g.targets) = 1 /\ 1 \in DOMAIN g.targets
    BY <1>1, <1>2, <1>3
  <2> QED
    BY <1>1, <1>2, <1>3, <2>1 DEF First
<1>4. CASE g.type # "x"
  <2>1. Len(g.targets) = 2 /\ 1 \in DOMAIN g.targets /\ 2 \in DOMAIN g.targets
    BY <1>1, <1>2, <1>4
  <2>2. g.targets[1] # g.targets[2]
    BY <1>1, <2>1
  <2> QED
    BY <1>1, <1>2, <1>4, <2>1, <2>2 DEF First, Second
<1> QED
  BY <1>3, <1>4

\* A gate without effect, and each type of gate
LEMMA ActIs ==
    ASSUME NEW g, NEW u
    PROVE  /\ ~(g.controls \subseteq u) => Act(g, u) = u
           /\ g.controls \subseteq u /\ g.type = "x" => Act(g, u) = Flip(u, First(g))
           /\ g.controls \subseteq u /\ g.type = "dcx" =>
                Act(g, u) = ControlledFlip(ControlledFlip(u, First(g), Second(g)),
                                           Second(g), First(g))
           /\ g.controls \subseteq u /\ g.type = "swap" =>
                Act(g, u) = ControlledFlip(ControlledFlip(ControlledFlip(u, First(g), Second(g)),
                                                          Second(g), First(g)),
                                           First(g), Second(g))
  BY DEF Act, First, Second

\* A gate leads from states to states.
LEMMA ActType ==
    ASSUME NEW g, IsGate(g), NEW u \in BasisStates
    PROVE  Act(g, u) \in BasisStates
<1>1. CASE g.type = "x"
  BY <1>1, ActIs, GateIs, FlipIs
<1>2. CASE g.type = "dcx"
  BY <1>2, ActIs, GateIs, ControlledFlipIs
<1>3. CASE g.type = "swap"
  BY <1>3, ActIs, GateIs, ControlledFlipIs
<1> QED
  BY <1>1, <1>2, <1>3, GateIs

\* A gate leaves its controls as they are.
LEMMA ControlsStay ==
    ASSUME NEW g, IsGate(g), NEW u \in BasisStates
    PROVE  g.controls \subseteq Act(g, u) <=> g.controls \subseteq u
<1>1. \A q \in g.controls : q \in Qubits /\ q # First(g) /\ (g.type # "x" => q # Second(g))
  BY GateIs
<1>2. \A q \in g.controls : q \in Act(g, u) <=> q \in u
  <2>1. CASE g.type = "x"
    BY <1>1, <2>1, ActIs, GateIs, FlipIs
  <2>2. CASE g.type = "dcx"
    BY <1>1, <2>2, ActIs, GateIs, ControlledFlipIs
  <2>3. CASE g.type = "swap"
    BY <1>1, <2>3, ActIs, GateIs, ControlledFlipIs
  <2> QED
    BY <2>1, <2>2, <2>3, GateIs
<1> QED
  BY <1>2

\* The inverse of a gate is one, with the targets in reverse order.
LEMMA AdjointIs ==
    ASSUME NEW g, IsGate(g)
    PROVE  /\ IsGate(Adjoint(g)) /\ Adjoint(Adjoint(g)) = g
           /\ Adjoint(g).type = g.type /\ Adjoint(g).controls = g.controls
           /\ g.type = "x" => First(Adjoint(g)) = First(g)
           /\ g.type # "x" => First(Adjoint(g)) = Second(g) /\ Second(Adjoint(g)) = First(g)
<1> DEFINE h == Adjoint(g)
<1>1. /\ h = [g EXCEPT !.targets = Reverse(g.targets)] /\ g \in Gates
  BY DEF Adjoint, IsGate
<1>2. /\ h.type = g.type /\ h.controls = g.controls /\ h.targets = Reverse(g.targets)
  BY <1>1 DEF Gates
<1>3. CASE g.type = "x"
  <2>1. g.targets = <<First(g)>> /\ First(g) \in Qubits
    BY <1>3, GateIs
  <2>2. Reverse(g.targets) = g.targets
    BY <2>1 DEF Reverse
  <2>3. h = g
    BY <1>1, <2>2 DEF Gates
  <2> QED
    BY <1>3, <2>3
<1>4. CASE g.type # "x"
  <2>1. g.targets = <<First(g), Second(g)>> /\ First(g) \in Qubits /\ Second(g) \in Qubits
        /\ First(g) # Second(g) /\ First(g) \notin g.controls /\ Second(g) \notin g.controls
    BY <1>4, GateIs
  <2>2. Reverse(g.targets) = <<Second(g), First(g)>>
    BY <2>1 DEF Reverse
  <2>3. Reverse(h.targets) = g.targets
    BY <1>2, <2>1, <2>2 DEF Reverse
  <2>4. h \in Gates
    <3>1. Reverse(g.targets) \in Seq(Qubits)
      <4>1. \A a, b \in Qubits : <<a, b>> \in Seq(Qubits)
        OBVIOUS
      <4> QED
        BY <2>1, <2>2, <4>1
    <3> QED
      BY <1>1, <3>1 DEF Gates
  <2>5. IsGate(h)
    BY <1>2, <1>4, <2>1, <2>2, <2>4 DEF IsGate
  <2>6. Adjoint(h) = g
    <3>1. Adjoint(h) = [h EXCEPT !.targets = g.targets]
      BY <2>3 DEF Adjoint
    <3> QED
      BY <1>1, <3>1 DEF Gates
  <2> QED
    BY <1>2, <1>4, <2>2, <2>5, <2>6 DEF First, Second
<1> QED
  BY <1>3, <1>4

\* A state with two qubits exchanged
Exchanged(u, a, b) == {q \in Qubits : IF q = a THEN b \in u ELSE IF q = b THEN a \in u ELSE q \in u}

\* Three controlled flips exchange two qubits.
LEMMA ThreeFlipsExchange ==
    ASSUME NEW u \in BasisStates, NEW a \in Qubits, NEW b \in Qubits, a # b
    PROVE  ControlledFlip(ControlledFlip(ControlledFlip(u, a, b), b, a), a, b) = Exchanged(u, a, b)
<1>1. u \subseteq Qubits
  BY DEF BasisStates
<1>2. CASE a \in u /\ b \in u
  BY <1>1, <1>2 DEF ControlledFlip, Flip, Exchanged
<1>3. CASE a \in u /\ b \notin u
  BY <1>1, <1>3 DEF ControlledFlip, Flip, Exchanged
<1>4. CASE a \notin u /\ b \in u
  BY <1>1, <1>4 DEF ControlledFlip, Flip, Exchanged
<1>5. CASE a \notin u /\ b \notin u
  BY <1>1, <1>5 DEF ControlledFlip, Flip, Exchanged
<1> QED
  BY <1>2, <1>3, <1>4, <1>5

\* A gate and its inverse undo one another.
LEMMA AdjointInverts ==
    ASSUME NEW g, IsGate(g), NEW u \in BasisStates
    PROVE  Act(Adjoint(g), Act(g, u)) = u
<1> DEFINE h == Adjoint(g)
           v == Act(g, u)
<1>1. /\ h.type = g.type /\ h.controls = g.controls
      /\ g.type = "x" => First(h) = First(g)
      /\ g.type # "x" => First(h) = Second(g) /\ Second(h) = First(g)
  BY AdjointIs
<1>2. v \in BasisStates /\ (g.controls \subseteq v <=> g.controls \subseteq u)
  BY ActType, ControlsStay
<1>3. CASE ~(g.controls \subseteq u)
  <2>1. v = u
    BY <1>3, ActIs
  <2> QED
    BY <1>1, <1>3, <2>1, ActIs
<1>4. CASE g.controls \subseteq u /\ g.type = "x"
  <2>1. v = Flip(u, First(g)) /\ Act(h, v) = Flip(v, First(g))
    BY <1>1, <1>2, <1>4, ActIs
  <2> QED
    BY <2>1, GateIs, FlipIs
<1>5. CASE g.controls \subseteq u /\ g.type = "dcx"
  <2> DEFINE a == First(g)
             b == Second(g)
             w == ControlledFlip(u, a, b)
  <2>1. a \in Qubits /\ b \in Qubits /\ a # b
    BY <1>5, GateIs
  <2>2. v = ControlledFlip(w, b, a)
    BY <1>5, ActIs
  <2>3. Act(h, v) = ControlledFlip(ControlledFlip(v, b, a), a, b)
    BY <1>1, <1>2, <1>5, ActIs
  <2>4. w \in BasisStates /\ ControlledFlip(w, a, b) = u
    BY <2>1, ControlledFlipIs
  <2>5. ControlledFlip(v, b, a) = w
    BY <2>1, <2>2, <2>4, ControlledFlipIs
  <2> QED
    BY <2>3, <2>4, <2>5
<1>6. CASE g.controls \subseteq u /\ g.type = "swap"
  <2> DEFINE a == First(g)
             b == Second(g)
  <2>1. a \in Qubits /\ b \in Qubits /\ a # b
    BY <1>6, GateIs
  <2>2. v = Exchanged(u, a, b)
    BY <1>6, <2>1, ActIs, ThreeFlipsExchange
  <2>3. Act(h, v) = Exchanged(v, b, a)
    <3>1. Act(h, v) = ControlledFlip(ControlledFlip(ControlledFlip(v, b, a), a, b), b, a)
      BY <1>1, <1>2, <1>6, ActIs
    <3> QED
      BY <1>2, <2>1, <3>1, ThreeFlipsExchange
  <2> QED
    BY <2>1, <2>2, <2>3 DEF Exchanged, BasisStates
<1> QED
  BY <1>3, <1>4, <1>5, <1>6, GateIs

\* A gate on the logical qubits does to them what it does to the physical qubits.
LEMMA ActElsewhere ==
    ASSUME NEW g, IsGate(g), NEW l \in Layouts, NEW u \in BasisStates
    PROVE  Act(On(g, l), Read(l, u)) = Read(l, Act(g, u))
<1> DEFINE h == On(g, l)
           v == Read(l, u)
<1>1. /\ g \in Gates /\ g.controls \subseteq Qubits /\ DOMAIN g.targets = 1 .. Len(g.targets)
      /\ Len(g.targets) = IF g.type = "x" THEN 1 ELSE 2
  <2>1. g \in Gates /\ Len(g.targets) = IF g.type = "x" THEN 1 ELSE 2
    BY DEF IsGate
  <2>2. g.targets \in Seq(Qubits)
    BY <2>1 DEF Gates
  <2> QED
    BY <2>1, <2>2, GateIs
<1>2. /\ h.type = g.type /\ h.controls = {l[q] : q \in g.controls}
      /\ h.targets = [k \in DOMAIN g.targets |-> l[g.targets[k]]]
  BY <1>1 DEF On, Gates
<1>3. First(h) = l[First(g)] /\ (g.type # "x" => Second(h) = l[Second(g)])
  <2>1. 1 \in DOMAIN g.targets /\ (g.type # "x" => 2 \in DOMAIN g.targets)
    BY <1>1
  <2> QED
    BY <1>2, <2>1 DEF First, Second
<1>4. h.controls \subseteq v <=> g.controls \subseteq u
  <2>1. \A q \in g.controls : l[q] \in v <=> q \in u
    BY <1>1, FlipElsewhere
  <2> QED
    BY <1>2, <2>1
<1>5. CASE ~(g.controls \subseteq u)
  BY <1>4, <1>5, ActIs
<1>6. CASE g.controls \subseteq u /\ g.type = "x"
  <2>1. Act(g, u) = Flip(u, First(g)) /\ Act(h, v) = Flip(v, First(h))
    BY <1>2, <1>4, <1>6, ActIs
  <2> QED
    BY <1>3, <2>1, GateIs, FlipElsewhere
<1>7. CASE g.controls \subseteq u /\ g.type # "x"
  <2> DEFINE a == First(g)
             b == Second(g)
             w == ControlledFlip(u, a, b)
             x == ControlledFlip(w, b, a)
  <2>1. a \in Qubits /\ b \in Qubits /\ a # b /\ g.type \in {"dcx", "swap"}
    BY <1>7, GateIs
  <2>2. w \in BasisStates /\ x \in BasisStates
    BY <2>1, ControlledFlipIs
  <2>3. /\ Read(l, w) = ControlledFlip(v, l[a], l[b])
        /\ Read(l, x) = ControlledFlip(Read(l, w), l[b], l[a])
        /\ Read(l, ControlledFlip(x, a, b)) = ControlledFlip(Read(l, x), l[a], l[b])
    BY <2>1, <2>2, ControlledFlipElsewhere
  <2>4. CASE g.type = "dcx"
    <3>1. Act(g, u) = x /\ Act(h, v) = ControlledFlip(ControlledFlip(v, l[a], l[b]), l[b], l[a])
      BY <1>2, <1>3, <1>4, <1>7, <2>4, ActIs
    <3> QED
      BY <2>3, <3>1
  <2>5. CASE g.type = "swap"
    <3>1. /\ Act(g, u) = ControlledFlip(x, a, b)
          /\ Act(h, v) = ControlledFlip(ControlledFlip(ControlledFlip(v, l[a], l[b]), l[b], l[a]),
                                        l[a], l[b])
      BY <1>2, <1>3, <1>4, <1>7, <2>5, ActIs
    <3> QED
      BY <2>3, <3>1
  <2> QED
    BY <2>1, <2>4, <2>5
<1> QED
  BY <1>5, <1>6, <1>7, GateIs

\* The physical qubits, when the logical qubits that they hold are in state s
Loaded(layout, s) == {q \in Qubits : layout[q] \in s}

\* Loading is the inverse of reading.
LEMMA LoadedIs ==
    ASSUME NEW l \in Layouts, NEW s \in BasisStates
    PROVE  /\ Loaded(l, s) \in BasisStates /\ Read(l, s) \in BasisStates
           /\ Read(l, Loaded(l, s)) = s /\ Loaded(l, Read(l, s)) = s
<1>1. /\ l \in [Qubits -> Qubits]
      /\ \A p, q \in Qubits : l[p] = l[q] => p = q
      /\ \A q \in Qubits : \E p \in Qubits : l[p] = q
  BY LayoutIs
<1>2. s \subseteq Qubits
  BY DEF BasisStates
<1>3. Read(l, Loaded(l, s)) = s
  BY <1>1, <1>2 DEF Read, Loaded
<1>4. Loaded(l, Read(l, s)) = s
  BY <1>1, <1>2 DEF Read, Loaded
<1> QED
  BY <1>1, <1>2, <1>3, <1>4 DEF Read, Loaded, BasisStates

\* The diagram of a gate makes of the logical qubits what the gate makes of the physical ones.
LEMMA GateDDIs ==
    ASSUME NEW g, IsGate(g), NEW l \in Layouts
    PROVE  /\ GateDD(g, l) \in Matrices /\ InverseGateDD(g, l) \in Matrices
           /\ \A s \in BasisStates :
                /\ GateDD(g, l)[s] \in BasisStates /\ InverseGateDD(g, l)[s] \in BasisStates
                /\ Loaded(l, GateDD(g, l)[s]) = Act(g, Loaded(l, s))
                /\ GateDD(g, l)[InverseGateDD(g, l)[s]] = s
                /\ InverseGateDD(g, l)[GateDD(g, l)[s]] = s
<1> DEFINE h == Adjoint(g)
<1>1. IsGate(h) /\ Adjoint(h) = g
  BY AdjointIs
<1>2. ASSUME NEW f, IsGate(f), NEW s \in BasisStates
      PROVE  /\ GateDD(f, l)[s] = Read(l, Act(f, Loaded(l, s)))
             /\ GateDD(f, l)[s] \in BasisStates
             /\ Loaded(l, GateDD(f, l)[s]) = Act(f, Loaded(l, s))
  <2>1. Loaded(l, s) \in BasisStates /\ Read(l, Loaded(l, s)) = s
    BY LoadedIs
  <2>2. GateDD(f, l)[s] = Act(On(f, l), s)
    BY DEF GateDD
  <2>3. GateDD(f, l)[s] = Read(l, Act(f, Loaded(l, s)))
    BY <1>2, <2>1, <2>2, ActElsewhere
  <2>4. Act(f, Loaded(l, s)) \in BasisStates
    BY <1>2, <2>1, ActType
  <2> QED
    BY <2>3, <2>4, LoadedIs
<1>3. \A f : IsGate(f) => GateDD(f, l) \in Matrices
  <2> SUFFICES ASSUME NEW f, IsGate(f) PROVE GateDD(f, l) \in Matrices
    OBVIOUS
  <2>1. \A s \in BasisStates : Act(On(f, l), s) \in BasisStates
    BY <1>2 DEF GateDD
  <2> QED
    BY <2>1 DEF GateDD, Matrices
<1>4. ASSUME NEW f, IsGate(f), NEW s \in BasisStates
      PROVE  GateDD(Adjoint(f), l)[GateDD(f, l)[s]] = s
  <2>1. IsGate(Adjoint(f)) /\ GateDD(f, l)[s] \in BasisStates /\ Loaded(l, s) \in BasisStates
    BY <1>2, <1>4, AdjointIs, LoadedIs
  <2>2. GateDD(Adjoint(f), l)[GateDD(f, l)[s]] = Read(l, Act(Adjoint(f), Act(f, Loaded(l, s))))
    BY <1>2, <1>4, <2>1
  <2>3. Act(Adjoint(f), Act(f, Loaded(l, s))) = Loaded(l, s)
    BY <1>4, <2>1, AdjointInverts
  <2> QED
    BY <2>2, <2>3, LoadedIs
<1>5. InverseGateDD(g, l) = GateDD(h, l)
  BY DEF InverseGateDD
<1>6. \A s \in BasisStates : GateDD(g, l)[GateDD(h, l)[s]] = s
  BY <1>1, <1>4
<1> QED
  BY <1>1, <1>2, <1>3, <1>4, <1>5, <1>6

-----------------------------------------------------------------------------------
(* What circuits do *)

\* Gates to be run, and one step of running them
IsProgram(ops) == ops \in Seq(Gates) /\ \A k \in DOMAIN ops : IsGate(ops[k])

After(u, g) == Act(g, u)

\* What running gates makes of the state of the physical qubits
AfterAll(u, ops) == FoldLeft(After, u, ops)

\* The step as a function
ActOf(ops) == [x \in (1 .. Len(ops)) \X BasisStates |-> Act(ops[x[1]], x[2])]

\* Gates are run one after the other.
LEMMA AfterAllIs ==
    ASSUME NEW ops, IsProgram(ops), NEW u \in BasisStates
    PROVE  \E t : /\ IsTrace(t, Len(ops), BasisStates, u, ActOf(ops))
                  /\ AfterAll(u, ops) = t[Len(ops)]
<1> DEFINE n == Len(ops)
           G == ActOf(ops)
           Folds(f) == f = [s \in SUBSET DOMAIN ops |->
                              IF s = {} THEN u ELSE Act(ops[Max(s)], f[s \ {Max(s)}])]
           iter == CHOOSE f : Folds(f)
<1>1. n \in Nat /\ DOMAIN ops = 1 .. n
  BY DEF IsProgram
<1>2. \A k \in 1 .. n, v \in BasisStates :
        /\ Act(ops[k], v) \in BasisStates /\ <<k, v>> \in (1 .. n) \X BasisStates
        /\ G[<<k, v>>] = Act(ops[k], v)
  BY <1>1, ActType DEF IsProgram, ActOf
<1>3. G \in [(1 .. n) \X BasisStates -> BasisStates]
  BY <1>2 DEF ActOf
<1> HIDE DEF n, G
<1>4. PICK f : IsFold(f, n, BasisStates, u, G)
  BY <1>1, <1>3, FoldExists
<1>5. Folds(f)
  <2>1. ASSUME NEW s \in SUBSET (1 .. n)
        PROVE  f[s] = IF s = {} THEN u ELSE Act(ops[Max(s)], f[s \ {Max(s)}])
    <3>1. CASE s = {}
      BY <1>4, <3>1 DEF IsFold
    <3>2. CASE s # {}
      <4>1. Max(s) \in 1 .. n
        BY <1>1, <3>2, GreatestOf
      <4>2. f[s \ {Max(s)}] \in BasisStates
        BY <1>4 DEF IsFold
      <4> QED
        BY <1>2, <1>4, <3>2, <4>1, <4>2 DEF IsFold
    <3> QED
      BY <3>1, <3>2
  <2>2. f = [s \in SUBSET (1 .. n) |-> f[s]]
    BY <1>4 DEF IsFold
  <2> QED
    BY <1>1, <2>1, <2>2
<1>6. Folds(iter)
  BY <1>5
<1>7. AfterAll(u, ops) = iter[1 .. n]
  BY <1>1 DEF AfterAll, FoldLeft, MapThenFoldSet, After
<1> HIDE DEF iter
<1>8. iter[{}] = u
  BY <1>1, <1>6
<1>9. ASSUME NEW k \in 1 .. n, iter[1 .. k - 1] \in BasisStates
      PROVE  iter[1 .. k] = G[<<k, iter[1 .. k - 1]>>]
  <2>1. k \in Nat \ {0} /\ 1 .. k \in SUBSET (1 .. n)
    BY <1>1
  <2>2. 1 .. k # {} /\ Max(1 .. k) = k /\ (1 .. k) \ {k} = 1 .. k - 1
    BY <2>1, PrefixIs
  <2>3. iter[1 .. k] = Act(ops[Max(1 .. k)], iter[(1 .. k) \ {Max(1 .. k)}])
    BY <1>1, <1>6, <2>1, <2>2
  <2> QED
    BY <1>2, <1>9, <2>2, <2>3
<1> DEFINE t == [k \in 0 .. n |-> iter[1 .. k]]
<1>10. IsTrace(t, n, BasisStates, u, G)
  BY <1>1, <1>3, <1>8, <1>9, TraceOf
<1>11. AfterAll(u, ops) = t[n]
  BY <1>1, <1>7
<1> QED
  BY <1>10, <1>11 DEF n, G

\* Gates lead from states to states.
LEMMA AfterAllType ==
    ASSUME NEW ops, IsProgram(ops), NEW u \in BasisStates
    PROVE  AfterAll(u, ops) \in BasisStates
<1>1. PICK t : /\ IsTrace(t, Len(ops), BasisStates, u, ActOf(ops))
               /\ AfterAll(u, ops) = t[Len(ops)]
  BY AfterAllIs
<1>2. Len(ops) \in Nat
  BY DEF IsProgram
<1> QED
  BY <1>1, <1>2 DEF IsTrace

\* No gates change nothing.
LEMMA AfterNone ==
    ASSUME NEW u \in BasisStates
    PROVE  AfterAll(u, <<>>) = u
<1>1. IsProgram(<<>>) /\ Len(<<>>) = 0
  BY DEF IsProgram
<1>2. PICK t : /\ IsTrace(t, Len(<<>>), BasisStates, u, ActOf(<<>>))
               /\ AfterAll(u, <<>>) = t[Len(<<>>)]
  BY <1>1, AfterAllIs
<1> QED
  BY <1>1, <1>2 DEF IsTrace

\* What is left of a circuit from gate k on
From(ops, k) == SubSeq(ops, k, Len(ops))

\* The gates from number k on
LEMMA FromIs ==
    ASSUME NEW ops, IsProgram(ops), NEW k \in 1 .. Len(ops) + 1
    PROVE  /\ IsProgram(From(ops, k)) /\ Len(From(ops, k)) = Len(ops) + 1 - k
           /\ \A j \in 1 .. Len(ops) + 1 - k : From(ops, k)[j] = ops[k + j - 1]
           /\ k = Len(ops) + 1 => From(ops, k) = <<>>
<1>1. ops \in Seq(Gates) /\ Len(ops) \in Nat /\ DOMAIN ops = 1 .. Len(ops)
  BY DEF IsProgram
<1>2. /\ From(ops, k) \in Seq(Gates) /\ Len(From(ops, k)) = Len(ops) + 1 - k
      /\ \A j \in 1 .. Len(ops) + 1 - k : From(ops, k)[j] = ops[k + j - 1]
  BY <1>1 DEF From
<1>3. \A j \in 1 .. Len(ops) + 1 - k : k + j - 1 \in DOMAIN ops
  BY <1>1
<1>4. DOMAIN From(ops, k) = 1 .. Len(ops) + 1 - k
  BY <1>2
<1>5. IsProgram(From(ops, k))
  BY <1>2, <1>3, <1>4 DEF IsProgram
<1>6. k = Len(ops) + 1 => From(ops, k) = <<>>
  BY <1>1, <1>2
<1> QED
  BY <1>2, <1>5, <1>6

\* Running what is left is running the next gate, and then what is left after it.
LEMMA AfterNext ==
    ASSUME NEW ops, IsProgram(ops), NEW k \in 1 .. Len(ops), NEW u \in BasisStates
    PROVE  AfterAll(u, From(ops, k)) = AfterAll(Act(ops[k], u), From(ops, k + 1))
<1> DEFINE all == From(ops, k)
           rest == From(ops, k + 1)
           v == Act(ops[k], u)
           n == Len(ops) - k
<1>1. Len(ops) \in Nat /\ k \in Nat /\ n \in Nat /\ DOMAIN ops = 1 .. Len(ops)
  BY DEF IsProgram
<1>2. k \in 1 .. Len(ops) + 1 /\ k + 1 \in 1 .. Len(ops) + 1
  BY <1>1
<1>3. /\ IsProgram(all) /\ Len(all) = n + 1
      /\ \A j \in 1 .. n + 1 : all[j] = ops[k + j - 1]
  <2>1. Len(ops) + 1 - k = n + 1
    BY <1>1
  <2> QED
    BY <1>2, <2>1, FromIs
<1>4. /\ IsProgram(rest) /\ Len(rest) = n
      /\ \A j \in 1 .. n : rest[j] = all[j + 1]
  <2>1. Len(ops) + 1 - (k + 1) = n
    <3>1. \A a, b \in Nat : a + 1 - (b + 1) = a - b
      OBVIOUS
    <3> QED
      BY <1>1, <3>1
  <2>2. /\ IsProgram(rest) /\ Len(rest) = n
        /\ \A j \in 1 .. n : rest[j] = ops[k + 1 + j - 1]
    BY <1>2, <2>1, FromIs
  <2>3. \A j \in 1 .. n : j + 1 \in 1 .. n + 1 /\ k + 1 + j - 1 = k + (j + 1) - 1
    BY <1>1
  <2> QED
    BY <1>3, <2>2, <2>3
<1>5. v \in BasisStates /\ all[1] = ops[k]
  <2>1. IsGate(ops[k])
    BY <1>1 DEF IsProgram
  <2>2. 1 \in 1 .. n + 1 /\ k + 1 - 1 = k
    BY <1>1
  <2> QED
    BY <1>3, <2>1, <2>2, ActType
<1>6. PICK t : IsTrace(t, n + 1, BasisStates, u, ActOf(all)) /\ AfterAll(u, all) = t[n + 1]
  BY <1>3, AfterAllIs
<1>7. PICK w : IsTrace(w, n, BasisStates, v, ActOf(rest)) /\ AfterAll(v, rest) = w[n]
  BY <1>4, <1>5, AfterAllIs
<1> HIDE DEF all, rest, v, n
<1> DEFINE x == [j \in 0 .. n |-> t[j + 1]]
<1>8. \A j \in 1 .. n + 1 : t[j - 1] \in BasisStates /\ t[j] = Act(all[j], t[j - 1])
  <2> SUFFICES ASSUME NEW j \in 1 .. n + 1
               PROVE  t[j - 1] \in BasisStates /\ t[j] = Act(all[j], t[j - 1])
    OBVIOUS
  <2>1. j - 1 \in 0 .. n + 1
    BY <1>1
  <2>2. t[j - 1] \in BasisStates /\ t[j] = ActOf(all)[<<j, t[j - 1]>>]
    BY <1>6, <2>1 DEF IsTrace
  <2>3. <<j, t[j - 1]>> \in (1 .. Len(all)) \X BasisStates
    BY <1>3, <2>2
  <2> QED
    BY <2>2, <2>3 DEF ActOf
<1>9. x \in [0 .. n -> BasisStates]
  <2>1. \A j \in 0 .. n : j + 1 \in 0 .. n + 1
    BY <1>1
  <2> QED
    BY <1>6, <2>1 DEF IsTrace
<1>10. x[0] = v
  <2>1. 1 \in 1 .. n + 1 /\ 0 \in 0 .. n /\ 0 + 1 = 1 /\ 1 - 1 = 0 /\ t[0] = u
    BY <1>1, <1>6 DEF IsTrace
  <2>2. t[1] = Act(all[1], t[1 - 1])
    BY <1>8, <2>1
  <2> QED
    BY <1>5, <2>1, <2>2 DEF v
<1>11. ASSUME NEW j \in 1 .. n PROVE x[j] = ActOf(rest)[<<j, x[j - 1]>>]
  <2>1. j + 1 \in 1 .. n + 1 /\ j \in 0 .. n /\ j - 1 \in 0 .. n /\ j + 1 - 1 = j /\ j - 1 + 1 = j
    BY <1>1
  <2>2. x[j] = t[j + 1] /\ x[j - 1] = t[j]
    BY <2>1
  <2>3. t[j + 1] = Act(all[j + 1], t[j]) /\ t[j] \in BasisStates
    BY <1>8, <2>1
  <2>4. <<j, t[j]>> \in (1 .. Len(rest)) \X BasisStates
    BY <1>4, <2>3
  <2> HIDE DEF x
  <2> QED
    BY <1>4, <2>2, <2>3, <2>4 DEF ActOf
<1>12. IsTrace(x, n, BasisStates, v, ActOf(rest))
  BY <1>9, <1>10, <1>11 DEF IsTrace
<1>13. x = w
  BY <1>1, <1>7, <1>12, TraceUnique
<1>14. x[n] = t[n + 1]
  BY <1>1
<1> QED
  BY <1>6, <1>7, <1>13, <1>14 DEF all, rest, v
\* What a circuit does, put in terms of what its gates do
LEMMA ComputesIs ==
    ASSUME NEW ops, IsProgram(ops), NEW l \in Layouts, NEW out \in Layouts
    PROVE  /\ Computes(ops, l, out) \in Matrices
           /\ \A s \in BasisStates : /\ Computes(ops, l, out)[s] = Read(out, AfterAll(Loaded(l, s), ops))
                                     /\ Computes(ops, l, out)[s] \in BasisStates
<1>1. Computes(ops, l, out) = [s \in BasisStates |-> Read(out, AfterAll(Loaded(l, s), ops))]
  BY DEF Computes, Read, AfterAll, After, Loaded
<1>2. \A s \in BasisStates : Read(out, AfterAll(Loaded(l, s), ops)) \in BasisStates
  BY LoadedIs, AfterAllType
<1> QED
  BY <1>1, <1>2 DEF Matrices

\* A gate that is applied as a diagram takes nothing away from what is left to do.
LEMMA GateTaken ==
    ASSUME NEW ops, IsProgram(ops), NEW k \in 1 .. Len(ops),
           NEW l \in Layouts, NEW out \in Layouts, NEW s \in BasisStates
    PROVE  Computes(From(ops, k + 1), l, out)[GateDD(ops[k], l)[s]]
             = Computes(From(ops, k), l, out)[s]
<1>1. Len(ops) \in Nat /\ DOMAIN ops = 1 .. Len(ops)
  BY DEF IsProgram
<1>2. k \in 1 .. Len(ops) + 1 /\ k + 1 \in 1 .. Len(ops) + 1
  BY <1>1
<1>3. IsProgram(From(ops, k)) /\ IsProgram(From(ops, k + 1)) /\ IsGate(ops[k])
  BY <1>1, <1>2, FromIs DEF IsProgram
<1> DEFINE d == GateDD(ops[k], l)[s]
<1>4. d \in BasisStates /\ Loaded(l, d) = Act(ops[k], Loaded(l, s))
  BY <1>3, GateDDIs
<1>5. Loaded(l, s) \in BasisStates
  BY LoadedIs
<1>6. AfterAll(Loaded(l, s), From(ops, k)) = AfterAll(Loaded(l, d), From(ops, k + 1))
  BY <1>4, <1>5, AfterNext
<1> HIDE DEF d
<1>7. Computes(From(ops, k + 1), l, out)[d] = Read(out, AfterAll(Loaded(l, d), From(ops, k + 1)))
  BY <1>3, <1>4, ComputesIs
<1>8. Computes(From(ops, k), l, out)[s] = Read(out, AfterAll(Loaded(l, s), From(ops, k)))
  BY <1>3, ComputesIs
<1> QED
  BY <1>6, <1>7, <1>8 DEF d

\* When no gate is left, the qubits are only renamed.
LEMMA RenamingIs ==
    ASSUME NEW l \in Layouts, NEW out \in Layouts
    PROVE  /\ Renaming(l, out) \in Matrices /\ Computes(<<>>, l, out) = Renaming(l, out)
           /\ Renaming(l, l) = Identity
           /\ \A s \in BasisStates : /\ Renaming(l, out)[s] \in BasisStates
                                     /\ Renaming(out, l)[Renaming(l, out)[s]] = s
<1>1. IsProgram(<<>>)
  BY DEF IsProgram
<1>2. \A from, to \in Layouts, s \in BasisStates : Renaming(from, to)[s] = Read(to, Loaded(from, s))
  BY DEF Renaming, Read, Loaded
<1>3. \A from, to \in Layouts, s \in BasisStates : Renaming(from, to)[s] \in BasisStates
  BY <1>2, LoadedIs
<1>4. \A from, to \in Layouts : Renaming(from, to) \in Matrices
  BY <1>3 DEF Renaming, Matrices
<1>5. \A s \in BasisStates : Renaming(out, l)[Renaming(l, out)[s]] = s
  <2> SUFFICES ASSUME NEW s \in BasisStates PROVE Renaming(out, l)[Renaming(l, out)[s]] = s
    OBVIOUS
  <2>1. Loaded(l, s) \in BasisStates
    BY LoadedIs
  <2>2. Loaded(out, Read(out, Loaded(l, s))) = Loaded(l, s)
    BY <2>1, LoadedIs
  <2> QED
    BY <1>2, <1>3, <2>2, LoadedIs
<1>6. Renaming(l, l) = Identity
  <2>1. \A s \in BasisStates : Renaming(l, l)[s] = s
    BY <1>2, LoadedIs
  <2> QED
    BY <1>4, <2>1 DEF Matrices, Identity
<1>7. Computes(<<>>, l, out) = Renaming(l, out)
  <2>1. \A s \in BasisStates : Computes(<<>>, l, out)[s] = Renaming(l, out)[s]
    BY <1>1, <1>2, ComputesIs, AfterNone, LoadedIs
  <2>2. Computes(<<>>, l, out) \in Matrices
    BY <1>1, ComputesIs
  <2> QED
    BY <1>4, <2>1, <2>2 DEF Matrices
<1> QED
  BY <1>3, <1>4, <1>5, <1>6, <1>7

================================================================================
