---------------------------- MODULE DDChecker_proofs ----------------------------
(* The decision diagram checkers: proofs for any number of qubits, any circuits of   *)
(* any length, every application scheme, and interruptions at any time.              *)
(*                                                                                   *)
(* The inductive invariant IInv says that the diagrams and the gates that are left   *)
(* make up the circuits (RemainderInv).  That a step keeps this needs to know that   *)
(* task managers come to the end (FinishedInv), that gates cancel only where no swap *)
(* has been absorbed (ElidedInv), and that what is cached is the next gate           *)
(* (CacheInv); the verdict (VerdictInv) follows.                                     *)
EXTENDS DDChecker, Circuits_proofs

-----------------------------------------------------------------------------------
(* Absorbing swaps *)

\* A swap that is absorbed into the layout has its effect there.
LEMMA SwappedIs ==
    ASSUME NEW g, IsGate(g), IsSwap(g), NEW l \in Layouts
    PROVE  /\ Swapped(l, g) \in Layouts
           /\ \A s \in BasisStates : Loaded(Swapped(l, g), s) = Act(g, Loaded(l, s))
<1> DEFINE a == First(g)
           b == Second(g)
           m == Swapped(l, g)
<1>1. a \in Qubits /\ b \in Qubits /\ a # b
  BY GateIs DEF IsSwap
<1>2. /\ l \in [Qubits -> Qubits]
      /\ \A p, q \in Qubits : l[p] = l[q] => p = q
      /\ \A q \in Qubits : \E p \in Qubits : l[p] = q
  BY LayoutIs
<1>3. m = [l EXCEPT ![a] = l[b], ![b] = l[a]]
  BY DEF Swapped, First, Second
<1>4. /\ m \in [Qubits -> Qubits] /\ m[a] = l[b] /\ m[b] = l[a]
      /\ \A q \in Qubits \ {a, b} : m[q] = l[q]
  BY <1>1, <1>2, <1>3
<1> HIDE DEF a, b, m
<1>5. \A p, q \in Qubits : m[p] = m[q] => p = q
  BY <1>1, <1>2, <1>4
<1>6. \A q \in Qubits : \E p \in Qubits : m[p] = q
  <2> SUFFICES ASSUME NEW q \in Qubits PROVE \E p \in Qubits : m[p] = q
    OBVIOUS
  <2>1. PICK p \in Qubits : l[p] = q
    BY <1>2
  <2>2. CASE p = a
    BY <1>1, <1>4, <2>1, <2>2
  <2>3. CASE p = b
    BY <1>1, <1>4, <2>1, <2>3
  <2>4. CASE p \notin {a, b}
    BY <1>4, <2>1, <2>4
  <2> QED
    BY <2>2, <2>3, <2>4
<1>7. m \in Layouts
  BY <1>4, <1>5, <1>6 DEF Layouts, Bijection, Injection, Surjection, IsInjective
<1>8. ASSUME NEW s \in BasisStates PROVE Loaded(m, s) = Act(g, Loaded(l, s))
  <2> DEFINE u == Loaded(l, s)
  <2>1. u \in BasisStates
    BY LoadedIs
  <2>2. Act(g, u) = Exchanged(u, a, b)
    <3>1. g.controls \subseteq u /\ g.type = "swap"
      BY DEF IsSwap
    <3>2. Act(g, u) = ControlledFlip(ControlledFlip(ControlledFlip(u, a, b), b, a), a, b)
      BY <3>1, ActIs DEF a, b
    <3> QED
      BY <1>1, <2>1, <3>2, ThreeFlipsExchange
  <2>3. Loaded(m, s) = Exchanged(u, a, b)
    BY <1>1, <1>4 DEF Loaded, Exchanged
  <2> QED
    BY <2>2, <2>3
<1> QED
  BY <1>7, <1>8 DEF m

\* So what is left after it gives the same result as what was left before.
LEMMA SwapTaken ==
    ASSUME NEW ops, IsProgram(ops), NEW k \in 1 .. Len(ops), IsSwap(ops[k]),
           NEW l \in Layouts, NEW out \in Layouts
    PROVE  Computes(From(ops, k + 1), Swapped(l, ops[k]), out) = Computes(From(ops, k), l, out)
<1>1. Len(ops) \in Nat /\ DOMAIN ops = 1 .. Len(ops)
  BY DEF IsProgram
<1>2. k \in 1 .. Len(ops) + 1 /\ k + 1 \in 1 .. Len(ops) + 1
  BY <1>1
<1>3. IsProgram(From(ops, k)) /\ IsProgram(From(ops, k + 1)) /\ IsGate(ops[k])
  BY <1>1, <1>2, FromIs DEF IsProgram
<1> DEFINE m == Swapped(l, ops[k])
           F == Computes(From(ops, k + 1), m, out)
           E == Computes(From(ops, k), l, out)
<1>4. m \in Layouts /\ \A s \in BasisStates : Loaded(m, s) = Act(ops[k], Loaded(l, s))
  BY <1>3, SwappedIs
<1> HIDE DEF m
<1>5. F \in Matrices /\ E \in Matrices
  BY <1>3, <1>4, ComputesIs
<1>6. ASSUME NEW s \in BasisStates PROVE F[s] = E[s]
  <2>1. Loaded(l, s) \in BasisStates
    BY LoadedIs
  <2>2. AfterAll(Loaded(l, s), From(ops, k)) = AfterAll(Loaded(m, s), From(ops, k + 1))
    BY <1>4, <2>1, AfterNext
  <2>3. F[s] = Read(out, AfterAll(Loaded(m, s), From(ops, k + 1)))
    BY <1>3, <1>4, ComputesIs
  <2>4. E[s] = Read(out, AfterAll(Loaded(l, s), From(ops, k)))
    BY <1>3, ComputesIs
  <2> QED
    BY <2>2, <2>3, <2>4
<1> HIDE DEF F, E
<1>7. F = E
  BY <1>5, <1>6 DEF Matrices
<1> QED
  BY <1>7 DEF F, E, m

\* The layout that absorbed swaps leave, and one step of it
Absorb(l, ops) == FoldLeft(Swapped, l, ops)

SwapOf(ops) == [x \in (1 .. Len(ops)) \X Layouts |-> Swapped(x[2], ops[x[1]])]

AllSwaps(ops) == IsProgram(ops) /\ \A k \in DOMAIN ops : IsSwap(ops[k])

\* Swaps are absorbed one after the other.
LEMMA AbsorbIs ==
    ASSUME NEW ops, AllSwaps(ops), NEW l \in Layouts
    PROVE  \E t : /\ IsTrace(t, Len(ops), Layouts, l, SwapOf(ops))
                  /\ Absorb(l, ops) = t[Len(ops)]
<1> DEFINE n == Len(ops)
           G == SwapOf(ops)
           Folds(f) == f = [s \in SUBSET DOMAIN ops |->
                              IF s = {} THEN l ELSE Swapped(f[s \ {Max(s)}], ops[Max(s)])]
           iter == CHOOSE f : Folds(f)
<1>1. n \in Nat /\ DOMAIN ops = 1 .. n
  BY DEF AllSwaps, IsProgram
<1>2. \A k \in 1 .. n, v \in Layouts :
        /\ Swapped(v, ops[k]) \in Layouts /\ <<k, v>> \in (1 .. n) \X Layouts
        /\ G[<<k, v>>] = Swapped(v, ops[k])
  BY <1>1, SwappedIs DEF AllSwaps, IsProgram, SwapOf
<1>3. G \in [(1 .. n) \X Layouts -> Layouts]
  BY <1>2 DEF SwapOf
<1> HIDE DEF n, G
<1>4. PICK f : IsFold(f, n, Layouts, l, G)
  BY <1>1, <1>3, FoldExists
<1>5. Folds(f)
  <2>1. ASSUME NEW s \in SUBSET (1 .. n)
        PROVE  f[s] = IF s = {} THEN l ELSE Swapped(f[s \ {Max(s)}], ops[Max(s)])
    <3>1. CASE s = {}
      BY <1>4, <3>1 DEF IsFold
    <3>2. CASE s # {}
      <4>1. Max(s) \in 1 .. n
        BY <1>1, <3>2, GreatestOf
      <4>2. f[s \ {Max(s)}] \in Layouts
        BY <1>4 DEF IsFold
      <4> QED
        BY <1>2, <1>4, <3>2, <4>1, <4>2 DEF IsFold
    <3> QED
      BY <3>1, <3>2
  <2>2. f = [s \in SUBSET (1 .. n) |-> f[s]]
    BY <1>4 DEF IsFold
  <2> QED
    BY <1>1, <2>1, <2>2
<1>6. Folds(iter)
  BY <1>5
<1>7. Absorb(l, ops) = iter[1 .. n]
  BY <1>1 DEF Absorb, FoldLeft, MapThenFoldSet
<1> HIDE DEF iter
<1>8. iter[{}] = l
  BY <1>1, <1>6
<1>9. ASSUME NEW k \in 1 .. n, iter[1 .. k - 1] \in Layouts
      PROVE  iter[1 .. k] = G[<<k, iter[1 .. k - 1]>>]
  <2>1. k \in Nat \ {0} /\ 1 .. k \in SUBSET (1 .. n)
    BY <1>1
  <2>2. 1 .. k # {} /\ Max(1 .. k) = k /\ (1 .. k) \ {k} = 1 .. k - 1
    BY <2>1, PrefixIs
  <2>3. iter[1 .. k] = Swapped(iter[(1 .. k) \ {Max(1 .. k)}], ops[Max(1 .. k)])
    BY <1>1, <1>6, <2>1, <2>2
  <2> DEFINE v == iter[1 .. k - 1]
  <2>4. iter[1 .. k] = Swapped(v, ops[k])
    BY <2>2, <2>3
  <2>5. v \in Layouts
    BY <1>9
  <2> HIDE DEF v
  <2>6. G[<<k, v>>] = Swapped(v, ops[k])
    BY <1>2, <2>5
  <2> QED
    BY <2>4, <2>6 DEF v
<1> DEFINE t == [k \in 0 .. n |-> iter[1 .. k]]
<1>10. IsTrace(t, n, Layouts, l, G)
  BY <1>1, <1>3, <1>8, <1>9, TraceOf
<1>11. Absorb(l, ops) = t[n]
  BY <1>1, <1>7
<1> QED
  BY <1>10, <1>11 DEF n, G

\* Between a and b there are only swaps: absorbed, they leave the same to be done.
LEMMA SwapsTaken ==
    ASSUME NEW ops, IsProgram(ops), NEW a \in 1 .. Len(ops) + 1, NEW b \in a .. Len(ops) + 1,
           \A k \in a .. b - 1 : IsSwap(ops[k]),
           NEW l \in Layouts, NEW out \in Layouts
    PROVE  /\ Absorb(l, SubSeq(ops, a, b - 1)) \in Layouts
           /\ Computes(From(ops, b), Absorb(l, SubSeq(ops, a, b - 1)), out)
                = Computes(From(ops, a), l, out)
           /\ a = b => Absorb(l, SubSeq(ops, a, b - 1)) = l
<1> DEFINE n == b - a
           sub == SubSeq(ops, a, b - 1)
<1>1. ops \in Seq(Gates) /\ Len(ops) \in Nat /\ DOMAIN ops = 1 .. Len(ops)
      /\ a \in Nat /\ b \in Nat /\ n \in Nat /\ a + n = b /\ b <= Len(ops) + 1 /\ 1 <= a
  BY DEF IsProgram
<1>2. sub \in Seq(Gates) /\ Len(sub) = n /\ \A k \in 1 .. n : sub[k] = ops[a + k - 1]
  <2>1. \A k \in a .. b - 1 : ops[k] \in Gates
    BY <1>1
  <2>2. sub = [k \in 1 .. b - a |-> ops[a + k - 1]]
    BY <1>1
  <2> QED
    BY <1>1, <2>1, <2>2
<1>3. \A k \in 1 .. n : a + k - 1 \in a .. b - 1 /\ a + k - 1 \in DOMAIN ops
  BY <1>1
<1>4. AllSwaps(sub)
  BY <1>1, <1>2, <1>3 DEF AllSwaps, IsProgram
<1>5. PICK t : IsTrace(t, n, Layouts, l, SwapOf(sub)) /\ Absorb(l, sub) = t[n]
  BY <1>2, <1>4, AbsorbIs
<1>6. t \in [0 .. n -> Layouts] /\ t[0] = l
  BY <1>5 DEF IsTrace
<1>7. \A k \in 1 .. n : t[k] = Swapped(t[k - 1], ops[a + k - 1])
  <2> SUFFICES ASSUME NEW k \in 1 .. n PROVE t[k] = Swapped(t[k - 1], ops[a + k - 1])
    OBVIOUS
  <2>1. k - 1 \in 0 .. n
    BY <1>1
  <2>2. t[k - 1] \in Layouts /\ t[k] = SwapOf(sub)[<<k, t[k - 1]>>]
    BY <1>5, <1>6, <2>1 DEF IsTrace
  <2>3. <<k, t[k - 1]>> \in (1 .. Len(sub)) \X Layouts
    BY <1>2, <2>2
  <2>4. sub[k] = ops[a + k - 1]
    BY <1>2
  <2> HIDE DEF sub, n
  <2> QED
    BY <2>2, <2>3, <2>4 DEF SwapOf
<1> HIDE DEF n, sub
<1> DEFINE Left(k) == Computes(From(ops, a + k), t[k], out)
           bad == {k \in 0 .. n : Left(k) # Left(0)}
<1>8. bad = {}
  <2> SUFFICES ASSUME bad # {} PROVE FALSE
    OBVIOUS
  <2> DEFINE k == Min(bad)
  <2>1. bad \subseteq Nat
    OBVIOUS
  <2>2. k \in bad /\ \A j \in bad : k <= j
    BY <2>1, LeastOf
  <2> HIDE DEF k
  <2>3. k \in 0 .. n /\ Left(k) # Left(0)
    BY <2>2
  <2>4. k # 0
    BY <2>3
  <2>5. /\ k \in 1 .. n /\ k - 1 \in 0 .. n /\ ~(k <= k - 1)
        /\ a + (k - 1) \in 1 .. Len(ops) /\ a + (k - 1) + 1 = a + k /\ a + (k - 1) = a + k - 1
        /\ a + (k - 1) \in a .. b - 1
    BY <1>1, <2>3, <2>4
  <2>6. Left(k - 1) = Left(0)
    BY <2>2, <2>5
  <2>7. IsSwap(ops[a + (k - 1)]) /\ t[k - 1] \in Layouts
        /\ t[k] = Swapped(t[k - 1], ops[a + (k - 1)])
    BY <1>6, <1>7, <2>5
  <2>8. Left(k) = Left(k - 1)
    <3> DEFINE j == a + (k - 1)
    <3>1. j \in 1 .. Len(ops) /\ j + 1 = a + k /\ IsSwap(ops[j]) /\ t[k] = Swapped(t[k - 1], ops[j])
      BY <2>5, <2>7
    <3> HIDE DEF j
    <3>2. Computes(From(ops, j + 1), Swapped(t[k - 1], ops[j]), out)
            = Computes(From(ops, j), t[k - 1], out)
      BY <2>7, <3>1, SwapTaken
    <3>3. Left(k) = Computes(From(ops, j + 1), Swapped(t[k - 1], ops[j]), out)
      BY <3>1
    <3> QED
      BY <3>2, <3>3 DEF j
  <2> QED
    BY <2>3, <2>6, <2>8
<1>9. n \in 0 .. n /\ 0 \in 0 .. n /\ a + n = b /\ a + 0 = a
  BY <1>1
<1>10. Left(n) = Left(0)
  BY <1>8, <1>9
<1>11. a = b => n = 0
  BY <1>1 DEF n
<1>12. Absorb(l, sub) \in Layouts /\ Computes(From(ops, b), Absorb(l, sub), out) = Computes(From(ops, a), l, out)
  BY <1>5, <1>6, <1>9, <1>10 DEF n
<1> QED
  BY <1>5, <1>6, <1>11, <1>12 DEF sub

\* A task manager skips the swaps that are next, and stops before another gate, or at the end.
LEMMA SwapsSkipped ==
    ASSUME NEW i, IsCircuit(circuits[i]), NEW t,
           t \in [position : 1 .. Len(Ops(i)) + 1, permutation : Layouts, diagram : Matrices \cup Columns],
           NEW r, r = ApplySwapOperations(i, t)
    PROVE  /\ r \in [position : t.position .. Len(Ops(i)) + 1, permutation : Layouts,
                     diagram : {t.diagram}]
           /\ r.position <= Len(Ops(i)) => ~IsSwap(Ops(i)[r.position])
           /\ Computes(From(Ops(i), r.position), r.permutation, circuits[i].output)
                = Computes(From(Ops(i), t.position), t.permutation, circuits[i].output)
           /\ t.position = Len(Ops(i)) + 1 \/ ~IsSwap(Ops(i)[t.position]) => r = t
<1> DEFINE ops == Ops(i)
           a == t.position
           out == circuits[i].output
           stops == {k \in a .. Len(ops) + 1 : k = Len(ops) + 1 \/ ~IsSwap(ops[k])}
           b == Min(stops)
<1>1. IsProgram(ops) /\ out \in Layouts /\ a \in 1 .. Len(ops) + 1 /\ Len(ops) \in Nat
      /\ t.permutation \in Layouts
  BY DEF IsCircuit, IsProgram, Ops
<1>2. stops \subseteq Nat /\ Len(ops) + 1 \in stops
  BY <1>1
<1>3. b \in stops /\ \A k \in stops : b <= k
  BY <1>2, LeastOf
<1>4. r = [t EXCEPT !.position = b, !.permutation = Absorb(t.permutation, SubSeq(ops, a, b - 1))]
  BY DEF ApplySwapOperations, Absorb
<1> HIDE DEF b
<1>5. b \in a .. Len(ops) + 1 /\ (b = Len(ops) + 1 \/ ~IsSwap(ops[b]))
  BY <1>3
<1>6. \A k \in a .. b - 1 : IsSwap(ops[k])
  <2> SUFFICES ASSUME NEW k \in a .. b - 1 PROVE IsSwap(ops[k])
    OBVIOUS
  <2>1. k \in a .. Len(ops) + 1 /\ ~(b <= k)
    BY <1>1, <1>5
  <2> QED
    BY <1>3, <2>1
<1> DEFINE m == Absorb(t.permutation, SubSeq(ops, a, b - 1))
<1>7. /\ m \in Layouts
      /\ Computes(From(ops, b), m, out) = Computes(From(ops, a), t.permutation, out)
      /\ a = b => m = t.permutation
  BY <1>1, <1>5, <1>6, SwapsTaken
<1> HIDE DEF m, ops
<1>8. r.position = b /\ r.permutation = m /\ r.diagram = t.diagram
      /\ r = [position |-> b, permutation |-> m, diagram |-> t.diagram]
  BY <1>4 DEF m
<1>9. a = Len(ops) + 1 \/ ~IsSwap(ops[a]) => a = b
  <2> SUFFICES ASSUME a = Len(ops) + 1 \/ ~IsSwap(ops[a]) PROVE a = b
    OBVIOUS
  <2>1. a \in stops
    BY <1>1
  <2>2. b <= a /\ a <= b /\ a \in Nat /\ b \in Nat
    BY <1>1, <1>3, <1>5, <2>1
  <2> QED
    BY <2>2
<1>10. b <= Len(ops) => ~IsSwap(ops[b])
  BY <1>1, <1>5
<1>11. a = b => r = t
  BY <1>7, <1>8
<1>12. r \in [position : a .. Len(ops) + 1, permutation : Layouts, diagram : {t.diagram}]
  BY <1>5, <1>7, <1>8
<1> QED
  BY <1>7, <1>8, <1>9, <1>10, <1>11, <1>12 DEF ops

-----------------------------------------------------------------------------------
(* The invariants *)

Diagrams == IF Simulation THEN Columns ELSE Matrices

TaskRecords(i) ==
    [position : 1 .. Len(Ops(i)) + 1, permutation : Layouts, diagram : Diagrams]

Labels == {"new", "loop", "scheme", "advance1", "advance2", "finish1", "finish2", "post1", "post2",
           "check", "returned"}
Executing == {"loop", "scheme", "advance1", "advance2"}

\* The type of every variable
Typed ==
    /\ circuits \in CircuitPairs /\ config \in Configurations
    /\ stimulus \in BasisStates
    /\ position = [i \in Tasks |-> position[i]]
    /\ diagrams = [i \in Tasks |-> diagrams[i]]
    /\ TypeOK

\* What is left of the circuit c, from gate k on, on qubits that hold what l says
Left(c, k, l) == Computes(From(c.ops, k), l, c.output)

\* What a diagram does before R1 and R2, for each basis state
Pairs(D, R1, R2) == {<<R1[D[s]], R2[s]>> : s \in BasisStates}

\* What the diagrams D1 and D2 and the remainders R1 and R2 make up is the circuits c.
MakeUp(alternating, c, origin, D1, D2, R1, R2) ==
    IF alternating
    THEN Pairs(D1, R1, R2)
            = {<<Meaning(c[1])[s], Meaning(c[2])[s]>> : s \in BasisStates}
    ELSE /\ Compose(R1, D1) = Compose(Meaning(c[1]), origin)
         /\ Compose(R2, D2) = Compose(Meaning(c[2]), origin)

MadeUp ==
    MakeUp(Alternating, circuits, Origin(stimulus), diagrams[1], diagrams[2],
           Left(circuits[1], position[1], permutation[1]),
           Left(circuits[2], position[2], permutation[2]))

\* What is left and what there is make up the circuits, at any time.
RemainderInv == pc # "new" /\ CancelsSoundly => MadeUp

\* Unless the checker has been signalled, a task manager has come to the end when it says so.
FinishedInv ==
    /\ pc \in {"new", "loop", "scheme", "post1", "post2", "check", "returned"} => applied = 0
    /\ Alternating \/ ~done =>
         /\ pc \in {"finish2", "post1", "post2", "check"} => position[1] = Len(Ops(1)) + 1
         /\ pc \in {"post2", "check"} => permutation[1] = circuits[1].output
    /\ ~done =>
         /\ pc \in {"post1", "post2", "check"} => position[2] = Len(Ops(2)) + 1
         /\ pc = "check" => permutation[2] = circuits[2].output

\* A circuit without swaps and with a trivial layout keeps that layout.
ElidedInv ==
    pc \in Executing => \A i \in Tasks : Elided(circuits[i]) => permutation[i] = Trivial

\* What is cached is the next gate, which is not a swap, and so remains next.
CacheInv ==
    /\ config.scheme # "lookahead" => \A i \in Tasks : cache[i] = None
    /\ config.scheme = "lookahead" /\ pc = "new" => \A i \in Tasks : cache[i] = None
    /\ config.scheme = "lookahead" /\ pc \in {"advance1", "advance2"} => apply = <<0, 0>>
    /\ pc = "scheme" => \A i \in Tasks : position[i] <= Len(Ops(i)) => ~IsSwap(Ops(i)[position[i]])
    /\ pc \in Executing => \A i \in Tasks : cache[i] # None =>
         /\ position[i] <= Len(Ops(i)) /\ ~IsSwap(Ops(i)[position[i]])
         /\ cache[i] = IF i = 1 THEN GateDD(Ops(i)[position[i]], permutation[1])
                                ELSE InverseGateDD(Ops(i)[position[i]], permutation[2])

\* The verdict is right, once there is one.
VerdictInv ==
    CancelsSoundly =>
        /\ equivalence = "not_equivalent" => Meaning(circuits[1]) # Meaning(circuits[2])
        /\ equivalence = "equivalent" /\ ~Simulation => Meaning(circuits[1]) = Meaning(circuits[2])

-----------------------------------------------------------------------------------
(* Types *)

\* What a checker is given
LEMMA InputFacts ==
    ASSUME Typed
    PROVE  /\ \A i \in Tasks : /\ IsCircuit(circuits[i]) /\ IsProgram(Ops(i)) /\ Len(Ops(i)) \in Nat
                               /\ circuits[i].layout \in Layouts /\ circuits[i].output \in Layouts
                               /\ Ops(i) = circuits[i].ops /\ DOMAIN Ops(i) = 1 .. Len(Ops(i))
           /\ config.kind \in {"alternating", "construction", "simulation"}
           /\ config.scheme \in {"sequential", "one_to_one", "gate_cost", "proportional", "lookahead"}
           /\ config.scheme = "lookahead" => Alternating
           /\ Alternating => ~Simulation
<1>1. \A i \in Tasks : IsCircuit(circuits[i])
  BY InputAssumption DEF Typed, Tasks
<1>2. \A i \in Tasks : IsProgram(Ops(i))
  BY <1>1 DEF IsCircuit, IsProgram, Ops
<1>3. \A i \in Tasks : Len(Ops(i)) \in Nat /\ DOMAIN Ops(i) = 1 .. Len(Ops(i))
  BY <1>2 DEF IsProgram
<1> QED
  BY <1>1, <1>2, <1>3, SchemesAssumption DEF Typed, IsCircuit, Ops, Alternating, Simulation

\* The diagrams of a checker, and their domains
LEMMA DiagramsAre ==
    /\ Diagrams = [IF Simulation THEN {{}} ELSE BasisStates -> BasisStates]
    /\ Diagrams \subseteq Matrices \cup Columns
    /\ \A D \in Diagrams : DOMAIN D = IF Simulation THEN {{}} ELSE BasisStates
  BY DEF Diagrams, Columns, Matrices

\* Multiplying a diagram by a matrix keeps its columns.
LEMMA ComposeIs ==
    ASSUME NEW S, NEW F \in Matrices, NEW D \in [S -> BasisStates]
    PROVE  /\ Compose(F, D) \in [S -> BasisStates] /\ \A s \in S : Compose(F, D)[s] = F[D[s]]
  BY DEF Compose, Matrices

\* What a task manager has, once a run has begun
LEMMA TaskIs ==
    ASSUME Typed, pc # "new", NEW i \in Tasks
    PROVE  /\ Task(i) \in TaskRecords(i)
           /\ Task(i).position = position[i] /\ Task(i).permutation = permutation[i]
           /\ Task(i).diagram = diagrams[Slot(i)] /\ Slot(i) \in Tasks
           /\ i = 1 => Slot(i) = 1
           /\ ~Alternating => Slot(i) = i
           /\ Alternating => Slot(i) = 1
           /\ Finished(i, Task(i)) <=> position[i] = Len(Ops(i)) + 1
           /\ ~Finished(i, Task(i)) <=> position[i] \in 1 .. Len(Ops(i))
           /\ ~Finished(i, Task(i)) <=> position[i] <= Len(Ops(i))
<1>1. position[i] \in 1 .. Len(Ops(i)) + 1 /\ permutation[i] \in Layouts /\ diagrams[Slot(i)] \in Diagrams
  BY DEF Typed, TypeOK, Diagrams
<1>2. Slot(i) \in Tasks /\ (i = 1 => Slot(i) = 1) /\ (~Alternating => Slot(i) = i)
      /\ (Alternating => Slot(i) = 1)
  BY DEF Slot, Tasks
<1>3. Len(Ops(i)) \in Nat
  BY InputFacts
<1> QED
  BY <1>1, <1>2, <1>3 DEF Task, TaskRecords, Finished

\* What a task manager becomes
LEMMA BecomesIs ==
    ASSUME Typed, NEW i \in Tasks, NEW t \in TaskRecords(i), TaskBecomes(i, t), UNCHANGED given
    PROVE  /\ position' = [j \in Tasks |-> position'[j]] /\ diagrams' = [j \in Tasks |-> diagrams'[j]]
           /\ permutation' \in [Tasks -> Layouts]
           /\ position'[i] = t.position /\ permutation'[i] = t.permutation
           /\ diagrams'[Slot(i)] = t.diagram
           /\ \A j \in Tasks \ {i} : position'[j] = position[j] /\ permutation'[j] = permutation[j]
           /\ \A j \in Tasks \ {Slot(i)} : diagrams'[j] = diagrams[j]
<1>1. Slot(i) \in Tasks
  BY DEF Slot, Tasks
<1>2. permutation \in [Tasks -> Layouts] /\ DOMAIN position = Tasks /\ DOMAIN diagrams = Tasks
  BY DEF Typed, TypeOK
<1>3. t.permutation \in Layouts
  BY DEF TaskRecords
<1> QED
  BY <1>1, <1>2, <1>3 DEF TaskBecomes

-----------------------------------------------------------------------------------
(* What a task manager does keeps what is made up. *)

RestOf(i, t) == Left(circuits[i], t.position, t.permutation)

\* From the left, the new diagram and remainder do together what the former did; from the
\* right, what the diagram has gained is what the remainder has lost.
Keeps(i, t, r) ==
    IF FromRight(i)
    THEN \E G, H \in Matrices :
            /\ \A s \in BasisStates : G[H[s]] = s /\ H[G[s]] = s
            /\ r.diagram = Compose(t.diagram, H)
            /\ \A s \in BasisStates : RestOf(i, r)[G[s]] = RestOf(i, t)[s]
    ELSE \A s \in DOMAIN t.diagram : RestOf(i, r)[r.diagram[s]] = RestOf(i, t)[t.diagram[s]]

\* A gate that is applied moves from what is left to the diagram.
LEMMA GateApplied ==
    ASSUME Typed, NEW i \in Tasks, NEW t \in TaskRecords(i), t.position <= Len(Ops(i)),
           NEW r, r = ApplyGate(i, t)
    PROVE  /\ r \in TaskRecords(i) /\ Keeps(i, t, r)
           /\ r.position = t.position + 1 /\ r.permutation = t.permutation
<1> DEFINE ops == Ops(i)
           k == t.position
           l == t.permutation
           out == circuits[i].output
           g == ops[k]
           G == GateDD(g, l)
           H == InverseGateDD(g, l)
<1>1. /\ IsProgram(ops) /\ out \in Layouts /\ Len(ops) \in Nat /\ ops = circuits[i].ops
      /\ k \in 1 .. Len(ops) /\ k + 1 \in 1 .. Len(ops) + 1 /\ l \in Layouts /\ t.diagram \in Diagrams
  BY InputFacts DEF TaskRecords
<1>2. IsGate(g)
  BY <1>1 DEF IsProgram
<1>3. /\ G \in Matrices /\ H \in Matrices
      /\ \A s \in BasisStates : G[H[s]] = s /\ H[G[s]] = s
  BY <1>1, <1>2, GateDDIs
<1>4. \A s \in BasisStates : Computes(From(ops, k + 1), l, out)[G[s]] = Computes(From(ops, k), l, out)[s]
  BY <1>1, GateTaken
<1>5. r = [t EXCEPT !.position = k + 1,
                    !.diagram = IF FromRight(i) THEN Compose(t.diagram, H) ELSE Compose(G, t.diagram)]
  BY DEF ApplyGate
<1> HIDE DEF G, H
<1>6. /\ r.position = k + 1 /\ r.permutation = l
      /\ r.diagram = IF FromRight(i) THEN Compose(t.diagram, H) ELSE Compose(G, t.diagram)
      /\ r = [position |-> r.position, permutation |-> r.permutation, diagram |-> r.diagram]
  BY <1>5 DEF TaskRecords
<1>7. RestOf(i, r) = Computes(From(ops, k + 1), l, out) /\ RestOf(i, t) = Computes(From(ops, k), l, out)
  BY <1>1, <1>6 DEF RestOf, Left
<1>8. CASE FromRight(i)
  <2>1. t.diagram \in Matrices /\ Diagrams = Matrices
    BY <1>1, <1>8, InputFacts DEF FromRight, Diagrams
  <2>2. r.diagram \in Diagrams
    <3>1. Compose(t.diagram, H) \in [BasisStates -> BasisStates]
      BY <1>3, <2>1, ComposeIs DEF Matrices
    <3> QED
      BY <1>6, <1>8, <2>1, <3>1 DEF Matrices
  <2>3. Keeps(i, t, r)
    BY <1>3, <1>4, <1>6, <1>7, <1>8 DEF Keeps
  <2> QED
    BY <1>1, <1>6, <2>2, <2>3 DEF TaskRecords
<1>9. CASE ~FromRight(i)
  <2> DEFINE S == IF Simulation THEN {{}} ELSE BasisStates
  <2>1. Diagrams = [S -> BasisStates] /\ DOMAIN t.diagram = S /\ t.diagram \in [S -> BasisStates]
    BY <1>1, DiagramsAre
  <2> HIDE DEF S
  <2>2. r.diagram \in Diagrams /\ \A s \in S : r.diagram[s] = G[t.diagram[s]]
    BY <1>3, <1>6, <1>9, <2>1, ComposeIs
  <2>3. Keeps(i, t, r)
    BY <1>4, <1>7, <1>9, <2>1, <2>2 DEF Keeps
  <2> QED
    BY <1>1, <1>6, <2>2, <2>3 DEF TaskRecords
<1> QED
  BY <1>8, <1>9

\* Swaps that are absorbed leave the same work.
LEMMA SwapsApplied ==
    ASSUME Typed, NEW i \in Tasks, NEW t \in TaskRecords(i), NEW r, r = ApplySwapOperations(i, t)
    PROVE  /\ r \in TaskRecords(i) /\ r.diagram = t.diagram
           /\ r.position \in t.position .. Len(Ops(i)) + 1
           /\ r.position <= Len(Ops(i)) => ~IsSwap(Ops(i)[r.position])
           /\ RestOf(i, r) = RestOf(i, t)
           /\ t.position = Len(Ops(i)) + 1 \/ ~IsSwap(Ops(i)[t.position]) => r = t
           /\ Elided(circuits[i]) => r = t
<1>1. /\ IsCircuit(circuits[i]) /\ Len(Ops(i)) \in Nat /\ Ops(i) = circuits[i].ops
      /\ DOMAIN Ops(i) = 1 .. Len(Ops(i))
  BY InputFacts
<1>2. t \in [position : 1 .. Len(Ops(i)) + 1, permutation : Layouts, diagram : Matrices \cup Columns]
  BY DiagramsAre DEF TaskRecords
<1>3. /\ r \in [position : t.position .. Len(Ops(i)) + 1, permutation : Layouts,
                diagram : {t.diagram}]
      /\ r.position <= Len(Ops(i)) => ~IsSwap(Ops(i)[r.position])
      /\ Computes(From(Ops(i), r.position), r.permutation, circuits[i].output)
           = Computes(From(Ops(i), t.position), t.permutation, circuits[i].output)
      /\ t.position = Len(Ops(i)) + 1 \/ ~IsSwap(Ops(i)[t.position]) => r = t
  BY <1>1, <1>2, SwapsSkipped
<1>4. t.position \in 1 .. Len(Ops(i)) + 1 /\ t.diagram \in Diagrams
  BY DEF TaskRecords
<1>5. r \in TaskRecords(i)
  BY <1>1, <1>3, <1>4 DEF TaskRecords
<1>6. Elided(circuits[i]) => t.position = Len(Ops(i)) + 1 \/ ~IsSwap(Ops(i)[t.position])
  BY <1>1, <1>4 DEF Elided, Range
<1> QED
  BY <1>1, <1>3, <1>5, <1>6 DEF RestOf, Left

\* So one turn of the loop keeps the work.
LEMMA NextApplied ==
    ASSUME Typed, NEW i \in Tasks, NEW t \in TaskRecords(i), t.position <= Len(Ops(i)),
           NEW r, r = ApplyNext(i, t)
    PROVE  /\ r \in TaskRecords(i) /\ Keeps(i, t, r)
           /\ Elided(circuits[i]) => r.permutation = t.permutation
<1> DEFINE a == ApplyGate(i, t)
<1>1. a \in TaskRecords(i) /\ Keeps(i, t, a) /\ a.permutation = t.permutation
  BY GateApplied
<1> HIDE DEF a
<1>2. r = ApplySwapOperations(i, a)
  BY DEF ApplyNext, a
<1>3. r \in TaskRecords(i) /\ r.diagram = a.diagram /\ RestOf(i, r) = RestOf(i, a)
      /\ (Elided(circuits[i]) => r = a)
  BY <1>1, <1>2, SwapsApplied
<1>4. Keeps(i, t, r)
  BY <1>1, <1>3 DEF Keeps
<1> QED
  BY <1>1, <1>3, <1>4

\* Correcting the permutation at the end keeps it as well.
LEMMA PermutationChanged ==
    ASSUME Typed, NEW i \in Tasks, NEW t \in TaskRecords(i), NEW r, r = ChangePermutation(i, t)
    PROVE  /\ r \in TaskRecords(i)
           /\ t.position = Len(Ops(i)) + 1 => Keeps(i, t, r)
           /\ r.position = t.position /\ r.permutation = circuits[i].output
<1> DEFINE ops == Ops(i)
           k == t.position
           l == t.permutation
           out == circuits[i].output
           G == Renaming(l, out)
           H == Renaming(out, l)
<1>1. /\ IsProgram(ops) /\ out \in Layouts /\ Len(ops) \in Nat /\ ops = circuits[i].ops
      /\ k \in 1 .. Len(ops) + 1 /\ l \in Layouts /\ t.diagram \in Diagrams
  BY InputFacts DEF TaskRecords
<1>2. k = Len(ops) + 1 => From(ops, k) = <<>>
  BY <1>1, FromIs
<1>3. /\ G \in Matrices /\ H \in Matrices
      /\ \A s \in BasisStates : G[H[s]] = s /\ H[G[s]] = s
      /\ Computes(<<>>, l, out) = G /\ Computes(<<>>, out, out) = Identity
  BY <1>1, RenamingIs
<1>4. r = [t EXCEPT !.permutation = out,
                    !.diagram = IF FromRight(i) THEN Compose(t.diagram, H) ELSE Compose(G, t.diagram)]
  BY DEF ChangePermutation
<1> HIDE DEF G, H
<1>5. /\ r.position = k /\ r.permutation = out
      /\ r.diagram = IF FromRight(i) THEN Compose(t.diagram, H) ELSE Compose(G, t.diagram)
      /\ r = [position |-> r.position, permutation |-> r.permutation, diagram |-> r.diagram]
  BY <1>4 DEF TaskRecords
<1>6. k = Len(ops) + 1 => RestOf(i, r) = Identity /\ RestOf(i, t) = G
  BY <1>1, <1>2, <1>3, <1>5 DEF RestOf, Left
<1>7. \A s \in BasisStates : Identity[s] = s /\ G[s] \in BasisStates
  BY <1>3 DEF Identity, Matrices
<1>8. CASE FromRight(i)
  <2>1. t.diagram \in Matrices /\ Diagrams = Matrices
    BY <1>1, <1>8, InputFacts DEF FromRight, Diagrams
  <2>2. r.diagram \in Diagrams
    <3>1. Compose(t.diagram, H) \in [BasisStates -> BasisStates]
      BY <1>3, <2>1, ComposeIs DEF Matrices
    <3> QED
      BY <1>5, <1>8, <2>1, <3>1 DEF Matrices
  <2>3. k = Len(ops) + 1 => Keeps(i, t, r)
    BY <1>3, <1>5, <1>6, <1>7, <1>8 DEF Keeps
  <2> QED
    BY <1>1, <1>5, <2>2, <2>3 DEF TaskRecords
<1>9. CASE ~FromRight(i)
  <2> DEFINE S == IF Simulation THEN {{}} ELSE BasisStates
  <2>1. Diagrams = [S -> BasisStates] /\ DOMAIN t.diagram = S /\ t.diagram \in [S -> BasisStates]
    BY <1>1, DiagramsAre
  <2> HIDE DEF S
  <2>2. r.diagram \in Diagrams /\ \A s \in S : r.diagram[s] = G[t.diagram[s]]
    <3>1. Compose(G, t.diagram) \in [S -> BasisStates]
          /\ \A s \in S : Compose(G, t.diagram)[s] = G[t.diagram[s]]
      <4>1. G \in Matrices
        BY <1>3
      <4>2. t.diagram \in [S -> BasisStates]
        BY <2>1
      <4> QED
        BY <4>1, <4>2 DEF Compose, Matrices
    <3> QED
      BY <1>5, <1>9, <2>1, <3>1
  <2>3. k = Len(ops) + 1 => Keeps(i, t, r)
    BY <1>6, <1>7, <1>9, <2>1, <2>2 DEF Keeps
  <2> QED
    BY <1>1, <1>5, <2>2, <2>3 DEF TaskRecords
<1> QED
  BY <1>8, <1>9

-----------------------------------------------------------------------------------
(* ... whoever does it *)

\* A change on the left, of the first circuit or, in a checker with two diagrams, of either
LEMMA LeftKeeps ==
    ASSUME NEW alternating \in BOOLEAN, NEW c, NEW origin, NEW D1, NEW D2, NEW R1, NEW R2,
           NEW E, NEW S, MakeUp(alternating, c, origin, D1, D2, R1, R2),
           DOMAIN E = DOMAIN D1, \A s \in DOMAIN D1 : S[E[s]] = R1[D1[s]],
           alternating => DOMAIN D1 = BasisStates
    PROVE  MakeUp(alternating, c, origin, E, D2, S, R2)
<1>1. CASE alternating
  <2>1. {<<S[E[s]], R2[s]>> : s \in BasisStates} = {<<R1[D1[s]], R2[s]>> : s \in BasisStates}
    BY <1>1
  <2> QED
    BY <1>1, <2>1 DEF MakeUp, Pairs
<1>2. CASE ~alternating
  <2>1. Compose(S, E) = Compose(R1, D1)
    BY DEF Compose
  <2> QED
    BY <1>2, <2>1 DEF MakeUp
<1> QED
  BY <1>1, <1>2

\* The same for the second of two diagrams
LEMMA SecondKeeps ==
    ASSUME NEW alternating \in BOOLEAN, ~alternating,
           NEW c, NEW origin, NEW D1, NEW D2, NEW R1, NEW R2, NEW E, NEW S,
           MakeUp(alternating, c, origin, D1, D2, R1, R2),
           DOMAIN E = DOMAIN D2, \A s \in DOMAIN D2 : S[E[s]] = R2[D2[s]]
    PROVE  MakeUp(alternating, c, origin, D1, E, R1, S)
<1>1. Compose(S, E) = Compose(R2, D2)
  BY DEF Compose
<1> QED
  BY <1>1 DEF MakeUp

\* A change on the right, where the diagram takes what the second circuit gives
LEMMA RightKeeps ==
    ASSUME NEW D, NEW R1, NEW R2, NEW E, NEW S,
           D \in Matrices, NEW G \in Matrices, NEW H \in Matrices,
           \A s \in BasisStates : G[H[s]] = s /\ H[G[s]] = s,
           E = Compose(D, H), \A s \in BasisStates : S[G[s]] = R2[s]
    PROVE  Pairs(E, R1, S) = Pairs(D, R1, R2)
<1>1. \A s \in BasisStates : /\ H[s] \in BasisStates /\ G[s] \in BasisStates /\ E[s] = D[H[s]]
  BY DEF Compose, Matrices
<1>2. {<<R1[E[s]], S[s]>> : s \in BasisStates} = {<<R1[D[s]], R2[s]>> : s \in BasisStates}
  <2>1. ASSUME NEW s \in BasisStates
        PROVE  \E t \in BasisStates : <<R1[E[s]], S[s]>> = <<R1[D[t]], R2[t]>>
    <3>1. S[s] = R2[H[s]]
      BY <1>1
    <3> QED
      BY <1>1, <3>1
  <2>2. ASSUME NEW t \in BasisStates
        PROVE  \E s \in BasisStates : <<R1[D[t]], R2[t]>> = <<R1[E[s]], S[s]>>
    <3>1. E[G[t]] = D[t] /\ S[G[t]] = R2[t]
      BY <1>1
    <3> QED
      BY <1>1, <3>1
  <2> DEFINE A == {<<R1[E[s]], S[s]>> : s \in BasisStates}
             B == {<<R1[D[s]], R2[s]>> : s \in BasisStates}
  <2>3. \A x \in A : x \in B
    BY <2>1
  <2>4. \A x \in B : x \in A
    BY <2>2
  <2> QED
    BY <2>3, <2>4
<1> QED
  BY <1>2 DEF Pairs

-----------------------------------------------------------------------------------
(* Every step keeps the types. *)

\* The lesser and the greater of two numbers
LEMMA OfTwo ==
    ASSUME NEW a \in Nat, NEW b \in Nat
    PROVE  /\ Min({a, b}) = IF a <= b THEN a ELSE b
           /\ Max({a, b}) = IF a <= b THEN b ELSE a
<1>1. Min({a, b}) \in {a, b} /\ \A y \in {a, b} : Min({a, b}) <= y
  BY LeastOf
<1>2. Max({a, b}) \in {a, b} /\ \A y \in {a, b} : Max({a, b}) >= y
  <2>1. \E x \in {a, b} : \A y \in {a, b} : x >= y
    OBVIOUS
  <2> QED
    BY <2>1 DEF Max
<1> DEFINE m == Min({a, b})
           n == Max({a, b})
<1>3. m \in {a, b} /\ m <= a /\ m <= b /\ n \in {a, b} /\ n >= a /\ n >= b
  BY <1>1, <1>2
<1> HIDE DEF m, n
<1>4. m = (IF a <= b THEN a ELSE b) /\ n = (IF a <= b THEN b ELSE a)
  BY <1>3
<1> QED
  BY <1>4 DEF m, n

\* A quotient of numbers is a number.
LEMMA DivType ==
    ASSUME NEW a \in Nat, NEW b \in Nat \ {0}
    PROVE  a \div b \in Nat
  OBVIOUS

\* Whatever scheme is asked, it says how many gates are next.
LEMMA StepsType ==
    ASSUME Typed, pc # "new", ~AnyFinished, config.scheme # "lookahead"
    PROVE  Steps \in Nat \X Nat
<1>1. \A i \in Tasks : position[i] \in 1 .. Len(Ops(i)) /\ Len(Ops(i)) \in Nat
  BY TaskIs, InputFacts DEF AnyFinished
<1> DEFINE a == Remaining(1)
           b == Remaining(2)
<1>2. a \in Nat \ {0} /\ b \in Nat \ {0} /\ Len(Ops(1)) \in Nat /\ Len(Ops(2)) \in Nat
  <2>1. \A i \in Tasks : Remaining(i) \in Nat \ {0}
    BY <1>1 DEF Remaining
  <2> QED
    BY <1>1, <2>1 DEF Tasks
<1> HIDE DEF a, b
<1>3. config.scheme \in {"sequential", "one_to_one", "gate_cost", "proportional"}
  BY InputFacts
<1>4. GateCost \in Nat
  BY InputAssumption DEF GateCost
<1>5. Proportional \in Nat \X Nat
  <2> DEFINE fewer == Min({a, b})
             more == Max({a, b})
             half == fewer \div 2
             quotient == (more + half) \div fewer
             ratio == Max({quotient, 1})
  <2>1. fewer \in Nat \ {0} /\ more \in Nat
    BY <1>2, OfTwo
  <2> HIDE DEF fewer, more
  <2>2. half \in Nat
    BY <2>1, DivType
  <2> HIDE DEF half
  <2>3. more + half \in Nat
    BY <2>1, <2>2
  <2>4. quotient \in Nat
    BY <2>1, <2>3, DivType
  <2> HIDE DEF quotient
  <2>5. ratio \in Nat
    BY <2>4, OfTwo
  <2>6. Proportional = IF Fused THEN <<1, 1>> ELSE IF a >= b THEN <<ratio, 1>> ELSE <<1, ratio>>
    BY DEF Proportional, a, b, fewer, more, half, quotient
  <2> HIDE DEF ratio
  <2> QED
    BY <2>5, <2>6
<1> QED
  BY <1>2, <1>3, <1>4, <1>5 DEF Steps

\* Nothing cached is not a matrix.
LEMMA NoneIs == None \notin Matrices
<1>1. {} \in BasisStates
  BY DEF BasisStates
<1> QED
  BY <1>1 DEF None, Matrices

\* Types: at first,
LEMMA InitTyped == Init => Typed
<1> SUFFICES ASSUME Init PROVE Typed
  OBVIOUS
<1>1. circuits \in CircuitPairs /\ config \in Configurations /\ stimulus = {} /\ pc = "new"
      /\ position = [i \in Tasks |-> 1] /\ diagrams = [i \in Tasks |-> None]
      /\ permutation = [i \in Tasks |-> circuits[i].layout] /\ cache = [i \in Tasks |-> None]
      /\ apply = <<0, 0>> /\ applied = 0 /\ done = FALSE /\ equivalence = "no_information"
  BY DEF Init
<1>2. \A i \in Tasks : IsCircuit(circuits[i])
  BY <1>1, InputAssumption DEF Tasks
<1>3. \A i \in Tasks : 1 \in 1 .. Len(Ops(i)) + 1 /\ circuits[i].layout \in Layouts
  BY <1>2 DEF IsCircuit, Ops
<1>4. TypeOK
  BY <1>1, <1>3 DEF TypeOK
<1> QED
  BY <1>1, <1>4 DEF Typed, BasisStates

\* What a run starts from
LEMMA OriginType ==
    ASSUME NEW s \in BasisStates
    PROVE  Origin(s) \in Diagrams
  BY DEF Origin, Diagrams, Column, Columns, Identity, Matrices

\* when a run begins,
LEMMA RunTyped ==
    ASSUME Typed, Run
    PROVE  Typed'
<1>1. UNCHANGED <<circuits, config, cache, apply, applied, done, equivalence>> /\ pc' = "loop"
  BY DEF Run, given, counters
<1>2. stimulus' \in Stimuli \cup {{}} /\ stimulus' \in BasisStates
  <2>1. CASE Simulation
    BY <2>1, InputAssumption DEF Run
  <2>2. CASE ~Simulation
    BY <2>2 DEF Run, Typed, TypeOK
  <2> QED
    BY <2>1, <2>2
<1>3. /\ position' = [i \in Tasks |-> 1] /\ permutation' = [i \in Tasks |-> circuits[i].layout]
      /\ diagrams' = [i \in Tasks |-> IF Slot(i) = i THEN Origin(stimulus') ELSE None]
  BY DEF Run, Initialize
<1>4. \A i \in Tasks : 1 \in 1 .. Len(Ops(i)) + 1 /\ circuits[i].layout \in Layouts
  BY InputFacts
<1>5. \A i \in Tasks : diagrams'[Slot(i)] \in Diagrams
  <2>1. \A i \in Tasks : Slot(i) \in Tasks /\ Slot(Slot(i)) = Slot(i)
    BY DEF Slot, Tasks
  <2>2. Origin(stimulus') \in Diagrams
    BY <1>2, OriginType
  <2> QED
    BY <1>3, <2>1, <2>2
<1>6. TypeOK'
  BY <1>1, <1>2, <1>3, <1>4, <1>5 DEF Typed, TypeOK, Diagrams, Slot, Alternating, Simulation, Ops
<1> QED
  BY <1>1, <1>2, <1>3, <1>6 DEF Typed

\* When the tasks alone change, and for labels and numbers
LEMMA TasksTyped ==
    ASSUME Typed, pc # "new",
           UNCHANGED <<circuits, config, stimulus, done, equivalence>>,
           position' = [i \in Tasks |-> position'[i]], diagrams' = [i \in Tasks |-> diagrams'[i]],
           \A i \in Tasks : position'[i] \in 1 .. Len(Ops(i)) + 1,
           permutation' \in [Tasks -> Layouts],
           \A i \in Tasks : diagrams'[Slot(i)] \in Diagrams,
           cache' \in [Tasks -> Matrices \cup {None}],
           apply' \in Nat \X Nat, applied' \in Nat, pc' \in Labels
    PROVE  Typed'
<1>1. TypeOK'
  BY DEF Typed, TypeOK, Diagrams, Slot, Alternating, Simulation, Ops, Labels
<1> QED
  BY <1>1 DEF Typed

\* When they do not change
LEMMA RestTyped ==
    ASSUME Typed, pc # "new", UNCHANGED <<circuits, config, stimulus, done, equivalence>>,
           UNCHANGED <<position, permutation, diagrams>>,
           cache' \in [Tasks -> Matrices \cup {None}],
           apply' \in Nat \X Nat, applied' \in Nat, pc' \in Labels
    PROVE  Typed'
<1>1. \A i \in Tasks : diagrams[Slot(i)] \in Diagrams
  BY DEF Typed, TypeOK, Diagrams
<1> QED
  BY <1>1, TasksTyped DEF Typed, TypeOK

\* and in each of its steps.
LEMMA StepTyped ==
    ASSUME Typed, Step
    PROVE  Typed' /\ pc # "new"
<1>0. pc # "new"
  BY DEF Step, LeaveLoop, SkipSwaps, NothingToApply, Cancel, QueryScheme, Lookahead, Advance,
     LeaveAdvance, Finish, LeaveFinish, PostprocessTask, CheckEquivalence
<1>1. /\ cache \in [Tasks -> Matrices \cup {None}] /\ apply \in Nat \X Nat /\ applied \in Nat
      /\ pc \in Labels /\ permutation \in [Tasks -> Layouts]
      /\ \A i \in Tasks : position[i] \in 1 .. Len(Ops(i)) + 1 /\ diagrams[Slot(i)] \in Diagrams
      /\ position = [i \in Tasks |-> position[i]] /\ diagrams = [i \in Tasks |-> diagrams[i]]
  BY <1>0 DEF Typed, TypeOK, Labels, Diagrams
<1>2. CASE LeaveLoop \/ NothingToApply
  BY <1>0, <1>1, <1>2, RestTyped DEF LeaveLoop, NothingToApply, given, tasks, counters, Labels
<1>3. CASE SkipSwaps
  <2> DEFINE t == [i \in Tasks |-> ApplySwapOperations(i, Task(i))]
  <2>1. \A i \in Tasks : t[i] \in TaskRecords(i)
    BY <1>0, TaskIs, SwapsApplied
  <2>2. \A i \in Tasks : t[i].position \in 1 .. Len(Ops(i)) + 1 /\ t[i].permutation \in Layouts
    BY <2>1 DEF TaskRecords
  <2>3. /\ position' = [i \in Tasks |-> t[i].position]
        /\ permutation' = [i \in Tasks |-> t[i].permutation]
        /\ UNCHANGED <<circuits, config, stimulus, done, equivalence, cache, apply, applied, diagrams>>
        /\ pc' = "scheme"
    BY <1>3 DEF SkipSwaps, given, counters
  <2> HIDE DEF t
  <2>4. permutation' \in [Tasks -> Layouts] /\ \A i \in Tasks : position'[i] \in 1 .. Len(Ops(i)) + 1
    BY <2>2, <2>3
  <2>5. position' = [i \in Tasks |-> position'[i]] /\ diagrams' = [i \in Tasks |-> diagrams'[i]]
    BY <1>1, <2>3
  <2> QED
    BY <1>0, <1>1, <2>3, <2>4, <2>5, TasksTyped DEF Labels
<1>4. CASE Cancel
  <2>1. \A i \in Tasks : position[i] \in 1 .. Len(Ops(i)) /\ Len(Ops(i)) \in Nat
    BY <1>0, <1>4, TaskIs, InputFacts DEF Cancel, Stopped, AnyFinished
  <2>2. \A i \in Tasks : position[i] + 1 \in 1 .. Len(Ops(i)) + 1
    BY <2>1
  <2>3. /\ position' = [i \in Tasks |-> position[i] + 1] /\ pc' = "loop"
        /\ UNCHANGED <<circuits, config, stimulus, done, equivalence, cache, apply, applied,
                       permutation, diagrams>>
    BY <1>4 DEF Cancel, given, counters
  <2>4. position' = [i \in Tasks |-> position'[i]] /\ diagrams' = [i \in Tasks |-> diagrams'[i]]
        /\ \A i \in Tasks : position'[i] \in 1 .. Len(Ops(i)) + 1
    BY <1>1, <2>2, <2>3
  <2> QED
    BY <1>0, <1>1, <2>3, <2>4, TasksTyped DEF Labels
<1>5. CASE QueryScheme
  <2>1. apply' \in Nat \X Nat
    BY <1>0, <1>5, StepsType DEF QueryScheme, Stopped
  <2> QED
    BY <1>0, <1>1, <1>5, <2>1, RestTyped DEF QueryScheme, given, tasks, Labels
<1>6. CASE Lookahead
  <2>1. Alternating /\ Diagrams = Matrices
    BY <1>6, InputFacts DEF Lookahead, Diagrams
  <2>2. \A i \in Tasks : /\ position[i] \in 1 .. Len(Ops(i)) /\ Len(Ops(i)) \in Nat
                         /\ IsGate(Ops(i)[position[i]])
    BY <1>0, <1>6, TaskIs, InputFacts DEF Lookahead, Stopped, AnyFinished, IsProgram
  <2>3. Upcoming \in [Tasks -> Matrices]
    <3>1. \A i \in Tasks : cache[i] # None => cache[i] \in Matrices
      BY <1>1
    <3>2. GateDD(Ops(1)[position[1]], permutation[1]) \in Matrices
          /\ InverseGateDD(Ops(2)[position[2]], permutation[2]) \in Matrices
      BY <1>1, <2>2, GateDDIs DEF Tasks
    <3> QED
      BY <3>1, <3>2 DEF Upcoming, Tasks
  <2>4. diagrams[1] \in Matrices
    BY <1>1, <2>1 DEF Slot, Tasks
  <2>5. PICK i \in Tasks :
          /\ diagrams' = [diagrams EXCEPT ![1] = IF i = 1 THEN Compose(Upcoming[1], @)
                                                          ELSE Compose(@, Upcoming[2])]
          /\ cache' = [Upcoming EXCEPT ![i] = None]
          /\ position' = [position EXCEPT ![i] = @ + 1]
    BY <1>6 DEF Lookahead
  <2>6. /\ apply' = <<0, 0>> /\ pc' = "advance1"
        /\ UNCHANGED <<circuits, config, stimulus, done, equivalence, applied, permutation>>
    BY <1>6 DEF Lookahead, given
  <2>7. Compose(Upcoming[1], diagrams[1]) \in Matrices /\ Compose(diagrams[1], Upcoming[2]) \in Matrices
    <3>1. Upcoming[1] \in [BasisStates -> BasisStates] /\ Upcoming[2] \in [BasisStates -> BasisStates]
          /\ diagrams[1] \in [BasisStates -> BasisStates]
      BY <2>3, <2>4 DEF Tasks, Matrices
    <3> QED
      BY <3>1 DEF Compose, Matrices
  <2>8. \A j \in Tasks : diagrams'[Slot(j)] \in Diagrams
    <3>1. \A j \in Tasks : Slot(j) = 1
      BY <2>1 DEF Slot
    <3>2. diagrams'[1] \in Matrices
      BY <1>1, <2>5, <2>7 DEF Tasks
    <3> QED
      BY <2>1, <3>1, <3>2
  <2>9. cache' \in [Tasks -> Matrices \cup {None}]
    BY <2>3, <2>5
  <2>10. /\ \A j \in Tasks : position'[j] \in 1 .. Len(Ops(j)) + 1
         /\ position' = [j \in Tasks |-> position'[j]] /\ diagrams' = [j \in Tasks |-> diagrams'[j]]
    <3>1. \A j \in Tasks : position[j] + 1 \in 1 .. Len(Ops(j)) + 1
      BY <2>2
    <3> QED
      BY <1>1, <2>5, <3>1
  <2>11. <<0, 0>> \in Nat \X Nat
    OBVIOUS
  <2> QED
    BY <1>0, <1>1, <2>6, <2>8, <2>9, <2>10, <2>11, TasksTyped DEF Labels
<1>7. ASSUME NEW i \in Tasks, Advance(i, "advance1") \/ Advance(i, "advance2")
                              \/ Finish(i, "finish1") \/ Finish(i, "finish2")
      PROVE  Typed'
  <2> DEFINE t == Task(i)
             r == ApplyNext(i, t)
  <2>1. /\ ~Finished(i, t) /\ TaskBecomes(i, r) /\ applied' = applied + 1
        /\ UNCHANGED <<circuits, config, stimulus, cache, apply, pc, done, equivalence>>
    BY <1>7 DEF Advance, Finish, given
  <2>2. t \in TaskRecords(i) /\ t.position <= Len(Ops(i))
    BY <1>0, <2>1, TaskIs
  <2>3. r \in TaskRecords(i)
    BY <2>2, NextApplied
  <2> HIDE DEF r
  <2>4. UNCHANGED given
    BY <2>1 DEF given
  <2>5. /\ position' = [j \in Tasks |-> position'[j]] /\ diagrams' = [j \in Tasks |-> diagrams'[j]]
        /\ permutation' \in [Tasks -> Layouts]
        /\ position'[i] = r.position
        /\ diagrams'[Slot(i)] = r.diagram
        /\ \A j \in Tasks \ {i} : position'[j] = position[j]
        /\ \A j \in Tasks \ {Slot(i)} : diagrams'[j] = diagrams[j]
    BY <2>1, <2>3, <2>4, BecomesIs
  <2>6. r.position \in 1 .. Len(Ops(i)) + 1 /\ r.diagram \in Diagrams
    BY <2>3 DEF TaskRecords
  <2>7. \A j \in Tasks : position'[j] \in 1 .. Len(Ops(j)) + 1 /\ diagrams'[Slot(j)] \in Diagrams
    BY <1>0, <1>1, <2>5, <2>6, TaskIs
  <2>8. applied' \in Nat
    BY <1>1, <2>1
  <2> QED
    BY <1>0, <1>1, <2>1, <2>5, <2>7, <2>8, TasksTyped
<1>8. ASSUME NEW i \in Tasks, LeaveAdvance(i, "advance1", "advance2")
                              \/ LeaveAdvance(i, "advance2", "loop")
                              \/ LeaveFinish(i, "finish1", "finish2")
                              \/ LeaveFinish(i, "finish2", "post1")
      PROVE  Typed'
  <2>1. apply' \in Nat \X Nat /\ applied' = 0
    BY <1>1, <1>8 DEF LeaveAdvance, LeaveFinish, Tasks
  <2> QED
    BY <1>0, <1>1, <1>8, <2>1, RestTyped DEF LeaveAdvance, LeaveFinish, given, tasks, Labels
<1>9. ASSUME NEW i \in Tasks, PostprocessTask(i, "post1", "post2") \/ PostprocessTask(i, "post2", "check")
      PROVE  Typed'
  <2>1. UNCHANGED <<circuits, config, stimulus, cache, apply, applied, done, equivalence>> /\ pc' \in Labels
    BY <1>9 DEF PostprocessTask, given, counters, Labels
  <2>2. CASE Skipped(i)
    BY <1>0, <1>1, <1>9, <2>1, <2>2, RestTyped DEF PostprocessTask, tasks
  <2>3. CASE ~Skipped(i)
    <3> DEFINE t == Task(i)
               r == ChangePermutation(i, t)
    <3>1. TaskBecomes(i, r)
      BY <1>9, <2>3 DEF PostprocessTask
    <3>2. t \in TaskRecords(i)
      BY <1>0, TaskIs
    <3>3. r \in TaskRecords(i)
      BY <3>2, PermutationChanged
    <3> HIDE DEF r
    <3>4. UNCHANGED given
      BY <2>1 DEF given
    <3>5. /\ position' = [j \in Tasks |-> position'[j]] /\ diagrams' = [j \in Tasks |-> diagrams'[j]]
          /\ permutation' \in [Tasks -> Layouts]
          /\ position'[i] = r.position
          /\ diagrams'[Slot(i)] = r.diagram
          /\ \A j \in Tasks \ {i} : position'[j] = position[j]
          /\ \A j \in Tasks \ {Slot(i)} : diagrams'[j] = diagrams[j]
      BY <3>1, <3>3, <3>4, BecomesIs
    <3>6. r.position \in 1 .. Len(Ops(i)) + 1 /\ r.diagram \in Diagrams
      BY <3>3 DEF TaskRecords
    <3>7. \A j \in Tasks : position'[j] \in 1 .. Len(Ops(j)) + 1 /\ diagrams'[Slot(j)] \in Diagrams
      BY <1>0, <1>1, <3>5, <3>6, TaskIs
    <3> QED
      BY <1>0, <1>1, <2>1, <3>5, <3>7, TasksTyped
  <2> QED
    BY <2>2, <2>3
<1>10. CASE CheckEquivalence
  <2>1. UNCHANGED <<circuits, config, stimulus, position, permutation, diagrams, cache, apply, applied,
                    done>> /\ pc' = "returned"
        /\ equivalence' \in {"no_information", "equivalent", "not_equivalent"}
    BY <1>10 DEF CheckEquivalence, given, tasks, counters, Typed, TypeOK
  <2>2. TypeOK'
    BY <1>0, <2>1 DEF Typed, TypeOK, Slot, Alternating, Simulation, Ops
  <2>3. circuits' \in CircuitPairs /\ config' \in Configurations /\ stimulus' \in BasisStates
    BY <2>1 DEF Typed
  <2>4. position' = [i \in Tasks |-> position'[i]] /\ diagrams' = [i \in Tasks |-> diagrams'[i]]
    BY <1>1, <2>1
  <2> QED
    BY <1>0, <2>2, <2>3, <2>4 DEF Typed
<1>11. 1 \in Tasks /\ 2 \in Tasks
  BY DEF Tasks
<1> QED
  BY <1>0, <1>2, <1>3, <1>4, <1>5, <1>6, <1>7, <1>8, <1>9, <1>10, <1>11 DEF Step

\* Together, and with signalDone
LEMMA NextTyped ==
    ASSUME Typed, [Next]_vars
    PROVE  Typed'
<1>1. CASE SignalDone
  <2>1. /\ UNCHANGED <<circuits, config, stimulus, position, permutation, diagrams, cache, apply,
                      applied, pc, equivalence>>
        /\ done' = TRUE
    BY <1>1 DEF SignalDone, given, tasks, counters
  <2>2. TypeOK'
    BY <2>1 DEF Typed, TypeOK, Slot, Alternating, Simulation, Ops
  <2> QED
    BY <2>1, <2>2 DEF Typed
<1>2. CASE UNCHANGED vars
  <2>1. UNCHANGED <<circuits, config, stimulus, position, permutation, diagrams, cache, apply,
                    applied, pc, done, equivalence>>
    BY <1>2 DEF vars, given, tasks, counters
  <2>2. TypeOK'
    BY <2>1 DEF Typed, TypeOK, Slot, Alternating, Simulation, Ops
  <2> QED
    BY <2>1, <2>2 DEF Typed
<1> QED
  BY <1>1, <1>2, RunTyped, StepTyped DEF Next

-----------------------------------------------------------------------------------
(* Task managers come to the end, and their layouts stay what they should be. *)

\* No step but those that call a task manager changes a task.
LEMMA FinishedNext ==
    ASSUME Typed, FinishedInv, [Next]_vars
    PROVE  FinishedInv'
<1>1. CASE UNCHANGED vars
  BY <1>1 DEF vars, given, tasks, counters, FinishedInv, Alternating, Ops
<1>2. CASE SignalDone
  BY <1>2 DEF SignalDone, given, tasks, counters, FinishedInv, Alternating, Ops
<1>3. CASE Run
  BY <1>3 DEF Run, given, counters, FinishedInv
<1>4. CASE LeaveLoop \/ SkipSwaps \/ NothingToApply \/ Cancel \/ QueryScheme \/ Lookahead
  BY <1>4 DEF LeaveLoop, SkipSwaps, NothingToApply, Cancel, QueryScheme, Lookahead, counters, FinishedInv
<1>5. ASSUME NEW i \in Tasks, Advance(i, "advance1") \/ Advance(i, "advance2")
                              \/ LeaveAdvance(i, "advance1", "advance2")
                              \/ LeaveAdvance(i, "advance2", "loop")
                              \/ Finish(i, "finish1")
      PROVE  FinishedInv'
  BY <1>5 DEF Advance, LeaveAdvance, Finish, FinishedInv
<1>6. CASE LeaveFinish(1, "finish1", "finish2")
  <2>1. UNCHANGED <<circuits, config, position, permutation, done>> /\ applied' = 0 /\ pc' = "finish2"
    BY <1>6 DEF LeaveFinish, given, tasks
  <2>2. Alternating \/ ~done => position[1] = Len(Ops(1)) + 1
    BY <1>6, TaskIs DEF LeaveFinish, Skipped, ReadsDone, Tasks
  <2> QED
    BY <2>1, <2>2 DEF FinishedInv, Alternating, Ops
<1>7. CASE Finish(2, "finish2")
  <2>1. UNCHANGED <<circuits, config, done>> /\ pc = "finish2" /\ pc' = "finish2"
    BY <1>7 DEF Finish, given
  <2>2. position'[1] = position[1]
    BY <1>7 DEF Finish, TaskBecomes, Typed, Tasks
  <2> QED
    BY <2>1, <2>2 DEF FinishedInv, Alternating, Ops
<1>8. CASE LeaveFinish(2, "finish2", "post1")
  <2>1. UNCHANGED <<circuits, config, position, permutation, done>> /\ applied' = 0
        /\ pc = "finish2" /\ pc' = "post1"
    BY <1>8 DEF LeaveFinish, given, tasks
  <2>2. ~done => position[2] = Len(Ops(2)) + 1
    BY <1>8, <2>1, TaskIs DEF LeaveFinish, Skipped, Tasks
  <2> QED
    BY <2>1, <2>2 DEF FinishedInv, Alternating, Ops
<1>9. CASE PostprocessTask(1, "post1", "post2")
  <2>1. UNCHANGED <<circuits, config, done, applied>> /\ pc = "post1" /\ pc' = "post2"
    BY <1>9 DEF PostprocessTask, given, counters
  <2>2. CASE Skipped(1)
    <3>1. UNCHANGED <<position, permutation>> /\ done /\ ~Alternating
      BY <1>9, <2>1, <2>2 DEF PostprocessTask, tasks, Skipped, ReadsDone
    <3> QED
      BY <2>1, <3>1 DEF FinishedInv, Alternating, Ops
  <2>3. CASE ~Skipped(1)
    <3>1. TaskBecomes(1, ChangePermutation(1, Task(1)))
      BY <1>9, <2>3 DEF PostprocessTask
    <3>2. position' = position /\ permutation'[1] = circuits[1].output
      BY <3>1 DEF TaskBecomes, ChangePermutation, Task, Typed, TypeOK, Tasks
    <3> QED
      BY <2>1, <3>2 DEF FinishedInv, Alternating, Ops
  <2> QED
    BY <2>2, <2>3
<1>10. CASE PostprocessTask(2, "post2", "check")
  <2>1. UNCHANGED <<circuits, config, done, applied>> /\ pc = "post2" /\ pc' = "check"
    BY <1>10 DEF PostprocessTask, given, counters
  <2>2. CASE Skipped(2)
    <3>1. UNCHANGED <<position, permutation>> /\ done
      BY <1>10, <2>1, <2>2 DEF PostprocessTask, tasks, Skipped
    <3> QED
      BY <2>1, <3>1 DEF FinishedInv, Alternating, Ops
  <2>3. CASE ~Skipped(2)
    <3>1. TaskBecomes(2, ChangePermutation(2, Task(2)))
      BY <1>10, <2>3 DEF PostprocessTask
    <3>2. position' = position /\ permutation'[2] = circuits[2].output
      BY <3>1 DEF TaskBecomes, ChangePermutation, Task, Typed, TypeOK, Tasks
    <3>3. permutation'[1] = permutation[1]
      BY <3>1 DEF TaskBecomes, Typed, TypeOK, Tasks
    <3> QED
      BY <2>1, <3>2, <3>3 DEF FinishedInv, Alternating, Ops
  <2> QED
    BY <2>2, <2>3
<1>11. CASE CheckEquivalence
  BY <1>11 DEF CheckEquivalence, counters, FinishedInv
<1>12. 1 \in Tasks /\ 2 \in Tasks
  BY DEF Tasks
<1> QED
  BY <1>1, <1>2, <1>3, <1>4, <1>5, <1>6, <1>7, <1>8, <1>9, <1>10, <1>11, <1>12 DEF Next, Step

\* A circuit without swaps keeps its layout: none of its gates is absorbed.
LEMMA ElidedNext ==
    ASSUME Typed, ElidedInv, [Next]_vars
    PROVE  ElidedInv'
<1>1. CASE UNCHANGED <<circuits, permutation>> /\ (pc' \in Executing => pc \in Executing)
  BY <1>1 DEF ElidedInv
<1>2. CASE Run
  BY <1>2 DEF Run, Initialize, given, ElidedInv, Elided
<1>3. CASE SkipSwaps
  <2>1. pc \in Executing /\ pc # "new"
    BY <1>3 DEF SkipSwaps, Executing
  <2>2. \A i \in Tasks : Elided(circuits[i]) =>
           ApplySwapOperations(i, Task(i)).permutation = permutation[i]
    BY <2>1, TaskIs, SwapsApplied
  <2> QED
    BY <1>3, <2>1, <2>2 DEF SkipSwaps, given, ElidedInv
<1>4. ASSUME NEW i \in Tasks, Advance(i, "advance1") \/ Advance(i, "advance2")
      PROVE  ElidedInv'
  <2> DEFINE t == Task(i)
             r == ApplyNext(i, t)
  <2>1. pc \in Executing /\ pc # "new" /\ ~Finished(i, t) /\ TaskBecomes(i, r) /\ circuits' = circuits
    BY <1>4 DEF Advance, Executing, given
  <2>2. t \in TaskRecords(i) /\ t.position <= Len(Ops(i)) /\ t.permutation = permutation[i]
    BY <2>1, TaskIs
  <2>3. Elided(circuits[i]) => r.permutation = permutation[i]
    BY <2>2, NextApplied
  <2> HIDE DEF r
  <2>4. permutation' = [permutation EXCEPT ![i] = r.permutation] /\ DOMAIN permutation = Tasks
    BY <2>1 DEF TaskBecomes, Typed, TypeOK
  <2> QED
    BY <2>1, <2>3, <2>4 DEF ElidedInv
<1>5. ASSUME NEW i \in Tasks, Finish(i, "finish1") \/ Finish(i, "finish2")
                              \/ PostprocessTask(i, "post1", "post2")
                              \/ PostprocessTask(i, "post2", "check")
      PROVE  ElidedInv'
  BY <1>5 DEF Finish, PostprocessTask, ElidedInv, Executing
<1>6. UNCHANGED vars \/ SignalDone \/ LeaveLoop \/ NothingToApply \/ Cancel \/ QueryScheme \/ Lookahead
      \/ CheckEquivalence => ElidedInv'
  BY <1>1 DEF vars, given, tasks, SignalDone, LeaveLoop, NothingToApply, Cancel, QueryScheme, Lookahead,
     CheckEquivalence, Executing
<1>7. ASSUME NEW i \in Tasks, LeaveAdvance(i, "advance1", "advance2")
                              \/ LeaveAdvance(i, "advance2", "loop")
                              \/ LeaveFinish(i, "finish1", "finish2")
                              \/ LeaveFinish(i, "finish2", "post1")
      PROVE  ElidedInv'
  BY <1>1, <1>7 DEF given, tasks, LeaveAdvance, LeaveFinish, Executing
<1>8. 1 \in Tasks /\ 2 \in Tasks
  BY DEF Tasks
<1> QED
  BY <1>2, <1>3, <1>4, <1>5, <1>6, <1>7, <1>8 DEF Next, Step

\* What is cached stays the operation of the gate that is next.
LEMMA CacheNext ==
    ASSUME Typed, CacheInv, [Next]_vars
    PROVE  CacheInv'
<1>1. CASE UNCHANGED <<circuits, config, position, permutation, cache, apply, pc>>
  BY <1>1 DEF CacheInv, Ops
<1>2. CASE /\ UNCHANGED <<config, cache>> /\ config.scheme # "lookahead" /\ pc' # "scheme"
  BY <1>2 DEF CacheInv
<1>3. CASE UNCHANGED <<config, cache>> /\ pc' \in Labels \ (Executing \cup {"new"})
  BY <1>3 DEF CacheInv, Executing
<1>4. CASE Run
  <2>1. UNCHANGED <<circuits, config, cache>> /\ pc' = "loop"
    BY <1>4 DEF Run, given
  <2>2. config.scheme = "lookahead" => pc = "new"
    BY <1>4, InputFacts DEF Run
  <2>3. CASE config.scheme = "lookahead"
    BY <2>1, <2>2, <2>3 DEF CacheInv
  <2> QED
    BY <1>2, <2>1, <2>3
<1>5. CASE SkipSwaps
  <2> DEFINE r == [i \in Tasks |-> ApplySwapOperations(i, Task(i))]
  <2>1. /\ pc = "loop" /\ pc' = "scheme" /\ UNCHANGED <<circuits, config, cache>>
        /\ position' = [i \in Tasks |-> r[i].position] /\ permutation' = [i \in Tasks |-> r[i].permutation]
    BY <1>5 DEF SkipSwaps, given
  <2>2. ASSUME NEW i \in Tasks
        PROVE  /\ r[i].position <= Len(Ops(i)) => ~IsSwap(Ops(i)[r[i].position])
               /\ position[i] <= Len(Ops(i)) /\ ~IsSwap(Ops(i)[position[i]]) =>
                    r[i].position = position[i] /\ r[i].permutation = permutation[i]
    BY <2>1, TaskIs, SwapsApplied
  <2> HIDE DEF r
  <2>3. \A i \in Tasks : /\ position'[i] = r[i].position /\ permutation'[i] = r[i].permutation
                         /\ Ops(i)' = Ops(i)
    BY <2>1 DEF Ops
  <2>4. \A i \in Tasks : position'[i] <= Len(Ops(i)') => ~IsSwap(Ops(i)'[position'[i]])
    BY <2>2, <2>3
  <2>5. \A i \in Tasks : cache[i] # None =>
          /\ position[i] <= Len(Ops(i)) /\ ~IsSwap(Ops(i)[position[i]])
          /\ cache[i] = IF i = 1 THEN GateDD(Ops(i)[position[i]], permutation[1])
                                 ELSE InverseGateDD(Ops(i)[position[i]], permutation[2])
    BY <2>1 DEF CacheInv, Executing
  <2>6. \A i \in Tasks : cache[i] # None => position'[i] = position[i] /\ permutation'[i] = permutation[i]
    BY <2>2, <2>3, <2>5
  <2>7. ASSUME NEW i \in Tasks, cache'[i] # None
        PROVE  /\ position'[i] <= Len(Ops(i)') /\ ~IsSwap(Ops(i)'[position'[i]])
               /\ cache'[i] = IF i = 1 THEN GateDD(Ops(i)'[position'[i]], permutation'[1])
                                       ELSE InverseGateDD(Ops(i)'[position'[i]], permutation'[2])
    BY <2>1, <2>3, <2>5, <2>6, <2>7 DEF Tasks
  <2>8. config.scheme # "lookahead" => \A i \in Tasks : cache'[i] = None
    BY <2>1 DEF CacheInv
  <2> QED
    BY <2>1, <2>4, <2>7, <2>8 DEF CacheInv
<1>6. CASE Lookahead
  <2>1. PICK i \in Tasks :
          /\ cache' = [Upcoming EXCEPT ![i] = None]
          /\ position' = [position EXCEPT ![i] = @ + 1]
    BY <1>6 DEF Lookahead
  <2>2. /\ pc = "scheme" /\ pc' = "advance1" /\ apply' = <<0, 0>> /\ config.scheme = "lookahead"
        /\ UNCHANGED <<circuits, config, permutation>>
    BY <1>6 DEF Lookahead, given
  <2>3. \A j \in Tasks : position[j] <= Len(Ops(j)) /\ ~IsSwap(Ops(j)[position[j]])
    <3>1. \A j \in Tasks : position[j] <= Len(Ops(j))
      BY <1>6, <2>2, TaskIs DEF Lookahead, Stopped, AnyFinished
    <3> QED
      BY <2>2, <3>1 DEF CacheInv
  <2>4. \A j \in Tasks : Upcoming[j] = IF j = 1 THEN GateDD(Ops(j)[position[j]], permutation[1])
                                              ELSE InverseGateDD(Ops(j)[position[j]], permutation[2])
    BY <2>2 DEF Upcoming, CacheInv, Executing, Tasks
  <2>5. DOMAIN Upcoming = Tasks /\ DOMAIN position = Tasks
    BY DEF Upcoming, Typed
  <2>6. ASSUME NEW j \in Tasks, cache'[j] # None
        PROVE  j # i /\ cache'[j] = Upcoming[j] /\ position'[j] = position[j] /\ Ops(j)' = Ops(j)
    BY <2>1, <2>2, <2>5, <2>6 DEF Ops
  <2>7. ASSUME NEW j \in Tasks, cache'[j] # None
        PROVE  /\ position'[j] <= Len(Ops(j)') /\ ~IsSwap(Ops(j)'[position'[j]])
               /\ cache'[j] = IF j = 1 THEN GateDD(Ops(j)'[position'[j]], permutation'[1])
                                       ELSE InverseGateDD(Ops(j)'[position'[j]], permutation'[2])
    BY <2>2, <2>3, <2>4, <2>6, <2>7
  <2> QED
    BY <2>2, <2>7 DEF CacheInv
<1>7. ASSUME NEW i \in Tasks, Advance(i, "advance1") \/ Advance(i, "advance2")
      PROVE  CacheInv'
  <2>1. UNCHANGED <<config, cache, pc>> /\ applied < apply[i] /\ pc \in {"advance1", "advance2"}
    BY <1>7 DEF Advance, given
  <2>2. config.scheme # "lookahead"
    <3>1. applied \in Nat
      BY DEF Typed, TypeOK
    <3>2. SUFFICES ASSUME config.scheme = "lookahead" PROVE FALSE
      OBVIOUS
    <3>3. apply[i] = 0
      BY <2>1, <3>2 DEF CacheInv, Tasks
    <3> QED
      BY <2>1, <3>1, <3>3
  <2> QED
    BY <1>2, <2>1, <2>2
<1>8. ASSUME NEW i \in Tasks, LeaveAdvance(i, "advance1", "advance2") \/ LeaveAdvance(i, "advance2", "loop")
      PROVE  CacheInv'
  <2>1. UNCHANGED <<circuits, config, position, permutation, cache>> /\ pc \in {"advance1", "advance2"}
        /\ pc' \in {"advance2", "loop"} /\ apply' = [apply EXCEPT ![i] = 0]
    BY <1>8 DEF LeaveAdvance, given, tasks
  <2>2. config.scheme = "lookahead" => apply' = <<0, 0>>
    BY <2>1 DEF CacheInv, Tasks
  <2> QED
    BY <2>1, <2>2 DEF CacheInv, Executing, Ops
<1>9. ASSUME NEW i \in Tasks, \/ Finish(i, "finish1") \/ Finish(i, "finish2")
                              \/ LeaveFinish(i, "finish1", "finish2") \/ LeaveFinish(i, "finish2", "post1")
                              \/ PostprocessTask(i, "post1", "post2") \/ PostprocessTask(i, "post2", "check")
      PROVE  CacheInv'
  BY <1>3, <1>9 DEF Finish, LeaveFinish, PostprocessTask, given, Labels, Executing
<1>10. LeaveLoop \/ CheckEquivalence => CacheInv'
  BY <1>3 DEF LeaveLoop, CheckEquivalence, given, Labels, Executing
<1>11. Cancel \/ QueryScheme => CacheInv'
  BY <1>2 DEF Cancel, QueryScheme, GatesCancel, given
<1>12. CASE NothingToApply
  BY <1>12 DEF NothingToApply, given, tasks, counters, CacheInv, Executing, Ops
<1>13. UNCHANGED vars \/ SignalDone => CacheInv'
  BY <1>1 DEF vars, given, tasks, counters, SignalDone
<1>14. 1 \in Tasks /\ 2 \in Tasks
  BY DEF Tasks
<1> QED
  BY <1>4, <1>5, <1>6, <1>7, <1>8, <1>9, <1>10, <1>11, <1>12, <1>13, <1>14 DEF Next, Step

-----------------------------------------------------------------------------------
(* The diagrams and what is left make up the circuits. *)

\* Nothing is left to do with what a run starts from.
LEMMA AllIsLeft ==
    ASSUME NEW c, IsCircuit(c)
    PROVE  Left(c, 1, c.layout) = Meaning(c) /\ Meaning(c) \in Matrices
<1>1. IsProgram(c.ops) /\ c.ops \in Seq(Gates) /\ Len(c.ops) \in Nat
  BY DEF IsCircuit, IsProgram
<1>2. /\ From(c.ops, 1) \in Seq(Gates) /\ Len(From(c.ops, 1)) = Len(c.ops)
      /\ \A j \in 1 .. Len(c.ops) : From(c.ops, 1)[j] = c.ops[j]
  <2>1. 1 \in 1 .. Len(c.ops) + 1 /\ Len(c.ops) + 1 - 1 = Len(c.ops)
        /\ \A j \in 1 .. Len(c.ops) : 1 + j - 1 = j
    BY <1>1
  <2>2. /\ IsProgram(From(c.ops, 1)) /\ Len(From(c.ops, 1)) = Len(c.ops) + 1 - 1
        /\ \A j \in 1 .. Len(c.ops) + 1 - 1 : From(c.ops, 1)[j] = c.ops[1 + j - 1]
    BY <1>1, <2>1, FromIs
  <2> QED
    BY <2>1, <2>2 DEF IsProgram
<1>3. From(c.ops, 1) = c.ops
  BY <1>1, <1>2
<1> QED
  BY <1>1, <1>3, ComputesIs DEF IsCircuit, Left, Meaning

\* A task manager that keeps the work keeps what is made up.
LEMMA WorkKeeps ==
    ASSUME Typed, pc # "new", MadeUp, NEW i \in Tasks, NEW r \in TaskRecords(i),
           Keeps(i, Task(i), r), TaskBecomes(i, r), UNCHANGED <<circuits, config, stimulus>>
    PROVE  MadeUp'
<1> DEFINE D1 == diagrams[1]
           D2 == diagrams[2]
           R1 == Left(circuits[1], position[1], permutation[1])
           R2 == Left(circuits[2], position[2], permutation[2])
           o == Origin(stimulus)
           E == r.diagram
           S == RestOf(i, r)
<1>1. MakeUp(Alternating, circuits, o, D1, D2, R1, R2)
  BY DEF MadeUp
<1>2. /\ position'[i] = r.position /\ permutation'[i] = r.permutation
      /\ diagrams'[Slot(i)] = r.diagram
      /\ \A j \in Tasks \ {i} : position'[j] = position[j] /\ permutation'[j] = permutation[j]
      /\ \A j \in Tasks \ {Slot(i)} : diagrams'[j] = diagrams[j]
  BY BecomesIs DEF given
<1>3. /\ Alternating' = Alternating /\ Origin(stimulus)' = o /\ circuits' = circuits
      /\ Alternating \in BOOLEAN
  BY DEF Alternating, Origin, Simulation
<1>4. Left(circuits[i], position[i], permutation[i]) = RestOf(i, Task(i)) /\ Task(i).diagram = diagrams[Slot(i)]
      /\ Task(i).diagram \in Diagrams /\ E \in Diagrams
  BY TaskIs DEF RestOf, TaskRecords
<1>5. DOMAIN E = DOMAIN diagrams[Slot(i)] /\ (Alternating => DOMAIN E = BasisStates)
  BY <1>4, DiagramsAre, InputFacts
<1>6. S = Left(circuits[i], position'[i], permutation'[i])
  BY <1>2 DEF RestOf
<1>7. CASE i = 1
  <2>1. Slot(i) = 1 /\ ~FromRight(i)
    BY <1>7 DEF Slot, FromRight
  <2>2. \A s \in DOMAIN D1 : S[E[s]] = R1[D1[s]]
    BY <1>4, <1>7, <2>1 DEF Keeps
  <2> HIDE DEF E, S, R1, R2, o, D1, D2
  <2>3. MakeUp(Alternating, circuits, o, E, D2, S, R2)
    BY <1>1, <1>3, <1>5, <1>7, <2>1, <2>2, LeftKeeps DEF D1
  <2> QED
    BY <1>2, <1>3, <1>6, <1>7, <2>1, <2>3 DEF MadeUp, Tasks, E, S, R1, R2, o, D1, D2
<1>8. CASE i = 2 /\ ~Alternating
  <2>1. Slot(i) = 2 /\ ~FromRight(i)
    BY <1>8 DEF Slot, FromRight
  <2>2. \A s \in DOMAIN D2 : S[E[s]] = R2[D2[s]]
    BY <1>4, <1>8, <2>1 DEF Keeps
  <2> HIDE DEF E, S, R1, R2, o, D1, D2
  <2>3. MakeUp(Alternating, circuits, o, D1, E, R1, S)
    BY <1>1, <1>3, <1>5, <1>8, <2>1, <2>2, SecondKeeps DEF D2
  <2> QED
    BY <1>2, <1>3, <1>6, <1>8, <2>1, <2>3 DEF MadeUp, Tasks, E, S, R1, R2, o, D1, D2
<1>9. CASE i = 2 /\ Alternating
  <2>1. Slot(i) = 1 /\ FromRight(i) /\ D1 \in Matrices
    BY <1>4, <1>9, InputFacts DEF Slot, FromRight, Diagrams
  <2>2. PICK G \in Matrices, H \in Matrices :
          /\ \A s \in BasisStates : G[H[s]] = s /\ H[G[s]] = s
          /\ E = Compose(D1, H)
          /\ \A s \in BasisStates : S[G[s]] = R2[s]
    BY <1>4, <1>9, <2>1 DEF Keeps
  <2> HIDE DEF E, S, R1, R2, o, D1, D2
  <2>3. MakeUp(Alternating, circuits, o, E, D2, R1, S)
    <3>1. Pairs(E, R1, S) = Pairs(D1, R1, R2)
      BY <2>1, <2>2, RightKeeps
    <3> QED
      BY <1>1, <1>9, <3>1 DEF MakeUp
  <2>4. /\ diagrams'[1] = E /\ diagrams'[2] = D2 /\ position'[1] = position[1]
        /\ permutation'[1] = permutation[1]
    BY <1>2, <1>9, <2>1 DEF Tasks, E, D2
  <2>5. Left(circuits[2], position'[2], permutation'[2]) = S
    BY <1>6, <1>9
  <2> QED
    BY <1>3, <2>3, <2>4, <2>5 DEF MadeUp, R1, o, D2
<1> QED
  BY <1>7, <1>8, <1>9 DEF Tasks

\* What a run starts from makes up the circuits with all of their gates.
LEMMA RunMakesUp ==
    ASSUME Typed, Run
    PROVE  MadeUp'
<1>1. /\ position' = [i \in Tasks |-> 1] /\ permutation' = [i \in Tasks |-> circuits[i].layout]
      /\ diagrams' = [i \in Tasks |-> IF Slot(i) = i THEN Origin(stimulus') ELSE None]
      /\ UNCHANGED <<circuits, config>>
  BY DEF Run, Initialize, given
<1>2. /\ IsCircuit(circuits[1]) /\ IsCircuit(circuits[2])
  BY InputFacts DEF Tasks
<1> DEFINE R1 == Left(circuits[1], position[1], permutation[1])
           R2 == Left(circuits[2], position[2], permutation[2])
           M1 == Meaning(circuits[1])
           M2 == Meaning(circuits[2])
<1>3. R1' = M1 /\ R2' = M2
  BY <1>1, <1>2, AllIsLeft DEF Tasks
<1>4. Alternating' = Alternating /\ Origin(stimulus)' = Origin(stimulus')
  BY <1>1 DEF Alternating, Origin, Simulation
<1>5. CASE Alternating
  <2>1. diagrams'[1] = Identity
    BY <1>1, <1>5, InputFacts DEF Slot, Tasks, Origin
  <2>2. \A s \in BasisStates : Identity[s] = s
    BY DEF Identity
  <2> HIDE DEF R1, R2, M1, M2
  <2>3. {<<R1'[diagrams'[1][s]], R2'[s]>> : s \in BasisStates} = {<<M1[s], M2[s]>> : s \in BasisStates}
    BY <1>3, <2>1, <2>2
  <2> QED
    BY <1>1, <1>4, <1>5, <2>3 DEF MadeUp, MakeUp, Pairs, R1, R2, M1, M2
<1>6. CASE ~Alternating
  <2>1. diagrams'[1] = Origin(stimulus') /\ diagrams'[2] = Origin(stimulus')
    BY <1>1, <1>6 DEF Slot, Tasks
  <2> QED
    BY <1>1, <1>3, <1>4, <1>6, <2>1 DEF MadeUp, MakeUp
<1> QED
  BY <1>5, <1>6

\* Absorbed swaps are done where they are absorbed.
LEMMA SkipSwapsKeeps ==
    ASSUME Typed, MadeUp, SkipSwaps
    PROVE  MadeUp'
<1> DEFINE r == [i \in Tasks |-> ApplySwapOperations(i, Task(i))]
<1>1. /\ pc = "loop" /\ UNCHANGED <<circuits, config, stimulus, diagrams>>
      /\ position' = [i \in Tasks |-> r[i].position] /\ permutation' = [i \in Tasks |-> r[i].permutation]
  BY DEF SkipSwaps, given
<1>2. ASSUME NEW i \in Tasks
      PROVE  Left(circuits[i], r[i].position, r[i].permutation)
               = Left(circuits[i], position[i], permutation[i])
  BY <1>1, TaskIs, SwapsApplied DEF RestOf
<1> HIDE DEF r
<1>3. \A i \in Tasks : Left(circuits[i], position'[i], permutation'[i])
                          = Left(circuits[i], position[i], permutation[i])
  BY <1>1, <1>2
<1> QED
  BY <1>1, <1>3 DEF MadeUp, Tasks, Alternating, Origin, Simulation

\* Gates that cancel are the same operation, as long as neither circuit has lost a swap
\* before them.
LEMMA CancelKeeps ==
    ASSUME Typed, ElidedInv, CancelsSoundly, MadeUp, Cancel
    PROVE  MadeUp'
<1>1. /\ pc = "scheme" /\ UNCHANGED <<circuits, config, stimulus, permutation, diagrams>>
      /\ position' = [i \in Tasks |-> position[i] + 1] /\ Alternating /\ diagrams[1] = Identity
      /\ Ops(1)[position[1]] = Ops(2)[position[2]] /\ ~AnyFinished /\ config.scheme # "lookahead"
  BY DEF Cancel, GatesCancel, given, Stopped
<1>2. \A i \in Tasks : /\ permutation[i] = Trivial /\ permutation[i] \in Layouts
                       /\ position[i] \in 1 .. Len(Ops(i))
                       /\ IsProgram(Ops(i)) /\ circuits[i].output \in Layouts /\ Ops(i) = circuits[i].ops
  BY <1>1, TaskIs, InputFacts DEF AnyFinished, ElidedInv, CancelsSoundly, Executing, Typed, TypeOK
<1> DEFINE k1 == position[1]
           k2 == position[2]
           g == Ops(1)[k1]
           G == GateDD(g, Trivial)
           H == InverseGateDD(g, Trivial)
           o == Origin(stimulus)
           R1 == Left(circuits[1], k1, Trivial)
           R2 == Left(circuits[2], k2, Trivial)
           S1 == Left(circuits[1], k1 + 1, Trivial)
           S2 == Left(circuits[2], k2 + 1, Trivial)
<1>3. IsGate(g) /\ Trivial \in Layouts
  BY <1>2 DEF IsProgram, Tasks
<1>4. /\ G \in Matrices /\ H \in Matrices
      /\ \A s \in BasisStates : G[H[s]] = s /\ H[G[s]] = s
  BY <1>3, GateDDIs
<1>5. \A s \in BasisStates : S1[G[s]] = R1[s]
  BY <1>2, <1>3, GateTaken DEF Left, Tasks
<1>6. \A s \in BasisStates : S2[G[s]] = R2[s]
  <2>1. Ops(2)[k2] = g
    BY <1>1
  <2> QED
    BY <1>2, <1>3, <2>1, GateTaken DEF Left, Tasks
<1>7. MakeUp(Alternating, circuits, o, Identity, diagrams[2], R1, R2)
  BY <1>1, <1>2 DEF MadeUp, Tasks
<1>8. Left(circuits[1], position'[1], permutation'[1]) = S1 /\ Left(circuits[2], position'[2], permutation'[2]) = S2
  BY <1>1, <1>2 DEF Tasks
<1> HIDE DEF G, H, R1, R2, S1, S2, o
<1>9. MakeUp(Alternating, circuits, o, G, diagrams[2], S1, R2)
  <2>1. DOMAIN G = BasisStates /\ DOMAIN Identity = BasisStates /\ \A s \in BasisStates : Identity[s] = s
    BY <1>4 DEF Identity, Matrices
  <2>2. Alternating \in BOOLEAN
    BY DEF Alternating
  <2> QED
    BY <1>5, <1>7, <2>1, <2>2, LeftKeeps
<1>10. Compose(G, H) = Identity
  BY <1>4 DEF Compose, Identity, Matrices
<1>11. MakeUp(Alternating, circuits, o, Identity, diagrams[2], S1, S2)
  <2>1. Pairs(Identity, S1, S2) = Pairs(G, S1, R2)
    BY <1>4, <1>6, <1>10, RightKeeps
  <2> QED
    BY <1>1, <1>9, <2>1 DEF MakeUp
<1> QED
  BY <1>1, <1>8, <1>11 DEF MadeUp, o, Alternating, Origin, Simulation

\* The lookahead scheme applies what is cached, which is the gate that is next.
LEMMA LookaheadKeeps ==
    ASSUME Typed, CacheInv, MadeUp, Lookahead
    PROVE  MadeUp'
<1>1. PICK i \in Tasks :
        /\ diagrams' = [diagrams EXCEPT ![1] = IF i = 1 THEN Compose(Upcoming[1], @)
                                                        ELSE Compose(@, Upcoming[2])]
        /\ position' = [position EXCEPT ![i] = @ + 1]
  BY DEF Lookahead
<1>2. /\ pc = "scheme" /\ config.scheme = "lookahead" /\ Alternating /\ ~AnyFinished
      /\ UNCHANGED <<circuits, config, stimulus, permutation>>
  BY InputFacts DEF Lookahead, given, Stopped
<1>3. \A j \in Tasks : Upcoming[j] = IF j = 1 THEN GateDD(Ops(j)[position[j]], permutation[1])
                                            ELSE InverseGateDD(Ops(j)[position[j]], permutation[2])
  BY <1>2 DEF Upcoming, CacheInv, Executing, Tasks
<1> DEFINE t == Task(i)
           r == ApplyGate(i, t)
<1>4. /\ t \in TaskRecords(i) /\ t.position = position[i] /\ t.permutation = permutation[i]
      /\ t.diagram = diagrams[1] /\ t.position <= Len(Ops(i)) /\ Slot(i) = 1
  BY <1>2, TaskIs DEF AnyFinished
<1>5. r \in TaskRecords(i) /\ Keeps(i, t, r)
  BY <1>4, GateApplied
<1>6. /\ r.position = position[i] + 1 /\ r.permutation = permutation[i]
      /\ r.diagram = IF i = 1 THEN Compose(Upcoming[1], diagrams[1]) ELSE Compose(diagrams[1], Upcoming[2])
  BY <1>2, <1>3, <1>4 DEF ApplyGate, TaskRecords, FromRight, Tasks
<1> HIDE DEF r
<1>7. TaskBecomes(i, r)
  <2>1. permutation' = [permutation EXCEPT ![i] = r.permutation]
    BY <1>2, <1>6 DEF Typed, TypeOK
  <2> QED
    BY <1>1, <1>4, <1>6, <2>1 DEF TaskBecomes
<1> QED
  BY <1>2, <1>5, <1>7, WorkKeeps

\* Every step keeps what is made up.
LEMMA RemainderNext ==
    ASSUME Typed, FinishedInv, ElidedInv, CacheInv, RemainderInv, [Next]_vars
    PROVE  RemainderInv'
<1>1. UNCHANGED <<circuits, config>>
  BY DEF Next, Step, vars, given, Run, SignalDone, LeaveLoop, SkipSwaps, NothingToApply, Cancel, QueryScheme,
     Lookahead, Advance, LeaveAdvance, Finish, LeaveFinish, PostprocessTask, CheckEquivalence
<1>2. CancelsSoundly' = CancelsSoundly
  BY <1>1 DEF CancelsSoundly, Alternating
<1>3. CASE Run
  BY <1>3, RunMakesUp DEF RemainderInv
<1> SUFFICES ASSUME ~Run, CancelsSoundly, pc' # "new"
             PROVE  MadeUp'
  BY <1>2, <1>3 DEF RemainderInv
<1>4. pc # "new" /\ MadeUp
  <2>1. pc # "new"
    BY DEF Next, Step, vars, SignalDone, LeaveLoop, SkipSwaps, NothingToApply, Cancel, QueryScheme,
       Lookahead, Advance, LeaveAdvance, Finish, LeaveFinish, PostprocessTask, CheckEquivalence
  <2> QED
    BY <2>1 DEF RemainderInv
<1>5. CASE UNCHANGED <<circuits, config, stimulus, position, permutation, diagrams>>
  BY <1>4, <1>5 DEF MadeUp, Alternating, Origin, Simulation
<1>6. ASSUME NEW i \in Tasks, Advance(i, "advance1") \/ Advance(i, "advance2")
                              \/ Finish(i, "finish1") \/ Finish(i, "finish2")
      PROVE  MadeUp'
  <2> DEFINE t == Task(i)
             r == ApplyNext(i, t)
  <2>1. ~Finished(i, t) /\ TaskBecomes(i, r) /\ UNCHANGED <<circuits, config, stimulus>>
    BY <1>6 DEF Advance, Finish, given
  <2>2. t \in TaskRecords(i) /\ t.position <= Len(Ops(i))
    BY <1>4, <2>1, TaskIs
  <2>3. r \in TaskRecords(i) /\ Keeps(i, t, r)
    BY <2>2, NextApplied
  <2> HIDE DEF r
  <2> QED
    BY <1>4, <2>1, <2>3, WorkKeeps
<1>7. ASSUME NEW i \in Tasks, \/ i = 1 /\ PostprocessTask(i, "post1", "post2")
                              \/ i = 2 /\ PostprocessTask(i, "post2", "check")
      PROVE  MadeUp'
  <2>1. CASE Skipped(i)
    BY <1>5, <1>7, <2>1 DEF PostprocessTask, given, tasks
  <2>2. CASE ~Skipped(i)
    <3> DEFINE t == Task(i)
               r == ChangePermutation(i, t)
    <3>1. TaskBecomes(i, r) /\ UNCHANGED <<circuits, config, stimulus>>
      BY <1>7, <2>2 DEF PostprocessTask, given
    <3>2. t \in TaskRecords(i) /\ t.position = position[i]
      BY <1>4, TaskIs
    <3>3. position[i] = Len(Ops(i)) + 1
      BY <1>7, <2>2 DEF PostprocessTask, FinishedInv, Skipped, ReadsDone
    <3>4. r \in TaskRecords(i) /\ Keeps(i, t, r)
      BY <3>2, <3>3, PermutationChanged
    <3> HIDE DEF r
    <3> QED
      BY <1>4, <3>1, <3>4, WorkKeeps
  <2> QED
    BY <2>1, <2>2
<1>8. SkipSwaps => MadeUp'
  BY <1>4, SkipSwapsKeeps
<1>9. Cancel => MadeUp'
  BY <1>4, CancelKeeps
<1>10. Lookahead => MadeUp'
  BY <1>4, LookaheadKeeps
<1>11. UNCHANGED vars \/ SignalDone \/ LeaveLoop \/ NothingToApply \/ QueryScheme \/ CheckEquivalence => MadeUp'
  BY <1>5 DEF vars, given, tasks, SignalDone, LeaveLoop, NothingToApply, QueryScheme, CheckEquivalence
<1>12. ASSUME NEW i \in Tasks, LeaveAdvance(i, "advance1", "advance2")
                               \/ LeaveAdvance(i, "advance2", "loop")
                               \/ LeaveFinish(i, "finish1", "finish2")
                               \/ LeaveFinish(i, "finish2", "post1")
       PROVE  MadeUp'
  BY <1>5, <1>12 DEF LeaveAdvance, LeaveFinish, given, tasks
<1>13. 1 \in Tasks /\ 2 \in Tasks
  BY DEF Tasks
<1>14. PostprocessTask(1, "post1", "post2") \/ PostprocessTask(2, "post2", "check") => MadeUp'
  BY <1>7, <1>13
<1>15. Advance(1, "advance1") \/ Advance(2, "advance2") \/ Finish(1, "finish1") \/ Finish(2, "finish2")
         => MadeUp'
  BY <1>6, <1>13
<1>16. LeaveAdvance(1, "advance1", "advance2") \/ LeaveAdvance(2, "advance2", "loop")
       \/ LeaveFinish(1, "finish1", "finish2") \/ LeaveFinish(2, "finish2", "post1") => MadeUp'
  BY <1>12, <1>13
<1> QED
  BY <1>8, <1>9, <1>10, <1>11, <1>14, <1>15, <1>16 DEF Next, Step

-----------------------------------------------------------------------------------
(* Nothing is left at the comparison, unless the run has been interrupted. *)

\* The comparison tells whether the circuits agree: on every input, or on the stimulus.
LEMMA EqualTells ==
    ASSUME Typed, pc = "check", ~done, CancelsSoundly, FinishedInv, MadeUp
    PROVE  /\ Simulation => (Equal <=> Meaning(circuits[1])[stimulus] = Meaning(circuits[2])[stimulus])
           /\ ~Simulation => (Equal <=> Meaning(circuits[1]) = Meaning(circuits[2]))
<1> DEFINE M1 == Meaning(circuits[1])
           M2 == Meaning(circuits[2])
           D1 == diagrams[1]
           D2 == diagrams[2]
<1>1. \A i \in Tasks : Left(circuits[i], position[i], permutation[i]) = Identity
  <2> TAKE i \in Tasks
  <2>1. position[i] = Len(Ops(i)) + 1 /\ permutation[i] = circuits[i].output
    BY DEF FinishedInv, Tasks
  <2>2. /\ IsProgram(Ops(i)) /\ circuits[i].output \in Layouts /\ Ops(i) = circuits[i].ops
        /\ Len(Ops(i)) \in Nat
    BY InputFacts
  <2>3. From(Ops(i), Len(Ops(i)) + 1) = <<>>
    BY <2>2, FromIs
  <2> QED
    BY <2>1, <2>2, <2>3, RenamingIs DEF Left
<1>2. M1 \in Matrices /\ M2 \in Matrices /\ stimulus \in BasisStates
  BY InputFacts, AllIsLeft DEF Tasks, Typed
<1>3. \A s \in BasisStates : Identity[s] = s
  BY DEF Identity
<1>4. MakeUp(Alternating, circuits, Origin(stimulus), D1, D2, Identity, Identity)
  BY <1>1 DEF MadeUp, Tasks
<1>5. CASE Alternating
  <2>1. ~Simulation /\ D1 \in Matrices
    BY <1>5, InputFacts DEF Typed, TypeOK, Slot, Tasks
  <2>2. Pairs(D1, Identity, Identity) = {<<M1[s], M2[s]>> : s \in BasisStates}
    BY <1>4, <1>5 DEF MakeUp
  <2> HIDE DEF M1, M2, D1
  <2>3. \A s \in BasisStates : Identity[D1[s]] = D1[s]
    BY <1>3, <2>1 DEF Matrices
  <2>4. D1 = Identity => M1 = M2
    <3>1. SUFFICES ASSUME D1 = Identity, NEW s \in BasisStates PROVE M1[s] = M2[s]
      BY <1>2 DEF Matrices
    <3>2. <<M1[s], M2[s]>> \in Pairs(D1, Identity, Identity)
      BY <2>2
    <3>3. PICK u \in BasisStates : <<M1[s], M2[s]>> = <<Identity[D1[u]], Identity[u]>>
      BY <3>2 DEF Pairs
    <3> QED
      BY <1>3, <2>3, <3>1, <3>3
  <2>5. M1 = M2 => D1 = Identity
    <3>1. SUFFICES ASSUME M1 = M2, NEW s \in BasisStates PROVE D1[s] = s
      BY <2>1 DEF Matrices, Identity
    <3>2. <<Identity[D1[s]], Identity[s]>> \in {<<M1[u], M2[u]>> : u \in BasisStates}
      BY <2>2 DEF Pairs
    <3> QED
      BY <1>3, <2>3, <3>1, <3>2
  <2> QED
    BY <1>5, <2>1, <2>4, <2>5 DEF Equal, M1, M2, D1
<1>6. CASE ~Alternating
  <2>1. D1 \in Diagrams /\ D2 \in Diagrams
    BY <1>6 DEF Typed, TypeOK, Slot, Tasks, Diagrams
  <2>2. Compose(Identity, D1) = Compose(M1, Origin(stimulus)) /\ Compose(Identity, D2) = Compose(M2, Origin(stimulus))
    BY <1>4, <1>6 DEF MakeUp
  <2> HIDE DEF M1, M2, D1, D2
  <2>3. \A D \in Diagrams : Compose(Identity, D) = D
    BY <1>3, DiagramsAre DEF Compose
  <2>4. D1 = Compose(M1, Origin(stimulus)) /\ D2 = Compose(M2, Origin(stimulus))
    BY <2>1, <2>2, <2>3
  <2>5. CASE Simulation
    <3>1. \A M \in Matrices : Compose(M, Origin(stimulus)) = [k \in {{}} |-> M[stimulus]]
      BY <2>5 DEF Origin, Column, Compose
    <3>2. D1 = [k \in {{}} |-> M1[stimulus]] /\ D2 = [k \in {{}} |-> M2[stimulus]]
      BY <1>2, <2>4, <3>1
    <3>3. D1 = D2 <=> M1[stimulus] = M2[stimulus]
      <4>1. D1[{}] = M1[stimulus] /\ D2[{}] = M2[stimulus]
        BY <3>2
      <4> QED
        BY <3>2, <4>1
    <3> QED
      BY <1>6, <2>5, <3>3 DEF Equal, M1, M2, D1, D2
  <2>6. CASE ~Simulation
    <3>1. \A M \in Matrices : Compose(M, Origin(stimulus)) = M
      BY <1>3, <2>6 DEF Origin, Compose, Identity, Matrices
    <3> QED
      BY <1>2, <1>6, <2>4, <2>6, <3>1 DEF Equal, M1, M2, D1, D2
  <2> QED
    BY <2>5, <2>6
<1> QED
  BY <1>5, <1>6

\* A verdict is given once, when nothing is left.
LEMMA VerdictNext ==
    ASSUME Typed, FinishedInv, RemainderInv, VerdictInv, [Next]_vars
    PROVE  VerdictInv'
<1>1. CASE UNCHANGED <<circuits, config, equivalence>>
  BY <1>1 DEF VerdictInv, CancelsSoundly, Alternating, Simulation
<1>2. CASE CheckEquivalence
  <2>1. /\ UNCHANGED <<circuits, config>> /\ pc = "check"
        /\ equivalence' = IF done THEN equivalence ELSE IF Equal THEN "equivalent" ELSE "not_equivalent"
    BY <1>2 DEF CheckEquivalence, given
  <2>2. CASE done
    BY <1>1, <2>1, <2>2
  <2>3. CASE ~done
    <3> SUFFICES ASSUME CancelsSoundly
                 PROVE  /\ equivalence' = "not_equivalent" => Meaning(circuits[1]) # Meaning(circuits[2])
                        /\ equivalence' = "equivalent" /\ ~Simulation =>
                             Meaning(circuits[1]) = Meaning(circuits[2])
      BY <2>1 DEF VerdictInv, CancelsSoundly, Alternating, Simulation
    <3>1. MadeUp
      BY <2>1 DEF RemainderInv
    <3>2. /\ Simulation => (Equal <=> Meaning(circuits[1])[stimulus] = Meaning(circuits[2])[stimulus])
          /\ ~Simulation => (Equal <=> Meaning(circuits[1]) = Meaning(circuits[2]))
      BY <2>1, <2>3, <3>1, EqualTells
    <3> QED
      BY <2>1, <2>3, <3>2
  <2> QED
    BY <2>2, <2>3
<1>3. ~CheckEquivalence => UNCHANGED <<circuits, config, equivalence>>
  BY DEF Next, Step, vars, given, Run, SignalDone, LeaveLoop, SkipSwaps, NothingToApply, Cancel, QueryScheme,
     Lookahead, Advance, LeaveAdvance, Finish, LeaveFinish, PostprocessTask
<1> QED
  BY <1>1, <1>2, <1>3

-----------------------------------------------------------------------------------
(* The theorems *)

\* The inductive invariant
IInv == Typed /\ FinishedInv /\ ElidedInv /\ CacheInv /\ RemainderInv /\ VerdictInv

\* The invariant holds at first,
LEMMA InitIInv == Init => IInv
<1> SUFFICES ASSUME Init PROVE IInv
  OBVIOUS
<1>1. Typed
  BY InitTyped
<1>2. FinishedInv /\ ElidedInv /\ RemainderInv /\ VerdictInv
  BY DEF Init, FinishedInv, ElidedInv, Executing, RemainderInv, VerdictInv
<1>3. CacheInv
  BY DEF Init, CacheInv, Executing
<1> QED
  BY <1>1, <1>2, <1>3 DEF IInv

\* every step keeps it,
LEMMA NextIInv == IInv /\ [Next]_vars => IInv'
  BY NextTyped, FinishedNext, ElidedNext, CacheNext, RemainderNext, VerdictNext DEF IInv

\* so it holds always.
LEMMA Inductive == Spec => []IInv
  BY InitIInv, NextIInv, PTL DEF Spec

\* Every variable keeps its type, and no iterator goes past the end of its circuit, whatever
\* number of gates a scheme asks for.
THEOREM TypeCorrect == Spec => []TypeOK
<1>1. IInv => TypeOK
  BY DEF IInv, Typed
<1> QED
  BY <1>1, Inductive, PTL

\* At any time the diagrams and the gates not yet applied make up the circuits: no gate is
\* lost, applied twice, on the wrong side or to the wrong qubits, under any application
\* scheme and wherever the run is interrupted.
THEOREM RemainderStaysDecisive == Spec => []RemainderDecides
<1>1. IInv => RemainderDecides
  BY DEF IInv, RemainderInv, MadeUp, MakeUp, Pairs, Left, From, RemainderDecides, Rest, Ops
<1> QED
  BY <1>1, Inductive, PTL

\* What the lookahead scheme has cached is the operation of the gate that is next.
THEOREM CachedStaysCurrent == Spec => []CachedIsCurrent
<1>1. IInv => CachedIsCurrent
  <2> SUFFICES ASSUME IInv, pc \in Executing, NEW i \in Tasks, cache[i] # None
               PROVE  /\ ~Finished(i, Task(i))
                      /\ cache[i] = IF i = 1 THEN GateDD(Ops(i)[position[i]], permutation[1])
                                             ELSE InverseGateDD(Ops(i)[position[i]], permutation[2])
    BY DEF CachedIsCurrent, Executing
  <2>1. Typed /\ CacheInv /\ pc # "new"
    BY DEF IInv, Executing
  <2>2. /\ position[i] <= Len(Ops(i))
        /\ cache[i] = IF i = 1 THEN GateDD(Ops(i)[position[i]], permutation[1])
                               ELSE InverseGateDD(Ops(i)[position[i]], permutation[2])
    BY <2>1 DEF CacheInv
  <2> QED
    BY <2>1, <2>2, TaskIs
<1> QED
  BY <1>1, Inductive, PTL

\* A checker never calls equivalent circuits not equivalent, nor, if it can tell, others
\* equivalent.
THEOREM VerdictIsRight == Spec => []VerdictRight
<1>1. IInv => VerdictRight
  BY DEF IInv, VerdictInv, VerdictRight
<1> QED
  BY <1>1, Inductive, PTL

\* A simulation that is not interrupted tells whether the circuits agree on its stimulus,
\* whatever earlier simulations have left behind.
THEOREM SimulationsJudge == Spec => SimulationJudgesStimulus
<1>1. ASSUME IInv, [Next]_vars, pc = "check", pc' = "returned", Simulation, ~done
      PROVE  equivalence' = "equivalent"
               <=> Meaning(circuits[1])[stimulus] = Meaning(circuits[2])[stimulus]
  <2>1. equivalence' = IF Equal THEN "equivalent" ELSE "not_equivalent"
    BY <1>1 DEF Next, Step, vars, Run, SignalDone, LeaveLoop, SkipSwaps, NothingToApply, Cancel,
       QueryScheme, Lookahead, Advance, LeaveAdvance, Finish, LeaveFinish, PostprocessTask, CheckEquivalence
  <2>2. Typed /\ FinishedInv /\ CancelsSoundly /\ MadeUp
    BY <1>1 DEF IInv, RemainderInv, CancelsSoundly, Alternating, Simulation
  <2>3. Equal <=> Meaning(circuits[1])[stimulus] = Meaning(circuits[2])[stimulus]
    BY <1>1, <2>2, EqualTells
  <2> QED
    BY <2>1, <2>3
<1>2. IInv /\ [Next]_vars =>
        [pc = "check" /\ pc' = "returned" /\ Simulation /\ ~done =>
           (equivalence' = "equivalent"
              <=> Meaning(circuits[1])[stimulus] = Meaning(circuits[2])[stimulus])]_vars
  BY <1>1
<1> QED
  BY <1>2, Inductive, PTL DEF Spec, SimulationJudgesStimulus

================================================================================
