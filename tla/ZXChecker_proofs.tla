---------------------------- MODULE ZXChecker_proofs ----------------------------
(***************************************************************************)
(* The loops of the ZX checker: proofs for every pair of circuits and      *)
(* every diagram, whatever the rules make of one another, and whenever the *)
(* checker is told to stop.                                                *)
(*                                                                         *)
(* ReducedInv is inductive, given Typed and Shaped.  It says of each call  *)
(* under way that, unless something has been rewritten in this round of    *)
(* its loop, the rules that apply are among those that it has yet to try.  *)
(*                                                                         *)
(* JudgedInv is inductive as well: the verdict is what the comparison      *)
(* makes of the wires, and that depends on the circuits alone.  What it    *)
(* makes of them is right because the permutations are what they should    *)
(* be, and because counting the wires that were plugged tells which begin  *)
(* with an ancillary qubit.                                                *)
(***************************************************************************)
EXTENDS ZXChecker, FiniteSetTheorems, TLAPS

Procs == {"fullReduceApproximate", "fullReduce", "clifford", "interiorClifford"}
Names == Procs \cup Rules \cup {"toGraphlike", "approximateCliffords"}
CallRecords ==
    [proc : Procs, part : {"first", "loop"}, todo : Seq(Names), more : BOOLEAN,
     simplified : BOOLEAN]

\* The types of the variables that the loops use
Typed ==
    /\ applicable \subseteq Rules
    /\ calls \in Seq(CallRecords)
    /\ signalled \in BOOLEAN
    /\ pc \in {"construct", "reduce", "returned", "threw", "terminated"}

Interior == {"spider", "id", "pivotPauli", "localComp"}

\* The rules that one round of a procedure tries
Tries(name) ==
    IF name \in Rules THEN {name}
    ELSE IF name = "interiorClifford" THEN Interior
    ELSE IF name = "clifford" THEN Interior \cup {"pivot"}
    ELSE IF name \in {"fullReduce", "fullReduceApproximate"} THEN Rules
    ELSE {}

\* The calls that a procedure makes
Body(c) == IF c.part = "first" THEN First[c.proc] ELSE Round[c.proc]

\* What is left to do of a part is an end of it.
EndOf(todo, body) ==
    /\ Len(todo) <= Len(body)
    /\ \A j \in 1 .. Len(todo) : todo[j] = body[Len(body) - Len(todo) + j]

\* The outermost call is that of fullReduceApproximate, which alone calls fullReduce.
Shaped ==
    \A k \in 1 .. Len(calls) :
        /\ EndOf(calls[k].todo, Body(calls[k]))
        /\ calls[k].proc = "fullReduceApproximate" <=> k = 1
        /\ calls[k].proc = "fullReduce" => k = 2

\* The round of call k has changed nothing so far, nor has any call within it.
Quiet(k) ==
    /\ calls[k].part = "loop"
    /\ \A j \in k .. Len(calls) : ~calls[j].more
    /\ \A j \in k + 1 .. Len(calls) : ~calls[j].simplified

\* A rule that call k need not try, will try, or that the call made by it may try
Pending(k) ==
    {r \in Rules :
        \/ r \notin Tries(calls[k].proc)
        \/ \E j \in 1 .. Len(calls[k].todo) : r \in Tries(calls[k].todo[j])
        \/ k < Len(calls) /\ r \in Tries(calls[k + 1].proc)}

ReducedInv ==
    ~signalled =>
        /\ \A k \in 1 .. Len(calls) : Quiet(k) => applicable \subseteq Pending(k)
        /\ pc = "reduce" /\ calls = <<>> => applicable = {}

IInv == Typed /\ Shaped /\ ReducedInv /\ NothingLeftToReduce

-----------------------------------------------------------------------------
(* The procedures *)

\* What a procedure tries is tried by the calls of one round of it.
LEMMA RoundsTry ==
    ASSUME NEW proc \in Procs
    PROVE  /\ First[proc] \in Seq(Names) /\ Round[proc] \in Seq(Names)
           /\ \A r \in Tries(proc) : \E j \in 1 .. Len(Round[proc]) : r \in Tries(Round[proc][j])
<1>1. CASE proc = "fullReduceApproximate"
  <2>1. First[proc] = <<"fullReduce">> /\ Round[proc] = <<"approximateCliffords", "fullReduce">>
    BY <1>1 DEF First, Round
  <2>2. Round[proc][2] = "fullReduce" /\ 2 \in 1 .. Len(Round[proc])
    BY <2>1
  <2>3. Tries(proc) = Tries("fullReduce")
    BY <1>1 DEF Tries, Rules
  <2> QED
    BY <2>1, <2>2, <2>3 DEF Names, Procs
<1>2. CASE proc = "fullReduce"
  <2>1. /\ First[proc] = <<"toGraphlike", "interiorClifford">>
        /\ Round[proc] = <<"clifford", "gadget", "interiorClifford", "pivotGadget">>
    BY <1>2 DEF First, Round
  <2>2. /\ 1 \in 1 .. Len(Round[proc]) /\ Round[proc][1] = "clifford"
        /\ 2 \in 1 .. Len(Round[proc]) /\ Round[proc][2] = "gadget"
        /\ 4 \in 1 .. Len(Round[proc]) /\ Round[proc][4] = "pivotGadget"
    BY <2>1
  <2>3. Tries(proc) \subseteq Tries("clifford") \cup Tries("gadget") \cup Tries("pivotGadget")
    BY <1>2 DEF Tries, Rules, Interior
  <2> QED
    BY <2>1, <2>2, <2>3 DEF Names, Procs, Rules
<1>3. CASE proc = "clifford"
  <2>1. First[proc] = <<>> /\ Round[proc] = <<"interiorClifford", "pivot">>
    BY <1>3 DEF First, Round
  <2>2. /\ 1 \in 1 .. Len(Round[proc]) /\ Round[proc][1] = "interiorClifford"
        /\ 2 \in 1 .. Len(Round[proc]) /\ Round[proc][2] = "pivot"
    BY <2>1
  <2>3. Tries(proc) \subseteq Tries("interiorClifford") \cup Tries("pivot")
    BY <1>3 DEF Tries, Rules, Interior
  <2> QED
    BY <2>1, <2>2, <2>3 DEF Names, Procs, Rules
<1>4. CASE proc = "interiorClifford"
  <2>1. First[proc] = <<"spider">> /\ Round[proc] = <<"id", "spider", "pivotPauli", "localComp">>
    BY <1>4 DEF First, Round
  <2>2. /\ 1 \in 1 .. Len(Round[proc]) /\ Round[proc][1] = "id"
        /\ 2 \in 1 .. Len(Round[proc]) /\ Round[proc][2] = "spider"
        /\ 3 \in 1 .. Len(Round[proc]) /\ Round[proc][3] = "pivotPauli"
        /\ 4 \in 1 .. Len(Round[proc]) /\ Round[proc][4] = "localComp"
    BY <2>1
  <2>3. Tries(proc) \subseteq Tries("id") \cup Tries("spider") \cup Tries("pivotPauli")
                                \cup Tries("localComp")
    BY <1>4 DEF Tries, Rules, Interior
  <2> QED
    BY <2>1, <2>2, <2>3 DEF Names, Procs, Rules
<1> QED
  BY <1>1, <1>2, <1>3, <1>4 DEF Procs

\* A call as it begins
LEMMA NewCallIs ==
    ASSUME NEW proc \in Procs
    PROVE  /\ NewCall(proc) \in CallRecords
           /\ NewCall(proc).proc = proc /\ NewCall(proc).part = "first"
           /\ EndOf(NewCall(proc).todo, Body(NewCall(proc)))
           /\ NewCall(proc).more = FALSE /\ NewCall(proc).simplified = FALSE
<1>1. First[proc] \in Seq(Names)
  BY RoundsTry
<1>2. /\ NewCall(proc).proc = proc /\ NewCall(proc).part = "first"
      /\ NewCall(proc).todo = First[proc]
      /\ NewCall(proc).more = FALSE /\ NewCall(proc).simplified = FALSE
  BY DEF NewCall
<1>3. NewCall(proc) \in CallRecords
  BY <1>1 DEF NewCall, CallRecords
<1>4. EndOf(NewCall(proc).todo, Body(NewCall(proc)))
  <2>1. Body(NewCall(proc)) = First[proc]
    BY <1>2 DEF Body
  <2>2. Len(First[proc]) \in Nat
    BY <1>1
  <2>3. \A j \in 1 .. Len(First[proc]) : Len(First[proc]) - Len(First[proc]) + j = j
    BY <2>2
  <2> QED
    BY <1>2, <2>1, <2>2, <2>3 DEF EndOf
<1> QED
  BY <1>2, <1>3, <1>4

\* The next call of a part, and what is left after it
LEMMA NextOfPart ==
    ASSUME NEW c \in CallRecords, c.todo # <<>>, EndOf(c.todo, Body(c))
    PROVE  /\ Head(c.todo) \in Names /\ Tail(c.todo) \in Seq(Names)
           /\ Body(c) \in Seq(Names)
           /\ EndOf(Tail(c.todo), Body(c))
           /\ \E j \in 1 .. Len(Body(c)) :
                /\ Head(c.todo) = Body(c)[j]
                /\ \A i \in j + 1 .. Len(Body(c)) :
                     \E m \in 1 .. Len(Tail(c.todo)) : Tail(c.todo)[m] = Body(c)[i]
<1> DEFINE t == c.todo
           b == Body(c)
           rest == Tail(t)
<1>1. t \in Seq(Names) /\ t # <<>>
  BY DEF CallRecords
<1>2. b \in Seq(Names)
  BY RoundsTry DEF CallRecords, Body
<1>3. Len(t) <= Len(b) /\ \A j \in 1 .. Len(t) : t[j] = b[Len(b) - Len(t) + j]
  BY DEF EndOf
<1> HIDE DEF t, b
<1>4. /\ Len(t) \in Nat /\ Len(t) > 0 /\ Len(b) \in Nat /\ Head(t) = t[1] /\ Head(t) \in Names
      /\ rest \in Seq(Names) /\ Len(rest) = Len(t) - 1
      /\ \A j \in 1 .. Len(rest) : rest[j] = t[j + 1]
  BY <1>1, <1>2
<1> HIDE DEF rest
<1>5. EndOf(rest, b)
  <2>1. ASSUME NEW j \in 1 .. Len(rest)
        PROVE  rest[j] = b[Len(b) - Len(rest) + j]
    <3>1. j + 1 \in 1 .. Len(t) /\ Len(b) - Len(rest) + j = Len(b) - Len(t) + (j + 1)
      BY <1>4
    <3> QED
      BY <1>3, <1>4, <3>1
  <2>2. Len(rest) <= Len(b)
    BY <1>3, <1>4
  <2> QED
    BY <2>1, <2>2 DEF EndOf
<1>6. \E j \in 1 .. Len(b) :
        /\ Head(t) = b[j]
        /\ \A i \in j + 1 .. Len(b) : \E m \in 1 .. Len(rest) : rest[m] = b[i]
  <2> DEFINE h == Len(b) - Len(t) + 1
  <2>1. h \in 1 .. Len(b) /\ 1 \in 1 .. Len(t)
    BY <1>3, <1>4
  <2>2. Head(t) = b[h]
    BY <1>3, <1>4, <2>1
  <2>3. ASSUME NEW i \in h + 1 .. Len(b)
        PROVE  \E m \in 1 .. Len(rest) : rest[m] = b[i]
    <3> DEFINE m == i - h
    <3>1. m \in 1 .. Len(rest) /\ Len(b) - Len(rest) + m = i
      BY <1>3, <1>4
    <3>2. rest[m] = b[Len(b) - Len(rest) + m]
      BY <1>5, <3>1 DEF EndOf
    <3> QED
      BY <3>1, <3>2
  <2> QED
    BY <2>1, <2>2, <2>3
<1> QED
  BY <1>2, <1>4, <1>5, <1>6 DEF t, b, rest

\* Who makes which call
LEMMA CallersAre ==
    ASSUME NEW c \in CallRecords, c.todo # <<>>, EndOf(c.todo, Body(c))
    PROVE  /\ Head(c.todo) # "fullReduceApproximate"
           /\ Head(c.todo) = "fullReduce" => c.proc = "fullReduceApproximate"
           /\ Head(c.todo) = "toGraphlike" => c.proc = "fullReduce" /\ c.part = "first"
           /\ Head(c.todo) = "approximateCliffords" =>
                /\ c.proc = "fullReduceApproximate"
                /\ \E m \in 1 .. Len(Tail(c.todo)) : Tail(c.todo)[m] = "fullReduce"
<1> DEFINE b == Body(c)
<1>1. PICK j \in 1 .. Len(b) :
        /\ Head(c.todo) = b[j]
        /\ \A i \in j + 1 .. Len(b) : \E m \in 1 .. Len(Tail(c.todo)) : Tail(c.todo)[m] = b[i]
  BY NextOfPart
<1>2. c.proc \in Procs /\ c.part \in {"first", "loop"}
  BY DEF CallRecords
<1>3. b = IF c.part = "first" THEN First[c.proc] ELSE Round[c.proc]
  BY DEF Body
<1> HIDE DEF b
<1>4. CASE c.proc = "fullReduceApproximate"
  <2>1. CASE c.part = "first"
    <3>1. b = <<"fullReduce">>
      BY <1>3, <1>4, <2>1 DEF First
    <3>2. Head(c.todo) = "fullReduce"
      BY <1>1, <3>1
    <3> QED
      BY <1>4, <3>2
  <2>2. CASE c.part = "loop"
    <3>1. b = <<"approximateCliffords", "fullReduce">>
      BY <1>3, <1>4, <2>2 DEF Round
    <3>2. j \in {1, 2} /\ Len(b) = 2
      BY <1>1, <3>1
    <3>3. CASE j = 1
      <4>1. Head(c.todo) = "approximateCliffords" /\ 2 \in j + 1 .. Len(b)
        BY <1>1, <3>1, <3>2, <3>3
      <4>2. b[2] = "fullReduce"
        BY <3>1
      <4> QED
        BY <1>1, <1>4, <4>1, <4>2
    <3>4. CASE j = 2
      <4>1. Head(c.todo) = "fullReduce"
        BY <1>1, <3>1, <3>4
      <4> QED
        BY <1>4, <4>1
    <3> QED
      BY <3>2, <3>3, <3>4
  <2> QED
    BY <1>2, <2>1, <2>2
<1>5. CASE c.proc = "fullReduce"
  <2>1. CASE c.part = "first"
    <3>1. b = <<"toGraphlike", "interiorClifford">>
      BY <1>3, <1>5, <2>1 DEF First
    <3>2. Head(c.todo) \in {"toGraphlike", "interiorClifford"}
      BY <1>1, <3>1
    <3> QED
      BY <1>5, <2>1, <3>2
  <2>2. CASE c.part = "loop"
    <3>1. b = <<"clifford", "gadget", "interiorClifford", "pivotGadget">>
      BY <1>3, <1>5, <2>2 DEF Round
    <3>2. Head(c.todo) \in {"clifford", "gadget", "interiorClifford", "pivotGadget"}
      BY <1>1, <3>1
    <3> QED
      BY <3>2
  <2> QED
    BY <1>2, <2>1, <2>2
<1>6. CASE c.proc = "clifford"
  <2>1. b \in {<<>>, <<"interiorClifford", "pivot">>}
    BY <1>2, <1>3, <1>6 DEF First, Round
  <2>2. Head(c.todo) \in {"interiorClifford", "pivot"}
    BY <1>1, <2>1
  <2> QED
    BY <2>2
<1>7. CASE c.proc = "interiorClifford"
  <2>1. b \in {<<"spider">>, <<"id", "spider", "pivotPauli", "localComp">>}
    BY <1>2, <1>3, <1>7 DEF First, Round
  <2>2. Head(c.todo) \in Rules
    BY <1>1, <2>1 DEF Rules
  <2> QED
    BY <2>2 DEF Rules
<1> QED
  BY <1>2, <1>4, <1>5, <1>6, <1>7 DEF Procs

-----------------------------------------------------------------------------
(* The stack of calls *)

\* The innermost call
LEMMA TopIs ==
    ASSUME Typed, Shaped, calls # <<>>
    PROVE  /\ Len(calls) \in Nat /\ Len(calls) > 0 /\ Call = calls[Len(calls)]
           /\ Call \in CallRecords /\ EndOf(Call.todo, Body(Call))
           /\ \A k \in 1 .. Len(calls) : calls[k] \in CallRecords
<1>1. calls \in Seq(CallRecords)
  BY DEF Typed
<1>2. Len(calls) \in Nat /\ Len(calls) > 0 /\ \A k \in 1 .. Len(calls) : calls[k] \in CallRecords
  BY <1>1
<1>3. Call = calls[Len(calls)]
  BY DEF Call, Last
<1> QED
  BY <1>2, <1>3 DEF Shaped

\* The stack is well shaped, and only the innermost call is another one, c.
Replaced(s, c) ==
    /\ s \in Seq(CallRecords) /\ Len(s) = Len(calls) /\ s[Len(calls)] = c
    /\ \A k \in 1 .. Len(calls) - 1 : s[k] = calls[k]
    /\ \A k \in 1 .. Len(s) :
         /\ EndOf(s[k].todo, Body(s[k]))
         /\ s[k].proc = "fullReduceApproximate" <=> k = 1
         /\ s[k].proc = "fullReduce" => k = 2

\* Another call replaces the innermost one.
LEMMA TopReplaced ==
    ASSUME Typed, Shaped, calls # <<>>, NEW c \in CallRecords,
           EndOf(c.todo, Body(c)), c.proc = Call.proc,
           NEW s, s = [calls EXCEPT ![Len(calls)] = c]
    PROVE  Replaced(s, c)
<1>1. calls \in Seq(CallRecords) /\ Len(calls) \in Nat /\ Len(calls) > 0
      /\ Call = calls[Len(calls)] /\ Len(calls) \in 1 .. Len(calls)
  BY TopIs DEF Typed
<1>2. /\ s \in Seq(CallRecords) /\ Len(s) = Len(calls) /\ s[Len(calls)] = c
      /\ \A k \in 1 .. Len(calls) : k # Len(calls) => s[k] = calls[k]
  BY <1>1
<1>3. \A k \in 1 .. Len(calls) - 1 : k \in 1 .. Len(calls) /\ k # Len(calls)
  BY <1>1
<1>4. ASSUME NEW k \in 1 .. Len(s)
      PROVE  /\ EndOf(s[k].todo, Body(s[k]))
             /\ s[k].proc = "fullReduceApproximate" <=> k = 1
             /\ s[k].proc = "fullReduce" => k = 2
  <2>1. k \in 1 .. Len(calls) /\ s[k].proc = calls[k].proc
    BY <1>1, <1>2
  <2>2. EndOf(s[k].todo, Body(s[k]))
    BY <1>2, <2>1 DEF Shaped
  <2> QED
    BY <2>1, <2>2 DEF Shaped
<1> QED
  BY <1>2, <1>3, <1>4 DEF Replaced

\* The innermost call once it has made its next call
LEMMA CallMade ==
    ASSUME Typed, Shaped, calls # <<>>, Call.todo # <<>>,
           NEW s, s = [calls EXCEPT ![Len(calls)].todo = Tail(@)]
    PROVE  /\ s = [calls EXCEPT ![Len(calls)] = [Call EXCEPT !.todo = Tail(Call.todo)]]
           /\ [Call EXCEPT !.todo = Tail(Call.todo)] \in CallRecords
           /\ EndOf(Tail(Call.todo), Body([Call EXCEPT !.todo = Tail(Call.todo)]))
<1>1. Call = calls[Len(calls)] /\ Call \in CallRecords /\ EndOf(Call.todo, Body(Call))
  BY TopIs
<1>2. Tail(Call.todo) \in Seq(Names) /\ EndOf(Tail(Call.todo), Body(Call))
  BY <1>1, NextOfPart
<1>3. s = [calls EXCEPT ![Len(calls)] = [Call EXCEPT !.todo = Tail(Call.todo)]]
  BY <1>1
<1> DEFINE c == [Call EXCEPT !.todo = Tail(Call.todo)]
<1>4. c \in CallRecords /\ c.part = Call.part /\ c.proc = Call.proc
  BY <1>1, <1>2 DEF CallRecords
<1>5. Body(c) = Body(Call)
  BY <1>4 DEF Body
<1> QED
  BY <1>2, <1>3, <1>4, <1>5

\* What a step that has changed only the innermost call must keep of that call for the
\* calls around it
LEMMA OutsideKept ==
    ASSUME Typed, Shaped, ReducedInv, ~signalled, applicable' \subseteq applicable,
           calls # <<>>, calls' \in Seq(CallRecords), Len(calls') = Len(calls),
           \A k \in 1 .. Len(calls) - 1 : calls'[k] = calls[k],
           calls'[Len(calls)].proc = Call.proc,
           Call.more => calls'[Len(calls)].more \/ calls'[Len(calls)].simplified,
           Call.simplified => calls'[Len(calls)].simplified,
           NEW k \in 1 .. Len(calls) - 1, Quiet(k)'
    PROVE  applicable' \subseteq Pending(k)'
<1> DEFINE n == Len(calls)
<1>1. n \in Nat /\ n > 0 /\ Call = calls[n] /\ Len(calls') = n /\ k \in 1 .. n /\ k < n
      /\ k \in 1 .. n - 1
  BY TopIs
<1>2. calls'[k] = calls[k] /\ calls'[n].proc = calls[n].proc
      /\ (calls[n].more => calls'[n].more \/ calls'[n].simplified)
      /\ (calls[n].simplified => calls'[n].simplified)
      /\ \A j \in 1 .. n - 1 : calls'[j] = calls[j]
  BY <1>1
<1>3. Quiet(k)' <=> /\ calls'[k].part = "loop"
                    /\ \A j \in k .. n : ~calls'[j].more
                    /\ \A j \in k + 1 .. n : ~calls'[j].simplified
  BY <1>1 DEF Quiet
<1> HIDE DEF n
<1>4. n \in k .. n /\ n \in k + 1 .. n /\ n # k
  BY <1>1
<1>5. ~calls[n].more /\ ~calls[n].simplified
  BY <1>2, <1>3, <1>4
<1>6. \A j \in k .. n : j = n \/ (j \in 1 .. n - 1 /\ calls'[j] = calls[j])
  BY <1>1, <1>2
<1>7. \A j \in k + 1 .. n : j = n \/ (j \in 1 .. n - 1 /\ calls'[j] = calls[j])
  BY <1>1, <1>2
<1>8. Quiet(k)
  BY <1>2, <1>3, <1>5, <1>6, <1>7 DEF Quiet, n
<1>9. applicable \subseteq Pending(k)
  BY <1>1, <1>8 DEF ReducedInv, n
<1>10. k + 1 = n \/ (k + 1 \in 1 .. n - 1 /\ calls'[k + 1] = calls[k + 1])
  BY <1>1, <1>2
<1>11. calls'[k + 1].proc = calls[k + 1].proc
  BY <1>2, <1>10
<1>12. Pending(k)' = Pending(k)
  BY <1>1, <1>2, <1>11 DEF Pending, n
<1> QED
  BY <1>9, <1>12

-----------------------------------------------------------------------------
(* The steps within the loops *)

\* What the steps within the loops have to show
LEMMA EnoughWithin ==
    ASSUME IInv, Reducing, pc' = pc, signalled' = signalled,
           applicable' \subseteq Rules, calls' \in Seq(CallRecords), Shaped',
           ~signalled => \A k \in 1 .. Len(calls') : Quiet(k)' => applicable' \subseteq Pending(k)',
           ~signalled /\ calls' = <<>> => applicable' = {}
    PROVE  IInv'
<1>1. Typed'
  BY DEF IInv, Typed
<1>2. ReducedInv'
  BY DEF ReducedInv
<1>3. NothingLeftToReduce'
  BY DEF Reducing, NothingLeftToReduce
<1> QED
  BY <1>1, <1>2, <1>3 DEF IInv

\* A procedure is called.
LEMMA EnterKeeps ==
    ASSUME IInv, Enter
    PROVE  IInv'
<1> DEFINE n == Len(calls)
           made == [calls EXCEPT ![Len(calls)].todo = Tail(@)]
           top == [Call EXCEPT !.todo = Tail(Call.todo)]
           new == NewCall(Callee)
<1>1. /\ Reducing /\ calls # <<>> /\ Call.todo # <<>> /\ Callee \in DOMAIN First
      /\ calls' = Append(made, new)
      /\ pc' = pc /\ signalled' = signalled /\ applicable' = applicable
      /\ Typed /\ Shaped /\ ReducedInv
  BY DEF Enter, Reducing, IInv
<1>2. /\ n \in Nat /\ n > 0 /\ Call = calls[n] /\ Call \in CallRecords
      /\ EndOf(Call.todo, Body(Call)) /\ n \in 1 .. n
  BY <1>1, TopIs
<1>3. Callee \in Procs
  BY <1>1 DEF First, Procs
<1>4. top \in CallRecords /\ top.proc = Call.proc /\ made = [calls EXCEPT ![n] = top]
      /\ EndOf(top.todo, Body(top))
      /\ top.todo = Tail(Call.todo) /\ top.more = Call.more /\ top.part = Call.part
      /\ top.simplified = Call.simplified
  BY <1>1, <1>2, CallMade DEF CallRecords
<1>5. /\ made \in Seq(CallRecords) /\ Len(made) = n /\ made[n] = top
      /\ \A k \in 1 .. n - 1 : made[k] = calls[k]
      /\ \A k \in 1 .. n : /\ EndOf(made[k].todo, Body(made[k]))
                           /\ made[k].proc = "fullReduceApproximate" <=> k = 1
                           /\ made[k].proc = "fullReduce" => k = 2
  <2> HIDE DEF made, top
  <2>1. Typed /\ Shaped /\ calls # <<>>
    BY <1>1
  <2>2. /\ top \in CallRecords /\ top.proc = Call.proc /\ made = [calls EXCEPT ![n] = top]
        /\ EndOf(top.todo, Body(top))
    BY <1>4
  <2> QED
    <3>1. Replaced(made, top)
      BY <2>1, <2>2, TopReplaced
    <3> QED
      BY <3>1 DEF Replaced
<1>6. /\ new \in CallRecords /\ new.proc = Callee /\ new.part = "first"
      /\ EndOf(new.todo, Body(new))
  BY <1>3, NewCallIs
<1>7. /\ Callee # "fullReduceApproximate"
      /\ Callee = "fullReduce" => Call.proc = "fullReduceApproximate"
  BY <1>1, <1>2, CallersAre DEF Callee
<1> HIDE DEF made, top, new, n
<1>8. /\ calls' \in Seq(CallRecords) /\ Len(calls') = n + 1 /\ calls'[n + 1] = new
      /\ \A k \in 1 .. n : calls'[k] = made[k]
  BY <1>1, <1>2, <1>5, <1>6
<1>9. Shaped'
  <2>1. ASSUME NEW k \in 1 .. Len(calls')
        PROVE  /\ EndOf(calls'[k].todo, Body(calls'[k]))
               /\ calls'[k].proc = "fullReduceApproximate" <=> k = 1
               /\ calls'[k].proc = "fullReduce" => k = 2
    <3>1. CASE k \in 1 .. n
      BY <1>5, <1>8, <3>1
    <3>2. CASE k = n + 1
      <4>1. Callee = "fullReduce" => n = 1
        BY <1>1, <1>2, <1>7 DEF Shaped, n
      <4>2. k # 1 /\ (n = 1 => k = 2)
        BY <1>2, <3>2
      <4> QED
        BY <1>6, <1>7, <1>8, <3>2, <4>1, <4>2
    <3> QED
      BY <1>2, <1>8, <3>1, <3>2
  <2> QED
    BY <2>1 DEF Shaped, Body, EndOf
<1>10. ASSUME ~signalled, NEW k \in 1 .. Len(calls'), Quiet(k)'
       PROVE  applicable' \subseteq Pending(k)'
  <2>1. k # n + 1
    BY <1>6, <1>8, <1>10 DEF Quiet
  <2>2. k \in 1 .. n
    BY <1>2, <1>8, <2>1
  <2>3. \A j \in 1 .. n : /\ calls'[j].part = calls[j].part /\ calls'[j].more = calls[j].more
                          /\ calls'[j].simplified = calls[j].simplified
                          /\ calls'[j].proc = calls[j].proc
    BY <1>2, <1>4, <1>5, <1>8
  <2>4. /\ \A j \in k .. n : j \in k .. Len(calls') /\ j \in 1 .. n
        /\ \A j \in k + 1 .. n : j \in k + 1 .. Len(calls') /\ j \in 1 .. n
    BY <1>2, <1>8, <2>2
  <2>5. Quiet(k)
    BY <1>10, <2>2, <2>3, <2>4 DEF Quiet, n
  <2>6. applicable \subseteq Pending(k)
    BY <1>1, <1>10, <2>2, <2>5 DEF ReducedInv, n
  <2>7. CASE k = n
    <3> SUFFICES ASSUME NEW r \in applicable PROVE r \in Pending(k)'
      BY <1>1
    <3>1. /\ r \in Rules
          /\ \/ r \notin Tries(calls[n].proc)
             \/ \E j \in 1 .. Len(Call.todo) : r \in Tries(Call.todo[j])
      BY <1>2, <2>6, <2>7 DEF Pending, n
    <3>2. calls'[k].todo = Tail(Call.todo) /\ calls'[k].proc = calls[n].proc
      BY <1>2, <1>4, <1>5, <1>8, <2>7
    <3>3. ASSUME NEW j \in 1 .. Len(Call.todo), r \in Tries(Call.todo[j])
          PROVE  r \in Pending(k)'
      <4>0. Call.todo \in Seq(Names)
        BY <1>2 DEF CallRecords
      <4>1. CASE j = 1
        <5>1. r \in Tries(Callee)
          BY <1>1, <3>3, <4>0, <4>1 DEF Callee
        <5>2. r \in Tries(calls'[k + 1].proc) /\ k < Len(calls')
          BY <1>2, <1>6, <1>8, <2>7, <5>1
        <5> QED
          BY <3>1, <5>2 DEF Pending
      <4>2. CASE j # 1
        <5>1. j - 1 \in 1 .. Len(Tail(Call.todo)) /\ Tail(Call.todo)[j - 1] = Call.todo[j]
          BY <1>1, <4>0, <4>2
        <5> QED
          BY <3>1, <3>2, <3>3, <5>1 DEF Pending
      <4> QED
        BY <4>1, <4>2
    <3>4. CASE r \notin Tries(calls[n].proc)
      BY <3>1, <3>2, <3>4 DEF Pending
    <3> QED
      BY <3>1, <3>3, <3>4
  <2>8. CASE k # n
    <3>1. k \in 1 .. n - 1 /\ k + 1 \in 1 .. n /\ k < n /\ k < Len(calls')
      BY <1>2, <1>8, <2>2, <2>8
    <3>2. calls'[k] = calls[k] /\ calls'[k + 1].proc = calls[k + 1].proc
      BY <1>5, <1>8, <2>2, <2>3, <3>1
    <3>3. Pending(k)' = Pending(k)
      BY <3>1, <3>2 DEF Pending, n
    <3> QED
      BY <1>1, <2>6, <3>3
  <2> QED
    BY <2>7, <2>8
<1>11. calls' # <<>>
  BY <1>2, <1>8
<1>12. applicable' \subseteq Rules
  BY <1>1 DEF Typed
<1> QED
  BY <1>1, <1>8, <1>9, <1>10, <1>11, <1>12, EnoughWithin

\* The diagram is transformed in a way that nobody counts.
LEMMA TransformKeeps ==
    ASSUME IInv, Transform
    PROVE  IInv'
<1> DEFINE n == Len(calls)
           top == [Call EXCEPT !.todo = Tail(Call.todo)]
<1>1. /\ Reducing /\ calls # <<>> /\ Call.todo # <<>>
      /\ Callee \in {"toGraphlike", "approximateCliffords"}
      /\ calls' = [calls EXCEPT ![Len(calls)].todo = Tail(@)]
      /\ pc' = pc /\ signalled' = signalled
      /\ Typed /\ Shaped /\ ReducedInv
  BY DEF Transform, Reducing, IInv
<1>2. /\ n \in Nat /\ n > 0 /\ Call = calls[n] /\ Call \in CallRecords
      /\ EndOf(Call.todo, Body(Call)) /\ n \in 1 .. n
  BY <1>1, TopIs
<1>3. top \in CallRecords /\ top.proc = Call.proc /\ calls' = [calls EXCEPT ![n] = top]
      /\ EndOf(top.todo, Body(top))
      /\ top.todo = Tail(Call.todo) /\ top.part = Call.part
  BY <1>1, <1>2, CallMade DEF CallRecords
<1>4. /\ calls' \in Seq(CallRecords) /\ Len(calls') = n /\ calls'[n] = top
      /\ \A k \in 1 .. n - 1 : calls'[k] = calls[k]
      /\ Shaped'
  <2> HIDE DEF top
  <2>1. /\ calls' \in Seq(CallRecords) /\ Len(calls') = n /\ calls'[n] = top
        /\ \A k \in 1 .. n - 1 : calls'[k] = calls[k]
        /\ \A k \in 1 .. Len(calls') :
             /\ EndOf(calls'[k].todo, Body(calls'[k]))
             /\ calls'[k].proc = "fullReduceApproximate" <=> k = 1
             /\ calls'[k].proc = "fullReduce" => k = 2
    <3>1. Typed /\ Shaped /\ calls # <<>>
      BY <1>1
    <3>2. /\ top \in CallRecords /\ top.proc = Call.proc /\ calls' = [calls EXCEPT ![n] = top]
          /\ EndOf(top.todo, Body(top))
      BY <1>3
    <3>3. Replaced(calls', top)
      BY <3>1, <3>2, TopReplaced
    <3> QED
      BY <3>3 DEF Replaced
  <2> QED
    BY <2>1 DEF Shaped, Body, EndOf
<1>5. applicable' \subseteq Rules
  <2>1. applicable' = applicable \/ applicable' \in {{}} \/ applicable' \in SUBSET Rules
    BY DEF Transform, Rematched
  <2> QED
    BY <1>1, <2>1 DEF Typed
<1>6. /\ Callee = "toGraphlike" => Call.proc = "fullReduce" /\ Call.part = "first"
      /\ Callee = "approximateCliffords" =>
           /\ Call.proc = "fullReduceApproximate"
           /\ \E m \in 1 .. Len(Tail(Call.todo)) : Tail(Call.todo)[m] = "fullReduce"
  BY <1>1, <1>2, CallersAre DEF Callee
<1>7. Tries("fullReduce") = Rules
  BY DEF Tries, Rules
<1> HIDE DEF n, top
<1>8. ASSUME NEW k \in 1 .. Len(calls'), Quiet(k)'
      PROVE  Rules \subseteq Pending(k)'
  <2>1. CASE Callee = "toGraphlike"
    <3>1. n = 2
      BY <1>1, <1>2, <1>6, <2>1 DEF Shaped, n
    <3>2. k # n
      BY <1>3, <1>4, <1>6, <1>8, <2>1 DEF Quiet
    <3>3. k < Len(calls') /\ k + 1 = n
      BY <1>4, <3>1, <3>2
    <3>4. calls'[k + 1].proc = "fullReduce"
      BY <1>3, <1>4, <1>6, <2>1, <3>3
    <3> QED
      BY <1>7, <3>3, <3>4 DEF Pending
  <2>2. CASE Callee = "approximateCliffords"
    <3>1. n = 1
      BY <1>1, <1>2, <1>6, <2>2 DEF Shaped, n
    <3>2. k = n
      BY <1>4, <3>1
    <3>3. calls'[k].todo = Tail(Call.todo)
      BY <1>3, <1>4, <3>2
    <3> QED
      BY <1>6, <1>7, <2>2, <3>3 DEF Pending
  <2> QED
    BY <1>1, <2>1, <2>2
<1>9. calls' # <<>>
  BY <1>2, <1>4
<1> QED
  BY <1>1, <1>4, <1>5, <1>8, <1>9, EnoughWithin

\* A rule is applied.
LEMMA RewriteKeeps ==
    ASSUME IInv, Rewrite
    PROVE  IInv'
<1> DEFINE n == Len(calls)
           top == [Call EXCEPT !.more = TRUE]
<1>1. /\ Reducing /\ calls # <<>>
      /\ calls' = [calls EXCEPT ![Len(calls)].more = TRUE]
      /\ pc' = pc /\ signalled' = signalled
      /\ Typed /\ Shaped /\ ReducedInv
  BY DEF Rewrite, Reducing, IInv
<1>2. /\ n \in Nat /\ n > 0 /\ Call = calls[n] /\ Call \in CallRecords
      /\ EndOf(Call.todo, Body(Call)) /\ n \in 1 .. n
  BY <1>1, TopIs
<1>3. top \in CallRecords /\ top.proc = Call.proc /\ calls' = [calls EXCEPT ![n] = top]
      /\ top.todo = Call.todo /\ top.part = Call.part /\ top.more = TRUE
  BY <1>1, <1>2 DEF CallRecords
<1>4. EndOf(top.todo, Body(top))
  BY <1>2, <1>3 DEF Body
<1>5. /\ calls' \in Seq(CallRecords) /\ Len(calls') = n /\ calls'[n] = top
      /\ Shaped'
  <2> HIDE DEF top
  <2>1. /\ calls' \in Seq(CallRecords) /\ Len(calls') = n /\ calls'[n] = top
        /\ \A k \in 1 .. n - 1 : calls'[k] = calls[k]
        /\ \A k \in 1 .. Len(calls') :
             /\ EndOf(calls'[k].todo, Body(calls'[k]))
             /\ calls'[k].proc = "fullReduceApproximate" <=> k = 1
             /\ calls'[k].proc = "fullReduce" => k = 2
    <3>1. Replaced(calls', top)
      BY <1>1, <1>3, <1>4, TopReplaced
    <3> QED
      BY <3>1 DEF Replaced
  <2> QED
    BY <2>1 DEF Shaped, Body, EndOf
<1>6. applicable' \subseteq Rules
  <2>1. applicable' \in {{}} \/ applicable' \in SUBSET Rules
    BY DEF Rewrite, Rematched
  <2> QED
    BY <2>1
<1> HIDE DEF n, top
<1>7. ASSUME NEW k \in 1 .. Len(calls'), Quiet(k)'
      PROVE  FALSE
  <2>1. n \in k .. Len(calls')
    BY <1>2, <1>5
  <2> QED
    BY <1>3, <1>5, <1>7, <2>1 DEF Quiet
<1>8. calls' # <<>>
  BY <1>2, <1>5
<1> QED
  BY <1>1, <1>5, <1>6, <1>7, <1>8, EnoughWithin

\* A rule has been tried wherever it applies.
LEMMA ExhaustKeeps ==
    ASSUME IInv, Exhaust
    PROVE  IInv'
<1> DEFINE n == Len(calls)
           top == [Call EXCEPT !.todo = Tail(Call.todo)]
<1>1. /\ Reducing /\ calls # <<>> /\ Call.todo # <<>> /\ Callee \in Rules
      /\ (Callee \notin applicable \/ signalled)
      /\ calls' = [calls EXCEPT ![Len(calls)].todo = Tail(@)]
      /\ pc' = pc /\ signalled' = signalled /\ applicable' = applicable
      /\ Typed /\ Shaped /\ ReducedInv
  BY DEF Exhaust, Reducing, IInv
<1>2. /\ n \in Nat /\ n > 0 /\ Call = calls[n] /\ Call \in CallRecords
      /\ EndOf(Call.todo, Body(Call)) /\ n \in 1 .. n
  BY <1>1, TopIs
<1>3. top \in CallRecords /\ top.proc = Call.proc /\ calls' = [calls EXCEPT ![n] = top]
      /\ EndOf(top.todo, Body(top))
      /\ top.todo = Tail(Call.todo) /\ top.part = Call.part /\ top.more = Call.more
      /\ top.simplified = Call.simplified
  BY <1>1, <1>2, CallMade DEF CallRecords
<1>4. /\ calls' \in Seq(CallRecords) /\ Len(calls') = n /\ calls'[n] = top
      /\ \A k \in 1 .. n - 1 : calls'[k] = calls[k]
      /\ Shaped'
  <2> HIDE DEF top
  <2>1. /\ calls' \in Seq(CallRecords) /\ Len(calls') = n /\ calls'[n] = top
        /\ \A k \in 1 .. n - 1 : calls'[k] = calls[k]
        /\ \A k \in 1 .. Len(calls') :
             /\ EndOf(calls'[k].todo, Body(calls'[k]))
             /\ calls'[k].proc = "fullReduceApproximate" <=> k = 1
             /\ calls'[k].proc = "fullReduce" => k = 2
    <3>1. Typed /\ Shaped /\ calls # <<>>
      BY <1>1
    <3>2. /\ top \in CallRecords /\ top.proc = Call.proc /\ calls' = [calls EXCEPT ![n] = top]
          /\ EndOf(top.todo, Body(top))
      BY <1>3
    <3>3. Replaced(calls', top)
      BY <3>1, <3>2, TopReplaced
    <3> QED
      BY <3>3 DEF Replaced
  <2> QED
    BY <2>1 DEF Shaped, Body, EndOf
<1>5. applicable' \subseteq Rules
  BY <1>1 DEF Typed
<1>6. ASSUME ~signalled, NEW k \in 1 .. Len(calls'), Quiet(k)'
      PROVE  applicable' \subseteq Pending(k)'
  <2>1. CASE k = n
    <3>1. Quiet(n)
      BY <1>2, <1>3, <1>4, <1>6, <2>1 DEF Quiet
    <3>2. applicable \subseteq Pending(n)
      BY <1>1, <1>2, <1>6, <3>1 DEF ReducedInv
    <3> SUFFICES ASSUME NEW r \in applicable PROVE r \in Pending(k)'
      BY <1>1
    <3>3. /\ r \in Rules
          /\ \/ r \notin Tries(calls[n].proc)
             \/ \E j \in 1 .. Len(Call.todo) : r \in Tries(Call.todo[j])
      BY <1>2, <3>2 DEF Pending
    <3>4. calls'[k].todo = Tail(Call.todo) /\ calls'[k].proc = calls[n].proc
      BY <1>2, <1>3, <1>4, <2>1
    <3>5. ASSUME NEW j \in 1 .. Len(Call.todo), r \in Tries(Call.todo[j])
          PROVE  r \in Pending(k)'
      <4>0. Call.todo \in Seq(Names)
        BY <1>2 DEF CallRecords
      <4>1. j # 1
        <5>1. Call.todo[1] = Callee
          BY <1>1, <4>0 DEF Callee
        <5>2. Tries(Callee) = {Callee}
          BY <1>1 DEF Tries
        <5> QED
          BY <1>1, <1>6, <3>5, <5>1, <5>2
      <4>2. j - 1 \in 1 .. Len(Tail(Call.todo)) /\ Tail(Call.todo)[j - 1] = Call.todo[j]
        BY <1>1, <4>0, <4>1
      <4> QED
        BY <3>3, <3>4, <3>5, <4>2 DEF Pending
    <3>6. CASE r \notin Tries(calls[n].proc)
      BY <3>3, <3>4, <3>6 DEF Pending
    <3> QED
      BY <3>3, <3>5, <3>6
  <2>2. CASE k # n
    <3>1. k \in 1 .. n - 1
      BY <1>2, <1>4, <2>2
    <3>2. applicable' \subseteq applicable
      BY <1>1
    <3> QED
      BY <1>1, <1>3, <1>4, <1>6, <3>1, <3>2, OutsideKept
  <2> QED
    BY <2>1, <2>2
<1>7. calls' # <<>>
  BY <1>2, <1>4
<1> QED
  BY <1>1, <1>4, <1>5, <1>6, <1>7, EnoughWithin

-----------------------------------------------------------------------------
(* The rounds of the loops *)

\* All calls but the innermost
LEMMA FrontIs ==
    ASSUME calls \in Seq(CallRecords), calls # <<>>
    PROVE  /\ Front(calls) \in Seq(CallRecords) /\ Len(Front(calls)) = Len(calls) - 1
           /\ \A k \in 1 .. Len(calls) - 1 : Front(calls)[k] = calls[k]
<1>1. Len(calls) \in Nat /\ Len(calls) > 0 /\ Front(calls) = SubSeq(calls, 1, Len(calls) - 1)
  BY DEF Front
<1>2. \A k \in 1 .. Len(calls) - 1 : calls[k] \in CallRecords
  BY <1>1
<1> DEFINE m == Len(calls) - 1
<1>3. m \in Nat /\ Front(calls) = SubSeq(calls, 1, m)
  BY <1>1
<1> HIDE DEF m
<1>4. Front(calls) \in Seq(CallRecords) /\ Len(Front(calls)) = m
  BY <1>1, <1>2, <1>3
<1>5. \A k \in 1 .. m : Front(calls)[k] = calls[k]
  BY <1>3
<1> QED
  BY <1>4, <1>5 DEF m

\* A new round of a loop begins.
LEMMA BeginRoundKeeps ==
    ASSUME IInv, BeginRound
    PROVE  IInv'
<1> DEFINE n == Len(calls)
           top == [proc |-> Call.proc, part |-> "loop", todo |-> Round[Call.proc],
                   more |-> FALSE, simplified |-> Simplified(Call)]
<1>1. /\ Reducing /\ calls # <<>>
      /\ calls' = Append(Front(calls), top)
      /\ pc' = pc /\ signalled' = signalled /\ applicable' = applicable
      /\ Typed /\ Shaped /\ ReducedInv /\ calls \in Seq(CallRecords)
  BY DEF BeginRound, Reducing, IInv, Typed
<1>2. /\ n \in Nat /\ n > 0 /\ Call = calls[n] /\ Call \in CallRecords /\ n \in 1 .. n
  BY <1>1, TopIs
<1>3. /\ top \in CallRecords /\ top.proc = Call.proc /\ top.part = "loop"
      /\ top.todo = Round[Call.proc] /\ top.more = FALSE /\ Round[Call.proc] \in Seq(Names)
      /\ top.simplified = (Call.simplified \/ Call.more)
  <2>1. Call.proc \in Procs /\ Call.more \in BOOLEAN /\ Call.simplified \in BOOLEAN
    BY <1>2 DEF CallRecords
  <2>2. Round[Call.proc] \in Seq(Names)
    BY <2>1, RoundsTry
  <2>3. Simplified(Call) = (Call.simplified \/ Call.more)
    BY DEF Simplified
  <2>4. Simplified(Call) \in BOOLEAN
    BY <2>3
  <2> HIDE DEF Simplified
  <2>5. top \in CallRecords
    BY <2>1, <2>2, <2>4 DEF CallRecords
  <2> QED
    BY <2>2, <2>3, <2>5
<1>4. EndOf(top.todo, Body(top))
  <2>1. Body(top) = top.todo
    BY <1>3 DEF Body
  <2>2. Len(top.todo) \in Nat
    BY <1>3
  <2>3. \A j \in 1 .. Len(top.todo) : Len(top.todo) - Len(top.todo) + j = j
    BY <2>2
  <2> HIDE DEF top
  <2> QED
    BY <2>1, <2>2, <2>3 DEF EndOf
<1> HIDE DEF top
<1>5. calls' = [calls EXCEPT ![Len(calls)] = top]
  <2>1. /\ Front(calls) \in Seq(CallRecords) /\ Len(Front(calls)) = n - 1
        /\ \A k \in 1 .. n - 1 : Front(calls)[k] = calls[k]
    BY <1>1, FrontIs
  <2>2. /\ calls' \in Seq(CallRecords) /\ Len(calls') = n /\ calls'[n] = top
        /\ \A k \in 1 .. n - 1 : calls'[k] = Front(calls)[k]
    BY <1>1, <1>2, <1>3, <2>1
  <2> DEFINE s == [calls EXCEPT ![Len(calls)] = top]
  <2>3. /\ s \in Seq(CallRecords) /\ Len(s) = n /\ s[n] = top
        /\ \A k \in 1 .. n : k # n => s[k] = calls[k]
    BY <1>1, <1>2, <1>3
  <2> HIDE DEF s
  <2>4. \A k \in 1 .. n : calls'[k] = s[k]
    BY <1>2, <2>1, <2>2, <2>3
  <2>5. calls' = s
    BY <2>2, <2>3, <2>4
  <2> QED
    BY <2>5 DEF s
<1>6. Replaced(calls', top)
  BY <1>1, <1>3, <1>4, <1>5, TopReplaced
<1>7. /\ calls' \in Seq(CallRecords) /\ Len(calls') = n /\ calls'[n] = top
      /\ \A k \in 1 .. n - 1 : calls'[k] = calls[k]
      /\ Shaped'
  BY <1>6 DEF Replaced, Shaped, Body, EndOf
<1>8. applicable' \subseteq Rules
  BY <1>1 DEF Typed
<1>9. ASSUME ~signalled, NEW k \in 1 .. Len(calls'), Quiet(k)'
      PROVE  applicable' \subseteq Pending(k)'
  <2>1. CASE k = n
    <3> SUFFICES ASSUME NEW r \in Rules PROVE r \in Pending(k)'
      BY <1>8
    <3>1. calls'[k].proc = Call.proc /\ calls'[k].todo = Round[Call.proc] /\ Call.proc \in Procs
      BY <1>2, <1>3, <1>7, <2>1 DEF CallRecords
    <3>2. r \in Tries(Call.proc) =>
            \E j \in 1 .. Len(Round[Call.proc]) : r \in Tries(Round[Call.proc][j])
      BY <3>1, RoundsTry
    <3> QED
      BY <3>1, <3>2 DEF Pending
  <2>2. CASE k # n
    <3>1. k \in 1 .. n - 1
      BY <1>2, <1>7, <2>2
    <3>2. applicable' \subseteq applicable
      BY <1>1
    <3> QED
      BY <1>1, <1>3, <1>7, <1>9, <3>1, <3>2, OutsideKept
  <2> QED
    BY <2>1, <2>2
<1>10. calls' # <<>>
  BY <1>2, <1>7
<1> QED
  BY <1>1, <1>7, <1>8, <1>9, <1>10, EnoughWithin

\* A procedure returns.
LEMMA ReturnKeeps ==
    ASSUME IInv, Return
    PROVE  IInv'
<1> DEFINE n == Len(calls)
           callers == Front(calls)
<1>1. /\ Reducing /\ calls # <<>> /\ Call.todo = <<>> /\ (~Again(Call) \/ signalled)
      /\ calls' = IF callers = <<>> THEN callers
                  ELSE [callers EXCEPT ![Len(callers)].more = @ \/ Simplified(Call)]
      /\ pc' = pc /\ signalled' = signalled /\ applicable' = applicable
      /\ Typed /\ Shaped /\ ReducedInv /\ calls \in Seq(CallRecords)
  BY DEF Return, Reducing, IInv, Typed
<1>2. /\ n \in Nat /\ n > 0 /\ Call = calls[n] /\ Call \in CallRecords /\ n \in 1 .. n
      /\ \A k \in 1 .. n : calls[k] \in CallRecords
  BY <1>1, TopIs
<1>3. /\ callers \in Seq(CallRecords) /\ Len(callers) = n - 1
      /\ \A k \in 1 .. n - 1 : callers[k] = calls[k]
  BY <1>1, FrontIs
<1>4. Len(Call.todo) = 0
  BY <1>1
<1>5. applicable' \subseteq Rules
  BY <1>1 DEF Typed
<1> HIDE DEF callers
\* Of the call that returns, everything has been tried.
<1>6. ASSUME ~signalled
      PROVE  applicable \subseteq {r \in Rules : r \notin Tries(Call.proc)}
  <2>1. Call.part = "loop" /\ ~Call.more
    BY <1>1, <1>2, <1>6 DEF Again, CallRecords
  <2>2. Quiet(n)
    BY <1>2, <2>1 DEF Quiet
  <2>3. applicable \subseteq Pending(n)
    BY <1>1, <1>2, <1>6, <2>2 DEF ReducedInv
  <2>4. Pending(n) \subseteq {r \in Rules : r \notin Tries(Call.proc)}
    BY <1>2, <1>4 DEF Pending
  <2> QED
    BY <2>3, <2>4
<1>7. CASE callers = <<>>
  <2>1. n = 1 /\ calls' = <<>>
    BY <1>1, <1>2, <1>3, <1>7
  <2>2. Call.proc = "fullReduceApproximate"
    BY <1>1, <1>2, <2>1 DEF Shaped
  <2>3. ~signalled => applicable' = {}
    <3>1. Tries("fullReduceApproximate") = Rules
      BY DEF Tries, Rules
    <3> QED
      BY <1>1, <1>6, <2>2, <3>1
  <2>4. Len(calls') = 0 /\ calls' \in Seq(CallRecords)
    BY <2>1
  <2>5. \A k \in 1 .. Len(calls') : FALSE
    BY <2>4
  <2>6. Shaped'
    BY <2>5 DEF Shaped
  <2> QED
    BY <1>1, <1>5, <2>3, <2>4, <2>5, <2>6, EnoughWithin
<1>8. CASE callers # <<>>
  <2> DEFINE m == n - 1
             top == [calls[m] EXCEPT !.more = @ \/ Simplified(Call)]
  <2>1. m \in 1 .. n - 1 /\ m \in 1 .. n /\ m + 1 = n /\ m \in Nat /\ m > 0 /\ callers[m] = calls[m]
        /\ calls[m] \in CallRecords
    <3>1. n - 1 # 0
      BY <1>2, <1>3, <1>8
    <3>2. n - 1 \in 1 .. n - 1 /\ n - 1 \in 1 .. n
      BY <1>2, <3>1
    <3> QED
      BY <1>2, <1>3, <3>2
  <2>2. /\ top \in CallRecords /\ top.proc = calls[m].proc /\ top.part = calls[m].part
        /\ top.todo = calls[m].todo /\ top.simplified = calls[m].simplified
        /\ top.more = (calls[m].more \/ Simplified(Call))
    <3>1. calls[m].more \/ Simplified(Call) \in BOOLEAN
      BY <2>1, <1>2 DEF CallRecords, Simplified
    <3> DEFINE b == calls[m].more \/ Simplified(Call)
    <3>2. b \in BOOLEAN
      OBVIOUS
    <3>3. top = [calls[m] EXCEPT !.more = b]
      OBVIOUS
    <3> HIDE DEF b
    <3>4. /\ top \in CallRecords /\ top.proc = calls[m].proc /\ top.part = calls[m].part
          /\ top.todo = calls[m].todo /\ top.simplified = calls[m].simplified
          /\ top.more = b
      BY <2>1, <3>2, <3>3 DEF CallRecords
    <3> QED
      BY <3>4 DEF b
  <2>3. calls' = [callers EXCEPT ![m] = top]
    BY <1>1, <1>3, <1>8, <2>1
  <2> HIDE DEF top, m
  <2>4. /\ calls' \in Seq(CallRecords) /\ Len(calls') = m /\ calls'[m] = top
        /\ \A k \in 1 .. m : k # m => calls'[k] = calls[k]
    BY <1>3, <2>1, <2>2, <2>3
  <2>5. Shaped'
    <3>1. ASSUME NEW k \in 1 .. Len(calls')
          PROVE  /\ EndOf(calls'[k].todo, Body(calls'[k]))
                 /\ calls'[k].proc = "fullReduceApproximate" <=> k = 1
                 /\ calls'[k].proc = "fullReduce" => k = 2
      <4>1. k \in 1 .. n /\ calls'[k].proc = calls[k].proc /\ calls'[k].todo = calls[k].todo
            /\ calls'[k].part = calls[k].part
        BY <2>1, <2>2, <2>4
      <4>2. Body(calls'[k]) = Body(calls[k])
        BY <4>1 DEF Body
      <4> QED
        BY <1>1, <4>1, <4>2 DEF Shaped
    <3> QED
      BY <3>1 DEF Shaped, Body, EndOf
  <2>6. ASSUME ~signalled, NEW k \in 1 .. Len(calls'), Quiet(k)'
        PROVE  applicable' \subseteq Pending(k)'
    <3>1. k \in 1 .. m /\ k \in 1 .. n
      BY <2>1, <2>4
    <3>2. /\ calls'[k].part = "loop"
          /\ \A j \in k .. m : ~calls'[j].more
          /\ \A j \in k + 1 .. m : ~calls'[j].simplified
      BY <2>4, <2>6 DEF Quiet
    <3>3. ~calls[m].more /\ ~Call.more /\ ~Call.simplified
      <4>1. m \in k .. m
        BY <2>1, <3>1
      <4>2. ~top.more
        BY <2>4, <3>2, <4>1
      <4> QED
        BY <2>2, <4>2 DEF Simplified
    <3>4. \A j \in 1 .. m : /\ calls'[j].part = calls[j].part /\ calls'[j].proc = calls[j].proc
                            /\ calls'[j].todo = calls[j].todo
                            /\ calls'[j].simplified = calls[j].simplified
                            /\ j # m => calls'[j].more = calls[j].more
      BY <2>2, <2>4
    <3>5. Quiet(k)
      <4>1. ASSUME NEW j \in k .. n
            PROVE  ~calls[j].more
        <5>1. j = n \/ j = m \/ (j \in k .. m /\ j \in 1 .. m /\ j # m)
          BY <1>2, <2>1, <3>1
        <5> QED
          BY <1>2, <3>2, <3>3, <3>4, <5>1
      <4>2. ASSUME NEW j \in k + 1 .. n
            PROVE  ~calls[j].simplified
        <5>1. j = n \/ (j \in k + 1 .. m /\ j \in 1 .. m)
          BY <1>2, <2>1, <3>1
        <5> QED
          BY <1>2, <3>2, <3>3, <3>4, <5>1
      <4>3. calls[k].part = "loop"
        BY <3>1, <3>2, <3>4
      <4> QED
        BY <4>1, <4>2, <4>3 DEF Quiet
    <3>6. applicable \subseteq Pending(k)
      BY <1>1, <2>6, <3>1, <3>5 DEF ReducedInv
    <3>7. CASE k = m
      <4> SUFFICES ASSUME NEW r \in applicable PROVE r \in Pending(k)'
        BY <1>1
      <4>1. r \in Rules /\ r \notin Tries(calls[n].proc)
        BY <1>2, <1>6, <2>6
      <4>2. \/ r \notin Tries(calls[k].proc)
            \/ \E j \in 1 .. Len(calls[k].todo) : r \in Tries(calls[k].todo[j])
            \/ r \in Tries(calls[k + 1].proc)
        BY <3>6 DEF Pending
      <4>3. calls[k + 1] = calls[n]
        BY <2>1, <3>7
      <4> QED
        BY <3>1, <3>4, <4>1, <4>2, <4>3 DEF Pending
    <3>8. CASE k # m
      <4>1. k + 1 \in 1 .. m /\ k < Len(calls') /\ k < n /\ Len(calls) = n
        BY <1>2, <2>1, <2>4, <3>1, <3>8
      <4>2. /\ calls'[k].proc = calls[k].proc /\ calls'[k].todo = calls[k].todo
            /\ calls'[k + 1].proc = calls[k + 1].proc
        BY <3>1, <3>4, <4>1
      <4>3. Pending(k)' = Pending(k)
        BY <4>1, <4>2 DEF Pending
      <4> QED
        BY <1>1, <3>6, <4>3
    <3> QED
      BY <3>7, <3>8
  <2>7. calls' # <<>>
    BY <2>1, <2>4
  <2> QED
    BY <1>1, <1>5, <2>4, <2>5, <2>6, <2>7, EnoughWithin
<1> QED
  BY <1>7, <1>8

-----------------------------------------------------------------------------
(* The theorem *)

\* Nothing is under way initially,
LEMMA InitIInv == Init => IInv
<1> SUFFICES ASSUME Init PROVE IInv
  OBVIOUS
<1>1. applicable = {} /\ calls = <<>> /\ signalled = FALSE /\ pc = "construct"
  BY DEF Init
<1>2. \A k \in 1 .. Len(calls) : FALSE
  BY <1>1
<1>3. Typed
  <2>1. calls \in Seq(CallRecords)
    BY <1>1
  <2> QED
    BY <1>1, <2>1 DEF Typed
<1>4. Shaped
  BY <1>2 DEF Shaped
<1>5. ReducedInv
  BY <1>1, <1>2 DEF ReducedInv
<1>6. NothingLeftToReduce
  BY <1>1 DEF NothingLeftToReduce
<1> QED
  BY <1>3, <1>4, <1>5, <1>6 DEF IInv

\* and the loops begin with the first call.
LEMMA ConstructKeeps ==
    ASSUME IInv, Construct
    PROVE  IInv'
<1> DEFINE new == NewCall("fullReduceApproximate")
<1>1. /\ pc' \in {"reduce", "terminated"} /\ calls' = <<new>>
      /\ UNCHANGED <<applicable, signalled>> /\ Typed
  BY DEF Construct, IInv
<1>2. /\ new \in CallRecords /\ new.proc = "fullReduceApproximate" /\ new.part = "first"
      /\ EndOf(new.todo, Body(new))
  <2>1. "fullReduceApproximate" \in Procs
    BY DEF Procs
  <2> QED
    BY <2>1, NewCallIs
<1> HIDE DEF new
<1>3. /\ calls' \in Seq(CallRecords) /\ Len(calls') = 1 /\ calls'[1] = new /\ calls' # <<>>
      /\ \A k \in 1 .. Len(calls') : k = 1
  BY <1>1, <1>2
<1>4. Typed'
  BY <1>1, <1>3 DEF Typed
<1>5. Shaped'
  BY <1>2, <1>3 DEF Shaped, Body, EndOf
<1>6. ReducedInv'
  BY <1>2, <1>3 DEF ReducedInv, Quiet
<1>7. NothingLeftToReduce'
  BY <1>1 DEF NothingLeftToReduce
<1> QED
  BY <1>4, <1>5, <1>6, <1>7 DEF IInv

\* Once the outermost call has returned, the answer depends on whether it was interrupted.
LEMMA CompareKeeps ==
    ASSUME IInv, Compare
    PROVE  IInv'
<1>1. /\ pc = "reduce" /\ calls = <<>> /\ pc' \in {"threw", "returned"}
      /\ UNCHANGED <<applicable, calls, signalled>>
      /\ Typed /\ Shaped /\ ReducedInv /\ NothingLeftToReduce
  BY DEF Compare, IInv
<1>2. Typed'
  BY <1>1 DEF Typed
<1>3. Shaped'
  BY <1>1 DEF Shaped, Body, EndOf
<1>4. \A k \in 1 .. Len(calls') : FALSE
  BY <1>1
<1>5. ReducedInv'
  BY <1>1, <1>4 DEF ReducedInv
<1>6. NothingLeftToReduce'
  <2>1. CASE signalled
    BY <1>1, <2>1 DEF Compare, NothingLeftToReduce
  <2>2. CASE ~signalled
    BY <1>1, <2>2 DEF ReducedInv, NothingLeftToReduce
  <2> QED
    BY <2>1, <2>2
<1> QED
  BY <1>2, <1>3, <1>5, <1>6 DEF IInv

\* Every step keeps the invariant.
LEMMA NextIInv == IInv /\ [Next]_vars => IInv'
<1> SUFFICES ASSUME IInv, [Next]_vars PROVE IInv'
  OBVIOUS
<1>1. CASE UNCHANGED vars
  <2>1. UNCHANGED <<applicable, calls, signalled, pc, equivalence>>
    BY <1>1 DEF vars
  <2>2. Typed' /\ NothingLeftToReduce'
    BY <2>1 DEF IInv, Typed, NothingLeftToReduce
  <2>3. Shaped'
    BY <2>1 DEF IInv, Shaped, Body, EndOf
  <2>4. ReducedInv'
    BY <2>1 DEF IInv, ReducedInv, Quiet, Pending
  <2> QED
    BY <2>2, <2>3, <2>4 DEF IInv
<1>2. CASE Terminated
  BY <1>1, <1>2 DEF Terminated
<1>3. CASE SignalDone
  <2>1. pc = "reduce" /\ signalled' = TRUE /\ UNCHANGED <<applicable, calls, pc>>
    BY <1>3 DEF SignalDone
  <2>2. Typed'
    BY <2>1 DEF IInv, Typed
  <2>4. Shaped'
    BY <2>1 DEF IInv, Shaped, Body, EndOf
  <2>3. ReducedInv' /\ NothingLeftToReduce'
    BY <2>1 DEF ReducedInv, NothingLeftToReduce
  <2> QED
    BY <2>2, <2>3, <2>4 DEF IInv
<1> QED
  BY <1>1, <1>2, <1>3, ConstructKeeps, EnterKeeps, TransformKeeps, RewriteKeeps, ExhaustKeeps,
     BeginRoundKeeps, ReturnKeeps, CompareKeeps DEF Next, Step

\* Whatever the rules make of one another, what the loops within loops report to each other is
\* enough for a diagram to be judged only when no rule applies to it any more
\* (ZXChecker.cpp:34-48).
THEOREM DiagramIsReduced == Spec => []NothingLeftToReduce
<1>1. IInv => NothingLeftToReduce
  BY DEF IInv
<1> QED
  BY <1>1, InitIInv, NextIInv, PTL DEF Spec

-----------------------------------------------------------------------------
(* The permutations *)

\* Ranks number the elements of a set.
LEMMA Ranks ==
    ASSUME NEW S, IsFiniteSet(S), S \subseteq Nat
    PROVE  /\ Cardinality(S) \in Nat
           /\ \A x \in S : Rank(S, x) \in 0 .. Cardinality(S) - 1
           /\ \A x, y \in S : Rank(S, x) = Rank(S, y) => x = y
           /\ \A k \in 0 .. Cardinality(S) - 1 : \E x \in S : Rank(S, x) = k
<1> DEFINE below(x) == {y \in S : y < x}
           n == Cardinality(S)
<1>1. n \in Nat /\ \A x \in S : IsFiniteSet(below(x)) /\ Cardinality(below(x)) \in Nat
  <2>1. \A x \in S : below(x) \in SUBSET S
    OBVIOUS
  <2> QED
    BY <2>1, FS_Subset, FS_CardinalityType
<1>2. \A x \in S : Rank(S, x) = Cardinality(below(x))
  BY DEF Rank
<1>3. ASSUME NEW x \in S
      PROVE  Cardinality(below(x)) < n
  <2>1. below(x) \in SUBSET S /\ x \notin below(x)
    OBVIOUS
  <2>2. below(x) # S
    BY <2>1
  <2> QED
    BY <1>1, <2>1, <2>2, FS_Subset
<1>4. ASSUME NEW x \in S, NEW y \in S, x < y
      PROVE  Cardinality(below(x)) < Cardinality(below(y))
  <2>1. below(x) \in SUBSET below(y)
    <3>1. ASSUME NEW z \in S, z < x
          PROVE  z < y
      <4>1. z \in Nat /\ x \in Nat /\ y \in Nat
        OBVIOUS
      <4> QED
        BY <1>4, <3>1, <4>1
    <3> QED
      BY <3>1
  <2>2. x \in below(y) /\ x \notin below(x)
    BY <1>4
  <2>3. below(x) # below(y)
    BY <2>2
  <2> HIDE DEF below
  <2> QED
    BY <1>1, <2>1, <2>3, FS_Subset
<1> HIDE DEF below, n
<1>5. \A x \in S : Rank(S, x) \in 0 .. n - 1
  BY <1>1, <1>2, <1>3
<1>6. ASSUME NEW x \in S, NEW y \in S, Rank(S, x) = Rank(S, y)
      PROVE  x = y
  <2>1. ~(x < y) /\ ~(y < x)
    BY <1>1, <1>2, <1>4, <1>6
  <2> QED
    BY <2>1
<1> DEFINE f == [x \in S |-> Rank(S, x)]
<1>7. f \in Injection(S, 0 .. n - 1)
  BY <1>5, <1>6 DEF Injection, IsInjective
<1>8. IsFiniteSet(0 .. n - 1) /\ Cardinality(0 .. n - 1) = n
  BY <1>1, FS_Interval
<1>9. f \in Surjection(S, 0 .. n - 1)
  BY <1>7, <1>8, FS_Injection DEF n
<1>10. \A k \in 0 .. n - 1 : \E x \in S : Rank(S, x) = k
  BY <1>9 DEF Surjection
<1> QED
  BY <1>1, <1>5, <1>6, <1>10 DEF n

\* AntiFunction is an inverse.
LEMMA Inverted ==
    ASSUME NEW f
    PROVE  /\ DOMAIN AntiFunction(f) = Range(f)
           /\ \A y \in Range(f) : AntiFunction(f)[y] \in DOMAIN f /\ f[AntiFunction(f)[y]] = y
<1>1. AntiFunction(f) = [y \in Range(f) |-> CHOOSE x \in DOMAIN f : y \in Range(f) => f[x] = y]
  BY DEF AntiFunction, Inverse
<1>2. \A y \in Range(f) : \E x \in DOMAIN f : f[x] = y
  BY DEF Range
<1> QED
  BY <1>1, <1>2

\* What complete() adds
LEMMA CompletedIs ==
    ASSUME NEW n \in Nat, NEW f, f \in Injection(DOMAIN f, 0 .. n - 1)
    PROVE  LET c == Completed(f, n)
           IN  /\ DOMAIN f \subseteq DOMAIN c
               /\ \A q \in DOMAIN f : c[q] = f[q]
               /\ \A q \in DOMAIN c \ DOMAIN f : c[q] \in (0 .. n - 1) \ Range(f)
               /\ Range(f) = 0 .. n - 1 => DOMAIN c = DOMAIN f
               /\ DOMAIN f \subseteq 0 .. n - 1 =>
                    DOMAIN c = 0 .. n - 1 /\ Range(c) = 0 .. n - 1
<1> DEFINE numbers == 0 .. n - 1
           targets == numbers \ Range(f)
           free == numbers \ DOMAIN f
           filled == {q \in free : Rank(free, q) < Cardinality(targets)}
           c == Completed(f, n)
<1>1. c = [q \in DOMAIN f \cup filled |->
              IF q \in DOMAIN f THEN f[q]
              ELSE CHOOSE t \in targets : Rank(targets, t) = Rank(free, q)]
  BY DEF Completed
<1>2. /\ IsFiniteSet(numbers) /\ Cardinality(numbers) = n
      /\ IsFiniteSet(targets) /\ targets \subseteq Nat
      /\ IsFiniteSet(free) /\ free \subseteq Nat
  <2>1. IsFiniteSet(numbers) /\ Cardinality(numbers) = n
    BY FS_Interval
  <2>2. targets \in SUBSET numbers /\ free \in SUBSET numbers /\ numbers \subseteq Nat
    OBVIOUS
  <2> HIDE DEF numbers, targets, free
  <2> QED
    BY <2>1, <2>2, FS_Subset
<1>3. filled \subseteq free /\ filled \cap DOMAIN f = {}
  OBVIOUS
<1>4. free \cap DOMAIN f = {} /\ free \subseteq numbers /\ targets = numbers \ Range(f)
  OBVIOUS
<1>5. \A q \in free : q \in filled <=> Rank(free, q) < Cardinality(targets)
  OBVIOUS
<1>6. /\ Cardinality(free) \in Nat /\ Cardinality(targets) \in Nat
      /\ \A q \in free : Rank(free, q) \in 0 .. Cardinality(free) - 1
      /\ \A k \in 0 .. Cardinality(free) - 1 : \E q \in free : Rank(free, q) = k
      /\ \A t \in targets : Rank(targets, t) \in 0 .. Cardinality(targets) - 1
      /\ \A s, t \in targets : Rank(targets, s) = Rank(targets, t) => s = t
      /\ \A k \in 0 .. Cardinality(targets) - 1 : \E t \in targets : Rank(targets, t) = k
  <2> HIDE DEF targets, free
  <2> QED
    BY <1>2, Ranks
<1>7. numbers = free \cup (numbers \cap DOMAIN f)
  OBVIOUS
<1>8. free = numbers \ DOMAIN f
  OBVIOUS
<1> HIDE DEF filled, free, targets, c
<1>9. ASSUME NEW q \in filled
      PROVE  c[q] \in targets /\ Rank(targets, c[q]) = Rank(free, q)
  <2>1. Rank(free, q) \in 0 .. Cardinality(targets) - 1
    BY <1>3, <1>5, <1>6
  <2>2. c[q] = CHOOSE t \in targets : Rank(targets, t) = Rank(free, q)
    BY <1>1, <1>3
  <2> QED
    BY <1>6, <2>1, <2>2
<1>10. DOMAIN c = DOMAIN f \cup filled /\ \A q \in DOMAIN f : c[q] = f[q]
  BY <1>1
<1>11. \A q \in DOMAIN c \ DOMAIN f : c[q] \in (0 .. n - 1) \ Range(f)
  BY <1>4, <1>9, <1>10
<1>12. ASSUME Range(f) = 0 .. n - 1
       PROVE  DOMAIN c = DOMAIN f
  <2>1. targets = {}
    BY <1>4, <1>12
  <2>2. Cardinality(targets) = 0
    BY <2>1, FS_EmptySet
  <2>3. filled = {}
    BY <1>3, <1>5, <1>6, <2>2
  <2> QED
    BY <1>10, <2>3
<1>13. ASSUME DOMAIN f \subseteq 0 .. n - 1
       PROVE  DOMAIN c = 0 .. n - 1 /\ Range(c) = 0 .. n - 1
  <2>1. Cardinality(free) = Cardinality(targets)
    <3> DEFINE D == DOMAIN f
               R == Range(f)
    <3>1. D \subseteq numbers /\ R \subseteq numbers
      BY <1>13 DEF Injection, Range
    <3>2. IsFiniteSet(D) /\ IsFiniteSet(R)
      BY <1>2, <3>1, FS_Subset
    <3>3. f \in Bijection(D, R)
      BY DEF Injection, Bijection, Surjection, Range
    <3>4. Cardinality(R) = Cardinality(D)
      BY <3>2, <3>3, FS_Bijection DEF ExistsBijection
    <3>5. numbers \cap D = D /\ numbers \cap R = R
      BY <3>1
    <3> HIDE DEF D, R, numbers
    <3>6. /\ Cardinality(numbers \ D) = Cardinality(numbers) - Cardinality(numbers \cap D)
          /\ Cardinality(numbers \ R) = Cardinality(numbers) - Cardinality(numbers \cap R)
      <4>1. IsFiniteSet(numbers)
        BY <1>2
      <4> QED
        BY <4>1, FS_Difference
    <3>7. /\ Cardinality(numbers \ D) = n - Cardinality(D)
          /\ Cardinality(numbers \ R) = n - Cardinality(R)
      BY <1>2, <3>5, <3>6
    <3> QED
      BY <1>4, <1>8, <3>4, <3>7 DEF D, R
  <2>2. filled = free
    <3>1. \A q \in free : Rank(free, q) < Cardinality(targets)
      BY <1>6, <2>1
    <3> QED
      BY <1>3, <1>5, <3>1
  <2>3. DOMAIN c = numbers
    BY <1>7, <1>10, <1>13, <2>2
  <2>4. ASSUME NEW t \in numbers
        PROVE  t \in Range(c)
    <3>1. CASE t \in Range(f)
      BY <1>10, <3>1 DEF Range
    <3>2. CASE t \in targets
      <4>1. Rank(targets, t) \in 0 .. Cardinality(free) - 1
        BY <1>6, <2>1, <3>2
      <4>2. PICK q \in free : Rank(free, q) = Rank(targets, t)
        BY <1>6, <4>1
      <4>3. q \in filled /\ q \in DOMAIN c
        BY <1>10, <2>2
      <4>4. c[q] \in targets /\ Rank(targets, c[q]) = Rank(targets, t)
        BY <1>9, <4>2, <4>3
      <4>5. c[q] = t
        BY <1>6, <3>2, <4>4
      <4> QED
        BY <4>3, <4>5 DEF Range
    <3> QED
      BY <1>4, <3>1, <3>2
  <2>5. ASSUME NEW q \in DOMAIN c
        PROVE  c[q] \in numbers
    BY <1>4, <1>9, <1>10 DEF Injection
  <2> QED
    BY <2>3, <2>4, <2>5 DEF Range
<1> QED
  BY <1>10, <1>11, <1>12, <1>13 DEF c

\* A circuit's layout needs no completion, and its permutations are what they should be.
LEMMA CircuitIs ==
    ASSUME NEW c, IsCircuit(c)
    PROVE  /\ NQubits(c) \in Nat /\ Logicals(c) \subseteq Nat
           /\ IsFiniteSet(Logicals(c)) /\ Cardinality(Logicals(c)) = NQubits(c)
           /\ DOMAIN c.carries = DOMAIN c.layout /\ DOMAIN c.output \subseteq DOMAIN c.layout
           /\ \A q \in DOMAIN c.layout : c.layout[q] \in Logicals(c) /\ c.carries[q] \in Logicals(c)
           /\ \A q, r \in DOMAIN c.layout :
                /\ c.layout[q] = c.layout[r] => q = r
                /\ c.carries[q] = c.carries[r] => q = r
           /\ \A l \in Logicals(c) :
                /\ \E q \in DOMAIN c.layout : c.layout[q] = l
                /\ \E q \in DOMAIN c.layout : c.carries[q] = l
           /\ \A q \in DOMAIN c.output : c.output[q] \in Logicals(c)
           /\ \A q, r \in DOMAIN c.output : c.output[q] = c.output[r] => q = r
<1>1. /\ DOMAIN c.layout \subseteq Nat /\ IsFiniteSet(DOMAIN c.layout)
      /\ c.layout \in Bijection(DOMAIN c.layout, Logicals(c))
      /\ c.carries \in Bijection(DOMAIN c.layout, Logicals(c))
      /\ DOMAIN c.output \subseteq DOMAIN c.layout
      /\ c.output \in Injection(DOMAIN c.output, Logicals(c))
  BY DEF IsCircuit
<1>2. NQubits(c) \in Nat
  BY <1>1, FS_CardinalityType DEF NQubits
<1>3. /\ Logicals(c) \subseteq Nat /\ IsFiniteSet(Logicals(c))
      /\ Cardinality(Logicals(c)) = NQubits(c)
  BY <1>2, FS_Interval DEF Logicals
<1>4. /\ DOMAIN c.carries = DOMAIN c.layout
      /\ \A q \in DOMAIN c.layout : c.layout[q] \in Logicals(c) /\ c.carries[q] \in Logicals(c)
      /\ \A q, r \in DOMAIN c.layout : /\ c.layout[q] = c.layout[r] => q = r
                                       /\ c.carries[q] = c.carries[r] => q = r
      /\ \A l \in Logicals(c) : /\ \E q \in DOMAIN c.layout : c.layout[q] = l
                               /\ \E q \in DOMAIN c.layout : c.carries[q] = l
  BY <1>1 DEF Bijection, Injection, Surjection, IsInjective
<1>5. /\ \A q \in DOMAIN c.output : c.output[q] \in Logicals(c)
      /\ \A q, r \in DOMAIN c.output : c.output[q] = c.output[r] => q = r
  BY <1>1 DEF Injection, IsInjective
<1>6. DOMAIN c.output \subseteq DOMAIN c.layout
  BY <1>1
<1> QED
  BY <1>2, <1>3, <1>4, <1>5, <1>6

\* The wire at the end of which l is output is that of the physical qubit that outputs l,
\* and every wire is that of a qubit unless there is garbage and a gap in the numbers.
LEMMA InvertPermutationsIs ==
    ASSUME NEW c, IsCircuit(c), NEW f, f = InvertPermutations(c)
    PROVE  /\ \A l \in DOMAIN f : f[l] \in Logicals(c)
           /\ \A k, l \in DOMAIN f : f[k] = f[l] => k = l
           /\ \A q \in DOMAIN c.output :
                c.output[q] \in DOMAIN f /\ f[c.output[q]] = c.layout[q]
           /\ Garbage(c) = {} \/ DOMAIN c.layout = Logicals(c) =>
                DOMAIN f = Logicals(c) /\ Range(f) = Logicals(c)
           /\ Garbage(c) = {} => DOMAIN c.output = DOMAIN c.layout
<1> DEFINE D == DOMAIN c.layout
           L == Logicals(c)
           n == NQubits(c)
           o == Completed(c.output, n)
           i == AntiFunction(o)
<1>1. /\ n \in Nat /\ L \subseteq Nat /\ IsFiniteSet(L) /\ Cardinality(L) = n
      /\ DOMAIN c.output \subseteq D
      /\ \A q \in D : c.layout[q] \in L
      /\ \A q, r \in D : c.layout[q] = c.layout[r] => q = r
      /\ \A l \in L : \E q \in D : c.layout[q] = l
      /\ \A q \in DOMAIN c.output : c.output[q] \in L
      /\ \A q, r \in DOMAIN c.output : c.output[q] = c.output[r] => q = r
  BY CircuitIs
<1>2. L = 0 .. n - 1 /\ IsFiniteSet(D) /\ Cardinality(D) = n
  BY DEF IsCircuit, Logicals, NQubits
<1>3. c.layout \in Injection(D, 0 .. n - 1) /\ c.output \in Injection(DOMAIN c.output, 0 .. n - 1)
  BY <1>2 DEF IsCircuit, Bijection
<1>4. Range(c.layout) = 0 .. n - 1
  BY <1>1, <1>2 DEF Range
<1>5. Completed(c.layout, n) = c.layout
  <2> DEFINE d == Completed(c.layout, n)
  <2>1. /\ \A q \in D : d[q] = c.layout[q]
        /\ DOMAIN d = D
    BY <1>1, <1>3, <1>4, CompletedIs
  <2>2. d = [q \in DOMAIN d |-> d[q]]
    BY DEF Completed
  <2>3. c.layout = [q \in D |-> c.layout[q]]
    BY <1>3 DEF Injection
  <2> QED
    BY <2>1, <2>2, <2>3
<1>6. /\ DOMAIN c.output \subseteq DOMAIN o
      /\ \A q \in DOMAIN c.output : o[q] = c.output[q]
      /\ \A q \in DOMAIN o \ DOMAIN c.output : o[q] \notin Range(c.output)
      /\ Range(c.output) = L => DOMAIN o = DOMAIN c.output
      /\ DOMAIN c.output \subseteq L => DOMAIN o = L /\ Range(o) = L
  BY <1>1, <1>2, <1>3, CompletedIs
<1>7. /\ DOMAIN i = Range(o)
      /\ \A l \in Range(o) : i[l] \in DOMAIN o /\ o[i[l]] = l
  BY Inverted
<1>8. f = [l \in {l \in DOMAIN i : i[l] \in D} |-> c.layout[i[l]]]
  BY <1>5 DEF InvertPermutations, Concat
<1> HIDE DEF n, o, i, L, D
<1>9. /\ DOMAIN f = {l \in Range(o) : i[l] \in D}
      /\ \A l \in DOMAIN f : f[l] = c.layout[i[l]]
  BY <1>7, <1>8
<1>10. \A l \in DOMAIN f : f[l] \in L
  BY <1>1, <1>9
<1>11. \A k, l \in DOMAIN f : f[k] = f[l] => k = l
  BY <1>1, <1>7, <1>9
<1>12. ASSUME NEW q \in DOMAIN c.output
       PROVE  c.output[q] \in DOMAIN f /\ f[c.output[q]] = c.layout[q]
  <2>1. c.output[q] \in Range(o) /\ c.output[q] \in Range(c.output)
    BY <1>6 DEF Range
  <2>2. i[c.output[q]] \in DOMAIN o /\ o[i[c.output[q]]] = c.output[q]
    BY <1>7, <2>1
  <2>3. i[c.output[q]] \in DOMAIN c.output
    BY <1>6, <2>1, <2>2
  <2>4. i[c.output[q]] = q
    BY <1>1, <1>6, <2>2, <2>3
  <2> QED
    BY <1>1, <1>9, <2>1, <2>4
<1>13. ASSUME Garbage(c) = {}
       PROVE  Range(c.output) = L /\ DOMAIN c.output = D
  <2>1. Range(c.output) = L
    BY <1>1, <1>13 DEF Garbage, L, Range
  <2>2. c.output \in Bijection(DOMAIN c.output, L)
    <3>1. c.output \in Injection(DOMAIN c.output, L)
      BY <1>2, <1>3
    <3>2. \A l \in L : \E q \in DOMAIN c.output : c.output[q] = l
      BY <2>1 DEF Range
    <3>3. c.output \in [DOMAIN c.output -> L]
      BY <3>1 DEF Injection
    <3> QED
      BY <3>1, <3>2, <3>3 DEF Bijection, Surjection
  <2>3. IsFiniteSet(DOMAIN c.output)
    BY <1>1, <1>2, FS_Subset
  <2>4. Cardinality(DOMAIN c.output) = n
    BY <1>1, <2>2, <2>3, FS_Bijection DEF ExistsBijection
  <2> QED
    BY <1>1, <1>2, <2>1, <2>4, FS_Subset
<1>14. ASSUME Garbage(c) = {} \/ D = L
       PROVE  DOMAIN f = L /\ Range(f) = L
  <2>1. DOMAIN o = D /\ Range(o) = L
    <3>1. CASE Garbage(c) = {}
      <4>1. DOMAIN o = DOMAIN c.output /\ Range(c.output) = L /\ DOMAIN o = D
        BY <1>6, <1>13, <3>1
      <4>2. Range(o) = Range(c.output)
        BY <1>6, <4>1 DEF Range
      <4> QED
        BY <4>1, <4>2
    <3>2. CASE D = L
      BY <1>1, <1>6, <3>2
    <3> QED
      BY <1>14, <3>1, <3>2
  <2>2. DOMAIN f = L
    BY <1>7, <1>9, <2>1
  <2>3. f \in Injection(L, L)
    BY <1>8, <1>10, <1>11, <2>2 DEF Injection, IsInjective
  <2>4. f \in Surjection(L, L)
    BY <1>1, <2>3, FS_Injection
  <2> QED
    BY <2>2, <2>4 DEF Surjection, Range
<1> QED
  BY <1>10, <1>11, <1>12, <1>13, <1>14 DEF L, D

-----------------------------------------------------------------------------
(* The verdict *)

\* The circuits are given, and so are their permutations.
Given ==
    /\ IsCircuit(qc[1]) /\ IsCircuit(qc[2])
    /\ NQubits(qc[1]) = NQubits(qc[2]) /\ qc[1].nancillae = qc[2].nancillae
    /\ p = <<InvertPermutations(qc[1]), InvertPermutations(qc[2])>>

\* What the constructor needs, and what the comparison sees and answers
Constructed == \A i \in {1, 2} : Ancillae \subseteq DOMAIN p[i]
Seen == OnlyWires /\ Differing = {}
Answered ==
    /\ ~CompareThrows
    /\ equivalence = IF signalled \/ (~Seen /\ AnyAncilla) THEN "NoInformation"
                     ELSE IF Seen THEN "Equivalent" ELSE "ProbablyNotEquivalent"

\* Nothing of this changes once the wires have been compared.
JudgedInv ==
    /\ Given
    /\ pc \in {"construct", "reduce", "returned", "threw", "terminated"}
    /\ pc \in {"reduce", "returned", "threw"} => Constructed
    /\ pc = "terminated" => ~Constructed
    /\ pc = "threw" => CompareThrows
    /\ IF pc = "returned" THEN Answered ELSE equivalence = "NoInformation"

\* The wires of both circuits have the same numbers, and each is that of one qubit.
LEMMA WiresAre ==
    ASSUME Given, NEW i \in {1, 2}, NEW L, L = Logicals(qc[1])
    PROVE  /\ IsCircuit(qc[i]) /\ Logicals(qc[i]) = L /\ p[i] = InvertPermutations(qc[i])
           /\ Ancillary(qc[i]) = Ancillae /\ Ancillae \subseteq L
           /\ IsFiniteSet(L) /\ L \subseteq Nat
           /\ \A w \in L : /\ Holder(i, w) \in DOMAIN qc[i].layout
                           /\ qc[i].layout[Holder(i, w)] = w
                           /\ Content(i, w) \in L
           /\ \A q \in DOMAIN qc[i].layout : Holder(i, qc[i].layout[q]) = q
           /\ \A v, w \in L : Content(i, v) = Content(i, w) => v = w
           /\ \A x \in L : \E w \in L : Content(i, w) = x
<1> DEFINE c == qc[i]
<1>1. /\ IsCircuit(c) /\ NQubits(c) = NQubits(qc[1]) /\ c.nancillae = qc[1].nancillae
      /\ p[i] = InvertPermutations(c)
  BY DEF Given
<1>2. Logicals(c) = L /\ Ancillary(c) = Ancillae /\ Ancillae \subseteq L
  BY <1>1 DEF Logicals, Ancillary, Ancillae
<1> HIDE DEF c
<1>3. /\ L \subseteq Nat /\ IsFiniteSet(L) /\ DOMAIN c.carries = DOMAIN c.layout
      /\ \A q \in DOMAIN c.layout : c.layout[q] \in L /\ c.carries[q] \in L
      /\ \A q, r \in DOMAIN c.layout : /\ c.layout[q] = c.layout[r] => q = r
                                       /\ c.carries[q] = c.carries[r] => q = r
      /\ \A l \in L : /\ \E q \in DOMAIN c.layout : c.layout[q] = l
                     /\ \E q \in DOMAIN c.layout : c.carries[q] = l
  BY <1>1, <1>2, CircuitIs
<1>4. \A w : Holder(i, w) = CHOOSE q \in DOMAIN c.layout : c.layout[q] = w
  BY DEF Holder, c
<1>5. \A w \in L : Holder(i, w) \in DOMAIN c.layout /\ c.layout[Holder(i, w)] = w
  BY <1>3, <1>4
<1>6. \A q \in DOMAIN c.layout : Holder(i, c.layout[q]) = q
  BY <1>3, <1>5
<1>7. \A w : Content(i, w) = c.carries[Holder(i, w)]
  BY DEF Content, c
<1>8. \A w \in L : Content(i, w) \in L
  BY <1>3, <1>5, <1>7
<1>9. \A v, w \in L : Content(i, v) = Content(i, w) => v = w
  BY <1>3, <1>5, <1>7
<1>10. \A x \in L : \E w \in L : Content(i, w) = x
  BY <1>3, <1>6, <1>7
<1> QED
  BY <1>1, <1>2, <1>3, <1>5, <1>6, <1>8, <1>9, <1>10 DEF c

\* A wire has a partner, and no two the same.
LEMMA PartnersAre ==
    ASSUME Given, NEW L, L = Logicals(qc[1])
    PROVE  /\ \A w \in L : Partner(w) \in L /\ Content(2, Partner(w)) = Content(1, w)
           /\ \A w, v \in L : Content(2, v) = Content(1, w) => v = Partner(w)
           /\ \A w, v \in L : Partner(w) = Partner(v) => w = v
<1>1. /\ Logicals(qc[2]) = L /\ \A w \in L : Content(1, w) \in L
      /\ \A x \in L : \E v \in L : Content(2, v) = x
      /\ \A v, w \in L : Content(2, v) = Content(2, w) => v = w
      /\ \A v, w \in L : Content(1, v) = Content(1, w) => v = w
  BY WiresAre
<1>2. \A w : Partner(w) = CHOOSE v \in L : Content(2, v) = Content(1, w)
  BY <1>1 DEF Partner
<1>3. \A w \in L : Partner(w) \in L /\ Content(2, Partner(w)) = Content(1, w)
  BY <1>1, <1>2
<1> QED
  BY <1>1, <1>3

\* What a physical qubit outputs is found at the end of its wire.
LEMMA OutputsAre ==
    ASSUME Given, NEW i \in {1, 2}, NEW l \in Range(qc[i].output)
    PROVE  /\ l \in DOMAIN p[i] /\ p[i][l] \in Logicals(qc[1])
           /\ p[i][l] \in DOMAIN Output(i) /\ Output(i)[p[i][l]] = l
           /\ Outputs(i, l) = <<{Content(i, p[i][l])} \ Ancillae, Hadamard(i, p[i][l])>>
<1> DEFINE c == qc[i]
           q == AntiFunction(c.output)[l]
<1>1. /\ IsCircuit(c) /\ p[i] = InvertPermutations(c) /\ Logicals(c) = Logicals(qc[1])
      /\ Ancillary(c) = Ancillae
      /\ \A r \in DOMAIN c.layout : Holder(i, c.layout[r]) = r
  BY WiresAre
<1>2. q \in DOMAIN c.output /\ c.output[q] = l
  BY Inverted
<1>3. DOMAIN c.output \subseteq DOMAIN c.layout
  BY <1>1, CircuitIs
<1>4. l \in DOMAIN p[i] /\ p[i][l] = c.layout[q]
  BY <1>1, <1>2, InvertPermutationsIs
<1>5. /\ \A k \in DOMAIN p[i] : p[i][k] \in Logicals(c)
      /\ \A j, k \in DOMAIN p[i] : p[i][j] = p[i][k] => j = k
  BY <1>1, InvertPermutationsIs
<1>6. p[i][l] \in Range(p[i])
  BY <1>4 DEF Range
<1>7. p[i][l] \in DOMAIN Output(i) /\ Output(i)[p[i][l]] = l
  BY <1>4, <1>5, <1>6, Inverted DEF Output
<1>8. Holder(i, p[i][l]) = q
  BY <1>1, <1>2, <1>3, <1>4
<1>9. Outputs(i, l) = <<{c.carries[q]} \ Ancillae, q \in c.hadamards>>
  BY <1>1 DEF Outputs
<1> QED
  BY <1>1, <1>4, <1>5, <1>7, <1>8, <1>9 DEF Content, Hadamard

\* Without garbage or without gaps, every wire has a name.
LEMMA AllNamed ==
    ASSUME Given, ~Gap, NEW i \in {1, 2}
    PROVE  DOMAIN p[i] = Logicals(qc[1]) /\ DOMAIN Output(i) = Logicals(qc[1])
<1>1. /\ IsCircuit(qc[i]) /\ p[i] = InvertPermutations(qc[i])
      /\ Logicals(qc[i]) = Logicals(qc[1])
  BY WiresAre
<1>2. Garbage(qc[i]) = {} \/ DOMAIN qc[i].layout = Logicals(qc[i])
  BY DEF Gap
<1>3. DOMAIN p[i] = Logicals(qc[i]) /\ Range(p[i]) = Logicals(qc[i])
  BY <1>1, <1>2, InvertPermutationsIs
<1> QED
  BY <1>1, <1>3, Inverted DEF Output

\* As many wires as there are qubits that are not ancillary remain once the others have been
\* plugged.
LEMMA EndsAre ==
    ASSUME Given, Constructed, NEW i \in {1, 2}, NEW L, L = Logicals(qc[1])
    PROVE  /\ Ends(i) \subseteq L /\ IsFiniteSet(Ends(i)) /\ IsFiniteSet(L \ Ancillae)
           /\ Cardinality(Ends(i)) = Cardinality(L \ Ancillae)
           /\ \A l \in DOMAIN p[i] : p[i][l] \in Ends(i) <=> l \notin Ancillae
<1>1. /\ Logicals(qc[i]) = L /\ IsFiniteSet(L) /\ Ancillae \subseteq L
      /\ IsCircuit(qc[i]) /\ p[i] = InvertPermutations(qc[i])
  BY WiresAre
<1>2. /\ \A l \in DOMAIN p[i] : p[i][l] \in L
      /\ \A k, l \in DOMAIN p[i] : p[i][k] = p[i][l] => k = l
  BY <1>1, InvertPermutationsIs
<1>3. Ancillae \subseteq DOMAIN p[i]
  BY DEF Constructed
<1>4. Plugged(i) = {p[i][a] : a \in Ancillae} /\ Ends(i) = L \ Plugged(i)
  BY <1>1 DEF Plugged, Ends
<1>5. Plugged(i) \subseteq L
  BY <1>2, <1>3, <1>4
<1>6. IsFiniteSet(Ancillae) /\ IsFiniteSet(Plugged(i))
  BY <1>1, <1>5, FS_Subset
<1>7. Cardinality(Plugged(i)) = Cardinality(Ancillae)
  <2> DEFINE f == [a \in Ancillae |-> p[i][a]]
  <2>1. f \in [Ancillae -> Plugged(i)] /\ \A t \in Plugged(i) : \E a \in Ancillae : f[a] = t
    BY <1>4
  <2>2. \A a, b \in Ancillae : f[a] = f[b] => a = b
    BY <1>2, <1>3
  <2>3. f \in Bijection(Ancillae, Plugged(i))
    BY <2>1, <2>2 DEF Bijection, Injection, Surjection, IsInjective
  <2> QED
    BY <1>6, <2>3, FS_Bijection DEF ExistsBijection
<1>8. L \cap Plugged(i) = Plugged(i) /\ L \cap Ancillae = Ancillae
  BY <1>1, <1>5
<1>9. /\ IsFiniteSet(L \ Plugged(i))
      /\ Cardinality(L \ Plugged(i)) = Cardinality(L) - Cardinality(L \cap Plugged(i))
      /\ IsFiniteSet(L \ Ancillae)
      /\ Cardinality(L \ Ancillae) = Cardinality(L) - Cardinality(L \cap Ancillae)
  BY <1>1, FS_Difference
<1>10. \A l \in DOMAIN p[i] : p[i][l] \in Ends(i) <=> l \notin Ancillae
  BY <1>2, <1>3, <1>4
<1>11. Cardinality(Ends(i)) = Cardinality(L \ Ancillae) /\ IsFiniteSet(Ends(i))
  BY <1>4, <1>7, <1>8, <1>9
<1> QED
  BY <1>4, <1>9, <1>10, <1>11

\* If nothing is left but wires, then those that have been plugged at their ends are those
\* that begin with an ancillary qubit: both have been counted.
LEMMA PluggedAreAncillary ==
    ASSUME Given, Constructed, OnlyWires, NEW i \in {1, 2}, NEW w \in Logicals(qc[1]),
           w \notin Ends(i)
    PROVE  Content(i, w) \in Ancillae
<1> DEFINE L == Logicals(qc[1])
           rest == L \ Ancillae
<1>1. \A j \in {1, 2} :
        /\ Ends(j) \subseteq L /\ IsFiniteSet(Ends(j)) /\ IsFiniteSet(rest)
        /\ Cardinality(Ends(j)) = Cardinality(rest)
  BY EndsAre
<1>2. \A j \in {1, 2} : /\ \A v \in L : Content(j, v) \in L
                        /\ \A u, v \in L : Content(j, u) = Content(j, v) => u = v
  <2>1. /\ \A v \in L : Content(1, v) \in L
        /\ \A u, v \in L : Content(1, u) = Content(1, v) => u = v
    BY WiresAre
  <2>2. /\ \A v \in L : Content(2, v) \in L
        /\ \A u, v \in L : Content(2, u) = Content(2, v) => u = v
    BY WiresAre
  <2> HIDE DEF L
  <2> QED
    BY <2>1, <2>2
<1>3. /\ \A v \in L : Partner(v) \in L /\ Content(2, Partner(v)) = Content(1, v)
      /\ \A u, v \in L : Partner(u) = Partner(v) => u = v
  BY PartnersAre
<1>4. \A v \in Ends(1) : Content(1, v) \notin Ancillae /\ Partner(v) \in Ends(2)
  BY DEF OnlyWires
<1> HIDE DEF L
<1>5. \A v \in Ends(2) : \E u \in Ends(1) : Partner(u) = v
  <2> DEFINE f == [u \in Ends(1) |-> Partner(u)]
  <2>1. f \in [Ends(1) -> Ends(2)] /\ \A u, v \in Ends(1) : f[u] = f[v] => u = v
    BY <1>1, <1>3, <1>4
  <2>2. f \in Injection(Ends(1), Ends(2))
    BY <2>1 DEF Injection, IsInjective
  <2>3. f \in Surjection(Ends(1), Ends(2))
    BY <1>1, <2>2, FS_Injection
  <2> QED
    BY <2>3 DEF Surjection
<1>6. \A v \in Ends(i) : Content(i, v) \in rest
  <2>1. CASE i = 1
    BY <1>1, <1>2, <1>4, <2>1
  <2>2. CASE i = 2
    <3> SUFFICES ASSUME NEW v \in Ends(2) PROVE Content(2, v) \in rest
      BY <2>2
    <3>1. PICK u \in Ends(1) : Partner(u) = v
      BY <1>5
    <3>2. Content(2, v) = Content(1, u)
      BY <1>1, <1>3, <3>1
    <3> QED
      BY <1>1, <1>2, <1>4, <3>2
  <2> QED
    BY <2>1, <2>2
<1> HIDE DEF rest
<1>7. \A x \in rest : \E v \in Ends(i) : Content(i, v) = x
  <2> DEFINE f == [v \in Ends(i) |-> Content(i, v)]
  <2>1. f \in [Ends(i) -> rest] /\ \A u, v \in Ends(i) : f[u] = f[v] => u = v
    BY <1>1, <1>2, <1>6
  <2>2. f \in Injection(Ends(i), rest)
    BY <2>1 DEF Injection, IsInjective
  <2>3. f \in Surjection(Ends(i), rest)
    BY <1>1, <2>2, FS_Injection
  <2> QED
    BY <2>3 DEF Surjection
<1>8. Content(i, w) \notin rest
  BY <1>1, <1>2, <1>7 DEF L
<1> QED
  BY <1>2, <1>8 DEF L, rest

\* What has been seen is so.
LEMMA SeenIsSo ==
    ASSUME Given, Constructed, Seen, ~SkippedByMistake, ~ForgottenFactor
    PROVE  SameOutputs
<1> SUFFICES ASSUME NEW l \in Range(qc[1].output) \cap Range(qc[2].output)
             PROVE  Outputs(1, l) = Outputs(2, l)
  BY DEF SameOutputs
<1> DEFINE v == p[1][l]
           w == p[2][l]
           L == Logicals(qc[1])
<1>1. /\ l \in DOMAIN p[1] /\ v \in L /\ v \in DOMAIN Output(1) /\ Output(1)[v] = l
      /\ Outputs(1, l) = <<{Content(1, v)} \ Ancillae, Hadamard(1, v)>>
  BY OutputsAre
<1>2. /\ l \in DOMAIN p[2] /\ w \in L /\ w \in DOMAIN Output(2) /\ Output(2)[w] = l
      /\ Outputs(2, l) = <<{Content(2, w)} \ Ancillae, Hadamard(2, w)>>
  BY OutputsAre
<1>3. v \in Ends(1) <=> l \notin Ancillae
  BY <1>1, EndsAre
<1>4. w \in Ends(2) <=> l \notin Ancillae
  BY <1>2, EndsAre
<1>5. CASE l \in Ancillae
  <2>1. Content(1, v) \in Ancillae /\ Content(2, w) \in Ancillae
    BY <1>1, <1>2, <1>3, <1>4, <1>5, PluggedAreAncillary DEF Seen
  <2>2. Hadamard(1, v) = Hadamard(2, w)
    BY <1>5 DEF ForgottenFactor
  <2> QED
    BY <1>1, <1>2, <2>1, <2>2
<1>6. CASE l \notin Ancillae
  <2>1. v \in Ends(1) /\ v \notin Differing
    BY <1>3, <1>6 DEF Seen
  <2>2. ~Skipped(v)
    <3>1. l \notin GarbageInBoth
      BY DEF GarbageInBoth, Garbage
    <3> QED
      BY <1>1, <2>1, <3>1 DEF SkippedByMistake
  <2>3. ~Crossed(v) /\ Named(v) /\ Output(1)[v] = Output(2)[Partner(v)]
    BY <2>1, <2>2 DEF Differing
  <2>4. Partner(v) = w
    <3>1. Partner(v) \in Range(p[2]) /\ DOMAIN Output(2) = Range(p[2])
      BY <2>3, Inverted DEF Named, Output
    <3>2. p[2][Output(2)[Partner(v)]] = Partner(v)
      BY <3>1, Inverted DEF Output
    <3> QED
      BY <1>1, <2>3, <3>2
  <2>5. Content(2, w) = Content(1, v)
    BY <1>1, <2>4, PartnersAre
  <2>6. Hadamard(1, v) = Hadamard(2, w)
    BY <2>3, <2>4 DEF Crossed
  <2> QED
    BY <1>1, <1>2, <2>5, <2>6
<1> QED
  BY <1>5, <1>6

\* What is so is seen, when all is output and nothing is left but wires.
LEMMA SoIsSeen ==
    ASSUME Given, size = 0, SameOutputs,
           \A i \in {1, 2} : Garbage(qc[i]) = {} /\ Ancillary(qc[i]) = {}
    PROVE  Seen
<1> DEFINE L == Logicals(qc[1])
<1>1. Ancillae = {}
  BY DEF Ancillae
<1>2. \A i \in {1, 2} : Ends(i) = L
  <2>1. \A i \in {1, 2} : Plugged(i) = {} /\ Logicals(qc[i]) = L
    BY <1>1, WiresAre DEF Plugged
  <2> QED
    BY <2>1 DEF Ends
<1>3. \A w \in L : Partner(w) \in L /\ Content(2, Partner(w)) = Content(1, w)
  BY PartnersAre
<1>4. OnlyWires
  BY <1>1, <1>2, <1>3 DEF OnlyWires
<1>5. ASSUME NEW w \in L
      PROVE  ~Crossed(w) /\ Named(w) /\ Output(1)[w] = Output(2)[Partner(w)]
  <2> DEFINE q == Holder(1, w)
             l == qc[1].output[q]
  <2>1. /\ IsCircuit(qc[1]) /\ p[1] = InvertPermutations(qc[1])
        /\ q \in DOMAIN qc[1].layout /\ qc[1].layout[q] = w
    BY WiresAre
  <2>2. q \in DOMAIN qc[1].output /\ p[1][l] = w
    BY <2>1, InvertPermutationsIs
  <2>3. l \in Range(qc[1].output) /\ l \in L
    BY <2>1, <2>2, CircuitIs DEF Range
  <2>4. l \in Range(qc[2].output)
    <3>1. Logicals(qc[2]) = L
      BY WiresAre
    <3> QED
      BY <2>3, <3>1 DEF Garbage
  <2> HIDE DEF l
  <2> DEFINE v == p[2][l]
  <2>5. /\ w \in DOMAIN Output(1) /\ Output(1)[w] = l
        /\ Outputs(1, l) = <<{Content(1, w)} \ Ancillae, Hadamard(1, w)>>
    BY <2>2, <2>3, OutputsAre
  <2>6. /\ v \in L /\ v \in DOMAIN Output(2) /\ Output(2)[v] = l
        /\ Outputs(2, l) = <<{Content(2, v)} \ Ancillae, Hadamard(2, v)>>
    BY <2>4, OutputsAre
  <2>7. Outputs(1, l) = Outputs(2, l)
    BY <2>3, <2>4 DEF SameOutputs
  <2>8. {Content(1, w)} = {Content(2, v)} /\ Hadamard(1, w) = Hadamard(2, v)
    BY <1>1, <2>5, <2>6, <2>7
  <2>9. v = Partner(w)
    BY <2>6, <2>8, PartnersAre
  <2> QED
    BY <2>5, <2>6, <2>8, <2>9 DEF Crossed, Named
<1>6. Differing = {}
  BY <1>2, <1>5 DEF Differing
<1> QED
  BY <1>4, <1>6 DEF Seen

\* A set of numbers has a least one.
LEMMA LeastOf ==
    ASSUME NEW T, T \subseteq Nat, T # {}
    PROVE  Min(T) \in T
<1> DEFINE less == OpToRel(<, Nat)
<1>1. \A x, y \in T : <<y, x>> \in less <=> y < x
  BY DEF OpToRel
<1>2. IsWellFoundedOn(less, Nat)
  BY NatLessThanWellFounded
<1> HIDE DEF less
<1>3. PICK x \in T : \A y \in T : <<y, x>> \notin less
  BY <1>2, WFMin
<1>4. \A y \in T : ~(y < x)
  BY <1>1, <1>3
<1>5. \A y \in T : x <= y
  BY <1>4
<1> QED
  BY <1>5 DEF Min

\* Only a gap keeps the checker from an answer.
LEMMA OnlyGaps ==
    ASSUME Given, ~Gap
    PROVE  Constructed /\ ~CompareThrows
<1> DEFINE L == Logicals(qc[1])
<1>1. \A i \in {1, 2} : DOMAIN p[i] = L /\ DOMAIN Output(i) = L
  BY AllNamed
<1>2. Ancillae \subseteq L
  BY WiresAre
<1>3. Constructed
  BY <1>1, <1>2 DEF Constructed
<1>4. ASSUME CompareThrows
      PROVE  FALSE
  <2>1. Differing \subseteq Ends(1) /\ Ends(1) \subseteq L /\ L \subseteq Nat
    BY WiresAre DEF Differing, Ends
  <2>2. Min(Differing) \in L
    BY <1>4, <2>1, LeastOf DEF CompareThrows
  <2>3. Partner(Min(Differing)) \in L
    BY <2>2, PartnersAre
  <2> QED
    BY <1>1, <1>4, <2>2, <2>3 DEF CompareThrows, Named
<1> QED
  BY <1>3, <1>4

\* What is judged is judged rightly.
LEMMA JudgedRightly == JudgedInv => VerdictRight
<1> SUFFICES ASSUME JudgedInv PROVE VerdictRight
  OBVIOUS
<1>1. ASSUME equivalence = "Equivalent"
      PROVE  SameOutputs \/ SkippedByMistake \/ ForgottenFactor
  <2>1. pc = "returned" /\ Answered /\ Constructed /\ Given
    BY <1>1 DEF JudgedInv
  <2>2. Seen
    BY <1>1, <2>1 DEF Answered
  <2> QED
    BY <2>1, <2>2, SeenIsSo
<1>2. ASSUME pc = "returned", size = 0, ~signalled, SameOutputs,
             ~\E i \in {1, 2} : Garbage(qc[i]) # {} \/ Ancillary(qc[i]) # {}
      PROVE  equivalence = "Equivalent"
  <2>1. Given /\ Answered
    BY <1>2 DEF JudgedInv
  <2>2. Seen
    BY <1>2, <2>1, SoIsSeen
  <2> QED
    BY <1>2, <2>1, <2>2 DEF Answered
<1>3. ASSUME pc \in {"threw", "terminated"}
      PROVE  Gap
  BY <1>3, OnlyGaps DEF JudgedInv
<1> QED
  BY <1>1, <1>2, <1>3 DEF VerdictRight

LEMMA InitJudgedInv == Init => JudgedInv
<1> SUFFICES ASSUME Init PROVE JudgedInv
  OBVIOUS
<1>1. PICK input \in Inputs : qc = input.qc
  BY DEF Init
<1>2. Given
  BY <1>1, InputsAssumption DEF Init, Given
<1> QED
  BY <1>2 DEF Init, JudgedInv

\* The rewriting leaves alone what the comparison is about, and nothing happens after it.
LEMMA NextJudgedInv == JudgedInv /\ [Next]_vars => JudgedInv'
<1> SUFFICES ASSUME JudgedInv, [Next]_vars PROVE JudgedInv'
  OBVIOUS
<1>1. ASSUME UNCHANGED <<qc, p, pc, equivalence>>,
             pc = "reduce" \/ UNCHANGED <<size, signalled>>
      PROVE  JudgedInv'
  <2>1. Given' /\ (Constructed' <=> Constructed)
    BY <1>1 DEF JudgedInv, Given, Constructed, Ancillae
  <2>2. CASE pc = "reduce"
    BY <1>1, <2>1, <2>2 DEF JudgedInv
  <2>3. CASE pc # "reduce"
    <3>1. UNCHANGED <<qc, p, pc, equivalence, size, signalled>>
      BY <1>1, <2>3
    <3>2. (CompareThrows' <=> CompareThrows) /\ (Seen' <=> Seen) /\ (AnyAncilla' <=> AnyAncilla)
      BY <3>1 DEF CompareThrows, Seen, AnyAncilla, OnlyWires, Differing, Ends, Plugged, Partner,
                  Content, Holder, Hadamard, Skipped, GarbageInBoth, Crossed, Named, Output,
                  Ancillae
    <3>3. Answered' <=> Answered
      BY <3>1, <3>2 DEF Answered
    <3> QED
      BY <2>1, <3>1, <3>2, <3>3 DEF JudgedInv
  <2> QED
    BY <2>2, <2>3
<1>2. CASE Construct
  <2>1. /\ pc = "construct" /\ equivalence = "NoInformation" /\ Given
        /\ pc' = IF Constructed THEN "reduce" ELSE "terminated"
        /\ UNCHANGED <<qc, p, equivalence>>
    BY <1>2 DEF Construct, JudgedInv, Constructed
  <2>2. Given' /\ (Constructed' <=> Constructed)
    BY <2>1 DEF Given, Constructed, Ancillae
  <2> QED
    BY <2>1, <2>2 DEF JudgedInv
<1>3. CASE Compare
  <2>1. /\ pc = "reduce" /\ equivalence = "NoInformation" /\ Given /\ Constructed
        /\ UNCHANGED <<qc, p, size, signalled>>
    BY <1>3 DEF Compare, JudgedInv
  <2>2. Given' /\ (Constructed' <=> Constructed)
    BY <2>1 DEF Given, Constructed, Ancillae
  <2>3. (CompareThrows' <=> CompareThrows) /\ (Seen' <=> Seen) /\ (AnyAncilla' <=> AnyAncilla)
    BY <2>1 DEF CompareThrows, Seen, AnyAncilla, OnlyWires, Differing, Ends, Plugged, Partner,
                Content, Holder, Hadamard, Skipped, GarbageInBoth, Crossed, Named, Output,
                Ancillae
  <2>4. CASE CompareThrows
    <3>1. pc' = "threw" /\ equivalence' = equivalence
      BY <1>3, <2>4 DEF Compare
    <3> QED
      BY <2>1, <2>2, <2>3, <2>4, <3>1 DEF JudgedInv
  <2>5. CASE ~CompareThrows
    <3>1. /\ pc' = "returned"
          /\ equivalence' = IF signalled \/ (~Seen /\ AnyAncilla) THEN "NoInformation"
                            ELSE IF Seen THEN "Equivalent" ELSE "ProbablyNotEquivalent"
      BY <1>3, <2>5 DEF Compare, Seen
    <3>2. Answered'
      BY <2>1, <2>3, <2>5, <3>1 DEF Answered
    <3> QED
      BY <2>1, <2>2, <3>1, <3>2 DEF JudgedInv
  <2> QED
    BY <2>4, <2>5
<1>4. CASE Enter \/ Transform \/ Rewrite \/ Exhaust \/ BeginRound \/ Return
  <2>1. pc = "reduce" /\ UNCHANGED <<qc, p, pc, equivalence>>
    BY <1>4 DEF Enter, Transform, Rewrite, Exhaust, BeginRound, Return, Reducing
  <2> QED
    BY <1>1, <2>1
<1>5. CASE SignalDone
  <2>1. pc = "reduce" /\ UNCHANGED <<qc, p, pc, equivalence>>
    BY <1>5 DEF SignalDone
  <2> QED
    BY <1>1, <2>1
<1>6. CASE Terminated \/ UNCHANGED vars
  <2>1. UNCHANGED <<qc, p, pc, equivalence, size, signalled>>
    BY <1>6 DEF Terminated, vars
  <2> QED
    BY <1>1, <2>1
<1> QED
  BY <1>2, <1>3, <1>4, <1>5, <1>6 DEF Next, Step

\* Circuits that are called equivalent agree on what they output, but for the two mistakes that
\* VerdictRight names; circuits that agree are called equivalent if nothing is ancillary or
\* garbage; and only a gap in the numbers of the qubits keeps the checker from an answer
\* (ZXChecker.cpp:32-130).
THEOREM VerdictIsRight == Spec => []VerdictRight
<1> QED
  BY InitJudgedInv, NextJudgedInv, JudgedRightly, PTL DEF Spec
================================================================================
