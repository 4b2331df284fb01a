------------------------ MODULE ThreadSafeQueue_proofs ------------------------
(***************************************************************************)
(* Theorems about ThreadSafeQueue, for any sets of threads, values and     *)
(* cells.                                                                  *)
(***************************************************************************)
EXTENDS ThreadSafeQueue, SequenceTheorems, TLAPS

-----------------------------------------------------------------------------
(* The inductive invariant *)

\* What the control state of the threads says about the locks and the data.
ControlAgrees ==
    /\ \A p \in Producers : pc[p] \in {"link", "advance"} <=> tailOwner = p
    /\ \A c \in Consumers :
         pc[c] \in {"predicate", "block", "recheck", "pop"} <=> headOwner = c
    /\ \A c \in waiting : pc[c] = "blocked"
    /\ \A p \in Producers :
         IF pc[p] \in {"lockTail", "link", "advance"}
         THEN newNode[p] \in Nodes /\ value[p] \in Values
         ELSE newNode[p] = Null
    /\ \A p \in Producers :
         pc[p] = "advance" => data[tail] = value[p] /\ next[tail] = newNode[p]
    /\ \A c \in Consumers : pc[c] = "pop" => head # tail
    /\ \A c \in Consumers :
         IF pc[c] = "return"
         THEN oldHead[c] \in Nodes /\ data[oldHead[c]] \in Values
         ELSE oldHead[c] = Null
    /\ \A c \in Consumers :
         pc[c] = "recheck" => timed[c] /\ (late[c] \/ head # tail)
    /\ \A c \in Consumers : late[c] => expired

IInv == TypeOK /\ ControlAgrees /\ ListIntact /\ EveryCellOwnedOnce

\* The inductive invariant holds initially.
LEMMA InitIInv == Init => IInv
<1> SUFFICES ASSUME Init PROVE IInv
  OBVIOUS
<1> USE NullAssumption, ThreadAssumption
<1>1. PICK dummy \in Nodes :
        /\ live = {dummy}
        /\ head = dummy
        /\ tail = dummy
        /\ chain = <<dummy>>
  BY DEF Init
<1>2. chain \in Seq(Nodes) /\ Len(chain) = 1 /\ chain[1] = dummy
  BY <1>1
<1>3. TypeOK
  BY <1>1, <1>2 DEF Init, TypeOK, Threads, PushLabels, PopLabels
<1>4. ControlAgrees
  BY <1>1 DEF Init, ControlAgrees
<1>5. ListIntact
  BY <1>1, <1>2 DEF ListIntact
<1>6. EveryCellOwnedOnce
  <2>1. ChainCells = {dummy}
    BY <1>2 DEF ChainCells
  <2> QED
    BY <1>1, <2>1 DEF Init, EveryCellOwnedOnce
<1> QED
  BY <1>3, <1>4, <1>5, <1>6 DEF IInv

\* Where the cells are: the ends of the list are in it, and whatever the list
\* or a consumer holds is allocated.
LEMMA CellsAllocated ==
    ASSUME IInv
    PROVE  /\ Len(chain) \in Nat \ {0}
           /\ head \in ChainCells /\ tail \in ChainCells
           /\ ChainCells \subseteq live
           /\ \A i \in 1 .. Len(chain) : chain[i] \in live
           /\ \A c \in Consumers : oldHead[c] # Null => oldHead[c] \in live
<1> USE NullAssumption DEF IInv
<1>1. Len(chain) \in Nat \ {0}
  BY DEF TypeOK, ListIntact
<1>2. head \in ChainCells /\ tail \in ChainCells
  BY <1>1 DEF ListIntact, ChainCells
<1>3. Null \notin ChainCells
  BY <1>1 DEF TypeOK, ChainCells
<1> QED
  BY <1>1, <1>2, <1>3 DEF EveryCellOwnedOnce, ChainCells

\* While the list holds a value, the head cell has it, and the head is not
\* the tail.
LEMMA HeadHoldsValue ==
    ASSUME IInv, head # tail
    PROVE  Len(chain) > 1 /\ next[head] = chain[2] /\ data[head] \in Values
  BY CellsAllocated DEF IInv, ListIntact

\* Every step preserves the types.
LEMMA NextTypeOK == IInv /\ [Next]_vars => TypeOK'
<1> SUFFICES ASSUME IInv, [Next]_vars PROVE TypeOK'
  OBVIOUS
<1> USE NullAssumption, ThreadAssumption, CallAssumption
    DEF IInv, TypeOK, Threads, PushLabels, PopLabels, Goto, list, pushLocals, popLocals
<1>1. ASSUME NEW p \in Producers, Allocate(p) PROVE TypeOK'
  BY <1>1 DEF Allocate
<1>2. ASSUME NEW p \in Producers, LockTail(p) PROVE TypeOK'
  BY <1>2 DEF LockTail
<1>3. ASSUME NEW p \in Producers, Link(p) PROVE TypeOK'
  BY <1>3 DEF Link
<1>4. ASSUME NEW p \in Producers, AdvanceTail(p) PROVE TypeOK'
  <2>1. newNode[p] \in Nodes
    BY <1>4 DEF AdvanceTail, ControlAgrees
  <2> QED
    BY <1>4, <2>1 DEF AdvanceTail
<1>5. ASSUME NEW p \in Producers, Notify(p) PROVE TypeOK'
  <2>1. CASE waiting = {}
    BY <1>5, <2>1 DEF Notify
  <2>2. ASSUME NEW c \in waiting,
               waiting' = waiting \ {c},
               pc' = [pc EXCEPT ![p] = "idle", ![c] = "relock"]
        PROVE  TypeOK'
    BY <1>5, <2>2 DEF Notify
  <2> QED
    BY <1>5, <2>1, <2>2 DEF Notify
<1>6. ASSUME NEW c \in Consumers, Request(c) PROVE TypeOK'
  BY <1>6 DEF Request
<1>7. ASSUME NEW c \in Consumers, LockHead(c) PROVE TypeOK'
  BY <1>7 DEF LockHead
<1>8. ASSUME NEW c \in Consumers, Predicate(c) PROVE TypeOK'
  BY <1>8 DEF Predicate
<1>9. ASSUME NEW c \in Consumers, Block(c) PROVE TypeOK'
  BY <1>9 DEF Block
<1>10. ASSUME NEW c \in Consumers, SpuriousWake(c) \/ TimeOut(c) PROVE TypeOK'
  <2>1. CASE SpuriousWake(c)
    BY <2>1 DEF SpuriousWake
  <2>2. CASE TimeOut(c)
    BY <2>2 DEF TimeOut
  <2> QED
    BY <1>10, <2>1, <2>2
<1>11. ASSUME NEW c \in Consumers, Relock(c) PROVE TypeOK'
  BY <1>11 DEF Relock
<1>12. ASSUME NEW c \in Consumers, Recheck(c) PROVE TypeOK'
  BY <1>12 DEF Recheck
<1>13. ASSUME NEW c \in Consumers, PopHead(c) PROVE TypeOK'
  <2>1. head # tail
    BY <1>13 DEF PopHead, ControlAgrees
  <2>2. Len(chain) > 1 /\ next[head] \in Nodes
    BY <2>1 DEF ListIntact
  <2>3. Tail(chain) \in Seq(Nodes)
    BY <2>2, HeadTailProperties
  <2> QED
    BY <1>13, <2>2, <2>3 DEF PopHead
<1>14. ASSUME NEW c \in Consumers, Return(c) PROVE TypeOK'
  <2>1. data[oldHead[c]] \in Values
    BY <1>14 DEF Return, ControlAgrees
  <2> QED
    BY <1>14, <2>1 DEF Return
<1>15. CASE DeadlinePasses \/ UNCHANGED vars
  BY <1>15 DEF DeadlinePasses, vars
<1> QED
  BY <1>1, <1>2, <1>3, <1>4, <1>5, <1>6, <1>7, <1>8, <1>9, <1>10, <1>11, <1>12,
     <1>13, <1>14, <1>15 DEF Next, ProducerStep, ConsumerStep

\* The locks, the labels and the data stay in agreement.
LEMMA NextControlAgrees == IInv /\ [Next]_vars => ControlAgrees'
<1> SUFFICES ASSUME IInv, [Next]_vars PROVE ControlAgrees'
  OBVIOUS
<1> USE NullAssumption, ThreadAssumption
    DEF IInv, TypeOK, Threads, PushLabels, PopLabels, ControlAgrees,
        Goto, list, pushLocals, popLocals
<1>1. ASSUME NEW p \in Producers, Allocate(p) PROVE ControlAgrees'
  <2>1. tail \in live
    BY CellsAllocated
  <2>2. \A c \in Consumers : pc[c] = "return" => oldHead[c] \in live
    BY CellsAllocated DEF ControlAgrees
  <2> QED
    BY <1>1, <2>1, <2>2 DEF Allocate
<1>2. ASSUME NEW p \in Producers, LockTail(p) PROVE ControlAgrees'
  BY <1>2 DEF LockTail
<1>3. ASSUME NEW p \in Producers, Link(p) PROVE ControlAgrees'
  BY <1>3 DEF Link
<1>4. ASSUME NEW p \in Producers, AdvanceTail(p) PROVE ControlAgrees'
  <2>1. head # newNode[p]
    BY CellsAllocated DEF EveryCellOwnedOnce
  <2> QED
    BY <1>4, <2>1 DEF AdvanceTail
<1>5. ASSUME NEW p \in Producers, Notify(p) PROVE ControlAgrees'
  <2>1. CASE waiting = {}
    BY <1>5, <2>1 DEF Notify
  <2>2. ASSUME NEW c \in waiting,
               waiting' = waiting \ {c},
               pc' = [pc EXCEPT ![p] = "idle", ![c] = "relock"]
        PROVE  ControlAgrees'
    BY <1>5, <2>2 DEF Notify
  <2> QED
    BY <1>5, <2>1, <2>2 DEF Notify
<1>6. ASSUME NEW c \in Consumers, Request(c) PROVE ControlAgrees'
  BY <1>6 DEF Request
<1>7. ASSUME NEW c \in Consumers, LockHead(c) PROVE ControlAgrees'
  BY <1>7 DEF LockHead
<1>8. ASSUME NEW c \in Consumers, Predicate(c) PROVE ControlAgrees'
  BY <1>8 DEF Predicate
<1>9. ASSUME NEW c \in Consumers, Block(c) PROVE ControlAgrees'
  BY <1>9 DEF Block
<1>10. ASSUME NEW c \in Consumers, SpuriousWake(c) PROVE ControlAgrees'
  BY <1>10 DEF SpuriousWake
<1>11. ASSUME NEW c \in Consumers, TimeOut(c) PROVE ControlAgrees'
  BY <1>11 DEF TimeOut
<1>12. ASSUME NEW c \in Consumers, Relock(c) PROVE ControlAgrees'
  BY <1>12 DEF Relock
<1>13. ASSUME NEW c \in Consumers, Recheck(c) PROVE ControlAgrees'
  <2>1. CASE head # tail
    BY <1>13, <2>1 DEF Recheck
  <2>2. CASE head = tail
    BY <1>13, <2>2 DEF Recheck
  <2> QED
    BY <2>1, <2>2
<1>14. ASSUME NEW c \in Consumers, PopHead(c) PROVE ControlAgrees'
  <2>1. head # tail /\ data[head] \in Values
    BY <1>14, HeadHoldsValue DEF PopHead
  <2> QED
    BY <1>14, <2>1 DEF PopHead
<1>15. ASSUME NEW c \in Consumers, Return(c) PROVE ControlAgrees'
  BY <1>15 DEF Return
<1>16. CASE DeadlinePasses \/ UNCHANGED vars
  BY <1>16 DEF DeadlinePasses, vars
<1> QED
  BY <1>1, <1>2, <1>3, <1>4, <1>5, <1>6, <1>7, <1>8,
     <1>9, <1>10, <1>11, <1>12, <1>13, <1>14, <1>15, <1>16
     DEF Next, ProducerStep, ConsumerStep

\* No step breaks the list.
LEMMA NextListIntact == IInv /\ [Next]_vars => ListIntact'
<1> SUFFICES ASSUME IInv, [Next]_vars PROVE ListIntact'
  OBVIOUS
<1> USE NullAssumption, ThreadAssumption
    DEF IInv, TypeOK, Threads, ControlAgrees, ListIntact,
        Goto, list, pushLocals, popLocals
<1>1. ASSUME NEW p \in Producers, Allocate(p) PROVE ListIntact'
  <2>1. \A i \in 1 .. Len(chain) : chain[i] \in live
    BY CellsAllocated
  <2> QED
    BY <1>1, <2>1 DEF Allocate
<1>2. ASSUME NEW p \in Producers, LockTail(p) PROVE ListIntact'
  BY <1>2 DEF LockTail
<1>3. ASSUME NEW p \in Producers, Link(p) PROVE ListIntact'
  BY <1>3 DEF Link
<1>4. ASSUME NEW p \in Producers, AdvanceTail(p) PROVE ListIntact'
  <2> DEFINE n == newNode[p]
  <2>1. n \in Nodes /\ value[p] \in Values
    BY <1>4 DEF AdvanceTail
  <2>2. data[tail] = value[p] /\ next[tail] = n
    BY <1>4 DEF AdvanceTail
  <2>3. \A i \in 1 .. Len(chain) : chain[i] # n
    BY DEF EveryCellOwnedOnce, ChainCells
  <2>4. chain' = Append(chain, n) /\ tail' = n /\ UNCHANGED <<data, next, head>>
    BY <1>4 DEF AdvanceTail
  <2>5. /\ Len(chain') = Len(chain) + 1
        /\ \A i \in 1 .. Len(chain) : chain'[i] = chain[i]
        /\ chain'[Len(chain) + 1] = n
    BY <2>1, <2>4, AppendProperties
  <2> HIDE DEF n
  <2>6. \A i \in 1 .. Len(chain') - 1 :
          next[chain'[i]] = chain'[i + 1] /\ data[chain'[i]] \in Values
    <3> SUFFICES ASSUME NEW i \in 1 .. Len(chain)
                 PROVE  next[chain[i]] = chain'[i + 1] /\ data[chain[i]] \in Values
      BY <2>5
    <3>1. CASE i = Len(chain)
      BY <3>1, <2>1, <2>2, <2>5
    <3>2. CASE i \in 1 .. Len(chain) - 1
      BY <3>2, <2>5
    <3> QED
      BY <3>1, <3>2
  <2>7. \A i, j \in 1 .. Len(chain') : chain'[i] = chain'[j] => i = j
    <3>1. \A i, j \in 1 .. Len(chain) : chain[i] = chain[j] => i = j
      BY DEF ListIntact
    <3>2. \A i \in 1 .. Len(chain') : i \in 1 .. Len(chain) \/ i = Len(chain) + 1
      BY <2>5
    <3> SUFFICES ASSUME NEW i \in 1 .. Len(chain'), NEW j \in 1 .. Len(chain'),
                        chain'[i] = chain'[j]
                 PROVE  i = j
      OBVIOUS
    <3>3. CASE i \in 1 .. Len(chain) /\ j \in 1 .. Len(chain)
      BY <3>3, <3>1, <2>5
    <3>4. CASE i \in 1 .. Len(chain) /\ j = Len(chain) + 1
      BY <3>4, <2>3, <2>5
    <3>5. CASE i = Len(chain) + 1 /\ j \in 1 .. Len(chain)
      BY <3>5, <2>3, <2>5
    <3> QED
      BY <3>2, <3>3, <3>4, <3>5
  <2> QED
    BY <2>4, <2>5, <2>6, <2>7
<1>5. ASSUME NEW p \in Producers, Notify(p) PROVE ListIntact'
  BY <1>5 DEF Notify
<1>6. ASSUME NEW c \in Consumers, Request(c) PROVE ListIntact'
  BY <1>6 DEF Request
<1>7. ASSUME NEW c \in Consumers, LockHead(c) PROVE ListIntact'
  BY <1>7 DEF LockHead
<1>8. ASSUME NEW c \in Consumers, Predicate(c) PROVE ListIntact'
  BY <1>8 DEF Predicate
<1>9. ASSUME NEW c \in Consumers, Block(c) PROVE ListIntact'
  BY <1>9 DEF Block
<1>10. ASSUME NEW c \in Consumers, SpuriousWake(c) PROVE ListIntact'
  BY <1>10 DEF SpuriousWake
<1>11. ASSUME NEW c \in Consumers, TimeOut(c) PROVE ListIntact'
  BY <1>11 DEF TimeOut
<1>12. ASSUME NEW c \in Consumers, Relock(c) PROVE ListIntact'
  BY <1>12 DEF Relock
<1>13. ASSUME NEW c \in Consumers, Recheck(c) PROVE ListIntact'
  BY <1>13 DEF Recheck
<1>14. ASSUME NEW c \in Consumers, PopHead(c) PROVE ListIntact'
  BY <1>14 DEF PopHead
<1>15. ASSUME NEW c \in Consumers, Return(c) PROVE ListIntact'
  BY <1>15 DEF Return
<1>16. CASE DeadlinePasses \/ UNCHANGED vars
  BY <1>16 DEF DeadlinePasses, vars
<1> QED
  BY <1>1, <1>2, <1>3, <1>4, <1>5, <1>6, <1>7, <1>8,
     <1>9, <1>10, <1>11, <1>12, <1>13, <1>14, <1>15, <1>16
     DEF Next, ProducerStep, ConsumerStep

\* No step leaks a cell, frees it early or gives it a second owner.
LEMMA NextEveryCellOwnedOnce == IInv /\ [Next]_vars => EveryCellOwnedOnce'
<1> SUFFICES ASSUME IInv, [Next]_vars PROVE EveryCellOwnedOnce'
  OBVIOUS
<1> USE NullAssumption, ThreadAssumption
    DEF IInv, TypeOK, Threads, ControlAgrees, EveryCellOwnedOnce, ChainCells,
        Goto, list, pushLocals, popLocals
<1>1. ASSUME NEW p \in Producers, Allocate(p) PROVE EveryCellOwnedOnce'
  BY <1>1 DEF Allocate
<1>2. ASSUME NEW p \in Producers, LockTail(p) PROVE EveryCellOwnedOnce'
  BY <1>2 DEF LockTail
<1>3. ASSUME NEW p \in Producers, Link(p) PROVE EveryCellOwnedOnce'
  BY <1>3 DEF Link
<1>4. ASSUME NEW p \in Producers, AdvanceTail(p) PROVE EveryCellOwnedOnce'
  <2> DEFINE n == newNode[p]
  <2>1. n \in Nodes
    BY <1>4 DEF AdvanceTail
  <2>2. ChainCells' = ChainCells \cup {n}
    <3>1. /\ Len(chain') = Len(chain) + 1
          /\ \A i \in 1 .. Len(chain) : chain'[i] = chain[i]
          /\ chain'[Len(chain) + 1] = n
      BY <1>4, <2>1, AppendProperties DEF AdvanceTail
    <3>2. 1 .. Len(chain') = 1 .. Len(chain) \cup {Len(chain) + 1}
      BY <3>1
    <3> HIDE DEF n
    <3>3. \A m : m \in ChainCells' <=> m \in ChainCells \/ m = n
      BY <3>1, <3>2
    <3> QED
      BY <3>3
  <2>3. /\ newNode' = [newNode EXCEPT ![p] = Null]
        /\ UNCHANGED <<live, oldHead>>
    BY <1>4 DEF AdvanceTail
  <2>4. n # Null /\ n \notin ChainCells /\ \A c \in Consumers : oldHead[c] # n
    BY <2>1
  <2>5. \A q \in Producers : newNode'[q] = IF q = p THEN Null ELSE newNode[q]
    BY <2>3
  <2> HIDE DEF ChainCells
  <2>6. live' = (ChainCells' \cup {newNode'[q] : q \in Producers}
                             \cup {oldHead'[c] : c \in Consumers}) \ {Null}
    BY <2>2, <2>3, <2>4, <2>5
  <2>7. Null \notin ChainCells
    BY CellsAllocated
  <2> QED
    BY <2>2, <2>3, <2>4, <2>5, <2>6, <2>7
<1>5. ASSUME NEW p \in Producers, Notify(p) PROVE EveryCellOwnedOnce'
  BY <1>5 DEF Notify
<1>6. ASSUME NEW c \in Consumers, Request(c) PROVE EveryCellOwnedOnce'
  BY <1>6 DEF Request
<1>7. ASSUME NEW c \in Consumers, LockHead(c) PROVE EveryCellOwnedOnce'
  BY <1>7 DEF LockHead
<1>8. ASSUME NEW c \in Consumers, Predicate(c) PROVE EveryCellOwnedOnce'
  BY <1>8 DEF Predicate
<1>9. ASSUME NEW c \in Consumers, Block(c) PROVE EveryCellOwnedOnce'
  BY <1>9 DEF Block
<1>10. ASSUME NEW c \in Consumers, SpuriousWake(c) PROVE EveryCellOwnedOnce'
  BY <1>10 DEF SpuriousWake
<1>11. ASSUME NEW c \in Consumers, TimeOut(c) PROVE EveryCellOwnedOnce'
  BY <1>11 DEF TimeOut
<1>12. ASSUME NEW c \in Consumers, Relock(c) PROVE EveryCellOwnedOnce'
  BY <1>12 DEF Relock
<1>13. ASSUME NEW c \in Consumers, Recheck(c) PROVE EveryCellOwnedOnce'
  BY <1>13 DEF Recheck
<1>14. ASSUME NEW c \in Consumers, PopHead(c) PROVE EveryCellOwnedOnce'
  <2>1. head # tail /\ Len(chain) > 1
    BY <1>14, HeadHoldsValue DEF PopHead
  <2>2. ChainCells' = ChainCells \ {head}
    <3>1. /\ Len(chain') = Len(chain) - 1
          /\ \A i \in 1 .. Len(chain) - 1 : chain'[i] = chain[i + 1]
      BY <1>14, <2>1, HeadTailProperties DEF PopHead
    <3>2. \A i \in 2 .. Len(chain) : chain[i] # head /\ i - 1 \in 1 .. Len(chain')
      BY <2>1, <3>1 DEF ListIntact
    <3>3. \A i \in 2 .. Len(chain) : chain[i] = chain'[i - 1]
      BY <2>1, <3>1
    <3>4. ASSUME NEW n \in ChainCells' PROVE n \in ChainCells \ {head}
      <4>1. PICK i \in 1 .. Len(chain') : n = chain'[i]
        BY <3>4
      <4>2. i + 1 \in 2 .. Len(chain) /\ n = chain[i + 1]
        BY <4>1, <3>1, <2>1
      <4> QED
        BY <4>2, <3>2
    <3>5. ASSUME NEW n \in ChainCells \ {head} PROVE n \in ChainCells'
      <4>1. PICK i \in 1 .. Len(chain) : n = chain[i]
        BY <3>5
      <4>2. i \in 2 .. Len(chain)
        BY <4>1, <3>5, <2>1 DEF ListIntact
      <4> QED
        BY <4>1, <4>2, <3>2, <3>3
    <3> QED
      BY <3>4, <3>5
  <2>3. head \in ChainCells /\ head # Null
    BY CellsAllocated
  <2>4. /\ oldHead[c] = Null
        /\ oldHead' = [oldHead EXCEPT ![c] = head]
        /\ UNCHANGED <<live, newNode>>
    BY <1>14 DEF PopHead
  <2> HIDE DEF ChainCells
  <2> QED
    BY <2>2, <2>3, <2>4
<1>15. ASSUME NEW c \in Consumers, Return(c) PROVE EveryCellOwnedOnce'
  BY <1>15 DEF Return
<1>16. CASE DeadlinePasses \/ UNCHANGED vars
  BY <1>16 DEF DeadlinePasses, vars
<1> QED
  BY <1>1, <1>2, <1>3, <1>4, <1>5, <1>6, <1>7, <1>8,
     <1>9, <1>10, <1>11, <1>12, <1>13, <1>14, <1>15, <1>16
     DEF Next, ProducerStep, ConsumerStep

-----------------------------------------------------------------------------
(* Theorems *)

\* The invariant holds in every reachable state.
LEMMA Invariance == Spec => []IInv
<1>1. IInv /\ [Next]_vars => IInv'
  BY NextTypeOK, NextControlAgrees, NextListIntact, NextEveryCellOwnedOnce DEF IInv
<1> QED
  BY InitIInv, <1>1, PTL DEF Spec

\* Every variable keeps its type: pops only ever follow pointers that are set.
THEOREM TypeCorrect == Spec => []TypeOK
<1>1. IInv => TypeOK
  BY DEF IInv
<1> QED
  BY Invariance, <1>1, PTL

\* The list that push and popHead edit under two mutexes is never broken.
THEOREM ListStaysIntact == Spec => []ListIntact
<1>1. IInv => ListIntact
  BY DEF IInv
<1> QED
  BY Invariance, <1>1, PTL

\* No cell leaks, is freed while reachable, or is freed twice.
THEOREM CellsOwnedOnce == Spec => []EveryCellOwnedOnce
<1>1. IInv => EveryCellOwnedOnce
  BY DEF IInv
<1> QED
  BY Invariance, <1>1, PTL

\* push and popHead, which hold different mutexes, work on different cells.
THEOREM RaceFree == Spec => []NoDataRace
<1>1. ASSUME IInv PROVE NoDataRace
  <2>1. \A c \in Consumers : oldHead[c] # tail
    BY <1>1, CellsAllocated DEF IInv, EveryCellOwnedOnce
  <2>2. \A c \in Consumers : pc[c] = "pop" => head # tail
    BY <1>1 DEF IInv, ControlAgrees
  <2> QED
    BY <2>1, <2>2 DEF NoDataRace
<1> QED
  BY Invariance, <1>1, PTL

-----------------------------------------------------------------------------
(* The queue implements ResultQueue *)

QueuedElements ==
    /\ Queued \in Seq(Values)
    /\ Len(Queued) = Len(chain) - 1
    /\ \A i \in 1 .. Len(chain) - 1 : Queued[i] = data[chain[i]]

\* The values of the list, from the head to the tail
LEMMA QueuedIsSeq == IInv => QueuedElements
<1> SUFFICES ASSUME IInv PROVE QueuedElements
  OBVIOUS
<1>1. Len(chain) - 1 \in Nat
  BY CellsAllocated
<1>2. \A i \in 1 .. Len(chain) - 1 : data[chain[i]] \in Values
  BY DEF IInv, ListIntact
<1>3. Queued \in [1 .. Len(chain) - 1 -> Values]
  BY <1>2 DEF Queued
<1>4. Queued \in Seq(Values) /\ Len(Queued) = Len(chain) - 1
  BY <1>1, <1>3, SeqDef
<1> QED
  BY <1>4 DEF QueuedElements, Queued

\* A step that leaves the list and the values in it alone leaves the queue alone.
LEMMA QueuedUnchanged ==
    ASSUME chain' = chain,
           \A i \in 1 .. Len(chain) - 1 : data'[chain[i]] = data[chain[i]]
    PROVE  Queued' = Queued
  BY DEF Queued

\* Moving the tail pushes, moving the head pops.
LEMMA AdvanceTailPushes ==
    ASSUME IInv, IInv', NEW p \in Producers, AdvanceTail(p)
    PROVE  Queued' = Append(Queued, value[p]) /\ value[p] \in Values
<1>1. value[p] \in Values /\ newNode[p] \in Nodes /\ data[tail] = value[p]
  BY DEF IInv, ControlAgrees, AdvanceTail
<1>2. /\ Len(chain') = Len(chain) + 1
      /\ \A i \in 1 .. Len(chain) : chain'[i] = chain[i]
      /\ tail = chain[Len(chain)]
      /\ Len(chain) \in Nat \ {0}
  BY <1>1, AppendProperties, CellsAllocated DEF IInv, TypeOK, ListIntact, AdvanceTail
<1>3. data' = data
  BY DEF AdvanceTail
<1>4. /\ Queued' \in Seq(Values)
      /\ Len(Queued') = Len(chain') - 1
      /\ \A i \in 1 .. Len(chain') - 1 : Queued'[i] = data'[chain'[i]]
  <2>1. QueuedElements'
    BY QueuedIsSeq, PTL
  <2> QED
    BY <2>1 DEF QueuedElements
<1>5. /\ Append(Queued, value[p]) \in Seq(Values)
      /\ Len(Append(Queued, value[p])) = Len(chain)
      /\ \A i \in 1 .. Len(chain) - 1 : Append(Queued, value[p])[i] = data[chain[i]]
      /\ Append(Queued, value[p])[Len(chain)] = value[p]
  BY <1>1, <1>2, QueuedIsSeq, AppendProperties DEF QueuedElements
<1>6. ASSUME NEW i \in 1 .. Len(chain)
      PROVE  Queued'[i] = Append(Queued, value[p])[i]
  <2>1. CASE i = Len(chain)
    BY <2>1, <1>1, <1>2, <1>3, <1>4, <1>5
  <2>2. CASE i \in 1 .. Len(chain) - 1
    BY <2>2, <1>2, <1>3, <1>4, <1>5
  <2>3. i = Len(chain) \/ i \in 1 .. Len(chain) - 1
    BY <1>2
  <2> QED
    BY <2>1, <2>2, <2>3
<1>7. Len(Queued') = Len(chain)
  BY <1>2, <1>4
<1> QED
  BY <1>1, <1>4, <1>5, <1>6, <1>7, SeqEqual

\* Taking the head of the list away takes the first value out.
LEMMA PopHeadPops ==
    ASSUME IInv, IInv', NEW c \in Consumers, PopHead(c)
    PROVE  Queued # << >> /\ Queued' = Tail(Queued) /\ data[head] = Head(Queued)
<1>1. head # tail
  BY DEF IInv, ControlAgrees, PopHead
<1>2. Len(chain) > 1 /\ Len(chain) \in Nat /\ head = chain[1]
  BY <1>1, HeadHoldsValue, CellsAllocated DEF IInv, ListIntact
<1>3. /\ Len(chain') = Len(chain) - 1
      /\ \A i \in 1 .. Len(chain) - 1 : chain'[i] = chain[i + 1]
  BY <1>2, HeadTailProperties DEF IInv, TypeOK, PopHead
<1>4. data' = data
  BY DEF PopHead
<1>5. /\ Queued' \in Seq(Values)
      /\ Len(Queued') = Len(chain') - 1
      /\ \A i \in 1 .. Len(chain') - 1 : Queued'[i] = data'[chain'[i]]
  <2>1. QueuedElements'
    BY QueuedIsSeq, PTL
  <2> QED
    BY <2>1 DEF QueuedElements
<1>6. Queued # << >> /\ Head(Queued) = data[head]
  BY <1>2, QueuedIsSeq DEF QueuedElements
<1>7. /\ Tail(Queued) \in Seq(Values)
      /\ Len(Tail(Queued)) = Len(chain) - 2
      /\ \A i \in 1 .. Len(chain) - 2 : Tail(Queued)[i] = data[chain[i + 1]]
  <2>1. /\ Tail(Queued) \in Seq(Values)
        /\ Len(Tail(Queued)) = Len(Queued) - 1
        /\ \A i \in 1 .. Len(Tail(Queued)) : Tail(Queued)[i] = Queued[i + 1]
    BY <1>6, QueuedIsSeq, HeadTailProperties DEF QueuedElements
  <2> QED
    BY <1>2, <2>1, QueuedIsSeq DEF QueuedElements
<1>8. ASSUME NEW i \in 1 .. Len(chain) - 2
      PROVE  Queued'[i] = Tail(Queued)[i]
  <2>1. i \in 1 .. Len(chain) - 1 /\ i \in 1 .. Len(chain') - 1
    BY <1>2, <1>3
  <2>2. Queued'[i] = data[chain[i + 1]]
    BY <2>1, <1>3, <1>4, <1>5
  <2> QED
    BY <2>2, <1>7
<1>9. Len(Queued') = Len(chain) - 2
  BY <1>2, <1>3, <1>5
<1> QED
  BY <1>5, <1>6, <1>7, <1>8, <1>9, SeqEqual

\* An empty list is an empty queue.
LEMMA InitMapsToQueueInit == Init => Fifo!QueueInit
<1> SUFFICES ASSUME Init PROVE Fifo!QueueInit
  OBVIOUS
<1>1. Len(chain) = 1
  BY DEF Init
<1>2. Queued = << >>
  BY <1>1, InitIInv, QueuedIsSeq, EmptySeq DEF QueuedElements
<1> QED
  BY <1>2, NullAssumption, ThreadAssumption
     DEF Init, Fifo!QueueInit, Requested, Returned

\* Every step is a step of ResultQueue or leaves its variables alone.
LEMMA NextMapsToQueueNext ==
    IInv /\ IInv' /\ [Next]_vars => [Fifo!QueueNext]_(Fifo!queueVars)
<1> SUFFICES ASSUME IInv, IInv', [Next]_vars
             PROVE  [Fifo!QueueNext]_(Fifo!queueVars)
  OBVIOUS
<1> USE ThreadAssumption DEF Goto, list, pushLocals, popLocals
<1> DEFINE Stutter == UNCHANGED <<Queued, Requested, Returned, expired>>
<1>0. pc \in [Threads -> PushLabels \cup PopLabels]
  BY DEF IInv, TypeOK
<1>1. ASSUME NEW p \in Producers, Allocate(p) PROVE Stutter
  <2>1. Queued' = Queued
    BY <1>1, CellsAllocated, QueuedUnchanged DEF Allocate, IInv, TypeOK
  <2>2. /\ \A c \in Consumers : pc'[c] = pc[c]
        /\ \A c \in Consumers : pc[c] = "return" => data'[oldHead[c]] = data[oldHead[c]]
    BY <1>0, <1>1, CellsAllocated, NullAssumption
       DEF Allocate, IInv, TypeOK, ControlAgrees, Threads
  <2>3. UNCHANGED <<timed, oldHead, outcome, expired>>
    BY <1>1 DEF Allocate
  <2> QED
    BY <2>1, <2>2, <2>3 DEF Requested, Returned
<1>2. ASSUME NEW p \in Producers, Link(p) PROVE Stutter
  <2>1. Queued' = Queued
    <3>1. \A i \in 1 .. Len(chain) - 1 : chain[i] # tail
      BY CellsAllocated DEF IInv, ListIntact
    <3>2. chain' = chain /\ \A i \in 1 .. Len(chain) - 1 : data'[chain[i]] = data[chain[i]]
      BY <1>2, <3>1 DEF Link, IInv, TypeOK
    <3> QED
      BY <3>2, QueuedUnchanged
  <2>2. /\ \A c \in Consumers : pc'[c] = pc[c]
        /\ \A c \in Consumers : pc[c] = "return" => data'[oldHead[c]] = data[oldHead[c]]
    BY <1>0, <1>2, CellsAllocated
       DEF Link, IInv, TypeOK, ControlAgrees, EveryCellOwnedOnce, Threads
  <2>3. UNCHANGED <<timed, oldHead, outcome, expired>>
    BY <1>2 DEF Link
  <2> QED
    BY <2>1, <2>2, <2>3 DEF Requested, Returned
<1>3. ASSUME NEW p \in Producers, AdvanceTail(p) PROVE \E v \in Values : Fifo!Push(v)
  <2>1. Queued' = Append(Queued, value[p]) /\ value[p] \in Values
    BY <1>3, AdvanceTailPushes
  <2>2. UNCHANGED <<Requested, Returned, expired>>
    BY <1>0, <1>3 DEF AdvanceTail, Requested, Returned, Threads
  <2> QED
    BY <2>1, <2>2 DEF Fifo!Push
<1>4. ASSUME NEW p \in Producers, Notify(p) PROVE Stutter
  <2>1. \A c \in Consumers : pc'[c] = pc[c] \/ (pc[c] = "blocked" /\ pc'[c] = "relock")
    <3>1. CASE waiting = {}
      BY <1>0, <1>4, <3>1 DEF Notify, Threads
    <3>2. ASSUME NEW c \in waiting,
                 pc' = [pc EXCEPT ![p] = "idle", ![c] = "relock"]
          PROVE  \A d \in Consumers :
                   pc'[d] = pc[d] \/ (pc[d] = "blocked" /\ pc'[d] = "relock")
      BY <1>0, <1>4, <3>2 DEF IInv, TypeOK, ControlAgrees, Threads
    <3> QED
      BY <1>4, <3>1, <3>2 DEF Notify
  <2>2. UNCHANGED <<data, chain, timed, oldHead, outcome, expired>>
    BY <1>4 DEF Notify
  <2> QED
    BY <2>1, <2>2 DEF Queued, Requested, Returned
<1>5. ASSUME NEW c \in Consumers, Request(c)
      PROVE  Fifo!WaitAndPop(c) \/ Fifo!WaitAndPopUntil(c)
  <2>1. Requested[c] = "none"
    BY <1>5 DEF Request, Requested
  <2>2. Requested' = [Requested EXCEPT ![c] = IF timed'[c] THEN "waitUntil" ELSE "wait"]
    BY <1>0, <1>5 DEF Request, Requested, IInv, TypeOK, Threads
  <2>3. UNCHANGED <<Queued, Returned, expired>>
    BY <1>0, <1>5 DEF Request, Queued, Returned, Threads
  <2> QED
    BY <2>1, <2>2, <2>3 DEF Fifo!WaitAndPop, Fifo!WaitAndPopUntil
<1>6. ASSUME NEW p \in Producers, LockTail(p) PROVE Stutter
  BY <1>0, <1>6 DEF LockTail, Queued, Requested, Returned, Threads
<1>7. ASSUME NEW c \in Consumers, LockHead(c) PROVE Stutter
  BY <1>0, <1>7 DEF LockHead, Queued, Requested, Returned, Threads
<1>8. ASSUME NEW c \in Consumers, Predicate(c) PROVE Stutter
  BY <1>0, <1>8 DEF Predicate, Queued, Requested, Returned, Threads
<1>9. ASSUME NEW c \in Consumers, Block(c) PROVE Stutter
  BY <1>0, <1>9 DEF Block, Queued, Requested, Returned, Threads
<1>10. ASSUME NEW c \in Consumers, SpuriousWake(c) PROVE Stutter
  BY <1>0, <1>10 DEF SpuriousWake, Queued, Requested, Returned, Threads, IInv, ControlAgrees
<1>11. ASSUME NEW c \in Consumers, TimeOut(c) PROVE Stutter
  BY <1>0, <1>11 DEF TimeOut, Queued, Requested, Returned, Threads, IInv, ControlAgrees
<1>12. ASSUME NEW c \in Consumers, Relock(c) PROVE Stutter
  BY <1>0, <1>12 DEF Relock, Queued, Requested, Returned, Threads
<1>13. ASSUME NEW c \in Consumers, Recheck(c) PROVE Stutter \/ Fifo!GiveUp(c)
  <2>1. CASE head # tail
    BY <1>0, <1>13, <2>1 DEF Recheck, Queued, Requested, Returned, Threads
  <2>2. CASE head = tail
    <3>1. timed[c] /\ expired
      BY <1>13, <2>2 DEF Recheck, IInv, ControlAgrees
    <3>2. Queued = << >>
      <4>1. Len(chain) = 1
        <5>1. Len(chain) \in Nat \ {0} /\ chain[1] = chain[Len(chain)]
          BY <2>2, CellsAllocated DEF IInv, ListIntact
        <5>2. 1 \in 1 .. Len(chain) /\ Len(chain) \in 1 .. Len(chain)
          BY <5>1
        <5> QED
          BY <5>1, <5>2 DEF IInv, ListIntact
      <4> QED
        BY <4>1 DEF Queued
    <3>3. Requested[c] = "waitUntil"
      BY <1>13, <3>1 DEF Recheck, Requested
    <3>4. Requested' = [Requested EXCEPT ![c] = "none"]
      BY <1>0, <1>13, <2>2 DEF Recheck, Requested, Threads
    <3>5. Returned' = [Returned EXCEPT ![c] = Null]
      BY <1>0, <1>13, <2>2 DEF Recheck, Returned, Threads, IInv, TypeOK
    <3>6. UNCHANGED <<Queued, expired>>
      BY <1>13 DEF Recheck, Queued
    <3> QED
      BY <3>1, <3>2, <3>3, <3>4, <3>5, <3>6 DEF Fifo!GiveUp
  <2> QED
    BY <2>1, <2>2
<1>14. ASSUME NEW c \in Consumers, PopHead(c) PROVE Fifo!Deliver(c)
  <2>1. Queued # << >> /\ Queued' = Tail(Queued) /\ data[head] = Head(Queued)
    BY <1>14, PopHeadPops
  <2>2. Requested[c] # "none"
    BY <1>14 DEF PopHead, Requested
  <2>3. Requested' = [Requested EXCEPT ![c] = "none"]
    BY <1>0, <1>14 DEF PopHead, Requested, Threads
  <2>4. Returned' = [Returned EXCEPT ![c] = data[head]]
    BY <1>0, <1>14 DEF PopHead, Returned, Threads, IInv, TypeOK
  <2>5. expired' = expired
    BY <1>14 DEF PopHead
  <2> QED
    BY <2>1, <2>2, <2>3, <2>4, <2>5 DEF Fifo!Deliver
<1>15. ASSUME NEW c \in Consumers, Return(c) PROVE Stutter
  BY <1>0, <1>15 DEF Return, Queued, Requested, Returned, Threads, IInv, TypeOK
<1>16. CASE DeadlinePasses
  BY <1>16 DEF DeadlinePasses, Fifo!DeadlinePasses, Fifo!QueueNext, Queued, Requested, Returned
<1>17. CASE UNCHANGED vars
  BY <1>17 DEF vars, Fifo!queueVars, Queued, Requested, Returned
<1>18. Stutter => UNCHANGED Fifo!queueVars
  BY DEF Fifo!queueVars
<1> HIDE DEF Stutter
<1> QED
  BY <1>1, <1>2, <1>3, <1>4, <1>5, <1>6, <1>7, <1>8, <1>9, <1>10, <1>11, <1>12,
     <1>13, <1>14, <1>15, <1>16, <1>17, <1>18
     DEF Next, ProducerStep, ConsumerStep, Fifo!QueueNext

\* ThreadSafeQueue implements ResultQueue: every value pushed comes out once,
\* in the order in which the pushes moved the tail, and waitAndPopUntil gives
\* up only after its deadline, on an empty queue.
THEOREM QueueCorrect == Spec => ImplementsResultQueue
  BY Invariance, InitMapsToQueueInit, NextMapsToQueueNext, PTL
     DEF Spec, ImplementsResultQueue, Fifo!QueueSpec
===============================================================================
