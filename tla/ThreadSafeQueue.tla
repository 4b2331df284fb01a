--------------------------- MODULE ThreadSafeQueue ---------------------------
(***************************************************************************)
(* ec::ThreadSafeQueue (include/ThreadSafeQueue.hpp): the linked queue     *)
(* with one mutex for its head and one for its tail, and the condition     *)
(* variable dataCond that consumers wait on with the head mutex.           *)
(*                                                                         *)
(* Every step is one access to shared memory, or the accesses made under   *)
(* one mutex.  A producer is a thread that calls push, again and again; a  *)
(* consumer calls waitAndPop or waitAndPopUntil.  Nodes are heap cells:    *)
(* they are allocated by push, owned by the list (or by the consumer that  *)
(* has just popped them) and freed when that owner goes away, after which  *)
(* a later push may be given the same cell.                                *)
(***************************************************************************)
EXTENDS Naturals, Sequences

CONSTANTS
    Producers,  \* threads that push
    Consumers,  \* threads that pop
    Values,     \* what is pushed
    Nodes,      \* heap cells: the queue holds at most |Nodes| - 1 values
    Null,       \* the null pointer, and the absence of an owner or a value
    TimedCalls  \* the kinds of call made: subset of BOOLEAN, TRUE = ...Until

ASSUME NullAssumption ==
    /\ Null \notin Nodes
    /\ Null \notin Values
    /\ Null \notin Producers \cup Consumers

ASSUME ThreadAssumption == Producers \cap Consumers = {}

ASSUME CallAssumption == TimedCalls \subseteq BOOLEAN

VARIABLES
    data,       \* Node::data of every cell
    next,       \* Node::next of every cell
    live,       \* the allocated cells
    head,       \* the queue's head: its dummy node if the queue is empty
    tail,       \* the queue's tail: always a dummy node
    headOwner,  \* the consumer that holds headMutex
    tailOwner,  \* the producer that holds tailMutex
    waiting,    \* the consumers blocked in dataCond
    expired,    \* the deadline of the timed calls has passed
    pc,         \* what each thread does next
    value,      \* push: the argument
    newNode,    \* push: the cell allocated for the new dummy node
    timed,      \* the consumer is in waitAndPopUntil
    late,       \* the consumer's last wait ended after the deadline
    oldHead,    \* the cell a consumer has popped
    outcome,    \* what the consumer's last call returned
    chain       \* history: the cells from head to tail, in link order

vars == <<data, next, live, head, tail, headOwner, tailOwner, waiting, expired,
          pc, value, newNode, timed, late, oldHead, outcome, chain>>

list == <<data, next, head, tail, chain>>
pushLocals == <<value, newNode>>
popLocals == <<timed, late, oldHead, outcome>>

Init ==
    \E dummy \in Nodes :
        /\ data = [n \in Nodes |-> Null]
        /\ next = [n \in Nodes |-> Null]
        /\ live = {dummy}
        /\ head = dummy
        /\ tail = dummy
        /\ chain = <<dummy>>
        /\ headOwner = Null
        /\ tailOwner = Null
        /\ waiting = {}
        /\ expired = FALSE
        /\ pc = [t \in Producers \cup Consumers |-> "idle"]
        /\ value = [p \in Producers |-> Null]
        /\ newNode = [p \in Producers |-> Null]
        /\ timed = [c \in Consumers |-> FALSE]
        /\ late = [c \in Consumers |-> FALSE]
        /\ oldHead = [c \in Consumers |-> Null]
        /\ outcome = [c \in Consumers |-> Null]

Goto(t, label) == pc' = [pc EXCEPT ![t] = label]

-----------------------------------------------------------------------------
(* Mistakes.  Each operator is what a slip in the code would make of one of  *)
(* the steps below.  No behaviour has them: put in the place of the step,    *)
(* each breaks a property, which shows that the property depends on it.      *)

\* push without tailLock
LockTailForgotten(p) ==
    /\ pc[p] = "lockTail"
    /\ tailOwner' = p
    /\ Goto(p, "link")
    /\ UNCHANGED <<list, live, headOwner, waiting, expired, pushLocals, popLocals>>

\* popHead that hands out a plain pointer to the cell that it frees
PopHeadFreeing(c) ==
    /\ pc[c] = "pop"
    /\ oldHead' = [oldHead EXCEPT ![c] = head]
    /\ live' = live \ {head}
    /\ head' = next[head]
    /\ next' = [next EXCEPT ![head] = Null]
    /\ chain' = Tail(chain)
    /\ headOwner' = Null
    /\ Goto(c, "return")
    /\ UNCHANGED <<data, tail, tailOwner, waiting, expired, pushLocals, timed, late, outcome>>

\* dataCond.wait without its predicate
WaitWithoutPredicate(c) ==
    /\ pc[c] = "relock"
    /\ headOwner = Null
    /\ headOwner' = c
    /\ Goto(c, "pop")
    /\ UNCHANGED <<list, live, tailOwner, waiting, expired, pushLocals, popLocals>>

\* a loop around dataCond.wait_until that ignores its status
WaitIgnoringTimeout(c) ==
    /\ pc[c] = "relock"
    /\ headOwner = Null
    /\ headOwner' = c
    /\ Goto(c, "predicate")
    /\ UNCHANGED <<list, live, tailOwner, waiting, expired, pushLocals, popLocals>>

\* waitPopHeadUntil without the second comparison of head and tail
PopWithoutRecheck(c) ==
    /\ pc[c] = "recheck"
    /\ Goto(c, "pop")
    /\ UNCHANGED <<list, live, headOwner, tailOwner, waiting, expired, pushLocals, popLocals>>

\* waitPopHeadUntil that gives up whenever the wait has timed out
GiveUpWithoutRecheck(c) ==
    /\ pc[c] = "recheck"
    /\ Goto(c, IF late[c] THEN "idle" ELSE "pop")
    /\ headOwner' = IF late[c] THEN Null ELSE headOwner
    /\ outcome' = IF late[c] THEN [outcome EXCEPT ![c] = Null] ELSE outcome
    /\ UNCHANGED <<list, live, tailOwner, waiting, expired, pushLocals, timed, late, oldHead>>

-----------------------------------------------------------------------------
(* push *)

\* The value and the new dummy node are allocated before any lock is taken.
Allocate(p) ==
    /\ pc[p] = "idle"
    /\ \E v \in Values, n \in Nodes \ live :
         /\ value' = [value EXCEPT ![p] = v]
         /\ newNode' = [newNode EXCEPT ![p] = n]
         /\ live' = live \cup {n}
         /\ data' = [data EXCEPT ![n] = Null]
         /\ next' = [next EXCEPT ![n] = Null]
    /\ Goto(p, "lockTail")
    /\ UNCHANGED <<head, tail, chain, headOwner, tailOwner, waiting, expired, popLocals>>

LockTail(p) ==
    /\ pc[p] = "lockTail"
    /\ tailOwner = Null
    /\ tailOwner' = p
    /\ Goto(p, "link")
    /\ UNCHANGED <<list, live, headOwner, waiting, expired, pushLocals, popLocals>>

\* tail->data = data; tail->next = std::move(p)
Link(p) ==
    /\ pc[p] = "link"
    /\ data' = [data EXCEPT ![tail] = value[p]]
    /\ next' = [next EXCEPT ![tail] = newNode[p]]
    /\ Goto(p, "advance")
    /\ UNCHANGED <<head, tail, chain, live, headOwner, tailOwner, waiting, expired,
                   pushLocals, popLocals>>

\* tail = newTail, and the end of the scope of tailLock
AdvanceTail(p) ==
    /\ pc[p] = "advance"
    /\ tail' = newNode[p]
    /\ chain' = Append(chain, newNode[p])
    /\ tailOwner' = Null
    /\ newNode' = [newNode EXCEPT ![p] = Null]
    /\ Goto(p, "notify")
    /\ UNCHANGED <<data, next, head, live, headOwner, waiting, expired, value, popLocals>>

\* dataCond.notify_one(), which no mutex protects: it reaches a consumer that
\* is blocked now, or none.
Notify(p) ==
    /\ pc[p] = "notify"
    /\ \/ /\ waiting = {}
          /\ Goto(p, "idle")
          /\ UNCHANGED waiting
       \/ \E c \in waiting :
            /\ waiting' = waiting \ {c}
            /\ pc' = [pc EXCEPT ![p] = "idle", ![c] = "relock"]
    /\ value' = [value EXCEPT ![p] = Null]
    /\ UNCHANGED <<list, live, headOwner, tailOwner, expired, newNode, popLocals>>

-----------------------------------------------------------------------------
(* waitAndPop and waitAndPopUntil *)

Request(c) ==
    /\ pc[c] = "idle"
    /\ \E isTimed \in TimedCalls : timed' = [timed EXCEPT ![c] = isTimed]
    /\ late' = [late EXCEPT ![c] = FALSE]
    /\ Goto(c, "lockHead")
    /\ UNCHANGED <<list, live, headOwner, tailOwner, waiting, expired, pushLocals,
                   oldHead, outcome>>

LockHead(c) ==
    /\ pc[c] = "lockHead"
    /\ headOwner = Null
    /\ headOwner' = c
    /\ Goto(c, "predicate")
    /\ UNCHANGED <<list, live, tailOwner, waiting, expired, pushLocals, popLocals>>

\* The predicate of the wait: getTail() takes tailMutex for one read.  A timed
\* wait that ended late gives up when it is false, any other one blocks.
Predicate(c) ==
    /\ pc[c] = "predicate"
    /\ tailOwner = Null
    /\ Goto(c, IF timed[c] /\ (head # tail \/ late[c]) THEN "recheck"
               ELSE IF head # tail THEN "pop"
               ELSE "block")
    /\ UNCHANGED <<list, live, headOwner, tailOwner, waiting, expired, pushLocals, popLocals>>

\* dataCond.wait: releasing headMutex and blocking is one step
Block(c) ==
    /\ pc[c] = "block"
    /\ headOwner' = Null
    /\ waiting' = waiting \cup {c}
    /\ Goto(c, "blocked")
    /\ UNCHANGED <<list, live, tailOwner, expired, pushLocals, popLocals>>

SpuriousWake(c) ==
    /\ c \in waiting
    /\ waiting' = waiting \ {c}
    /\ Goto(c, "relock")
    /\ UNCHANGED <<list, live, headOwner, tailOwner, expired, pushLocals, popLocals>>

TimeOut(c) ==
    /\ c \in waiting
    /\ timed[c]
    /\ expired
    /\ waiting' = waiting \ {c}
    /\ Goto(c, "relock")
    /\ UNCHANGED <<list, live, headOwner, tailOwner, expired, pushLocals, popLocals>>

\* A wait returns with headMutex held; a timed one reports whether the clock
\* has passed the deadline.
Relock(c) ==
    /\ pc[c] = "relock"
    /\ headOwner = Null
    /\ headOwner' = c
    /\ late' = [late EXCEPT ![c] = timed[c] /\ expired]
    /\ Goto(c, "predicate")
    /\ UNCHANGED <<list, live, tailOwner, waiting, expired, pushLocals, timed,
                   oldHead, outcome>>

\* waitPopHeadUntil compares head and tail once more before it gives up
Recheck(c) ==
    /\ pc[c] = "recheck"
    /\ tailOwner = Null
    /\ \/ /\ head # tail
          /\ Goto(c, "pop")
          /\ UNCHANGED <<headOwner, outcome>>
       \/ /\ head = tail
          /\ headOwner' = Null
          /\ outcome' = [outcome EXCEPT ![c] = Null]
          /\ Goto(c, "idle")
    /\ UNCHANGED <<list, live, tailOwner, waiting, expired, pushLocals, timed, late, oldHead>>

\* popHead, and the end of the scope of headLock
PopHead(c) ==
    /\ pc[c] = "pop"
    /\ oldHead' = [oldHead EXCEPT ![c] = head]
    /\ head' = next[head]
    /\ next' = [next EXCEPT ![head] = Null]
    /\ chain' = Tail(chain)
    /\ headOwner' = Null
    /\ Goto(c, "return")
    /\ UNCHANGED <<data, tail, live, tailOwner, waiting, expired, pushLocals, timed,
                   late, outcome>>

\* return oldHead->data, after which the popped cell is freed
Return(c) ==
    /\ pc[c] = "return"
    /\ outcome' = [outcome EXCEPT ![c] = data[oldHead[c]]]
    /\ live' = live \ {oldHead[c]}
    /\ oldHead' = [oldHead EXCEPT ![c] = Null]
    /\ Goto(c, "idle")
    /\ UNCHANGED <<list, headOwner, tailOwner, waiting, expired, pushLocals, timed, late>>

-----------------------------------------------------------------------------

DeadlinePasses ==
    /\ ~expired
    /\ expired' = TRUE
    /\ UNCHANGED <<list, live, headOwner, tailOwner, waiting, pc, pushLocals, popLocals>>

ProducerStep(p) ==
    Allocate(p) \/ LockTail(p) \/ Link(p) \/ AdvanceTail(p) \/ Notify(p)

\* What a consumer does on its own, once it is inside a call
ConsumerStep(c) ==
    \/ LockHead(c) \/ Predicate(c) \/ Block(c) \/ TimeOut(c) \/ Relock(c)
    \/ Recheck(c) \/ PopHead(c) \/ Return(c)

Next ==
    \/ \E p \in Producers : ProducerStep(p)
    \/ \E c \in Consumers : Request(c) \/ ConsumerStep(c) \/ SpuriousWake(c)
    \/ DeadlinePasses

Spec == Init /\ [][Next]_vars

\* A thread inside push or inside a wait runs on, and time passes.  Nobody has
\* to start a call, and no wake-up has to come but from a notify.
Fairness ==
    /\ \A p \in Producers :
         WF_vars(LockTail(p) \/ Link(p) \/ AdvanceTail(p) \/ Notify(p))
    /\ \A c \in Consumers : WF_vars(ConsumerStep(c))
    /\ WF_vars(DeadlinePasses)

FairSpec == Spec /\ Fairness

-----------------------------------------------------------------------------
(* Properties *)

Threads == Producers \cup Consumers

PushLabels == {"idle", "lockTail", "link", "advance", "notify"}
PopLabels == {"idle", "lockHead", "predicate", "block", "blocked", "relock",
              "recheck", "pop", "return"}

ChainCells == {chain[i] : i \in 1 .. Len(chain)}

\* The type of every variable.
TypeOK ==
    /\ data \in [Nodes -> Values \cup {Null}]
    /\ next \in [Nodes -> Nodes \cup {Null}]
    /\ live \in SUBSET Nodes
    /\ head \in Nodes
    /\ tail \in Nodes
    /\ chain \in Seq(Nodes)
    /\ headOwner \in Consumers \cup {Null}
    /\ tailOwner \in Producers \cup {Null}
    /\ waiting \in SUBSET Consumers
    /\ expired \in BOOLEAN
    /\ pc \in [Threads -> PushLabels \cup PopLabels]
    /\ \A p \in Producers : pc[p] \in PushLabels
    /\ \A c \in Consumers : pc[c] \in PopLabels
    /\ value \in [Producers -> Values \cup {Null}]
    /\ newNode \in [Producers -> Nodes \cup {Null}]
    /\ timed \in [Consumers -> BOOLEAN]
    /\ late \in [Consumers -> BOOLEAN]
    /\ oldHead \in [Consumers -> Nodes \cup {Null}]
    /\ outcome \in [Consumers -> Values \cup {Null}]

\* From head, following next, one comes to tail, through cells that each hold a
\* value, whatever the threads are in the middle of: the list that push and
\* popHead edit under two different mutexes never breaks.
ListIntact ==
    /\ Len(chain) > 0
    /\ head = chain[1]
    /\ tail = chain[Len(chain)]
    /\ \A i, j \in 1 .. Len(chain) : chain[i] = chain[j] => i = j
    /\ \A i \in 1 .. Len(chain) - 1 :
         next[chain[i]] = chain[i + 1] /\ data[chain[i]] \in Values

\* Every allocated cell has exactly one owner: the list, the push that has not
\* linked it yet or the pop that has not freed it yet.  No cell leaks, none is
\* freed while it can still be reached, none is freed twice.
EveryCellOwnedOnce ==
    /\ live = (ChainCells \cup {newNode[p] : p \in Producers}
                          \cup {oldHead[c] : c \in Consumers}) \ {Null}
    /\ \A p \in Producers : newNode[p] \notin ChainCells
    /\ \A c \in Consumers : oldHead[c] \notin ChainCells
    /\ \A p \in Producers, c \in Consumers :
         newNode[p] = oldHead[c] => newNode[p] = Null
    /\ \A p, q \in Producers : newNode[p] = newNode[q] => p = q \/ newNode[p] = Null
    /\ \A c, d \in Consumers : oldHead[c] = oldHead[d] => c = d \/ oldHead[c] = Null

\* popHead reads and moves out of the head cell without tailMutex, while push
\* writes the tail cell without headMutex: they never work on the same cell,
\* nor does a consumer return a value out of a cell that a push writes.
NoDataRace ==
    \A p \in Producers, c \in Consumers :
        pc[p] \in {"link", "advance"} =>
            /\ pc[c] = "pop" => head # tail
            /\ oldHead[c] # tail

\* The queue implements the FIFO queue of ResultQueue: a value is pushed when
\* the tail moves, popped when the head moves, and waitAndPopUntil gives up
\* when it finds the queue empty for the last time, after the deadline.
Queued == [i \in 1 .. Len(chain) - 1 |-> data[chain[i]]]

Requested ==
    [c \in Consumers |-> IF pc[c] \in {"idle", "return"} THEN "none"
                         ELSE IF timed[c] THEN "waitUntil" ELSE "wait"]

Returned == [c \in Consumers |-> IF pc[c] = "return" THEN data[oldHead[c]] ELSE outcome[c]]

Fifo == INSTANCE ResultQueue WITH
    NoResult <- Null, items <- Queued, request <- Requested, outcome <- Returned

ImplementsResultQueue == Fifo!QueueSpec

\* Every waitAndPopUntil returns, with a value or without, whatever the
\* producers do: no interleaving of its lock, wait and re-check loses the
\* deadline.
TimedCallReturns ==
    \A c \in Consumers : (timed[c] /\ pc[c] # "idle") ~> (pc[c] = "idle")

\* "It takes care that the checker signals the main thread when it is done"
\* (EquivalenceCheckingManager.hpp:223): a consumer that sleeps in waitAndPop
\* while the queue holds a value is woken up.
PushWakesConsumer ==
    \A c \in Consumers : (c \in waiting /\ head # tail) ~> (c \notin waiting)
=============================================================================
