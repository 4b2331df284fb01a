----------------------------- MODULE ResultQueue -----------------------------
(***************************************************************************)
(* What ec::ThreadSafeQueue promises to the threads that use it: a FIFO    *)
(* queue whose push never waits, and whose waitAndPop / waitAndPopUntil    *)
(* hand out each value once, in order; only waitAndPopUntil may give up,   *)
(* and only after its deadline, with the queue found empty.                *)
(*                                                                         *)
(* ThreadSafeQueue is shown to implement this module; ParallelCheck uses   *)
(* its actions for the queue of finished checkers.                         *)
(***************************************************************************)
EXTENDS Sequences

CONSTANTS
    Consumers,  \* the threads that call waitAndPop or waitAndPopUntil
    Values,     \* what the queue holds (the program pushes checker ids)
    NoResult    \* the null pointer waitAndPopUntil returns, which is no value

VARIABLES
    items,      \* the values pushed and not yet popped, oldest first
    request,    \* the call each consumer is in: "none", "wait" or "waitUntil"
    outcome,    \* what the last finished call of each consumer returned
    expired     \* the deadline of the waitAndPopUntil calls has passed

queueVars == <<items, request, outcome, expired>>

QueueInit ==
    /\ items = << >>
    /\ request = [c \in Consumers |-> "none"]
    /\ outcome = [c \in Consumers |-> NoResult]
    /\ expired = FALSE

Push(v) ==
    /\ items' = Append(items, v)
    /\ UNCHANGED <<request, outcome, expired>>

WaitAndPop(c) ==
    /\ request[c] = "none"
    /\ request' = [request EXCEPT ![c] = "wait"]
    /\ UNCHANGED <<items, outcome, expired>>

WaitAndPopUntil(c) ==
    /\ request[c] = "none"
    /\ request' = [request EXCEPT ![c] = "waitUntil"]
    /\ UNCHANGED <<items, outcome, expired>>

Deliver(c) ==
    /\ request[c] # "none"
    /\ items # << >>
    /\ request' = [request EXCEPT ![c] = "none"]
    /\ outcome' = [outcome EXCEPT ![c] = Head(items)]
    /\ items' = Tail(items)
    /\ UNCHANGED expired

GiveUp(c) ==
    /\ request[c] = "waitUntil"
    /\ expired
    /\ items = << >>
    /\ request' = [request EXCEPT ![c] = "none"]
    /\ outcome' = [outcome EXCEPT ![c] = NoResult]
    /\ UNCHANGED <<items, expired>>

DeadlinePasses ==
    /\ ~expired
    /\ expired' = TRUE
    /\ UNCHANGED <<items, request, outcome>>

QueueNext ==
    \/ \E v \in Values : Push(v)
    \/ \E c \in Consumers :
         WaitAndPop(c) \/ WaitAndPopUntil(c) \/ Deliver(c) \/ GiveUp(c)
    \/ DeadlinePasses

QueueSpec == QueueInit /\ [][QueueNext]_queueVars
=============================================================================
