------------------------------- MODULE Queue --------------------------------
(***************************************************************************)
(* The blocking work queue of src/threadpool/src/queue.c: a linked list    *)
(* between two sentinel nodes, head and tail, a size counter, a mutex and  *)
(* a condition variable.                                                   *)
(*                                                                         *)
(* Both operations run their whole body with queue->mutex held, so each    *)
(* critical section is one atomic step here and the mutex itself needs no *)
(* variable.  pthread_cond_wait releases the mutex and blocks atomically;  *)
(* the blocked callers are the set `waiting`.  A caller leaves it when a   *)
(* pthread_cond_signal wakes it (at least one waiter per signal, as POSIX  *)
(* allows), or spuriously, and then retakes the mutex and re-tests the     *)
(* while loop: that is the caller's next Dequeue step.                     *)
(*                                                                         *)
(* Nodes are addresses from NodePool; malloc may return any address that   *)
(* is not in use, including one freed earlier.                             *)
(***************************************************************************)
EXTENDS Naturals, Sequences, FiniteSets

CONSTANTS
    Callers,      \* the threads that call queue_enqueue and queue_dequeue
    Values,       \* the void* values stored in the queue
    NodePool,     \* addresses malloc can return for a node_t
    HeadNode, TailNode, \* queue->head and queue->tail
    NoNode,       \* an uninitialized pointer field
    Garbage       \* an uninitialized value field

Nodes == NodePool \cup {HeadNode, TailNode}

ASSUME {HeadNode, TailNode, NoNode} \cap NodePool = {} /\ Garbage \notin Values

VARIABLES
    next,     \* node -> node->next
    prev,     \* node -> node->prev
    val,      \* node -> node->value
    size,     \* queue->size
    alloc,    \* the nodes currently malloc'd
    waiting   \* the callers blocked in pthread_cond_wait on queue->cond

qvars == <<next, prev, val, size, alloc, waiting>>

\* queue_init: head->next = tail, tail->prev = head, size 0.  The other
\* fields of the fresh nodes are left uninitialized.
QueueInit ==
    /\ next = [n \in Nodes |-> IF n = HeadNode THEN TailNode ELSE NoNode]
    /\ prev = [n \in Nodes |-> IF n = TailNode THEN HeadNode ELSE NoNode]
    /\ val = [n \in Nodes |-> Garbage]
    /\ size = 0
    /\ alloc = {HeadNode, TailNode}
    /\ waiting = {}

\* Variant with a bug: the signal is lost.
SignalNone == waiting' = waiting

\* pthread_cond_signal: wakes at least one blocked caller, if any.
Signal ==
    \E S \in SUBSET waiting :
        /\ waiting # {} => S # {}
        /\ waiting' = waiting \ S

\* Variant with a bug: the new node's prev is taken before tail->prev moves,
\* and tail->prev itself is not moved.
EnqueueStaleTail(v) ==
    \E n \in NodePool \ alloc :
        /\ alloc' = alloc \cup {n}
        /\ next' = [next EXCEPT ![prev[TailNode]] = n, ![n] = TailNode]
        /\ prev' = [prev EXCEPT ![n] = prev[TailNode]]
        /\ val' = [val EXCEPT ![n] = v]
        /\ size' = size + 1
        /\ Signal

\* queue_enqueue, the whole critical section: link a new node before the
\* tail (tail->prev->next, then tail->prev, then new_node->prev is read
\* from the tail->prev just written, so it points at the node itself),
\* count it and signal.
Enqueue(v) ==
    \E n \in NodePool \ alloc :
        /\ alloc' = alloc \cup {n}
        /\ next' = [next EXCEPT ![prev[TailNode]] = n, ![n] = TailNode]
        /\ prev' = [prev EXCEPT ![TailNode] = n, ![n] = n]
        /\ val' = [val EXCEPT ![n] = v]
        /\ size' = size + 1
        /\ Signal

\* queue_dequeue, the while loop: with size 0 the caller blocks.
Wait(t) ==
    /\ size = 0
    /\ waiting' = waiting \cup {t}
    /\ UNCHANGED <<next, prev, val, size, alloc>>

\* The value queue_dequeue returns: head->next->value, read first.
Front == val[next[HeadNode]]

\* Variant with a bug: the size test of the while loop is dropped.
TakeUnguarded ==
    LET n == next[HeadNode] IN
    /\ prev' = [prev EXCEPT ![next[n]] = HeadNode]
    /\ next' = [next EXCEPT ![HeadNode] = next[n]]
    /\ alloc' = alloc \ {n}
    /\ size' = size - 1
    /\ UNCHANGED <<val, waiting>>

\* Variant with a bug: head->next is not moved past the node.
TakeNoUnlink ==
    LET n == next[HeadNode] IN
    /\ size # 0
    /\ prev' = [prev EXCEPT ![next[n]] = HeadNode]
    /\ alloc' = alloc \ {n}
    /\ size' = size - 1
    /\ UNCHANGED <<next, val, waiting>>

\* Variant with a bug: node->next->prev is not reset to head.
TakeNoPrevFix ==
    LET n == next[HeadNode] IN
    /\ size # 0
    /\ next' = [next EXCEPT ![HeadNode] = next[n]]
    /\ alloc' = alloc \ {n}
    /\ size' = size - 1
    /\ UNCHANGED <<prev, val, waiting>>

\* queue_dequeue past the loop: unlink head->next (its next's prev becomes
\* head, head->next skips it), free it and count it out.
Take ==
    LET n == next[HeadNode] IN
    /\ size # 0
    /\ prev' = [prev EXCEPT ![next[n]] = HeadNode]
    /\ next' = [next EXCEPT ![HeadNode] = next[n]]
    /\ alloc' = alloc \ {n}
    /\ size' = size - 1
    /\ UNCHANGED <<val, waiting>>

\* A blocked caller returns from pthread_cond_wait without a signal.
SpuriousWake(t) ==
    /\ t \in waiting
    /\ waiting' = waiting \ {t}
    /\ UNCHANGED <<next, prev, val, size, alloc>>

-----------------------------------------------------------------------------
\* The values from head->next up to the tail, following next pointers.
RECURSIVE ListFrom(_, _)
ListFrom(n, fuel) ==
    IF n = TailNode \/ n = NoNode \/ fuel = 0 THEN << >>
    ELSE <<val[n]>> \o ListFrom(next[n], fuel - 1)

Contents == ListFrom(next[HeadNode], Cardinality(NodePool))

\* The list's nodes in order, the same walk.
RECURSIVE NodesFrom(_, _)
NodesFrom(n, fuel) ==
    IF n = TailNode \/ n = NoNode \/ fuel = 0 THEN << >>
    ELSE <<n>> \o NodesFrom(next[n], fuel - 1)

ListNodes == NodesFrom(next[HeadNode], Cardinality(NodePool))

QueueTypeOK ==
    /\ next \in [Nodes -> Nodes \cup {NoNode}]
    /\ prev \in [Nodes -> Nodes \cup {NoNode}]
    /\ val \in [Nodes -> Values \cup {Garbage}]
    /\ size \in Nat
    /\ alloc \subseteq Nodes
    /\ waiting \subseteq Callers
=============================================================================
