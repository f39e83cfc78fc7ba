----------------------------- MODULE ThreadPool -----------------------------
(***************************************************************************)
(* The thread pool of src/threadpool/src/thread_pool.c over the queue of   *)
(* queue.c, driven the way password_cracker.c drives it: the main thread   *)
(* calls thread_pool_add_work for every job, then thread_pool_finish,      *)
(* which enqueues one NULL per worker, joins the workers in order and      *)
(* frees the pool.  Each worker runs thread_execute: dequeue, and while    *)
(* the value is not NULL run it, free it and dequeue again.                *)
(*                                                                         *)
(* A job is the funct_t that add_work mallocs: a model value of Jobs.      *)
(* What the work function computes is not modelled; running it is one     *)
(* step, counted in `runs`.                                                *)
(***************************************************************************)
EXTENDS Queue

CONSTANTS
    NumWorkers,   \* pool->num_workers
    Jobs,         \* the funct_t's passed to add_work, in order
    NULL          \* the poison value finish() enqueues

Workers == 1 .. NumWorkers
JobSet == {Jobs[i] : i \in 1 .. Len(Jobs)}

ASSUME /\ Callers = Workers
       /\ Values = JobSet \cup {NULL}
       /\ NULL \notin JobSet
       /\ Cardinality(JobSet) = Len(Jobs)

VARIABLES
    added,    \* how many jobs main has passed to thread_pool_add_work
    pills,    \* how many NULLs thread_pool_finish has enqueued
    joined,   \* how many workers thread_pool_finish has joined, in order
    freed,    \* thread_pool_free has run
    wpc,      \* where each worker is in thread_execute
    work,     \* each worker's local `work`
    runs      \* job -> how many times its function has been called

vars == <<qvars, added, pills, joined, freed, wpc, work, runs>>

\* thread_pool_init: the queue is initialized, then the workers are
\* created and start at their first queue_dequeue.
Init ==
    /\ QueueInit
    /\ added = 0 /\ pills = 0 /\ joined = 0 /\ freed = FALSE
    /\ wpc = [w \in Workers |-> "dequeue"]
    /\ work = [w \in Workers |-> Garbage]
    /\ runs = [j \in JobSet |-> 0]

\* thread_pool_add_work: enqueue the next job.
AddWork ==
    /\ added < Len(Jobs)
    /\ Enqueue(Jobs[added + 1])
    /\ added' = added + 1
    /\ UNCHANGED <<pills, joined, freed, wpc, work, runs>>

\* Variant with a bug: finish may run while work is still being added.
FinishEnqueueEarly ==
    /\ pills < NumWorkers
    /\ Enqueue(NULL)
    /\ pills' = pills + 1
    /\ UNCHANGED <<added, joined, freed, wpc, work, runs>>

\* thread_pool_finish, first loop: one NULL per worker.
FinishEnqueue ==
    /\ added = Len(Jobs)
    /\ pills < NumWorkers
    /\ Enqueue(NULL)
    /\ pills' = pills + 1
    /\ UNCHANGED <<added, joined, freed, wpc, work, runs>>

\* Variant with a bug: the join does not wait for the worker.
JoinNoWait ==
    /\ pills = NumWorkers
    /\ joined < NumWorkers
    /\ joined' = joined + 1
    /\ UNCHANGED <<qvars, added, pills, freed, wpc, work, runs>>

\* thread_pool_finish, second loop: pthread_join blocks until the next
\* worker in order has returned from thread_execute.
Join ==
    /\ pills = NumWorkers
    /\ joined < NumWorkers
    /\ wpc[joined + 1] = "exited"
    /\ joined' = joined + 1
    /\ UNCHANGED <<qvars, added, pills, freed, wpc, work, runs>>

\* thread_pool_free, through queue_free: head and tail are freed.
Free ==
    /\ joined = NumWorkers
    /\ ~freed
    /\ freed' = TRUE
    /\ alloc' = alloc \ {HeadNode, TailNode}
    /\ UNCHANGED <<next, prev, val, size, waiting, added, pills, joined,
                   wpc, work, runs>>

\* queue_dequeue finds the queue empty and blocks on the condition.
WorkerWait(w) ==
    /\ wpc[w] = "dequeue"
    /\ w \notin waiting
    /\ Wait(w)
    /\ UNCHANGED <<added, pills, joined, freed, wpc, work, runs>>

\* queue_dequeue takes the front value; the while test of thread_execute
\* then either exits on NULL or goes on to run the job.
WorkerTake(w) ==
    /\ wpc[w] = "dequeue"
    /\ w \notin waiting
    /\ Take
    /\ work' = [work EXCEPT ![w] = Front]
    /\ wpc' = [wpc EXCEPT ![w] = IF Front = NULL THEN "exited" ELSE "run"]
    /\ UNCHANGED <<added, pills, joined, freed, runs>>

\* The loop body: call the function, free the funct_t, dequeue again.
WorkerRun(w) ==
    /\ wpc[w] = "run"
    /\ runs' = [runs EXCEPT ![work[w]] = @ + 1]
    /\ wpc' = [wpc EXCEPT ![w] = "dequeue"]
    /\ UNCHANGED <<qvars, added, pills, joined, freed, work>>

WorkerWake(w) ==
    /\ SpuriousWake(w)
    /\ UNCHANGED <<added, pills, joined, freed, wpc, work, runs>>

\* The program has returned from thread_pool_finish.
Finished ==
    /\ freed
    /\ UNCHANGED vars

Next ==
    \/ AddWork \/ FinishEnqueue \/ Join \/ Free
    \/ \E w \in Workers : WorkerWait(w) \/ WorkerTake(w) \/ WorkerRun(w)
                          \/ WorkerWake(w)
    \/ Finished

\* Threads run when runnable (weak fairness per thread step); a spurious
\* wakeup is allowed but never required.
Fairness ==
    /\ WF_vars(AddWork) /\ WF_vars(FinishEnqueue) /\ WF_vars(Join)
    /\ WF_vars(Free)
    /\ \A w \in Workers : /\ WF_vars(WorkerWait(w))
                          /\ WF_vars(WorkerTake(w))
                          /\ WF_vars(WorkerRun(w))

Spec == Init /\ [][Next]_vars /\ Fairness

-----------------------------------------------------------------------------
TypeOK ==
    /\ QueueTypeOK
    /\ added \in 0 .. Len(Jobs)
    /\ pills \in 0 .. NumWorkers
    /\ joined \in 0 .. NumWorkers
    /\ freed \in BOOLEAN
    /\ wpc \in [Workers -> {"dequeue", "run", "exited"}]
    /\ work \in [Workers -> Values \cup {Garbage}]
    /\ runs \in [JobSet -> Nat]

\* How many times x occurs in the sequence s.
Occurrences(x, s) == Cardinality({i \in 1 .. Len(s) : s[i] = x})

\* Every job main has added is in exactly one place: linked in the queue,
\* held by a worker about to run it, or run once.  A job dequeued twice,
\* run twice (its funct_t freed twice) or lost breaks it.
JobAccounting ==
    \A i \in 1 .. Len(Jobs) :
        LET j == Jobs[i]
            held == Cardinality({w \in Workers : wpc[w] = "run" /\ work[w] = j})
        IN Occurrences(j, Contents) + held + runs[j] = IF i <= added THEN 1 ELSE 0

\* A worker leaves thread_execute only when no job is left in the queue:
\* the NULLs of thread_pool_finish queue up behind all the work.
ExitOnlyWhenNoWork ==
    \A w \in Workers :
        wpc[w] = "exited" => \A i \in 1 .. Len(Contents) : Contents[i] = NULL

\* When thread_pool_free runs, every NULL has been taken, so queue_free,
\* which frees only the two sentinels, leaks no node.
NoLeakAtFree == freed => alloc = {}

\* The list the next operation relies on: size counts the nodes from
\* head->next to the tail, every one of them allocated, and tail->prev,
\* where the next enqueue links, is the last of them.
ListWellFormed ==
    ~freed =>
        LET ns == ListNodes IN
        /\ size = Len(ns)
        /\ next[IF ns = << >> THEN HeadNode ELSE ns[Len(ns)]] = TailNode
        /\ prev[TailNode] = IF ns = << >> THEN HeadNode ELSE ns[Len(ns)]
        /\ \A i \in 1 .. Len(ns) : ns[i] \in alloc

\* The node list read from head to tail is a FIFO queue: every step of
\* the program appends to it, takes its first value, or leaves it alone.
QS == INSTANCE QueueSpec WITH q <- Contents
QueueRefined == QS!QSpec

\* thread_pool_finish returns, and by then every job has run exactly once.
Completes == <>(freed /\ \A j \in JobSet : runs[j] = 1)
=============================================================================
