----------------------------- MODULE QueueSpec -----------------------------
(***************************************************************************)
(* What the work queue of src/threadpool promises its users: a FIFO of     *)
(* values.  queue_enqueue appends one, queue_dequeue takes the oldest one  *)
(* out once there is one.  Blocking and locking are not visible here.      *)
(***************************************************************************)
EXTENDS Sequences

CONSTANT Values

VARIABLE q

QInit == q = << >>

QEnqueue(v) == q' = Append(q, v)

QDequeue == q # << >> /\ q' = Tail(q)

QNext == \E v \in Values : QEnqueue(v) \/ QDequeue

QSpec == QInit /\ [][QNext]_q
=============================================================================
