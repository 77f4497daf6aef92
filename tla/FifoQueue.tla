----------------------------- MODULE FifoQueue -----------------------------
(* What JobQueue (src/sched/job_queue.h) promises: jobs come out in the    *)
(* order in which they went in, each once.                                 *)
EXTENDS Naturals, Sequences

CONSTANTS Jobs, MaxBatch

VARIABLES items, out   \* the jobs in the queue; what the last call consumed

vars == <<items, out>>

Batches == UNION {[1 .. n -> Jobs] : n \in 0 .. MaxBatch}

Init == items = <<>> /\ out = <<>>

PushBatch(b) == items' = items \o b /\ out' = <<>>

ConsumeOne ==
  IF items = <<>>
    THEN out' = <<>> /\ items' = items
    ELSE out' = <<Head(items)>> /\ items' = Tail(items)

ConsumeAll == out' = items /\ items' = <<>>

Next == (\E b \in Batches : PushBatch(b)) \/ ConsumeOne \/ ConsumeAll

Spec == Init /\ [][Next]_vars
=============================================================================
