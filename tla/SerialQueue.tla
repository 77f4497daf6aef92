---------------------------- MODULE SerialQueue ----------------------------
(***************************************************************************)
(* What a strand promises to its users: jobs are begun one at a time, in   *)
(* the order in which they were submitted, and none is thrown away while   *)
(* the service is open.  The comment above PushToRunnerIfNeeded in         *)
(* src/sched/job_runner.cc states these promises; Strand.tla implements    *)
(* them.                                                                   *)
(***************************************************************************)
EXTENDS Naturals, Sequences

CONSTANT Jobs

VARIABLES
  queue,    \* jobs submitted and not yet begun, oldest first
  active,   \* the jobs begun and not yet finished
  seen,     \* the jobs ever submitted
  open      \* FALSE once the runner or the strand has been given up

vars == <<queue, active, seen, open>>

Init ==
  /\ queue = <<>>
  /\ active = {}
  /\ seen = {}
  /\ open = TRUE

Submit(j) ==
  /\ j \notin seen
  /\ queue' = Append(queue, j)
  /\ seen' = seen \union {j}
  /\ UNCHANGED <<active, open>>

\* ForceRunImmediately: only when nothing is waiting and nothing is active.
RunNow(j) ==
  /\ j \notin seen
  /\ queue = <<>> /\ active = {}
  /\ active' = {j}
  /\ seen' = seen \union {j}
  /\ UNCHANGED <<queue, open>>

Begin ==
  /\ active = {} /\ queue # <<>>
  /\ active' = {Head(queue)}
  /\ queue' = Tail(queue)
  /\ UNCHANGED <<seen, open>>

Finish ==
  /\ active # {}
  /\ active' = {}
  /\ UNCHANGED <<queue, seen, open>>

Close ==
  /\ open
  /\ open' = FALSE
  /\ UNCHANGED <<queue, active, seen>>

\* A closed service may throw away the oldest or the youngest waiting jobs;
\* those kept were submitted one after the other, and stay in order.
Discard ==
  /\ ~open
  /\ \E first \in 1 .. Len(queue) + 1, last \in 0 .. Len(queue) :
       queue' = SubSeq(queue, first, last)
  /\ queue' # queue
  /\ UNCHANGED <<active, seen, open>>

Next ==
  \/ \E j \in Jobs : Submit(j) \/ RunNow(j)
  \/ Begin \/ Finish \/ Close \/ Discard

Spec == Init /\ [][Next]_vars
=============================================================================
