---------------------------- MODULE JobLockQueue ----------------------------
(***************************************************************************)
(* JobLockQueue of src/sched/job_lock_queue.cc: a queue in a circular      *)
(* buffer that grows to the next power of two.  Every operation holds mtx_ *)
(* from beginning to end, the functor that consumes a job included, so it  *)
(* is one step.                                                            *)
(***************************************************************************)
EXTENDS Naturals, Sequences

CONSTANTS
  InitCapacity,   \* the argument of the constructor
  MaxCapacity,    \* bound: no push makes the buffer larger than this
  MaxBatch,       \* bound: the longest batch pushed
  Callables,      \* jobs
  Hollow          \* a std::function that is empty or has been moved from

ASSUME LockQueueAssumption ==
  /\ InitCapacity \in Nat /\ MaxCapacity \in Nat /\ MaxBatch \in Nat
  /\ Hollow \notin Callables

VARIABLES
  jobs,       \* jobs_: the buffer, a function on 0 .. jobs_.size() - 1
  capacity,   \* jobs_.size()
  readHead,   \* read_head_
  writeHead,  \* write_head_
  size,       \* size_
  out         \* what the last call gave to its functor

lqVars == <<jobs, capacity, readHead, writeHead, size, out>>

Batches == UNION {[1 .. n -> Callables] : n \in 0 .. MaxBatch}

LQInit ==
  /\ jobs = [i \in 0 .. InitCapacity - 1 |-> Hollow]
  /\ capacity = InitCapacity
  /\ readHead = 0 /\ writeHead = 0 /\ size = 0
  /\ out = <<>>

\* No multiple of an odd number other than one.
PowerOfTwo(p) == p > 0 /\ \A j, k \in 1 .. p : (2 * j + 1) * k # p

\* std::bit_ceil, of a positive number: the first power of two that is not below it.
BitCeil(n) == CHOOSE p \in n .. 2 * n : PowerOfTwo(p) /\ \A q \in n .. p - 1 : ~PowerOfTwo(q)

\* A head that runs over the end continues at the beginning.
Wrap(head, cap) == IF head >= cap THEN head - cap ELSE head

\* std::move(begin + from, begin + to, begin + from + shift), element by element from
\* the front: where the ranges overlap an element is overwritten before its turn and,
\* having been moved twice, leaves nothing behind.
MoveUp(a, from, to, shift) ==
  [i \in DOMAIN a |->
     CASE i \in from .. to - 1 -> Hollow
       [] i \in from + shift .. to + shift - 1 /\ i >= to -> a[from + ((i - from) % shift)]
       [] OTHER -> a[i]]

\* ExpandUnsafe: the buffer and the read head after room has been made for `needed`.
Grown(needed) == IF needed <= capacity THEN capacity ELSE BitCeil(needed)

Resized(cap) == [i \in 0 .. cap - 1 |-> IF i < capacity THEN jobs[i] ELSE Hollow]

\* Mutation: the wrap-around is not looked at.
Straight_Always == readHead = readHead
Straight == readHead < writeHead \/ size = 0

Expanded(needed) ==
  LET cap == Grown(needed)
  IN  IF cap = capacity \/ Straight
        THEN [jobs |-> Resized(cap), capacity |-> cap, readHead |-> readHead]
        ELSE [jobs |-> MoveUp(Resized(cap), readHead, capacity, cap - capacity),
              capacity |-> cap, readHead |-> readHead + cap - capacity]

-----------------------------------------------------------------------------
\* Push (a batch of one) and PushBatch: make room, write one job after the other.
PushBatch(b) ==
  /\ size + Len(b) <= MaxCapacity
  /\ LET e == Expanded(size + Len(b))
         slot(k) == Wrap(writeHead + k - 1, e.capacity)
     IN  /\ jobs' = [i \in DOMAIN e.jobs |->
                       IF \E k \in 1 .. Len(b) : slot(k) = i
                         THEN b[CHOOSE k \in 1 .. Len(b) : slot(k) = i]
                         ELSE e.jobs[i]]
         /\ writeHead' = IF b = <<>> THEN writeHead ELSE slot(Len(b) + 1)
         /\ capacity' = e.capacity /\ readHead' = e.readHead
  /\ size' = size + Len(b)
  /\ out' = <<>>

ConsumeOne ==
  IF size = 0
    THEN out' = <<>> /\ UNCHANGED <<jobs, capacity, readHead, writeHead, size>>
    ELSE /\ out' = <<jobs[readHead]>>
         /\ jobs' = [jobs EXCEPT ![readHead] = Hollow]
         /\ readHead' = Wrap(readHead + 1, capacity)
         /\ size' = size - 1
         /\ UNCHANGED <<capacity, writeHead>>

\* The jobs between the heads, oldest first.
Contents == [k \in 1 .. size |-> jobs[Wrap(readHead + k - 1, capacity)]]

ConsumeAll ==
  IF size = 0
    THEN out' = <<>> /\ UNCHANGED <<jobs, capacity, readHead, writeHead, size>>
    ELSE /\ out' = Contents
         /\ jobs' = [i \in DOMAIN jobs |-> Hollow]
         /\ readHead' = 0 /\ writeHead' = 0 /\ size' = 0
         /\ UNCHANGED capacity

LQNext == (\E b \in Batches : PushBatch(b)) \/ ConsumeOne \/ ConsumeAll

LQSpec == LQInit /\ [][LQNext]_lqVars

-----------------------------------------------------------------------------
(* Properties.                                                             *)

FQ == INSTANCE FifoQueue WITH items <- Contents, Jobs <- Callables

\* The circular buffer is a FIFO queue: nothing is lost, duplicated or reordered,
\* wherever the heads are when it grows (tests/job_queue_test.cc:37-39, 61-62).
ImplementsFifo == FQ!Spec
=============================================================================
