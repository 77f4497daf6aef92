------------------------------ MODULE JobRunner ------------------------------
(***************************************************************************)
(* JobRunner and JobRunnerWorker of src/sched/job_runner.cc: a pool of     *)
(* threads, one queue and one condition variable each, that take jobs from *)
(* their own queue, steal from the others', sleep when idle, and are       *)
(* stopped and joined when the runner is destroyed.                        *)
(*                                                                         *)
(* The processes are the workers, the threads that add jobs (Adders) and   *)
(* the owner, which constructs the runner, may stop it and destroys it.    *)
(* What is done under inactive_cv_mutex_ is one step: the mutex is held    *)
(* for nothing else, and waiting releases it.  A job queue is the sequence *)
(* of its linearised operations (boost::lockfree::queue).                  *)
(***************************************************************************)
EXTENDS Integers, Sequences, FiniteSets, SequencesExt

CONSTANTS
  ThreadNum,        \* config_.thread_num_
  AlwaysActiveNum,  \* config_.always_active_thread_num_
  CounterSize,      \* active_workers_num_ counts modulo this (2^64 in the code)
  Jobs,
  Hanging,          \* the jobs that may never return
  NoJob,
  Adders,
  Batch             \* what each adder passes to AddJob (one job) or AddJobs

\* A job stands for one call of AddJob, or for one place in a batch: it is passed once.
ASSUME RunnerAssumption ==
  /\ ThreadNum \in Nat \ {0}
  /\ AlwaysActiveNum \in Nat
  /\ CounterSize \in Nat /\ CounterSize > ThreadNum
  /\ Hanging \subseteq Jobs
  /\ NoJob \notin Jobs
  /\ Batch \in [Adders -> Seq(Jobs)]
  /\ \A a \in Adders : IsInjective(Batch[a])
  /\ \A j \in Jobs : \E a \in Adders : \A b \in Adders : j \in ToSet(Batch[b]) <=> b = a

Workers == 0 .. ThreadNum - 1

VARIABLES
  queue,      \* job_queue_ of each worker
  shutdown,   \* shutdown_flag_ of each worker
  active,     \* active_workers_num_
  ready,      \* ready_for_stealing_
  pc,         \* where each worker's thread is
  job,        \* the job each worker runs, or NoJob
  victim,     \* Steal: the worker whose queue is tried next
  tries,      \* Steal: how many queues are still to be tried
  todo,       \* each adder: the jobs it has still to push
  target,     \* each adder: worker_idx, or -1 before the call and after it
  caller,     \* each adder: the worker whose job makes the call, or -1
  notified,   \* the adders that have notified their worker
  owner,      \* the phase of the owner
  index,      \* the worker the owner's loop is at
  done,       \* history: the jobs that have returned
  late        \* history: jobs each worker began after its shutdown flag was set

workerVars == <<pc, job, victim, tries>>
addVars    == <<todo, target, caller, notified>>
ownerVars  == <<shutdown, ready, owner, index>>
vars == <<queue, active, workerVars, addVars, ownerVars, done, late>>

Stages == {"none", "start", "loop", "own", "steal", "run", "idle", "dec",
           "lock", "wait", "woken", "exit", "exited"}

Phases == {"ctor", "up", "stop", "stopped", "dtor", "join", "gone"}

-----------------------------------------------------------------------------
Init ==
  /\ queue = [w \in Workers |-> <<>>]
  /\ shutdown = [w \in Workers |-> FALSE]
  /\ active = 0
  /\ ready = FALSE
  /\ pc = [w \in Workers |-> "none"]
  /\ job = [w \in Workers |-> NoJob]
  /\ victim = [w \in Workers |-> w]
  /\ tries = [w \in Workers |-> 0]
  /\ todo = Batch
  /\ target = [a \in Adders |-> -1]
  /\ caller = [a \in Adders |-> -1]
  /\ notified = {}
  /\ owner = "ctor"
  /\ index = 0
  /\ done = {}
  /\ late = [w \in Workers |-> 0]

Goto(w, stage) == pc' = [pc EXCEPT ![w] = stage]

\* fetch_add(1) and fetch_sub(1) on a std::atomic<std::size_t>.
FetchAdd == active' = (active + 1) % CounterSize
FetchSub == active' = (active + CounterSize - 1) % CounterSize

\* random_worker_selector draws from 0 .. ThreadNum, both ends included; AddJob and
\* Steal bring ThreadNum back to 0, NotifyOneWorker does not.
Draw == 0 .. ThreadNum

InRange(n) == IF n < ThreadNum THEN n ELSE n % ThreadNum

\* notify_one and notify_all: at most the worker itself waits on its inactive_cv_.
Notified(w) == [pc EXCEPT ![w] = IF @ = "wait" THEN "woken" ELSE @]

-----------------------------------------------------------------------------
(* AddJob and AddJobs.                                                     *)

\* A call comes from outside, where a pointer to a runner is held that is neither under construction
\* nor being destroyed, or from a job that a worker runs, until that worker is joined.
MayCall(w) ==
  \/ w = -1 /\ owner \in {"up", "stop", "stopped"}
  \/ w \in Workers /\ pc[w] = "run" /\ \A a \in Adders : caller[a] # w

\* The call starts: the hint, given, drawn or the caller's own index, names the worker.
BeginAdd(a) ==
  /\ target[a] = -1 /\ todo[a] # <<>>
  /\ \E w \in Workers \union {-1} : MayCall(w) /\ caller' = [caller EXCEPT ![a] = w]
  /\ \E hint \in Draw : target' = [target EXCEPT ![a] = InRange(hint)]
  /\ UNCHANGED <<queue, active, workerVars, todo, notified, ownerVars, done, late>>

\* job_queue_.Push, once for each job of the batch.
PushOne(a) ==
  /\ target[a] # -1 /\ todo[a] # <<>>
  /\ queue' = [queue EXCEPT ![target[a]] = Append(@, Head(todo[a]))]
  /\ todo' = [todo EXCEPT ![a] = Tail(@)]
  /\ UNCHANGED <<active, workerVars, target, caller, notified, ownerVars, done, late>>

\* inactive_cv_.notify_one(), without the mutex.
NotifyAdded(a) ==
  /\ target[a] # -1 /\ todo[a] = <<>> /\ a \notin notified
  /\ pc' = Notified(target[a])
  /\ notified' = notified \union {a}
  /\ UNCHANGED <<queue, active, job, victim, tries, todo, target, caller, ownerVars, done, late>>

\* While the runner is being destroyed another worker is notified, a random one: none, if the index is
\* one past the end of workers_.
NotifyOneWorker == \E idx \in Draw : pc' = IF idx < ThreadNum THEN Notified(idx) ELSE pc

AddReturns(a) ==
  /\ a \in notified
  /\ IF ready THEN UNCHANGED pc ELSE NotifyOneWorker
  /\ target' = [target EXCEPT ![a] = -1] /\ caller' = [caller EXCEPT ![a] = -1]
  /\ notified' = notified \ {a}
  /\ UNCHANGED <<queue, active, job, victim, tries, todo, ownerVars, done, late>>

AddStep(a) == BeginAdd(a) \/ PushOne(a) \/ NotifyAdded(a) \/ AddReturns(a)

-----------------------------------------------------------------------------
(* WorkerLoop.                                                             *)

StartWorker(w) ==
  /\ pc[w] = "start"
  /\ FetchAdd
  /\ Goto(w, "loop")
  /\ UNCHANGED <<queue, job, victim, tries, addVars, ownerVars, done, late>>

\* Mutation: the flag is looked at before sleeping only.
CheckShutdown_Never(w) ==
  /\ pc[w] = "loop"
  /\ Goto(w, "own")
  /\ UNCHANGED <<queue, active, job, victim, tries, addVars, ownerVars, done, late>>

CheckShutdown(w) ==
  /\ pc[w] = "loop"
  /\ Goto(w, IF shutdown[w] THEN "exit" ELSE "own")
  /\ UNCHANGED <<queue, active, job, victim, tries, addVars, ownerVars, done, late>>

\* Mutation: the job stays in the queue it is taken from.
Consume_Peek(w, v) ==
  /\ queue[v] # <<>>
  /\ job' = [job EXCEPT ![w] = Head(queue[v])]
  /\ queue' = queue
  /\ late' = [late EXCEPT ![w] = IF shutdown[w] THEN @ + 1 ELSE @]
  /\ Goto(w, "run")

\* The worker takes the oldest job of v's queue and runs it.
Consume(w, v) ==
  /\ queue[v] # <<>>
  /\ job' = [job EXCEPT ![w] = Head(queue[v])]
  /\ queue' = [queue EXCEPT ![v] = Tail(@)]
  /\ late' = [late EXCEPT ![w] = IF shutdown[w] THEN @ + 1 ELSE @]
  /\ Goto(w, "run")

TakeOwn(w) ==
  /\ pc[w] = "own"
  /\ Consume(w, w)
  /\ UNCHANGED <<active, victim, tries, addVars, ownerVars, done>>

\* Nothing of its own: Steal starts at a random worker, if it is allowed to.
OwnEmpty(w) ==
  /\ pc[w] = "own" /\ queue[w] = <<>>
  /\ IF ready
       THEN /\ \E n \in Draw : victim' = [victim EXCEPT ![w] = InRange(n)]
            /\ tries' = [tries EXCEPT ![w] = ThreadNum]
            /\ Goto(w, "steal")
       ELSE Goto(w, "idle") /\ UNCHANGED <<victim, tries>>
  /\ UNCHANGED <<queue, active, job, addVars, ownerVars, done, late>>

\* The locals of Steal go out of scope.
LeaveSteal(w) ==
  /\ victim' = [victim EXCEPT ![w] = w]
  /\ tries' = [tries EXCEPT ![w] = 0]

StealOne(w) ==
  /\ pc[w] = "steal"
  /\ Consume(w, victim[w])
  /\ LeaveSteal(w)
  /\ UNCHANGED <<active, addVars, ownerVars, done>>

StealNext(w) ==
  /\ pc[w] = "steal" /\ queue[victim[w]] = <<>>
  /\ IF tries[w] = 1
       THEN LeaveSteal(w) /\ Goto(w, "idle")
       ELSE /\ victim' = [victim EXCEPT ![w] = (@ + 1) % ThreadNum]
            /\ tries' = [tries EXCEPT ![w] = @ - 1]
            /\ pc' = pc
  /\ UNCHANGED <<queue, active, job, addVars, ownerVars, done, late>>

\* Mutation: the queue is drained before the flag is looked at again.
JobReturns_Drain(w) ==
  /\ pc[w] = "run" /\ \A a \in Adders : caller[a] # w
  /\ done' = done \union {job[w]}
  /\ job' = [job EXCEPT ![w] = NoJob]
  /\ Goto(w, "own")
  /\ UNCHANGED <<queue, active, victim, tries, addVars, ownerVars, late>>

JobReturns(w) ==
  /\ pc[w] = "run" /\ \A a \in Adders : caller[a] # w
  /\ done' = done \union {job[w]}
  /\ job' = [job EXCEPT ![w] = NoJob]
  /\ Goto(w, "loop")
  /\ UNCHANGED <<queue, active, victim, tries, addVars, ownerVars, late>>

\* Always-active workers, and the others until active_time_ has passed, try again.
Spin(w) ==
  /\ pc[w] = "idle"
  /\ Goto(w, "loop")
  /\ UNCHANGED <<queue, active, job, victim, tries, addVars, ownerVars, done, late>>

BecomeInactive(w) ==
  /\ pc[w] = "idle" /\ w >= AlwaysActiveNum
  /\ FetchSub
  /\ Goto(w, "lock")
  /\ UNCHANGED <<queue, job, victim, tries, addVars, ownerVars, done, late>>

\* Under inactive_cv_mutex_: leave the loop if shut down, else wait.
LockAndWait(w) ==
  /\ pc[w] = "lock"
  /\ Goto(w, IF shutdown[w] THEN "exit" ELSE "wait")
  /\ UNCHANGED <<queue, active, job, victim, tries, addVars, ownerVars, done, late>>

\* Mutation: wait instead of wait_for.
WaitTimeout_Never(w) == pc[w] # pc[w] /\ UNCHANGED vars

\* wait_for returns after kWorkerIdleTime (or spuriously).
WaitTimeout(w) ==
  /\ pc[w] = "wait"
  /\ Goto(w, "woken")
  /\ UNCHANGED <<queue, active, job, victim, tries, addVars, ownerVars, done, late>>

\* Mutation: a worker that wakes up is not counted.
BecomeActive_Uncounted(w) ==
  /\ pc[w] = "woken"
  /\ Goto(w, "loop")
  /\ UNCHANGED <<queue, active, job, victim, tries, addVars, ownerVars, done, late>>

BecomeActive(w) ==
  /\ pc[w] = "woken"
  /\ FetchAdd
  /\ Goto(w, "loop")
  /\ UNCHANGED <<queue, job, victim, tries, addVars, ownerVars, done, late>>

ExitLoop(w) ==
  /\ pc[w] = "exit"
  /\ FetchSub
  /\ Goto(w, "exited")
  /\ UNCHANGED <<queue, job, victim, tries, addVars, ownerVars, done, late>>

-----------------------------------------------------------------------------
(* The owner: constructor, Stop, destructor.                               *)

\* One worker, and with it its thread, is made; stealing is allowed at the end.
Construct ==
  /\ owner = "ctor"
  /\ IF index < ThreadNum
       THEN /\ Goto(index, "start")
            /\ index' = index + 1
            /\ UNCHANGED <<owner, ready>>
       ELSE /\ ready' = TRUE
            /\ owner' = "up"
            /\ UNCHANGED <<pc, index>>
  /\ UNCHANGED <<queue, active, job, victim, tries, addVars, shutdown, done, late>>

CallStop ==
  /\ owner = "up"
  /\ owner' = "stop" /\ index' = 0
  /\ UNCHANGED <<queue, active, workerVars, addVars, shutdown, ready, done, late>>

\* ~JobRunner starts when nobody is inside a call of the runner any more, but for the jobs.
Destroy ==
  /\ owner \in {"up", "stopped"}
  /\ \A a \in Adders : target[a] # -1 => caller[a] # -1
  /\ ready' = FALSE
  /\ owner' = "dtor" /\ index' = 0
  /\ UNCHANGED <<queue, active, workerVars, addVars, shutdown, done, late>>

\* JobRunnerWorker::Stop on one worker after the other.
StopOne ==
  /\ owner \in {"stop", "dtor"} /\ index < ThreadNum
  /\ shutdown' = [shutdown EXCEPT ![index] = TRUE]
  /\ pc' = IF shutdown[index] THEN pc ELSE Notified(index)
  /\ index' = index + 1
  /\ UNCHANGED <<queue, active, job, victim, tries, addVars, ready, owner, done, late>>

AllStopped ==
  /\ owner \in {"stop", "dtor"} /\ index = ThreadNum
  /\ owner' = IF owner = "stop" THEN "stopped" ELSE "join"
  /\ index' = 0
  /\ UNCHANGED <<queue, active, workerVars, addVars, shutdown, ready, done, late>>

\* Join on one worker after the other.
JoinOne ==
  /\ owner = "join" /\ index < ThreadNum
  /\ pc[index] = "exited"
  /\ index' = index + 1
  /\ UNCHANGED <<queue, active, workerVars, addVars, shutdown, ready, owner, done, late>>

\* The workers, and the jobs left in their queues, are destroyed.
DestroyWorkers ==
  /\ owner = "join" /\ index = ThreadNum
  /\ owner' = "gone"
  /\ queue' = [w \in Workers |-> <<>>]
  /\ UNCHANGED <<active, workerVars, addVars, shutdown, ready, index, done, late>>

-----------------------------------------------------------------------------
SearchStep(w) == CheckShutdown(w) \/ TakeOwn(w) \/ OwnEmpty(w) \/ StealOne(w) \/ StealNext(w)
SleepStep(w)  == LockAndWait(w) \/ BecomeActive(w)

OwnerLoop == Construct \/ StopOne \/ AllStopped \/ JoinOne \/ DestroyWorkers

Next ==
  \/ \E a \in Adders : AddStep(a)
  \/ \E w \in Workers :
       \/ StartWorker(w) \/ SearchStep(w) \/ JobReturns(w)
       \/ Spin(w) \/ BecomeInactive(w) \/ SleepStep(w) \/ WaitTimeout(w)
       \/ ExitLoop(w)
  \/ OwnerLoop \/ CallStop \/ Destroy

Spec == Init /\ [][Next]_vars

(* Threads are scheduled, wait_for times out, jobs other than the hanging  *)
(* ones return, a call once begun goes on.  Nobody must stop the runner.   *)
Fairness ==
  /\ \A a \in Adders : WF_vars(PushOne(a) \/ NotifyAdded(a) \/ AddReturns(a))
  /\ \A w \in Workers :
       /\ WF_vars(StartWorker(w) \/ SearchStep(w) \/ Spin(w) \/ BecomeInactive(w)
                  \/ SleepStep(w) \/ ExitLoop(w))
       /\ WF_vars(WaitTimeout(w))
       /\ WF_vars(JobReturns(w) /\ job[w] \notin Hanging)
  /\ WF_vars(OwnerLoop)

FairSpec == Spec /\ Fairness

-----------------------------------------------------------------------------
(* Properties.                                                             *)

\* Every variable has its type.
TypeOK ==
  /\ queue \in [Workers -> Seq(Jobs)]
  /\ shutdown \in [Workers -> BOOLEAN]
  /\ active \in 0 .. CounterSize - 1
  /\ ready \in BOOLEAN
  /\ pc \in [Workers -> Stages]
  /\ job \in [Workers -> Jobs \union {NoJob}]
  /\ victim \in [Workers -> Workers]
  /\ tries \in [Workers -> 0 .. ThreadNum]
  /\ todo \in [Adders -> Seq(Jobs)]
  /\ target \in [Adders -> Workers \union {-1}] /\ caller \in [Adders -> Workers \union {-1}]
  /\ notified \subseteq Adders
  /\ owner \in Phases
  /\ index \in 0 .. ThreadNum
  /\ done \subseteq Jobs
  /\ late \in [Workers -> Nat]

\* Stealing neither loses nor duplicates a job: until the runner is destroyed every
\* job is in exactly one place: still with its adder, in one queue, with one
\* worker, or returned.
Occurrences(s, j) == Cardinality({i \in DOMAIN s : s[i] = j})
EachJobOnce ==
  /\ TypeOK
  /\ owner # "gone" =>
       \A j \in Jobs :
         LET queues  == {w \in Workers : Occurrences(queue[w], j) > 0}
             holders == {w \in Workers : job[w] = j}
             adders  == {a \in Adders : Occurrences(todo[a], j) > 0}
         IN  /\ Cardinality(queues) + Cardinality(holders) + Cardinality(adders)
                  + (IF j \in done THEN 1 ELSE 0) = 1
             /\ \A w \in Workers : Occurrences(queue[w], j) <= 1

\* ActiveThreadNum() (job_runner.cc:393-395) is the number of workers awake, as
\* long as no worker is being shut down.
Awake == {w \in Workers : pc[w] \notin {"none", "start", "lock", "wait", "woken", "exited"}}
ActiveCountsAwake ==
  (\A w \in Workers : ~shutdown[w]) => active = Cardinality(Awake)

\* A destroyed runner is silent: no thread of it is inside a job or will begin one.
Quiet == \A w \in Workers : pc[w] = "exited" /\ job[w] = NoJob

\* Stop is prompt and destruction is final: once its shutdown flag is set a worker begins
\* at most one more job, the one it was already looking for, however many are queued; and
\* none runs or begins when the runner is gone.
StopIsFinal ==
  /\ \A w \in Workers : late[w] <= 1
  /\ owner = "gone" => Quiet

\* A queued job is run even if the worker it was queued on is stuck in a job that
\* never returns and the notification went to that worker only: another worker wakes
\* up in time and steals it.  With every worker stuck, or the runner being stopped,
\* nothing is promised.
AllStuck == \A w \in Workers : job[w] \in Hanging
QueuedIsRun ==
  \A j \in Jobs :
    (\E w \in Workers : Occurrences(queue[w], j) > 0)
      ~> \/ \E w \in Workers : job[w] = j
         \/ j \in done
         \/ AllStuck
         \/ owner \in {"stop", "stopped", "dtor", "join", "gone"}

\* Destruction ends: no sleeping worker misses the shutdown, so every thread is
\* joined unless one is inside a job that never returns.
DestructionEnds ==
  owner = "dtor" ~> (owner = "gone" \/ \E w \in Workers : job[w] \in Hanging)

\* ActiveThreadNum() never exceeds ThreadNum(): the tests read both as numbers of
\* threads (tests/job_runner_test.cc:205-213).
ActiveWithinThreads == active <= ThreadNum
=============================================================================
