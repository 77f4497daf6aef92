-------------------------- MODULE RunnerOwnership --------------------------
(***************************************************************************)
(* Who owns a job runner, and who destroys it: src/sched/job_runner.cc and *)
(* src/msg/node.h.                                                         *)
(*                                                                         *)
(* Nodes and strands hold weak pointers to their runner and lock them for  *)
(* as long as they hand it a job: for a moment a publisher (under the read *)
(* lock of the subscriptions) or a worker is one of its owners, perhaps    *)
(* the last.  Jobs may hold it, too.  Whoever drops the last reference     *)
(* runs ~JobRunner: it stops the workers, joins them in their order, and   *)
(* destroys what is left in their queues.  How a strand takes its turns is *)
(* the matter of Strand.tla, how a worker finds its jobs of JobRunner.tla: *)
(* here a decision of the strand is one step, and so is taking a job.      *)
(***************************************************************************)
EXTENDS Naturals, Sequences

CONSTANTS
  Jobs, Publishers,
  NumWorkers,    \* config_.thread_num_; the workers are 1 .. NumWorkers
  Owner,         \* the thread that made the runner
  Capturing,     \* jobs whose closure holds the runner
  Closing,       \* jobs that take the write lock of the subscriptions: they destroy a node, or subscribe
  NoJob, Nobody

Workers == 1 .. NumWorkers
Threads == Workers \union Publishers \union {Owner}

\* Threads have one role each, and neither threads nor jobs are taken for one another.
ASSUME OwnershipAssumption ==
  /\ NumWorkers \in Nat \ {0}
  /\ Capturing \subseteq Jobs /\ Closing \subseteq Jobs /\ NoJob \notin Jobs
  /\ Workers \intersect Publishers = {} /\ Owner \notin Workers \union Publishers
  /\ Nobody \notin Threads /\ Threads \intersect (Jobs \union {NoJob}) = {}

VARIABLES
  holders,      \* the owners of the shared_ptr: threads and jobs
  destroyer,    \* the thread in ~JobRunner, or Nobody
  joining,      \* the worker ~JobRunner or the owner is about to join
  memory,       \* the runner's members: "there", "freed", or "terminated" when a destructor has thrown
  shutdown,     \* shutdown_flag_ of the workers
  stage,        \* what each thread is doing
  job,          \* the job each thread is busy with
  next,         \* the job a worker has popped for its runner and not pushed yet
  state,        \* of each job: new, pending, ready, running, ended, or dropped unrun
  pending,      \* pending_jobs_ of the strand
  has_ready_job,
  readers,      \* SubscriptionMutex: the publishers that own it shared
  joined        \* history: the owner has called Stop().Join()

threadVars == <<stage, job, next>>
strandVars == <<pending, has_ready_job>>
endVars    == <<joining, memory, joined>>
vars == <<holders, destroyer, endVars, shutdown, threadVars, state, strandVars, readers>>

Init ==
  /\ holders = {Owner} /\ destroyer = Nobody /\ joining = 1
  /\ memory = "there"
  /\ shutdown = FALSE
  /\ stage = [t \in Threads |-> "idle"]
  /\ job = [t \in Threads |-> NoJob] /\ next = [w \in Workers |-> NoJob]
  /\ state = [j \in Jobs |-> "new"]
  /\ pending = <<>> /\ has_ready_job = FALSE
  /\ readers = {} /\ joined = FALSE

Running == memory # "terminated"

Goto(t, s) == stage' = [stage EXCEPT ![t] = s]

\* Mutation: an expired weak_ptr can be locked again.
CanLock_Expired == TRUE

\* runner_weak_.lock()
CanLock == holders # {}

\* A thread and perhaps a job give up their references; if these were the last, the thread is in
\* ~JobRunner before it goes on.
GiveUp(t, gone, then) ==
  /\ holders' = holders \ gone
  /\ IF holders \subseteq gone /\ holders # {}
       THEN destroyer' = t /\ joining' = 1 /\ Goto(t, "destroying")
       ELSE UNCHANGED <<destroyer, joining>> /\ Goto(t, then)

-----------------------------------------------------------------------------
(* Publishers: Dispatch and AddMessageToRunner, for one subscriber.        *)

BeginAdd(p, j) ==
  /\ Running /\ stage[p] = "idle" /\ state[j] = "new" /\ \A q \in Publishers : job[q] # j
  /\ readers' = readers \union {p}
  /\ job' = [job EXCEPT ![p] = j]
  /\ IF CanLock THEN holders' = holders \union {p} /\ Goto(p, "adding")
                ELSE holders' = holders /\ Goto(p, "leaving")
  /\ UNCHANGED <<destroyer, endVars, shutdown, next, state, strandVars>>

\* JobRunnerStrand::AddJob: push, and if no job of the strand is in the runner, hand over the first.
AddJob(p) ==
  /\ Running /\ stage[p] = "adding"
  /\ LET queue == Append(pending, job[p])
     IN  IF has_ready_job
           THEN /\ pending' = queue /\ UNCHANGED has_ready_job
                /\ state' = [state EXCEPT ![job[p]] = "pending"]
           ELSE /\ pending' = Tail(queue) /\ has_ready_job' = TRUE
                /\ state' = [state EXCEPT ![job[p]] = IF Head(queue) = job[p] THEN "ready" ELSE "pending",
                                          ![Head(queue)] = "ready"]
  /\ holders' = holders \union ({job[p]} \intersect Capturing)
  /\ Goto(p, "releasing")
  /\ UNCHANGED <<destroyer, endVars, shutdown, job, next, readers>>

\* The temporary shared_ptr goes at the end of AddJobToRunner, under the read lock.
ReleaseAdded(p) ==
  /\ Running /\ stage[p] = "releasing"
  /\ GiveUp(p, {p}, "leaving")
  /\ UNCHANGED <<memory, joined, shutdown, job, next, state, strandVars, readers>>

EndAdd(p) ==
  /\ Running /\ stage[p] = "leaving"
  /\ readers' = readers \ {p}
  /\ job' = [job EXCEPT ![p] = NoJob]
  /\ state' = IF state[job[p]] = "new" THEN [state EXCEPT ![job[p]] = "dropped"] ELSE state
  /\ Goto(p, "idle")
  /\ UNCHANGED <<holders, destroyer, endVars, shutdown, next, strandVars>>

-----------------------------------------------------------------------------
(* Workers.                                                                *)

\* WorkerLoop looks at its flag, and then at the queues.
Look(w) ==
  /\ Running /\ stage[w] = "idle" /\ ~shutdown
  /\ Goto(w, "looking")
  /\ UNCHANGED <<holders, destroyer, endVars, shutdown, job, next, state, strandVars, readers>>

TakeJob(w, j) ==
  /\ Running /\ stage[w] = "looking" /\ state[j] = "ready"
  /\ job' = [job EXCEPT ![w] = j]
  /\ state' = [state EXCEPT ![j] = "running"]
  /\ Goto(w, "running")
  /\ UNCHANGED <<holders, destroyer, endVars, shutdown, next, strandVars, readers>>

FindNone(w) ==
  /\ Running /\ stage[w] = "looking" /\ \A j \in Jobs : state[j] # "ready"
  /\ Goto(w, "idle")
  /\ UNCHANGED <<holders, destroyer, endVars, shutdown, job, next, state, strandVars, readers>>

\* The job runs.  One that closes a node waits for the publishers to leave.
RunJob(w) ==
  /\ Running /\ stage[w] = "running"
  /\ job[w] \in Closing => readers = {}
  /\ Goto(w, "ending")
  /\ UNCHANGED <<holders, destroyer, endVars, shutdown, job, next, state, strandVars, readers>>

\* ~JobAliveToken: PushToRunnerIfNeeded decides, before it looks for the runner.
Decide(w) ==
  /\ Running /\ stage[w] = "ending"
  /\ IF pending = <<>>
       THEN /\ has_ready_job' = FALSE /\ Goto(w, "dropping")
            /\ UNCHANGED <<pending, next>>
       ELSE /\ next' = [next EXCEPT ![w] = Head(pending)]
            /\ pending' = Tail(pending) /\ Goto(w, "pushing")
            /\ UNCHANGED has_ready_job
  /\ UNCHANGED <<holders, destroyer, endVars, shutdown, job, state, readers>>

\* The runner is there: the worker owns it while it adds the job.
PushNext(w) ==
  /\ Running /\ stage[w] = "pushing" /\ CanLock
  /\ holders' = holders \union {w}
  /\ state' = [state EXCEPT ![next[w]] = "ready"]
  /\ next' = [next EXCEPT ![w] = NoJob]
  /\ Goto(w, "pushed")
  /\ UNCHANGED <<destroyer, endVars, shutdown, job, strandVars, readers>>

\* The runner is not: the job is destroyed, and its token ends in turn.
DropNext(w) ==
  /\ Running /\ stage[w] = "pushing" /\ ~CanLock
  /\ state' = [state EXCEPT ![next[w]] = "dropped"]
  /\ next' = [next EXCEPT ![w] = NoJob]
  /\ Goto(w, "ending")
  /\ UNCHANGED <<holders, destroyer, endVars, shutdown, job, strandVars, readers>>

ReleasePushed(w) ==
  /\ Running /\ stage[w] = "pushed"
  /\ GiveUp(w, {w}, "dropping")
  /\ UNCHANGED <<memory, joined, shutdown, job, next, state, strandVars, readers>>

\* Mutation: what a job holds is kept by the worker.
Held_Kept(j) == {}

\* What goes with the closure of a job.
Held(j) == {j}

\* The closure of the job is destroyed after its token, with what it holds.
DropJob(w) ==
  /\ Running /\ stage[w] = "dropping"
  /\ GiveUp(w, Held(job[w]), "idle")
  /\ state' = [state EXCEPT ![job[w]] = "ended"]
  /\ job' = [job EXCEPT ![w] = NoJob]
  /\ UNCHANGED <<memory, joined, shutdown, next, strandVars, readers>>

Exit(w) ==
  /\ Running /\ stage[w] = "idle" /\ shutdown
  /\ Goto(w, "exited")
  /\ UNCHANGED <<holders, destroyer, endVars, shutdown, job, next, state, strandVars, readers>>

WorkerStep(w) ==
  \/ Look(w) \/ FindNone(w) \/ \E j \in Jobs : TakeJob(w, j)
  \/ RunJob(w) \/ Decide(w) \/ PushNext(w) \/ DropNext(w) \/ ReleasePushed(w) \/ DropJob(w) \/ Exit(w)

-----------------------------------------------------------------------------
(* Stop and Join, by the owner or in ~JobRunner.                           *)

\* Mutation: a thread is not waited for.
Exited_Anyway(w) == TRUE

Exited(w) == stage[w] = "exited"

Stop(t) ==
  /\ Running /\ ~shutdown
  /\ \/ t = Owner /\ stage[t] = "idle" /\ t \in holders /\ Goto(t, "stopping")
     \/ stage[t] = "destroying" /\ UNCHANGED stage
  /\ shutdown' = TRUE
  /\ UNCHANGED <<holders, destroyer, endVars, job, next, state, strandVars, readers>>

\* thread_.join() on the next worker.  A thread that joins itself gets an exception, and an exception
\* that leaves a destructor ends the process.
JoinNext(t) ==
  /\ Running /\ shutdown /\ joining \in Workers
  /\ stage[t] \in {"stopping", "destroying"}
  /\ IF joining = t
       THEN memory' = "terminated" /\ UNCHANGED joining
       ELSE Exited(joining) /\ joining' = joining + 1 /\ UNCHANGED memory
  /\ UNCHANGED <<holders, destroyer, joined, shutdown, threadVars, state, strandVars, readers>>

EndJoin ==
  /\ Running /\ stage[Owner] = "stopping" /\ joining > NumWorkers
  /\ joined' = TRUE /\ Goto(Owner, "idle")
  /\ UNCHANGED <<holders, destroyer, joining, memory, shutdown, job, next, state, strandVars, readers>>

\* The owner lets go of the runner, having stopped and joined it or not.
Drop ==
  /\ Running /\ stage[Owner] = "idle" /\ Owner \in holders
  /\ shutdown => joined
  /\ GiveUp(Owner, {Owner}, "idle")
  /\ UNCHANGED <<memory, joined, shutdown, job, next, state, strandVars, readers>>

\* Mutation: the jobs left in the strand are forgotten.
LeftOver_Ready == {j \in Jobs : state[j] = "ready"}

\* Jobs in the queues are destroyed with the workers; each token pops the next pending job, which
\* cannot be pushed and goes the same way.
LeftOver == {j \in Jobs : state[j] \in {"ready", "pending"}}

Free(t) ==
  /\ Running /\ stage[t] = "destroying" /\ shutdown /\ joining > NumWorkers
  /\ memory' = "freed"
  /\ IF \E j \in Jobs : state[j] = "ready"
       THEN /\ state' = [j \in Jobs |-> IF j \in LeftOver THEN "dropped" ELSE state[j]]
            /\ pending' = <<>> /\ has_ready_job' = FALSE
       ELSE UNCHANGED <<state, strandVars>>
  /\ Goto(t, IF t \in Publishers THEN "leaving" ELSE "idle")
  /\ UNCHANGED <<holders, destroyer, joining, joined, shutdown, job, next, readers>>

-----------------------------------------------------------------------------
PublisherStep(p) == AddJob(p) \/ ReleaseAdded(p) \/ EndAdd(p)

StopStep(t) == Stop(t) \/ JoinNext(t) \/ Free(t)

Next ==
  \/ \E p \in Publishers : PublisherStep(p) \/ \E j \in Jobs : BeginAdd(p, j)
  \/ \E w \in Workers : WorkerStep(w)
  \/ \E t \in Threads : StopStep(t)
  \/ EndJoin \/ Drop

Spec == Init /\ [][Next]_vars

\* Threads that have something to do are run; nobody has to publish, to stop, or to let go.
FairSpec ==
  /\ Spec
  /\ \A p \in Publishers : WF_vars(PublisherStep(p))
  /\ \A w \in Workers : WF_vars(WorkerStep(w))
  /\ \A t \in Threads : WF_vars(JoinNext(t) \/ Free(t))
  /\ \A t \in Threads : WF_vars(stage[t] = "destroying" /\ Stop(t))
  /\ WF_vars(EndJoin)

-----------------------------------------------------------------------------
(* Properties.                                                             *)

Stages == {"idle", "adding", "releasing", "leaving", "looking", "running", "ending", "pushing", "pushed",
           "dropping", "destroying", "stopping", "exited"}
States == {"new", "pending", "ready", "running", "ended", "dropped"}

\* Every variable has its type.
TypeOK ==
  /\ holders \subseteq Threads \union Capturing
  /\ destroyer \in Threads \union {Nobody} /\ joining \in 1 .. NumWorkers + 1
  /\ memory \in {"there", "freed", "terminated"}
  /\ stage \in [Threads -> Stages]
  /\ job \in [Threads -> Jobs \union {NoJob}] /\ next \in [Workers -> Jobs \union {NoJob}]
  /\ state \in [Jobs -> States]
  /\ pending \in Seq(Jobs) /\ readers \subseteq Publishers
  /\ shutdown \in BOOLEAN /\ has_ready_job \in BOOLEAN /\ joined \in BOOLEAN

\* "JobRunnerWorker is internal helpers for JobRunner, so their lifecycle are always shorter than the
\* matching runner" (job_runner.cc): whoever destroys the runner, no reference is made once the last
\* is gone, and its memory goes when no worker is left to use it.
DestroyedLast ==
  /\ TypeOK
  /\ destroyer # Nobody => holders = {}
  /\ memory = "freed" => \A w \in Workers : stage[w] = "exited" /\ next[w] = NoJob

\* When the runner is gone every token has ended, in the workers, in their queues and in the strand:
\* the strand holds no job, and does not believe one to be in a runner.
TokensAllEnd ==
  memory = "freed" =>
    /\ \A j \in Jobs : state[j] \in {"new", "ended", "dropped"}
    /\ pending = <<>> /\ ~has_ready_job

\* A runner that has been stopped keeps jobs that keep the runner.
Leaked ==
  /\ \A w \in Workers : stage[w] = "exited"
  /\ \E j \in Capturing : state[j] \in {"ready", "pending"}

\* A publisher destroys the runner under its read lock while a worker waits for the write lock.
LockedOut == destroyer \in readers /\ \E w \in Workers : stage[w] = "running" /\ job[w] \in Closing

\* An owner that stops and joins the runner before it lets go is safe whoever drops the last
\* reference: no worker joins itself, and no destroying publisher waits for a closing node.
JoinedIsSafe ==
  /\ joined => memory # "terminated" /\ ~LockedOut
  /\ memory = "terminated" => destroyer \in Workers

\* A runner its owner has let go of is freed, unless its jobs hold it after a stop, the last reference
\* was that of a publisher in the way of a closing node, or that of a worker.
FreedInTheEnd ==
  Owner \notin holders ~> (memory \in {"freed", "terminated"} \/ Leaked \/ LockedOut)
=============================================================================
