------------------------------- MODULE Strand -------------------------------
(***************************************************************************)
(* JobRunnerStrand, JobAliveToken and ForceRunImmediately of               *)
(* src/sched/job_runner.cc: the jobs of one strand are handed to the       *)
(* runner one at a time.                                                   *)
(*                                                                         *)
(* The processes are the calls the comment of PushToRunnerIfNeeded reasons *)
(* about.  Every job j has two of them: <<j, "add">>, made by the thread   *)
(* that adds j, and <<j, "end">>, made by the destructor of j's token, in  *)
(* whatever thread that happens.  A call takes the spin lock, decides and, *)
(* when its decision took a job off the pending queue, pushes that job to  *)
(* the runner after the lock has been released.                            *)
(***************************************************************************)
EXTENDS Naturals, Sequences, FiniteSets

CONSTANTS
  Jobs,     \* the jobs that may be added to the strand
  NoCall,   \* the owner of a free lock
  NoJob     \* the job a call holds when it holds none

Calls == Jobs \X {"add", "end"}

ASSUME StrandAssumption == NoCall \notin Calls /\ NoJob \notin Jobs

VARIABLES
  pending,      \* pending_jobs_: jobs pushed and not yet consumed, oldest first
  hasReady,     \* has_ready_job_
  lock,         \* the call that owns hybrid_spin_mtx_, or NoCall
  pc,           \* where each call is
  next,         \* the local variable `next` of each call
  at,           \* where each job is
  ticket,       \* history: the position of each job among the jobs submitted
  submitted,    \* history: how many jobs have been submitted
  userRef,      \* the users still hold a JobRunnerStrandPtr
  runnerAlive,  \* runner_weak_.lock() succeeds
  workersUp     \* the workers of the runner still take jobs

strandVars == <<pending, hasReady, lock>>
histVars   == <<ticket, submitted>>
envVars    == <<userRef, runnerAlive, workersUp>>
vars == <<strandVars, pc, next, at, histVars, envVars>>

Places == {"new", "pending", "popped", "ready", "running", "ended", "dropped"}
Stages == {"idle", "trying", "refused", "lock", "locked", "push", "done"}

\* The stages at which a call uses the strand, and so keeps it alive.
Busy == {"trying", "refused", "lock", "locked", "push"}

\* strand_weak_.lock() succeeds: somebody owns the strand.
StrandRef == userRef \/ \E c \in Calls : pc[c] \in Busy

Add(j) == <<j, "add">>
End(j) == <<j, "end">>

-----------------------------------------------------------------------------
Init ==
  /\ pending = <<>>
  /\ hasReady = FALSE
  /\ lock = NoCall
  /\ pc = [c \in Calls |-> "idle"]
  /\ next = [c \in Calls |-> NoJob]
  /\ at = [j \in Jobs |-> "new"]
  /\ ticket = [j \in Jobs |-> 0]
  /\ submitted = 0
  /\ userRef = TRUE
  /\ runnerAlive = TRUE
  /\ workersUp = TRUE

\* History: j takes the next ticket.
Submits(j) ==
  /\ submitted' = submitted + 1
  /\ ticket' = [ticket EXCEPT ![j] = submitted + 1]

\* Mutation: the token's destructor is empty.
EndStage_Forgotten == "done"

\* The stage of the end call of a job whose token has just died.
EndStage == IF StrandRef THEN "lock" ELSE "done"

-----------------------------------------------------------------------------
(* AddJob(job): push to the pending queue, without the lock.  A call whose *)
(* attempt to run at once was refused goes on to push (TryRunImmediately)  *)
(* or gives up (ForceRunImmediately).                                      *)
Push(j) ==
  /\ pc[Add(j)] \in {"idle", "refused"}
  /\ pc[Add(j)] = "idle" => userRef
  /\ pending' = Append(pending, j)
  /\ at' = [at EXCEPT ![j] = "pending"]
  /\ pc' = [pc EXCEPT ![Add(j)] = "lock"]
  /\ Submits(j)
  /\ UNCHANGED <<hasReady, lock, next, envVars>>

(* AddJob(job, ForceRunImmediately): std::try_to_lock.                     *)
TryLock(j) ==
  /\ userRef /\ pc[Add(j)] = "idle"
  /\ IF lock = NoCall
       THEN lock' = Add(j) /\ pc' = [pc EXCEPT ![Add(j)] = "trying"]
       ELSE lock' = lock   /\ pc' = [pc EXCEPT ![Add(j)] = "refused"]
  /\ UNCHANGED <<pending, hasReady, next, at, histVars, envVars>>

\* Mutation: the pending queue is not looked at.
CanRunNow_IgnoresPending == ~hasReady

CanRunNow == ~hasReady /\ pending = <<>>

TryRefuse(j) ==
  /\ pc[Add(j)] = "trying" /\ ~CanRunNow
  /\ lock' = NoCall
  /\ pc' = [pc EXCEPT ![Add(j)] = "refused"]
  /\ UNCHANGED <<pending, hasReady, next, at, histVars, envVars>>

GiveUp(j) ==
  /\ pc[Add(j)] = "refused"
  /\ pc' = [pc EXCEPT ![Add(j)] = "done"]
  /\ UNCHANGED <<strandVars, next, at, histVars, envVars>>

\* Mutation: the flag is not set for the job run at once.
TryRun_Unflagged(j) ==
  /\ pc[Add(j)] = "trying" /\ CanRunNow
  /\ lock' = NoCall
  /\ pc' = [pc EXCEPT ![Add(j)] = "done"]
  /\ at' = [at EXCEPT ![j] = "running"]
  /\ Submits(j)
  /\ UNCHANGED <<pending, hasReady, next, envVars>>

\* The job runs in the caller's thread with a fresh token.
TryRun(j) ==
  /\ pc[Add(j)] = "trying" /\ CanRunNow
  /\ hasReady' = TRUE
  /\ lock' = NoCall
  /\ pc' = [pc EXCEPT ![Add(j)] = "done"]
  /\ at' = [at EXCEPT ![j] = "running"]
  /\ Submits(j)
  /\ UNCHANGED <<pending, next, envVars>>

-----------------------------------------------------------------------------
(* PushToRunnerIfNeeded, the decision.                                     *)
Acquire(c) ==
  /\ pc[c] = "lock" /\ lock = NoCall
  /\ lock' = c
  /\ pc' = [pc EXCEPT ![c] = "locked"]
  /\ UNCHANGED <<pending, hasReady, next, at, histVars, envVars>>

\* Mutation: the early return is dropped.
SomeoneElseReady_Never(c) == c # c

\* !is_in_running_job && has_ready_job_
SomeoneElseReady(c) == c[2] = "add" /\ hasReady

Skip(c) ==
  /\ pc[c] = "locked" /\ SomeoneElseReady(c)
  /\ lock' = NoCall
  /\ pc' = [pc EXCEPT ![c] = "done"]
  /\ UNCHANGED <<pending, hasReady, next, at, histVars, envVars>>

\* Mutation: the end call clears the flag without looking at the queue.
Clear_Blindly(c) ==
  /\ pc[c] = "locked" /\ ~SomeoneElseReady(c)
  /\ hasReady' = FALSE
  /\ lock' = NoCall
  /\ pc' = [pc EXCEPT ![c] = "done"]
  /\ UNCHANGED <<pending, next, at, histVars, envVars>>

Clear(c) ==
  /\ pc[c] = "locked" /\ ~SomeoneElseReady(c) /\ pending = <<>>
  /\ hasReady' = FALSE
  /\ lock' = NoCall
  /\ pc' = [pc EXCEPT ![c] = "done"]
  /\ UNCHANGED <<pending, next, at, histVars, envVars>>

Take(c) ==
  /\ pc[c] = "locked" /\ ~SomeoneElseReady(c) /\ pending # <<>>
  /\ next' = [next EXCEPT ![c] = Head(pending)]
  /\ pending' = Tail(pending)
  /\ hasReady' = TRUE
  /\ lock' = NoCall
  /\ at' = [at EXCEPT ![Head(pending)] = "popped"]
  /\ pc' = [pc EXCEPT ![c] = "push"]
  /\ UNCHANGED <<histVars, envVars>>

(* PushToRunnerIfNeeded, the push: runner_weak_.lock() and AddJob.         *)
PushToRunner(c) ==
  /\ pc[c] = "push" /\ runnerAlive
  /\ at' = [at EXCEPT ![next[c]] = "ready"]
  /\ next' = [next EXCEPT ![c] = NoJob]
  /\ pc' = [pc EXCEPT ![c] = "done"]
  /\ UNCHANGED <<strandVars, histVars, envVars>>

\* Mutation: `next` is leaked instead of destroyed.
DropNext_Leaked(c) ==
  /\ pc[c] = "push" /\ ~runnerAlive
  /\ at' = [at EXCEPT ![next[c]] = "dropped"]
  /\ next' = [next EXCEPT ![c] = NoJob]
  /\ pc' = [pc EXCEPT ![c] = "done"]
  /\ UNCHANGED <<strandVars, histVars, envVars>>

(* With the runner gone `next` goes out of scope, the job in it is         *)
(* destroyed without having run, and its token makes the end call.         *)
DropNext(c) ==
  /\ pc[c] = "push" /\ ~runnerAlive
  /\ at' = [at EXCEPT ![next[c]] = "dropped"]
  /\ next' = [next EXCEPT ![c] = NoJob]
  /\ pc' = [pc EXCEPT ![c] = "done", ![End(next[c])] = EndStage]
  /\ UNCHANGED <<strandVars, histVars, envVars>>

-----------------------------------------------------------------------------
\* A worker of the runner takes the job (which worker is in JobRunner.tla).
Start(j) ==
  /\ workersUp /\ at[j] = "ready"
  /\ at' = [at EXCEPT ![j] = "running"]
  /\ UNCHANGED <<strandVars, pc, next, histVars, envVars>>

(* ~JobAliveToken: the job has returned and nobody else keeps its token.   *)
TokenDies(j) ==
  /\ at[j] = "running"
  /\ at' = [at EXCEPT ![j] = "ended"]
  /\ pc' = [pc EXCEPT ![End(j)] = EndStage]
  /\ UNCHANGED <<strandVars, next, histVars, envVars>>

-----------------------------------------------------------------------------
\* JobRunner::Stop, by a user or by ~JobRunner.
StopWorkers ==
  /\ workersUp
  /\ workersUp' = FALSE
  /\ UNCHANGED <<strandVars, pc, next, at, histVars, userRef, runnerAlive>>

\* The last shared_ptr to the runner goes away.
ExpireRunner ==
  /\ runnerAlive
  /\ runnerAlive' = FALSE
  /\ UNCHANGED <<strandVars, pc, next, at, histVars, userRef, workersUp>>

\* ~JobRunner after Stop and Join: the jobs in the workers' queues die.
DestroyReady(j) ==
  /\ ~runnerAlive /\ ~workersUp /\ at[j] = "ready"
  /\ at' = [at EXCEPT ![j] = "dropped"]
  /\ pc' = [pc EXCEPT ![End(j)] = EndStage]
  /\ UNCHANGED <<strandVars, next, histVars, envVars>>

DropStrand ==
  /\ userRef
  /\ userRef' = FALSE
  /\ UNCHANGED <<strandVars, pc, next, at, histVars, runnerAlive, workersUp>>

(* The strand is destroyed with jobs pending; their tokens find it gone.   *)
DestroyStrand ==
  /\ ~StrandRef /\ pending # <<>>
  /\ pending' = <<>>
  /\ at' = [j \in Jobs |-> IF at[j] = "pending" THEN "dropped" ELSE at[j]]
  /\ pc' = [c \in Calls |->
              IF c[2] = "end" /\ at[c[1]] = "pending" THEN EndStage ELSE pc[c]]
  /\ UNCHANGED <<hasReady, lock, next, histVars, envVars>>

-----------------------------------------------------------------------------
\* What a thread inside a call does next.
CallStep(c) ==
  Acquire(c) \/ Skip(c) \/ Clear(c) \/ Take(c) \/ PushToRunner(c) \/ DropNext(c)

TryStep(j) == \/ TryRefuse(j) \/ TryRun(j)
              \/ pc[Add(j)] = "refused" /\ (Push(j) \/ GiveUp(j))

Next ==
  \/ \E j \in Jobs : \/ Push(j) \/ TryLock(j) \/ TryStep(j)
                     \/ Start(j) \/ TokenDies(j) \/ DestroyReady(j)
  \/ \E c \in Calls : CallStep(c)
  \/ StopWorkers \/ ExpireRunner \/ DropStrand \/ DestroyStrand

Spec == Init /\ [][Next]_vars

(* Threads inside a call are scheduled, workers that are up take jobs,     *)
(* jobs return and release their tokens, and ~JobRunner, once begun, runs  *)
(* to its end.  Nobody is obliged to add a job, to stop or to drop.        *)
Fairness ==
  /\ \A c \in Calls : WF_vars(CallStep(c))
  /\ \A j \in Jobs : /\ WF_vars(TryStep(j))
                     /\ WF_vars(Start(j))
                     /\ WF_vars(TokenDies(j))
                     /\ WF_vars(DestroyReady(j))
  /\ WF_vars(~runnerAlive /\ StopWorkers)
  /\ WF_vars(DestroyStrand)

FairSpec == Spec /\ Fairness

-----------------------------------------------------------------------------
(* Properties.                                                             *)

\* Every variable has its type.
TypeOK ==
  /\ pending \in Seq(Jobs)
  /\ hasReady \in BOOLEAN
  /\ lock \in Calls \union {NoCall}
  /\ pc \in [Calls -> Stages]
  /\ next \in [Calls -> Jobs \union {NoJob}]
  /\ at \in [Jobs -> Places]
  /\ ticket \in [Jobs -> Nat]
  /\ submitted \in Nat
  /\ userRef \in BOOLEAN
  /\ runnerAlive \in BOOLEAN
  /\ workersUp \in BOOLEAN

\* Safety, first half of the comment (job_runner.cc:138): no more than one job
\* of the strand is in the runner, waiting there or running, whichever threads
\* pushed it, ran it at once or still keep its token.
AtMostOneInRunner ==
  \A j, k \in Jobs :
    at[j] \in {"ready", "running"} /\ at[k] \in {"ready", "running"} => j = k

\* Safety, second half (job_runner.cc:139): a job that has begun was not
\* submitted after one that still waits, ForceRunImmediately included, although
\* the push to the runner happens after the lock has been released.
NoOvertaking ==
  \A j, k \in Jobs :
    /\ at[j] \in {"running", "ended"}
    /\ at[k] \in {"pending", "popped", "ready"}
    => ticket[k] > ticket[j]

\* No lost wake-up (job_runner.cc:164-166): while the strand exists, a pending
\* job has somebody who will push it: a job before it that is not over, or its
\* own add call, still to decide.
NoLostJob ==
  StrandRef /\ pending # <<>> =>
    \/ hasReady
    \/ \E j \in Jobs : at[j] = "pending" /\ pc[Add(j)] \in {"lock", "locked"}

\* The flag tells the truth (job_runner.cc:173-174): when it is set and the
\* strand exists, some job is on its way to the runner, in it, or about to make
\* the decision that clears the flag or passes it on; when it is not set there is
\* none.
FlagMeansOutstanding ==
  LET outstanding == \E j \in Jobs : \/ at[j] \in {"popped", "ready", "running"}
                                     \/ pc[End(j)] \in {"lock", "locked"}
  IN  TypeOK /\ (StrandRef => (hasReady <=> outstanding))

\* The heart of the comment's argument (job_runner.cc:155): the push generated by
\* one decision happens before the next decision that changes the flag or takes a
\* job.
PushBeforeNextDecision ==
  [][ hasReady' # hasReady \/ (\E j \in Jobs : at[j] = "pending" /\ at'[j] = "popped")
      => \A c \in Calls : pc[c] # "push" ]_vars

\* What the strand promises, for the refinement.
Front == {j \in Jobs : at[j] \in {"popped", "ready"}}
Waiting == IF Front = {} THEN pending
                         ELSE <<CHOOSE j \in Front : TRUE>> \o pending

SQ == INSTANCE SerialQueue WITH
        queue  <- Waiting,
        active <- {j \in Jobs : at[j] = "running"},
        seen   <- {j \in Jobs : at[j] # "new"},
        open   <- userRef /\ runnerAlive

\* The strand implements the serial queue.
ImplementsSerialQueue == SQ!Spec

\* Liveness of the comment (job_runner.cc:140-142): a submitted job is run,
\* even if no other job ever arrives, unless the runner is stopped or expires or
\* the strand is given up.
Open == userRef /\ runnerAlive /\ workersUp
PendingIsRun ==
  \A j \in Jobs : at[j] = "pending" ~> (at[j] \in {"running", "ended"} \/ ~Open)

\* After the runner has expired the chain of destructors empties the pending
\* queue: no job waits for ever for a runner that does not exist.
ExpiredRunnerDrains ==
  \A j \in Jobs : (at[j] = "pending" /\ ~runnerAlive) ~> at[j] # "pending"
=============================================================================
