------------------------ MODULE RunnerOwnershipProofs ------------------------
(***************************************************************************)
(* Theorems about RunnerOwnership, for any number of workers and any sets  *)
(* of jobs and publishers: whoever drops the last reference destroys a     *)
(* runner that nobody refers to any more, frees it when every worker has   *)
(* left, and an owner that has stopped and joined it is safe.              *)
(*                                                                         *)
(* A thread that joins the workers has seen those before `joining` leave,  *)
(* and a worker that has left does nothing more (Joins); while the owner   *)
(* joins, or a publisher adds a job, it holds the runner, so that nobody   *)
(* destroys it meanwhile (Roles); and a runner that is being destroyed has *)
(* no holder to make another (Destroying).  A job has a token as long as   *)
(* it is with the runner: it is being added, queued, taken or running, in  *)
(* one of these places only (Adding, Queued, Turn, Working), and what is   *)
(* freed leaves no token behind (Emptied).                                 *)
(***************************************************************************)
EXTENDS RunnerOwnership, SequencesExt, TLAPS

\* Who is at which stage, and what it has in hand.
Roles ==
  /\ \A t \in Threads : stage[t] \in {"adding", "releasing"} => t \in Publishers /\ t \in holders
  /\ \A t \in Threads : stage[t] = "adding" => job[t] \in Jobs
  /\ \A t \in Threads : stage[t] = "stopping" => t = Owner /\ t \in holders
  /\ \A w \in Workers : next[w] # NoJob <=> stage[w] = "pushing"
  /\ \A t \in Threads : stage[t] \in {"running", "ending", "pushing", "pushed", "dropping"} => job[t] \in Jobs

\* One thread destroys the runner, and only when nobody holds it.
Destroying ==
  /\ \A t \in Threads : stage[t] = "destroying" => destroyer = t
  /\ destroyer # Nobody => holders = {}

\* Which workers have left.
Joins ==
  /\ ~shutdown => joining = 1
  /\ \A t \in Threads : stage[t] \in {"destroying", "stopping"} =>
       \A w \in Workers : w < joining => stage[w] = "exited"
  /\ joined \/ memory = "freed" => \A w \in Workers : stage[w] = "exited"
  /\ memory = "terminated" => destroyer \in Workers
  /\ joined => memory # "terminated"

\* A job that is being added is new, and is added by one publisher.
Adding ==
  /\ \A p \in Publishers : stage[p] = "adding" => state[job[p]] = "new"
  /\ \A p, q \in Publishers : job[p] = job[q] /\ job[p] # NoJob => p = q

\* The pending jobs are those of the strand's queue and those that have been popped from it.
Queued ==
  /\ IsInjective(pending)
  /\ \A j \in ToSet(pending) : state[j] = "pending"
  /\ \A w \in Workers : next[w] # NoJob => state[next[w]] = "pending" /\ next[w] \notin ToSet(pending)
  /\ \A j \in Jobs : state[j] = "pending" => j \in ToSet(pending) \/ \E w \in Workers : next[w] = j

\* The strand's turn is in a queue of the runner, or with a worker that will decide.
Turning(w) == stage[w] \in {"running", "ending", "pushing"}
Turn ==
  /\ has_ready_job <=> (\E j \in Jobs : state[j] = "ready") \/ (\E w \in Workers : Turning(w))
  /\ \A j, k \in Jobs : state[j] = "ready" /\ state[k] = "ready" => j = k
  /\ \A w, v \in Workers : Turning(w) /\ Turning(v) => w = v
  /\ \A j \in Jobs, w \in Workers : ~(state[j] = "ready" /\ Turning(w))
  /\ pending # <<>> => has_ready_job

\* A running job has a worker of its own, which has not left.
Busy(w) == stage[w] \in {"running", "ending", "pushing", "pushed", "dropping"}
Working ==
  /\ \A j \in Jobs : state[j] = "running" =>
       \E w \in Workers : job[w] = j /\ (Busy(w) \/ stage[w] = "destroying")
  /\ \A w \in Workers : Busy(w) => state[job[w]] = "running"
  /\ \A w, v \in Workers : Busy(w) /\ Busy(v) /\ job[w] = job[v] => w = v

\* With the runner its queues have gone.
Emptied ==
  memory = "freed" => destroyer # Nobody /\ \A j \in Jobs : state[j] # "ready"

Tokens == Adding /\ Queued /\ Turn /\ Working /\ Emptied

IInv == TypeOK /\ Roles /\ Destroying /\ Joins /\ Tokens

(* What a queue that is not empty is made of.                              *)
LEMMA QueueFacts ==
  ASSUME NEW s \in Seq(Jobs), s # <<>>
  PROVE  Head(s) \in Jobs /\ Tail(s) \in Seq(Jobs)
OBVIOUS

(* A queue to which a job was added is not empty.                          *)
LEMMA AppendFacts ==
  ASSUME NEW s \in Seq(Jobs), NEW j \in Jobs
  PROVE  Append(s, j) \in Seq(Jobs) /\ Append(s, j) # <<>>
<1>1. Len(Append(s, j)) = Len(s) + 1 /\ Len(s) \in Nat
  OBVIOUS
<1>2. Append(s, j) # <<>>
  BY <1>1
<1> QED BY <1>2

(* A thread that gives up its references goes on, or begins to destroy.    *)
LEMMA GiveUpFacts ==
  ASSUME stage \in [Threads -> Stages],
         NEW t \in Threads, NEW gone, NEW then \in Stages, GiveUp(t, gone, then)
  PROVE  /\ stage' \in [Threads -> Stages]
         /\ \A x \in Threads : x # t => stage'[x] = stage[x]
         /\ stage'[t] = then \/ (stage'[t] = "destroying" /\ joining' = 1)
<1>1. CASE Goto(t, then)
  BY <1>1 DEF Goto
<1>2. CASE Goto(t, "destroying") /\ joining' = 1
  <2>1. "destroying" \in Stages
    BY DEF Stages
  <2> QED BY <1>2, <2>1 DEF Goto
<1> QED BY <1>1, <1>2 DEF GiveUp

(* A publisher that begins to add a job may become a holder, nobody else.  *)
LEMMA BeginAddFacts ==
  ASSUME NEW p, NEW j, BeginAdd(p, j)
  PROVE  holders' = holders \/ holders' = holders \union {p}
BY DEF BeginAdd

(* Stopping leaves the stage of every other thread alone.                  *)
LEMMA StopFacts ==
  ASSUME NEW t, Stop(t)
  PROVE  stage' = [stage EXCEPT ![t] = "stopping"] \/ stage' = stage
BY DEF Stop, Goto

(* Every variable keeps its type.                                          *)
LEMMA TypeStep == IInv /\ [Next]_vars => TypeOK'
<1> SUFFICES ASSUME IInv, [Next]_vars
             PROVE  TypeOK'
  OBVIOUS
<1> USE OwnershipAssumption DEF IInv, TypeOK, Roles, Stages, States, Threads, Workers, Goto, strandVars, endVars, threadVars
<1>1. ASSUME NEW p \in Publishers, NEW j \in Jobs, BeginAdd(p, j) PROVE TypeOK'
  <2>1. holders' \subseteq Threads \union Capturing
    <3>1. holders' = holders \/ holders' = holders \union {p}
      BY <1>1, BeginAddFacts
    <3>2. holders \subseteq Threads \union Capturing /\ p \in Threads
      OBVIOUS
    <3> QED BY ONLY <3>1, <3>2
  <2>2. stage' \in [Threads -> Stages]
    <3>1. PICK s \in Stages : stage' = [stage EXCEPT ![p] = s]
      BY <1>1 DEF BeginAdd
    <3> QED BY <3>1
  <2>3. job' \in [Threads -> Jobs \union {NoJob}] /\ readers' \subseteq Publishers
    BY <1>1 DEF BeginAdd
  <2> QED BY <1>1, <2>1, <2>2, <2>3 DEF BeginAdd
<1>2. ASSUME NEW p \in Publishers, AddJob(p) PROVE TypeOK'
  <2>1. job[p] \in Jobs
    BY <1>2 DEF AddJob
  <2>2. Append(pending, job[p]) \in Seq(Jobs) /\ Append(pending, job[p]) # <<>>
    BY <2>1, AppendFacts
  <2>3. /\ Head(Append(pending, job[p])) \in Jobs
       /\ Tail(Append(pending, job[p])) \in Seq(Jobs)
    BY <2>2, QueueFacts
  <2>4. pending' \in Seq(Jobs) /\ has_ready_job' \in BOOLEAN
    BY <1>2, <2>2, <2>3 DEF AddJob
  <2>5. state' \in [Jobs -> States]
    <3>1. PICK q \in Jobs, a \in States, b \in States :
            \/ state' = [state EXCEPT ![job[p]] = a]
            \/ state' = [state EXCEPT ![job[p]] = a, ![q] = b]
      BY <1>2, <2>3 DEF AddJob
    <3> QED BY <3>1, <2>1
  <2>6. holders' \subseteq Threads \union Capturing
    BY <1>2, <2>1 DEF AddJob
  <2>7. stage' \in [Threads -> Stages]
    BY <1>2 DEF AddJob
  <2> QED BY <1>2, <2>1, <2>2, <2>3, <2>4, <2>5, <2>6, <2>7 DEF AddJob
<1>3. ASSUME NEW p \in Publishers, ReleaseAdded(p) PROVE TypeOK'
  <2>1. holders' \subseteq Threads \union Capturing
    BY <1>3 DEF ReleaseAdded, GiveUp
  <2>2. stage' \in [Threads -> Stages]
    BY <1>3, GiveUpFacts DEF ReleaseAdded
  <2>3. destroyer' \in Threads \union {Nobody} /\ joining' \in 1 .. NumWorkers + 1
    BY <1>3 DEF ReleaseAdded, GiveUp
  <2> QED BY <1>3, <2>1, <2>2, <2>3 DEF ReleaseAdded, GiveUp
<1>4. ASSUME NEW p \in Publishers, EndAdd(p) PROVE TypeOK'
  BY <1>4 DEF EndAdd
<1>5. ASSUME NEW w \in Workers, Look(w) PROVE TypeOK'
  BY <1>5 DEF Look
<1>6. ASSUME NEW w \in Workers, FindNone(w) PROVE TypeOK'
  BY <1>6 DEF FindNone
<1>7. ASSUME NEW w \in Workers, NEW j \in Jobs, TakeJob(w, j) PROVE TypeOK'
  BY <1>7 DEF TakeJob
<1>8. ASSUME NEW w \in Workers, RunJob(w) PROVE TypeOK'
  BY <1>8 DEF RunJob
<1>9. ASSUME NEW w \in Workers, Decide(w) PROVE TypeOK'
  <2>1. pending # <<>> => Head(pending) \in Jobs /\ Tail(pending) \in Seq(Jobs)
    BY QueueFacts
  <2>2. next' \in [Workers -> Jobs \union {NoJob}]
    BY <1>9, <2>1 DEF Decide
  <2>3. pending' \in Seq(Jobs)
    BY <1>9, <2>1 DEF Decide
  <2>4. stage' \in [Threads -> Stages]
    <3>1. PICK s \in Stages : stage' = [stage EXCEPT ![w] = s]
      BY <1>9 DEF Decide
    <3> QED BY <3>1
  <2> QED BY <1>9, <2>1, <2>2, <2>3, <2>4 DEF Decide
<1>10. ASSUME NEW w \in Workers, PushNext(w) PROVE TypeOK'
  BY <1>10 DEF PushNext
<1>11. ASSUME NEW w \in Workers, DropNext(w) PROVE TypeOK'
  BY <1>11 DEF DropNext
<1>12. ASSUME NEW w \in Workers, ReleasePushed(w) PROVE TypeOK'
  <2>1. holders' \subseteq Threads \union Capturing
    BY <1>12 DEF ReleasePushed, GiveUp
  <2>2. stage' \in [Threads -> Stages]
    BY <1>12, GiveUpFacts DEF ReleasePushed
  <2>3. destroyer' \in Threads \union {Nobody} /\ joining' \in 1 .. NumWorkers + 1
    BY <1>12 DEF ReleasePushed, GiveUp
  <2> QED BY <1>12, <2>1, <2>2, <2>3 DEF ReleasePushed, GiveUp
<1>13. ASSUME NEW w \in Workers, DropJob(w) PROVE TypeOK'
  <2>1. holders' \subseteq Threads \union Capturing
    BY <1>13 DEF DropJob, GiveUp, Held
  <2>2. stage' \in [Threads -> Stages]
    BY <1>13, GiveUpFacts DEF DropJob
  <2>3. destroyer' \in Threads \union {Nobody} /\ joining' \in 1 .. NumWorkers + 1
    BY <1>13 DEF DropJob, GiveUp, Held
  <2>4. state' \in [Jobs -> States]
    BY <1>13 DEF DropJob, GiveUp, Held
  <2>5. job' \in [Threads -> Jobs \union {NoJob}]
    BY <1>13 DEF DropJob, GiveUp, Held
  <2> QED BY <1>13, <2>1, <2>2, <2>3, <2>4, <2>5 DEF DropJob, GiveUp, Held
<1>14. ASSUME NEW w \in Workers, Exit(w) PROVE TypeOK'
  BY <1>14 DEF Exit
<1>15. ASSUME NEW t \in Threads, Stop(t) PROVE TypeOK'
  <2>1. stage' \in [Threads -> Stages]
    <3>1. stage' = [stage EXCEPT ![t] = "stopping"] \/ stage' = stage
      BY <1>15, StopFacts
    <3> QED BY ONLY IInv, <3>1 DEF IInv, TypeOK, Stages
  <2> QED BY <1>15, <2>1 DEF Stop
<1>16. ASSUME NEW t \in Threads, JoinNext(t) PROVE TypeOK'
  BY <1>16 DEF JoinNext, Exited
<1>17. ASSUME NEW t \in Threads, Free(t) PROVE TypeOK'
  <2>1. stage' \in [Threads -> Stages]
    BY <1>17 DEF Free
  <2>2. state' \in [Jobs -> States]
    BY <1>17 DEF Free
  <2>3. pending' \in Seq(Jobs)
    <3>1. CASE \E j \in Jobs : state[j] = "ready"
      <4>1. pending' = <<>>
        BY <1>17, <3>1, Zenon DEF Free
      <4> QED BY <4>1
    <3>2. CASE ~\E j \in Jobs : state[j] = "ready"
      BY <1>17, <3>2, Zenon DEF Free
    <3> QED BY <3>1, <3>2
  <2> QED BY <1>17, <2>1, <2>2, <2>3 DEF Free
<1>18. ASSUME EndJoin PROVE TypeOK'
  BY <1>18 DEF EndJoin
<1>19. ASSUME Drop PROVE TypeOK'
  <2>1. holders' \subseteq Threads \union Capturing
    BY <1>19 DEF Drop, GiveUp
  <2>2. stage' \in [Threads -> Stages]
    BY <1>19, GiveUpFacts DEF Drop
  <2>3. destroyer' \in Threads \union {Nobody} /\ joining' \in 1 .. NumWorkers + 1
    BY <1>19 DEF Drop, GiveUp
  <2> QED BY <1>19, <2>1, <2>2, <2>3 DEF Drop, GiveUp
<1>20. ASSUME UNCHANGED vars PROVE TypeOK'
  BY <1>20 DEF vars
<1> QED
  BY <1>1, <1>2, <1>3, <1>4, <1>5, <1>6, <1>7, <1>8, <1>9, <1>10, <1>11, <1>12, <1>13, <1>14, <1>15, <1>16, <1>17, <1>18, <1>19, <1>20
     DEF Next, PublisherStep, WorkerStep, StopStep

(* The stages of the threads are kept.                                     *)
LEMMA RolesStep == IInv /\ [Next]_vars => Roles'
<1> SUFFICES ASSUME IInv, [Next]_vars
             PROVE  Roles'
  OBVIOUS
<1> USE OwnershipAssumption DEF IInv, TypeOK, Roles, Stages, States, Threads, Goto, CanLock, strandVars, endVars, threadVars
<1>1. ASSUME NEW p \in Publishers, NEW j \in Jobs, BeginAdd(p, j) PROVE Roles'
  BY <1>1 DEF BeginAdd
<1>2. ASSUME NEW p \in Publishers, AddJob(p) PROVE Roles'
  BY <1>2 DEF AddJob
<1>3. ASSUME NEW p \in Publishers, ReleaseAdded(p) PROVE Roles'
  BY <1>3 DEF ReleaseAdded, GiveUp
<1>4. ASSUME NEW p \in Publishers, EndAdd(p) PROVE Roles'
  BY <1>4 DEF EndAdd
<1>5. ASSUME NEW w \in Workers, Look(w) PROVE Roles'
  BY <1>5 DEF Look
<1>6. ASSUME NEW w \in Workers, FindNone(w) PROVE Roles'
  BY <1>6 DEF FindNone
<1>7. ASSUME NEW w \in Workers, NEW j \in Jobs, TakeJob(w, j) PROVE Roles'
  BY <1>7 DEF TakeJob
<1>8. ASSUME NEW w \in Workers, RunJob(w) PROVE Roles'
  BY <1>8 DEF RunJob
<1>9. ASSUME NEW w \in Workers, Decide(w) PROVE Roles'
  BY <1>9 DEF Decide
<1>10. ASSUME NEW w \in Workers, PushNext(w) PROVE Roles'
  BY <1>10 DEF PushNext
<1>11. ASSUME NEW w \in Workers, DropNext(w) PROVE Roles'
  BY <1>11 DEF DropNext
<1>12. ASSUME NEW w \in Workers, ReleasePushed(w) PROVE Roles'
  BY <1>12 DEF ReleasePushed, GiveUp
<1>13. ASSUME NEW w \in Workers, DropJob(w) PROVE Roles'
  BY <1>13 DEF DropJob, GiveUp, Held
<1>14. ASSUME NEW w \in Workers, Exit(w) PROVE Roles'
  BY <1>14 DEF Exit
<1>15. ASSUME NEW t \in Threads, Stop(t) PROVE Roles'
  BY <1>15 DEF Stop
<1>16. ASSUME NEW t \in Threads, JoinNext(t) PROVE Roles'
  BY <1>16 DEF JoinNext, Exited
<1>17. ASSUME NEW t \in Threads, Free(t) PROVE Roles'
  BY <1>17 DEF Free
<1>18. ASSUME EndJoin PROVE Roles'
  BY <1>18 DEF EndJoin
<1>19. ASSUME Drop PROVE Roles'
  BY <1>19 DEF Drop, GiveUp
<1>20. ASSUME UNCHANGED vars PROVE Roles'
  BY <1>20 DEF vars
<1> QED
  BY <1>1, <1>2, <1>3, <1>4, <1>5, <1>6, <1>7, <1>8, <1>9, <1>10, <1>11, <1>12, <1>13, <1>14, <1>15, <1>16, <1>17, <1>18, <1>19, <1>20
     DEF Next, PublisherStep, WorkerStep, StopStep

(* No reference is made while the runner is being destroyed.              *)
LEMMA DestroyingStep == IInv /\ [Next]_vars => Destroying'
<1> SUFFICES ASSUME IInv, [Next]_vars
             PROVE  Destroying'
  OBVIOUS
<1> USE OwnershipAssumption DEF IInv, TypeOK, Roles, Destroying, Stages, Threads, Goto, CanLock, strandVars, endVars, threadVars
<1>1. ASSUME NEW p \in Publishers, NEW j \in Jobs, BeginAdd(p, j) PROVE Destroying'
  BY <1>1 DEF BeginAdd
<1>2. ASSUME NEW p \in Publishers, AddJob(p) PROVE Destroying'
  BY <1>2 DEF AddJob
<1>3. ASSUME NEW p \in Publishers, ReleaseAdded(p) PROVE Destroying'
  BY <1>3 DEF ReleaseAdded, GiveUp
<1>4. ASSUME NEW p \in Publishers, EndAdd(p) PROVE Destroying'
  BY <1>4 DEF EndAdd
<1>5. ASSUME NEW w \in Workers, Look(w) PROVE Destroying'
  BY <1>5 DEF Look
<1>6. ASSUME NEW w \in Workers, FindNone(w) PROVE Destroying'
  BY <1>6 DEF FindNone
<1>7. ASSUME NEW w \in Workers, NEW j \in Jobs, TakeJob(w, j) PROVE Destroying'
  BY <1>7 DEF TakeJob
<1>8. ASSUME NEW w \in Workers, RunJob(w) PROVE Destroying'
  BY <1>8 DEF RunJob
<1>9. ASSUME NEW w \in Workers, Decide(w) PROVE Destroying'
  BY <1>9 DEF Decide
<1>10. ASSUME NEW w \in Workers, PushNext(w) PROVE Destroying'
  BY <1>10 DEF PushNext
<1>11. ASSUME NEW w \in Workers, DropNext(w) PROVE Destroying'
  BY <1>11 DEF DropNext
<1>12. ASSUME NEW w \in Workers, ReleasePushed(w) PROVE Destroying'
  BY <1>12 DEF ReleasePushed, GiveUp
<1>13. ASSUME NEW w \in Workers, DropJob(w) PROVE Destroying'
  BY <1>13 DEF DropJob, GiveUp, Held
<1>14. ASSUME NEW w \in Workers, Exit(w) PROVE Destroying'
  BY <1>14 DEF Exit
<1>15. ASSUME NEW t \in Threads, Stop(t) PROVE Destroying'
  BY <1>15 DEF Stop
<1>16. ASSUME NEW t \in Threads, JoinNext(t) PROVE Destroying'
  BY <1>16 DEF JoinNext, Exited
<1>17. ASSUME NEW t \in Threads, Free(t) PROVE Destroying'
  BY <1>17 DEF Free
<1>18. ASSUME EndJoin PROVE Destroying'
  BY <1>18 DEF EndJoin
<1>19. ASSUME Drop PROVE Destroying'
  BY <1>19 DEF Drop, GiveUp
<1>20. ASSUME UNCHANGED vars PROVE Destroying'
  BY <1>20 DEF vars
<1> QED
  BY <1>1, <1>2, <1>3, <1>4, <1>5, <1>6, <1>7, <1>8, <1>9, <1>10, <1>11, <1>12, <1>13, <1>14, <1>15, <1>16, <1>17, <1>18, <1>19, <1>20
     DEF Next, PublisherStep, WorkerStep, StopStep

(* A worker that has left stays away, and joining is in order.             *)
LEMMA JoinsStep == IInv /\ [Next]_vars => Joins'
<1> SUFFICES ASSUME IInv, [Next]_vars
             PROVE  Joins'
  OBVIOUS
<1> USE OwnershipAssumption DEF IInv, TypeOK, Roles, Destroying, Joins, Stages, Threads, Workers, Goto, Running, strandVars, endVars, threadVars
<1>1. ASSUME NEW p \in Publishers, NEW j \in Jobs, BeginAdd(p, j) PROVE Joins'
  <2>1. /\ stage[p] = "idle"
        /\ \/ stage' = [stage EXCEPT ![p] = "adding"]
           \/ stage' = [stage EXCEPT ![p] = "leaving"]
    BY <1>1 DEF BeginAdd
  <2>2. \A x \in Threads : x # p => stage'[x] = stage[x]
    BY <2>1
  <2>3. /\ UNCHANGED <<memory, shutdown, joined>>
        /\ joining' = 1 \/ joining' = joining
        /\ memory # "terminated"
    BY <1>1 DEF BeginAdd
  <2>4. stage'[p] \in {"adding", "leaving"}
    BY <2>1
  <2>5. UNCHANGED destroyer
    BY <1>1 DEF BeginAdd
  <2> QED BY ONLY IInv, OwnershipAssumption, <2>1, <2>2, <2>3, <2>4, <2>5 DEF IInv, Joins, Threads
<1>2. ASSUME NEW p \in Publishers, AddJob(p) PROVE Joins'
  BY <1>2 DEF AddJob
<1>3. ASSUME NEW p \in Publishers, ReleaseAdded(p) PROVE Joins'
  <2>1. /\ \A x \in Threads : x # p => stage'[x] = stage[x]
        /\ stage'[p] = "leaving" \/ (stage'[p] = "destroying" /\ joining' = 1)
    BY <1>3, GiveUpFacts DEF ReleaseAdded
  <2>2. /\ UNCHANGED <<memory, shutdown, joined>>
        /\ joining' = 1 \/ joining' = joining
        /\ stage[p] # "exited" /\ memory # "terminated"
    BY <1>3 DEF ReleaseAdded, GiveUp
  <2> QED BY <2>1, <2>2
<1>4. ASSUME NEW p \in Publishers, EndAdd(p) PROVE Joins'
  BY <1>4 DEF EndAdd
<1>5. ASSUME NEW w \in Workers, Look(w) PROVE Joins'
  BY <1>5 DEF Look
<1>6. ASSUME NEW w \in Workers, FindNone(w) PROVE Joins'
  BY <1>6 DEF FindNone
<1>7. ASSUME NEW w \in Workers, NEW j \in Jobs, TakeJob(w, j) PROVE Joins'
  BY <1>7 DEF TakeJob
<1>8. ASSUME NEW w \in Workers, RunJob(w) PROVE Joins'
  BY <1>8 DEF RunJob
<1>9. ASSUME NEW w \in Workers, Decide(w) PROVE Joins'
  <2>1. /\ \A x \in Threads : x # w => stage'[x] = stage[x]
        /\ stage[w] = "ending" /\ stage'[w] \in {"dropping", "pushing"}
        /\ UNCHANGED <<destroyer, joining, memory, joined, shutdown>>
    BY ONLY IInv, <1>9 DEF Decide, Goto, endVars, IInv, TypeOK, Threads
  <2> QED BY ONLY IInv, <2>1 DEF IInv, Joins, Threads
<1>10. ASSUME NEW w \in Workers, PushNext(w) PROVE Joins'
  BY <1>10 DEF PushNext
<1>11. ASSUME NEW w \in Workers, DropNext(w) PROVE Joins'
  BY <1>11 DEF DropNext
<1>12. ASSUME NEW w \in Workers, ReleasePushed(w) PROVE Joins'
  <2>1. /\ \A x \in Threads : x # w => stage'[x] = stage[x]
        /\ stage'[w] = "dropping" \/ (stage'[w] = "destroying" /\ joining' = 1)
    BY <1>12, GiveUpFacts DEF ReleasePushed
  <2>2. /\ UNCHANGED <<memory, shutdown, joined>>
        /\ joining' = 1 \/ joining' = joining
        /\ stage[w] # "exited" /\ memory # "terminated"
    BY <1>12 DEF ReleasePushed, GiveUp
  <2> QED BY <2>1, <2>2
<1>13. ASSUME NEW w \in Workers, DropJob(w) PROVE Joins'
  <2>1. /\ \A x \in Threads : x # w => stage'[x] = stage[x]
        /\ stage'[w] = "idle" \/ (stage'[w] = "destroying" /\ joining' = 1)
    BY <1>13, GiveUpFacts DEF DropJob
  <2>2. /\ UNCHANGED <<memory, shutdown, joined>>
        /\ joining' = 1 \/ joining' = joining
        /\ stage[w] # "exited" /\ memory # "terminated"
    BY <1>13 DEF DropJob, GiveUp, Held
  <2> QED BY <2>1, <2>2
<1>14. ASSUME NEW w \in Workers, Exit(w) PROVE Joins'
  BY <1>14 DEF Exit
<1>15. ASSUME NEW t \in Threads, Stop(t) PROVE Joins'
  <2>1. \A x \in Threads : stage'[x] = stage[x] \/ (stage[x] # "exited" /\ stage'[x] = "stopping")
    BY <1>15 DEF Stop
  <2>2. joining = 1 /\ memory # "terminated" /\ UNCHANGED <<destroyer, joining, memory, joined>>
    BY <1>15 DEF Stop
  <2> QED BY <1>15, <2>1, <2>2 DEF Stop
<1>16. ASSUME NEW t \in Threads, JoinNext(t) PROVE Joins'
  BY <1>16 DEF JoinNext, Exited
<1>17. ASSUME NEW t \in Threads, Free(t) PROVE Joins'
  BY <1>17 DEF Free
<1>18. ASSUME EndJoin PROVE Joins'
  <2>1. \A w \in Workers : w < joining
    BY <1>18 DEF EndJoin
  <2>2. \A w \in Workers : stage[w] = "exited"
    BY <1>18, <2>1 DEF EndJoin
  <2>3. \A w \in Workers : stage'[w] = "exited"
    BY <1>18, <2>2 DEF EndJoin
  <2> QED BY <1>18, <2>3 DEF EndJoin
<1>19. ASSUME Drop PROVE Joins'
  <2>1. /\ \A x \in Threads : x # Owner => stage'[x] = stage[x]
        /\ stage'[Owner] = "idle" \/ (stage'[Owner] = "destroying" /\ joining' = 1)
    BY <1>19, GiveUpFacts DEF Drop
  <2>2. /\ UNCHANGED <<memory, shutdown, joined>>
        /\ joining' = 1 \/ joining' = joining
        /\ stage[Owner] # "exited" /\ memory # "terminated"
    BY <1>19 DEF Drop, GiveUp
  <2> QED BY <2>1, <2>2
<1>20. ASSUME UNCHANGED vars PROVE Joins'
  BY <1>20 DEF vars
<1> QED
  BY <1>1, <1>2, <1>3, <1>4, <1>5, <1>6, <1>7, <1>8, <1>9, <1>10, <1>11, <1>12, <1>13, <1>14, <1>15, <1>16, <1>17, <1>18, <1>19, <1>20
     DEF Next, PublisherStep, WorkerStep, StopStep

-----------------------------------------------------------------------------
(* The queue of the strand: popping its first job.                         *)
LEMMA PopFacts ==
  ASSUME NEW s \in Seq(Jobs), s # <<>>, IsInjective(s)
  PROVE  /\ Head(s) \in Jobs /\ Tail(s) \in Seq(Jobs) /\ IsInjective(Tail(s))
         /\ ToSet(Tail(s)) = ToSet(s) \ {Head(s)} /\ Head(s) \in ToSet(s)
<1>1. /\ Tail(s) \in Seq(Jobs) /\ Len(Tail(s)) = Len(s) - 1 /\ Len(s) \in Nat \ {0} /\ Head(s) = s[1] /\ Head(s) \in Jobs
      /\ \A k \in 1 .. Len(s) - 1 : Tail(s)[k] = s[k + 1]
  OBVIOUS
<1>2. DOMAIN s = 1 .. Len(s) /\ DOMAIN Tail(s) = 1 .. Len(s) - 1
  BY <1>1
<1>3. IsInjective(Tail(s))
  BY <1>1, <1>2 DEF IsInjective
<1>4. ASSUME NEW k \in 1 .. Len(s), k # 1 PROVE s[k] \in ToSet(Tail(s))
  <2>1. k - 1 \in DOMAIN Tail(s) /\ Tail(s)[k - 1] = s[k]
    BY <1>1, <1>2, <1>4
  <2> QED BY <2>1 DEF ToSet
<1>5. ASSUME NEW k \in 1 .. Len(s) - 1 PROVE Tail(s)[k] \in ToSet(s) /\ Tail(s)[k] # Head(s)
  BY <1>1, <1>2 DEF IsInjective, ToSet
<1>6. Head(s) \in ToSet(s)
  BY <1>1, <1>2 DEF ToSet
<1> QED BY <1>1, <1>2, <1>3, <1>4, <1>5, <1>6 DEF ToSet

(* The queue of the strand: pushing another job.                           *)
LEMMA PushFacts ==
  ASSUME NEW s \in Seq(Jobs), NEW j \in Jobs, IsInjective(s), j \notin ToSet(s)
  PROVE  IsInjective(Append(s, j)) /\ ToSet(Append(s, j)) = ToSet(s) \union {j}
<1> DEFINE r == Append(s, j)
<1>1. /\ r \in Seq(Jobs) /\ Len(r) = Len(s) + 1 /\ Len(s) \in Nat
      /\ \A k \in 1 .. Len(s) : r[k] = s[k]
      /\ r[Len(s) + 1] = j
  OBVIOUS
<1> HIDE DEF r
<1>2. DOMAIN r = 1 .. Len(s) + 1 /\ DOMAIN s = 1 .. Len(s)
  BY <1>1
<1>3. \A k \in 1 .. Len(s) : s[k] # j
  BY <1>2 DEF ToSet
<1>4. IsInjective(r)
  BY <1>1, <1>2, <1>3 DEF IsInjective
<1>5. ToSet(r) = ToSet(s) \union {j}
  BY <1>1, <1>2 DEF ToSet
<1> QED BY <1>4, <1>5 DEF r

(* What becomes of a job that is added: it waits, or is handed over.       *)
LEMMA AddJobFacts ==
  ASSUME IInv, NEW p \in Publishers, AddJob(p)
  PROVE  /\ job[p] \in Jobs /\ state[job[p]] = "new" /\ p \in Threads \ Workers
         /\ stage' = [stage EXCEPT ![p] = "releasing"]
         /\ UNCHANGED <<destroyer, joining, memory, joined, shutdown, job, next, readers>>
         /\ \/ /\ has_ready_job /\ has_ready_job'
               /\ pending' = Append(pending, job[p])
               /\ state' = [state EXCEPT ![job[p]] = "pending"]
            \/ /\ ~has_ready_job /\ has_ready_job'
               /\ pending = <<>> /\ pending' = <<>>
               /\ state' = [state EXCEPT ![job[p]] = "ready"]
<1>1. stage[p] = "adding" /\ p \in Threads \ Workers /\ pending \in Seq(Jobs)
  BY OwnershipAssumption DEF AddJob, Threads, IInv, TypeOK
<1>2. job[p] \in Jobs /\ state[job[p]] = "new"
  BY <1>1 DEF IInv, Roles, Tokens, Adding
<1>3. /\ stage' = [stage EXCEPT ![p] = "releasing"]
      /\ UNCHANGED <<destroyer, joining, memory, joined, shutdown, job, next, readers>>
  BY DEF AddJob, Goto, endVars
<1>4. CASE has_ready_job
  <2>1. has_ready_job' /\ pending' = Append(pending, job[p]) /\ state' = [state EXCEPT ![job[p]] = "pending"]
    BY <1>4 DEF AddJob
  <2> QED BY <1>1, <1>2, <1>3, <1>4, <2>1
<1>5. CASE ~has_ready_job
  <2>1. pending = <<>>
    BY <1>5 DEF IInv, Tokens, Turn
  <2>2. Head(Append(pending, job[p])) = job[p] /\ Tail(Append(pending, job[p])) = <<>>
    BY <1>2, <2>1
  <2>3. has_ready_job' /\ pending' = <<>>
    BY <1>5, <2>2 DEF AddJob
  <2>4. state' = [state EXCEPT ![job[p]] = "ready", ![job[p]] = "ready"]
    BY <1>5, <2>2 DEF AddJob
  <2>5. state' = [state EXCEPT ![job[p]] = "ready"]
    BY <2>4
  <2> QED BY <1>1, <1>2, <1>3, <1>5, <2>1, <2>3, <2>5
<1> QED BY <1>4, <1>5

(* A decision takes the next job off the queue, or gives the turn away.    *)
LEMMA DecideFacts ==
  ASSUME IInv, NEW w \in Workers, Decide(w)
  PROVE  /\ stage[w] = "ending" /\ next[w] = NoJob
         /\ UNCHANGED <<holders, destroyer, joining, memory, joined, shutdown, job, state, readers>>
         /\ \/ /\ pending = <<>> /\ pending' = <<>> /\ ~has_ready_job' /\ next' = next
               /\ stage' = [stage EXCEPT ![w] = "dropping"]
            \/ /\ pending # <<>> /\ pending' = Tail(pending) /\ has_ready_job' = has_ready_job
               /\ next' = [next EXCEPT ![w] = Head(pending)]
               /\ stage' = [stage EXCEPT ![w] = "pushing"]
BY DEF Decide, Goto, endVars, IInv, Roles

(* When ~JobRunner frees the runner nothing is left in it or in the strand.*)
LEMMA FreeFacts ==
  ASSUME IInv, NEW t \in Threads, Free(t)
  PROVE  /\ destroyer = t /\ t \notin Workers /\ stage[t] = "destroying"
         /\ \A w \in Workers : stage[w] = "exited" /\ next[w] = NoJob
         /\ memory' = "freed" /\ UNCHANGED <<holders, destroyer, joining, joined, shutdown, job, next, readers>>
         /\ stage' = [stage EXCEPT ![t] = "leaving"] \/ stage' = [stage EXCEPT ![t] = "idle"]
         /\ \A j \in Jobs : /\ state'[j] \notin {"ready", "pending", "running"}
                            /\ state[j] = "new" => state'[j] = "new"
         /\ pending' = <<>> /\ ~has_ready_job'
<1>1. /\ stage[t] = "destroying" /\ joining > NumWorkers
      /\ memory' = "freed" /\ UNCHANGED <<holders, destroyer, joining, joined, shutdown, job, next, readers>>
      /\ stage' = [stage EXCEPT ![t] = "leaving"] \/ stage' = [stage EXCEPT ![t] = "idle"]
  BY DEF Free, Goto
<1>2. \A w \in Workers : w < joining
  BY <1>1, OwnershipAssumption DEF Workers, IInv, TypeOK
<1>3. \A w \in Workers : stage[w] = "exited" /\ next[w] = NoJob
  BY <1>1, <1>2 DEF IInv, Joins, Roles
<1>4. destroyer = t /\ t \notin Workers
  BY <1>1, <1>3 DEF IInv, Destroying
<1>5. \A j \in Jobs : state[j] # "running"
  BY <1>3 DEF IInv, Tokens, Working, Busy
<1>6. \A w \in Workers : ~Turning(w)
  BY <1>3 DEF Turning
<1>7. CASE \E j \in Jobs : state[j] = "ready"
  <2>1. state' = [j \in Jobs |-> IF j \in LeftOver THEN "dropped" ELSE state[j]]
    BY <1>7, Zenon DEF Free
  <2>2. pending' = <<>> /\ ~has_ready_job'
    BY <1>7, Zenon DEF Free
  <2>3. ASSUME NEW j \in Jobs
        PROVE  state'[j] \notin {"ready", "pending", "running"} /\ (state[j] = "new" => state'[j] = "new")
    BY <1>5, <2>1 DEF LeftOver
  <2> QED BY <1>1, <1>3, <1>4, <2>2, <2>3
<1>8. CASE ~\E j \in Jobs : state[j] = "ready"
  <2>1. UNCHANGED <<state, pending, has_ready_job>>
    BY <1>8, Zenon DEF Free, strandVars
  <2>2. ~has_ready_job /\ pending = <<>>
    BY <1>6, <1>8 DEF IInv, Tokens, Turn
  <2>3. ToSet(pending) = {}
    BY <2>2 DEF ToSet
  <2>4. \A j \in Jobs : state[j] # "pending"
    <3>1. \A j \in Jobs : state[j] = "pending" => j \in ToSet(pending) \/ \E w \in Workers : next[w] = j
      BY DEF IInv, Tokens, Queued
    <3> QED BY ONLY <1>3, <2>3, <3>1, OwnershipAssumption
  <2> QED BY <1>1, <1>3, <1>4, <1>5, <1>8, <2>1, <2>2, <2>4
<1> QED BY <1>7, <1>8

(* A job that is being added stays new until it is.                      *)
LEMMA AddingStep == IInv /\ [Next]_vars => Adding'
<1> SUFFICES ASSUME IInv, [Next]_vars
             PROVE  Adding'
  OBVIOUS
<1> USE OwnershipAssumption DEF IInv, TypeOK, Roles, Tokens, Stages, States, Threads, Goto, strandVars, endVars, threadVars, Adding, Queued, Working, Busy
<1>1. ASSUME NEW p \in Publishers, NEW j \in Jobs, BeginAdd(p, j) PROVE Adding'
  BY <1>1 DEF BeginAdd
<1>2. ASSUME NEW p \in Publishers, AddJob(p) PROVE Adding'
  <2>1. stage' = [stage EXCEPT ![p] = "releasing"] /\ job' = job
    BY <1>2, AddJobFacts
  <2>2. \A j \in Jobs : j # job[p] => state'[j] = state[j]
    BY <1>2, AddJobFacts
  <2>3. \A q \in Publishers : stage'[q] = "adding" => q # p /\ stage[q] = "adding" /\ job[q] \in Jobs
    BY ONLY IInv, <2>1, OwnershipAssumption DEF IInv, TypeOK, Roles, Threads
  <2> QED BY ONLY IInv, <2>1, <2>2, <2>3, OwnershipAssumption DEF IInv, Tokens, Adding
<1>3. ASSUME NEW p \in Publishers, ReleaseAdded(p) PROVE Adding'
  BY <1>3 DEF ReleaseAdded, GiveUp
<1>4. ASSUME NEW p \in Publishers, EndAdd(p) PROVE Adding'
  BY <1>4 DEF EndAdd
<1>5. ASSUME NEW w \in Workers, Look(w) PROVE Adding'
  BY <1>5 DEF Look
<1>6. ASSUME NEW w \in Workers, FindNone(w) PROVE Adding'
  BY <1>6 DEF FindNone
<1>7. ASSUME NEW w \in Workers, NEW j \in Jobs, TakeJob(w, j) PROVE Adding'
  BY <1>7 DEF TakeJob
<1>8. ASSUME NEW w \in Workers, RunJob(w) PROVE Adding'
  BY <1>8 DEF RunJob
<1>9. ASSUME NEW w \in Workers, Decide(w) PROVE Adding'
  BY <1>9 DEF Decide
<1>10. ASSUME NEW w \in Workers, PushNext(w) PROVE Adding'
  BY <1>10 DEF PushNext
<1>11. ASSUME NEW w \in Workers, DropNext(w) PROVE Adding'
  BY <1>11 DEF DropNext
<1>12. ASSUME NEW w \in Workers, ReleasePushed(w) PROVE Adding'
  BY <1>12 DEF ReleasePushed, GiveUp
<1>13. ASSUME NEW w \in Workers, DropJob(w) PROVE Adding'
  BY <1>13 DEF DropJob, GiveUp, Held
<1>14. ASSUME NEW w \in Workers, Exit(w) PROVE Adding'
  BY <1>14 DEF Exit
<1>15. ASSUME NEW t \in Threads, Stop(t) PROVE Adding'
  BY <1>15 DEF Stop
<1>16. ASSUME NEW t \in Threads, JoinNext(t) PROVE Adding'
  BY <1>16 DEF JoinNext, Exited
<1>17. ASSUME NEW t \in Threads, Free(t) PROVE Adding'
  <2>1. job' = job /\ \A j \in Jobs : state[j] = "new" => state'[j] = "new"
    BY <1>17, FreeFacts
  <2>2. \A q \in Publishers : stage'[q] = "adding" => stage[q] = "adding" /\ job[q] \in Jobs
    BY <1>17, FreeFacts
  <2> QED BY ONLY IInv, <2>1, <2>2 DEF IInv, Tokens, Adding
<1>18. ASSUME EndJoin PROVE Adding'
  BY <1>18 DEF EndJoin
<1>19. ASSUME Drop PROVE Adding'
  BY <1>19 DEF Drop, GiveUp
<1>20. ASSUME UNCHANGED vars PROVE Adding'
  BY <1>20 DEF vars
<1> QED
  BY <1>1, <1>2, <1>3, <1>4, <1>5, <1>6, <1>7, <1>8, <1>9, <1>10, <1>11, <1>12, <1>13, <1>14, <1>15, <1>16, <1>17, <1>18, <1>19, <1>20
     DEF Next, PublisherStep, WorkerStep, StopStep

(* The pending jobs stay those of the queue and those popped from it.    *)
LEMMA QueuedStep == IInv /\ [Next]_vars => Queued'
<1> SUFFICES ASSUME IInv, [Next]_vars
             PROVE  Queued'
  OBVIOUS
<1> USE OwnershipAssumption DEF IInv, TypeOK, Roles, Tokens, Stages, States, Threads, Goto, strandVars, endVars, threadVars, Queued, Adding, Working, Busy
<1>1. ASSUME NEW p \in Publishers, NEW j \in Jobs, BeginAdd(p, j) PROVE Queued'
  BY <1>1 DEF BeginAdd
<1>2. ASSUME NEW p \in Publishers, AddJob(p) PROVE Queued'
  <2>1. job[p] \in Jobs /\ state[job[p]] = "new" /\ next' = next
    BY <1>2, AddJobFacts
  <2>2. job[p] \notin ToSet(pending) /\ \A w \in Workers : next[w] # job[p]
    BY ONLY IInv, <2>1, OwnershipAssumption DEF IInv, Tokens, Queued
  <2>3. CASE pending' = Append(pending, job[p]) /\ state' = [state EXCEPT ![job[p]] = "pending"]
    <3>1. IsInjective(pending') /\ ToSet(pending') = ToSet(pending) \union {job[p]}
      BY <2>1, <2>2, <2>3, PushFacts
    <3> QED BY ONLY IInv, <2>1, <2>2, <2>3, <3>1, OwnershipAssumption DEF IInv, TypeOK, Tokens, Queued
  <2>4. CASE pending = <<>> /\ pending' = <<>> /\ state' = [state EXCEPT ![job[p]] = "ready"]
    BY ONLY IInv, <2>1, <2>2, <2>4, OwnershipAssumption DEF IInv, TypeOK, Tokens, Queued
  <2> QED BY <1>2, <2>3, <2>4, AddJobFacts
<1>3. ASSUME NEW p \in Publishers, ReleaseAdded(p) PROVE Queued'
  BY <1>3 DEF ReleaseAdded, GiveUp
<1>4. ASSUME NEW p \in Publishers, EndAdd(p) PROVE Queued'
  BY <1>4 DEF EndAdd
<1>5. ASSUME NEW w \in Workers, Look(w) PROVE Queued'
  BY <1>5 DEF Look
<1>6. ASSUME NEW w \in Workers, FindNone(w) PROVE Queued'
  BY <1>6 DEF FindNone
<1>7. ASSUME NEW w \in Workers, NEW j \in Jobs, TakeJob(w, j) PROVE Queued'
  BY <1>7 DEF TakeJob
<1>8. ASSUME NEW w \in Workers, RunJob(w) PROVE Queued'
  BY <1>8 DEF RunJob
<1>9. ASSUME NEW w \in Workers, Decide(w) PROVE Queued'
  <2>1. state' = state /\ next[w] = NoJob
    BY <1>9, DecideFacts
  <2>2. CASE pending' = pending /\ next' = next
    BY ONLY IInv, <2>1, <2>2 DEF IInv, Tokens, Queued
  <2>3. CASE pending # <<>> /\ pending' = Tail(pending) /\ next' = [next EXCEPT ![w] = Head(pending)]
    <3>1. /\ Head(pending) \in Jobs /\ IsInjective(pending')
          /\ ToSet(pending') = ToSet(pending) \ {Head(pending)} /\ Head(pending) \in ToSet(pending)
      BY <2>3, PopFacts
    <3>2. \A v \in Workers : next'[v] = IF v = w THEN Head(pending) ELSE next[v]
      BY <2>3
    <3>3. \A j \in ToSet(pending') : state[j] = "pending"
      BY ONLY IInv, <3>1 DEF IInv, Tokens, Queued
    <3>4. \A v \in Workers : next'[v] # NoJob => state[next'[v]] = "pending" /\ next'[v] \notin ToSet(pending')
      BY ONLY IInv, <3>1, <3>2 DEF IInv, Tokens, Queued
    <3>5. \A j \in Jobs : state[j] = "pending" => j \in ToSet(pending') \/ \E v \in Workers : next'[v] = j
      <4>1. \A j \in Jobs : state[j] = "pending" => j \in ToSet(pending) \/ \E v \in Workers : next[v] = j
        BY ONLY IInv DEF IInv, Tokens, Queued
      <4> QED BY ONLY <2>1, <3>1, <3>2, <4>1, OwnershipAssumption
    <3> QED BY ONLY <2>1, <3>1, <3>3, <3>4, <3>5 DEF Queued
  <2> QED BY <1>9, <2>2, <2>3, DecideFacts
<1>10. ASSUME NEW w \in Workers, PushNext(w) PROVE Queued'
  <2>1. /\ pending' = pending /\ stage[w] = "pushing"
        /\ state' = [state EXCEPT ![next[w]] = "ready"] /\ next' = [next EXCEPT ![w] = NoJob]
    BY <1>10 DEF PushNext
  <2>2. next[w] \in Jobs /\ next[w] \notin ToSet(pending)
    BY ONLY IInv, <2>1 DEF IInv, TypeOK, Roles, Tokens, Queued
  <2>3. \A v \in Workers : next[v] = next[w] => v = w
    <3>1. \A v \in Workers : next[v] # NoJob => Turning(v)
      BY ONLY IInv DEF IInv, Roles, Turning
    <3>2. next[w] # NoJob
      BY ONLY IInv, <2>1 DEF IInv, Roles
    <3> QED BY ONLY IInv, <3>1, <3>2 DEF IInv, Tokens, Turn
  <2> QED BY ONLY IInv, <2>1, <2>2, <2>3, OwnershipAssumption DEF IInv, TypeOK, Tokens, Queued
<1>11. ASSUME NEW w \in Workers, DropNext(w) PROVE Queued'
  <2>1. /\ pending' = pending /\ stage[w] = "pushing"
        /\ state' = [state EXCEPT ![next[w]] = "dropped"] /\ next' = [next EXCEPT ![w] = NoJob]
    BY <1>11 DEF DropNext
  <2>2. next[w] \in Jobs /\ next[w] \notin ToSet(pending)
    BY ONLY IInv, <2>1 DEF IInv, TypeOK, Roles, Tokens, Queued
  <2>3. \A v \in Workers : next[v] = next[w] => v = w
    <3>1. \A v \in Workers : next[v] # NoJob => Turning(v)
      BY ONLY IInv DEF IInv, Roles, Turning
    <3>2. next[w] # NoJob
      BY ONLY IInv, <2>1 DEF IInv, Roles
    <3> QED BY ONLY IInv, <3>1, <3>2 DEF IInv, Tokens, Turn
  <2> QED BY ONLY IInv, <2>1, <2>2, <2>3, OwnershipAssumption DEF IInv, TypeOK, Tokens, Queued
<1>12. ASSUME NEW w \in Workers, ReleasePushed(w) PROVE Queued'
  BY <1>12 DEF ReleasePushed, GiveUp
<1>13. ASSUME NEW w \in Workers, DropJob(w) PROVE Queued'
  BY <1>13 DEF DropJob, GiveUp, Held
<1>14. ASSUME NEW w \in Workers, Exit(w) PROVE Queued'
  BY <1>14 DEF Exit
<1>15. ASSUME NEW t \in Threads, Stop(t) PROVE Queued'
  BY <1>15 DEF Stop
<1>16. ASSUME NEW t \in Threads, JoinNext(t) PROVE Queued'
  BY <1>16 DEF JoinNext, Exited
<1>17. ASSUME NEW t \in Threads, Free(t) PROVE Queued'
  <2>1. pending' = <<>> /\ next' = next /\ \A j \in Jobs : state'[j] # "pending"
    BY <1>17, FreeFacts
  <2>2. \A w \in Workers : next[w] = NoJob
    BY <1>17, FreeFacts
  <2>3. IsInjective(pending') /\ ToSet(pending') = {}
    BY <2>1 DEF IsInjective, ToSet
  <2> QED BY ONLY <2>1, <2>2, <2>3 DEF Queued
<1>18. ASSUME EndJoin PROVE Queued'
  BY <1>18 DEF EndJoin
<1>19. ASSUME Drop PROVE Queued'
  BY <1>19 DEF Drop, GiveUp
<1>20. ASSUME UNCHANGED vars PROVE Queued'
  BY <1>20 DEF vars
<1> QED
  BY <1>1, <1>2, <1>3, <1>4, <1>5, <1>6, <1>7, <1>8, <1>9, <1>10, <1>11, <1>12, <1>13, <1>14, <1>15, <1>16, <1>17, <1>18, <1>19, <1>20
     DEF Next, PublisherStep, WorkerStep, StopStep

(* The strand's one turn.                                                *)
LEMMA TurnStep == IInv /\ [Next]_vars => Turn'
<1> SUFFICES ASSUME IInv, [Next]_vars
             PROVE  Turn'
  OBVIOUS
<1> USE OwnershipAssumption DEF IInv, TypeOK, Roles, Tokens, Stages, States, Threads, Goto, strandVars, endVars, threadVars, Joins, Destroying, Queued, Adding, Turn, Turning, Working, Busy
<1>1. ASSUME NEW p \in Publishers, NEW j \in Jobs, BeginAdd(p, j) PROVE Turn'
  BY <1>1 DEF BeginAdd
<1>2. ASSUME NEW p \in Publishers, AddJob(p) PROVE Turn'
  BY <1>2 DEF AddJob
<1>3. ASSUME NEW p \in Publishers, ReleaseAdded(p) PROVE Turn'
  BY <1>3 DEF ReleaseAdded, GiveUp
<1>4. ASSUME NEW p \in Publishers, EndAdd(p) PROVE Turn'
  BY <1>4 DEF EndAdd
<1>5. ASSUME NEW w \in Workers, Look(w) PROVE Turn'
  BY <1>5 DEF Look
<1>6. ASSUME NEW w \in Workers, FindNone(w) PROVE Turn'
  BY <1>6 DEF FindNone
<1>7. ASSUME NEW w \in Workers, NEW j \in Jobs, TakeJob(w, j) PROVE Turn'
  BY <1>7 DEF TakeJob
<1>8. ASSUME NEW w \in Workers, RunJob(w) PROVE Turn'
  BY <1>8 DEF RunJob
<1>9. ASSUME NEW w \in Workers, Decide(w) PROVE Turn'
  BY <1>9 DEF Decide
<1>10. ASSUME NEW w \in Workers, PushNext(w) PROVE Turn'
  BY <1>10 DEF PushNext
<1>11. ASSUME NEW w \in Workers, DropNext(w) PROVE Turn'
  BY <1>11 DEF DropNext
<1>12. ASSUME NEW w \in Workers, ReleasePushed(w) PROVE Turn'
  BY <1>12 DEF ReleasePushed, GiveUp
<1>13. ASSUME NEW w \in Workers, DropJob(w) PROVE Turn'
  BY <1>13 DEF DropJob, GiveUp, Held
<1>14. ASSUME NEW w \in Workers, Exit(w) PROVE Turn'
  BY <1>14 DEF Exit
<1>15. ASSUME NEW t \in Threads, Stop(t) PROVE Turn'
  BY <1>15 DEF Stop
<1>16. ASSUME NEW t \in Threads, JoinNext(t) PROVE Turn'
  BY <1>16 DEF JoinNext, Exited
<1>17. ASSUME NEW t \in Threads, Free(t) PROVE Turn'
  <2>1. pending' = <<>> /\ ~has_ready_job' /\ \A j \in Jobs : state'[j] # "ready"
    BY <1>17, FreeFacts
  <2>2. \A w \in Workers : stage'[w] = "exited"
    BY <1>17, FreeFacts
  <2> QED BY ONLY <2>1, <2>2 DEF Turn, Turning
<1>18. ASSUME EndJoin PROVE Turn'
  BY <1>18 DEF EndJoin
<1>19. ASSUME Drop PROVE Turn'
  BY <1>19 DEF Drop, GiveUp
<1>20. ASSUME UNCHANGED vars PROVE Turn'
  BY <1>20 DEF vars
<1> QED
  BY <1>1, <1>2, <1>3, <1>4, <1>5, <1>6, <1>7, <1>8, <1>9, <1>10, <1>11, <1>12, <1>13, <1>14, <1>15, <1>16, <1>17, <1>18, <1>19, <1>20
     DEF Next, PublisherStep, WorkerStep, StopStep

(* Running jobs keep their workers.                                      *)
LEMMA WorkingStep == IInv /\ [Next]_vars => Working'
<1> SUFFICES ASSUME IInv, [Next]_vars
             PROVE  Working'
  OBVIOUS
<1> USE OwnershipAssumption DEF IInv, TypeOK, Roles, Tokens, Stages, States, Threads, Goto, strandVars, endVars, threadVars, Joins, Destroying, Queued, Adding, Working, Busy
<1>1. ASSUME NEW p \in Publishers, NEW j \in Jobs, BeginAdd(p, j) PROVE Working'
  BY <1>1 DEF BeginAdd
<1>2. ASSUME NEW p \in Publishers, AddJob(p) PROVE Working'
  <2>1. /\ job[p] \in Jobs /\ state[job[p]] = "new" /\ job' = job
        /\ stage' = [stage EXCEPT ![p] = "releasing"] /\ p \in Threads \ Workers
    BY <1>2, AddJobFacts
  <2>2. /\ \A j \in Jobs : j # job[p] => state'[j] = state[j]
        /\ state'[job[p]] # "running"
    BY <1>2, AddJobFacts
  <2>3. \A w \in Workers : stage'[w] = stage[w]
    BY ONLY <2>1, IInv DEF IInv, TypeOK, Threads
  <2>4. \A w \in Workers : Busy(w) => job[w] \in Jobs
    BY ONLY IInv DEF IInv, Roles, Threads, Busy
  <2> QED BY ONLY IInv, <2>1, <2>2, <2>3, <2>4 DEF IInv, Tokens, Working, Busy
<1>3. ASSUME NEW p \in Publishers, ReleaseAdded(p) PROVE Working'
  BY <1>3 DEF ReleaseAdded, GiveUp
<1>4. ASSUME NEW p \in Publishers, EndAdd(p) PROVE Working'
  BY <1>4 DEF EndAdd
<1>5. ASSUME NEW w \in Workers, Look(w) PROVE Working'
  BY <1>5 DEF Look
<1>6. ASSUME NEW w \in Workers, FindNone(w) PROVE Working'
  BY <1>6 DEF FindNone
<1>7. ASSUME NEW w \in Workers, NEW j \in Jobs, TakeJob(w, j) PROVE Working'
  BY <1>7 DEF TakeJob
<1>8. ASSUME NEW w \in Workers, RunJob(w) PROVE Working'
  BY <1>8 DEF RunJob
<1>9. ASSUME NEW w \in Workers, Decide(w) PROVE Working'
  BY <1>9 DEF Decide
<1>10. ASSUME NEW w \in Workers, PushNext(w) PROVE Working'
  BY <1>10 DEF PushNext
<1>11. ASSUME NEW w \in Workers, DropNext(w) PROVE Working'
  BY <1>11 DEF DropNext
<1>12. ASSUME NEW w \in Workers, ReleasePushed(w) PROVE Working'
  BY <1>12 DEF ReleasePushed, GiveUp
<1>13. ASSUME NEW w \in Workers, DropJob(w) PROVE Working'
  <2>1. /\ stage[w] = "dropping" /\ job' = [job EXCEPT ![w] = NoJob]
        /\ state' = [state EXCEPT ![job[w]] = "ended"]
    BY <1>13 DEF DropJob
  <2>2. /\ \A x \in Threads : x # w => stage'[x] = stage[x]
        /\ stage'[w] \in {"idle", "destroying"}
    BY <1>13, GiveUpFacts DEF DropJob
  <2>3. job[w] \in Jobs /\ \A v \in Workers : v # w => job'[v] = job[v] /\ stage'[v] = stage[v]
    BY ONLY IInv, <2>1, <2>2 DEF IInv, TypeOK, Roles, Threads
  <2>4. \A j \in Jobs : state'[j] = IF j = job[w] THEN "ended" ELSE state[j]
    BY ONLY IInv, <2>1, <2>3 DEF IInv, TypeOK
  <2>5. \A v \in Workers : Busy(v) => job[v] \in Jobs
    BY ONLY IInv DEF IInv, Roles, Threads, Busy
  <2>6. \A v \in Workers : v # w /\ Busy(v) => job[v] # job[w]
    BY ONLY IInv, <2>1 DEF IInv, Tokens, Working, Busy
  <2> QED BY ONLY IInv, <2>2, <2>3, <2>4, <2>5, <2>6 DEF IInv, Tokens, Working, Busy
<1>14. ASSUME NEW w \in Workers, Exit(w) PROVE Working'
  BY <1>14 DEF Exit
<1>15. ASSUME NEW t \in Threads, Stop(t) PROVE Working'
  BY <1>15 DEF Stop
<1>16. ASSUME NEW t \in Threads, JoinNext(t) PROVE Working'
  BY <1>16 DEF JoinNext, Exited
<1>17. ASSUME NEW t \in Threads, Free(t) PROVE Working'
  <2>1. \A j \in Jobs : state'[j] # "running"
    BY <1>17, FreeFacts
  <2>2. \A w \in Workers : stage'[w] = "exited"
    BY <1>17, FreeFacts
  <2> QED BY ONLY <2>1, <2>2 DEF Working, Busy
<1>18. ASSUME EndJoin PROVE Working'
  BY <1>18 DEF EndJoin
<1>19. ASSUME Drop PROVE Working'
  BY <1>19 DEF Drop, GiveUp
<1>20. ASSUME UNCHANGED vars PROVE Working'
  BY <1>20 DEF vars
<1> QED
  BY <1>1, <1>2, <1>3, <1>4, <1>5, <1>6, <1>7, <1>8, <1>9, <1>10, <1>11, <1>12, <1>13, <1>14, <1>15, <1>16, <1>17, <1>18, <1>19, <1>20
     DEF Next, PublisherStep, WorkerStep, StopStep

(* Nothing is queued on a runner that is gone.                           *)
LEMMA EmptiedStep == IInv /\ [Next]_vars => Emptied'
<1> SUFFICES ASSUME IInv, [Next]_vars
             PROVE  Emptied'
  OBVIOUS
<1> USE OwnershipAssumption DEF IInv, TypeOK, Roles, Tokens, Stages, States, Threads, Goto, strandVars, endVars, threadVars, Joins, Destroying, Queued, Emptied, CanLock
<1>1. ASSUME NEW p \in Publishers, NEW j \in Jobs, BeginAdd(p, j) PROVE Emptied'
  BY <1>1 DEF BeginAdd
<1>2. ASSUME NEW p \in Publishers, AddJob(p) PROVE Emptied'
  BY <1>2 DEF AddJob
<1>3. ASSUME NEW p \in Publishers, ReleaseAdded(p) PROVE Emptied'
  BY <1>3 DEF ReleaseAdded, GiveUp
<1>4. ASSUME NEW p \in Publishers, EndAdd(p) PROVE Emptied'
  BY <1>4 DEF EndAdd
<1>5. ASSUME NEW w \in Workers, Look(w) PROVE Emptied'
  BY <1>5 DEF Look
<1>6. ASSUME NEW w \in Workers, FindNone(w) PROVE Emptied'
  BY <1>6 DEF FindNone
<1>7. ASSUME NEW w \in Workers, NEW j \in Jobs, TakeJob(w, j) PROVE Emptied'
  BY <1>7 DEF TakeJob
<1>8. ASSUME NEW w \in Workers, RunJob(w) PROVE Emptied'
  BY <1>8 DEF RunJob
<1>9. ASSUME NEW w \in Workers, Decide(w) PROVE Emptied'
  BY <1>9 DEF Decide
<1>10. ASSUME NEW w \in Workers, PushNext(w) PROVE Emptied'
  BY <1>10 DEF PushNext
<1>11. ASSUME NEW w \in Workers, DropNext(w) PROVE Emptied'
  BY <1>11 DEF DropNext
<1>12. ASSUME NEW w \in Workers, ReleasePushed(w) PROVE Emptied'
  BY <1>12 DEF ReleasePushed, GiveUp
<1>13. ASSUME NEW w \in Workers, DropJob(w) PROVE Emptied'
  BY <1>13 DEF DropJob, GiveUp, Held
<1>14. ASSUME NEW w \in Workers, Exit(w) PROVE Emptied'
  BY <1>14 DEF Exit
<1>15. ASSUME NEW t \in Threads, Stop(t) PROVE Emptied'
  BY <1>15 DEF Stop
<1>16. ASSUME NEW t \in Threads, JoinNext(t) PROVE Emptied'
  BY <1>16 DEF JoinNext, Exited
<1>17. ASSUME NEW t \in Threads, Free(t) PROVE Emptied'
  <2>1. destroyer' = t /\ \A j \in Jobs : state'[j] # "ready"
    BY <1>17, FreeFacts
  <2> QED BY <2>1 DEF Emptied
<1>18. ASSUME EndJoin PROVE Emptied'
  BY <1>18 DEF EndJoin
<1>19. ASSUME Drop PROVE Emptied'
  BY <1>19 DEF Drop, GiveUp
<1>20. ASSUME UNCHANGED vars PROVE Emptied'
  BY <1>20 DEF vars
<1> QED
  BY <1>1, <1>2, <1>3, <1>4, <1>5, <1>6, <1>7, <1>8, <1>9, <1>10, <1>11, <1>12, <1>13, <1>14, <1>15, <1>16, <1>17, <1>18, <1>19, <1>20
     DEF Next, PublisherStep, WorkerStep, StopStep

(* The inductive invariant holds in every reachable state.                 *)
THEOREM Invariance == Spec => []IInv
<1>1. Init => IInv
  <2> SUFFICES ASSUME Init
               PROVE  IInv
    OBVIOUS
  <2>1. stage \in [Threads -> Stages] /\ state \in [Jobs -> States]
    BY DEF Init, Stages, States
  <2>2. pending \in Seq(Jobs) /\ job \in [Threads -> Jobs \union {NoJob}]
    BY DEF Init
  <2>3. joining \in 1 .. NumWorkers + 1
    BY OwnershipAssumption DEF Init
  <2>4. holders \subseteq Threads \union Capturing
    BY DEF Init, Threads
  <2>5. TypeOK
    BY <2>1, <2>2, <2>3, <2>4 DEF Init, TypeOK
  <2>6. Roles /\ Destroying /\ Joins
    BY OwnershipAssumption DEF Init, Roles, Destroying, Joins, Threads, Workers
  <2>7. Tokens
    <3>1. IsInjective(<<>>) /\ ToSet(<<>>) = {}
      BY DEF IsInjective, ToSet
    <3> QED BY <3>1, OwnershipAssumption DEF Init, Tokens, Adding, Queued, Turn, Turning, Working, Busy, Emptied, Threads
  <2> QED BY <2>5, <2>6, <2>7 DEF IInv
<1>2. IInv /\ [Next]_vars => IInv'
  BY TypeStep, RolesStep, DestroyingStep, JoinsStep, AddingStep, QueuedStep, TurnStep, WorkingStep, EmptiedStep
     DEF IInv, Tokens
<1> QED BY <1>1, <1>2, PTL DEF Spec

(* Every variable keeps its type.                                          *)
THEOREM TypeCorrect == Spec => []TypeOK
<1>1. IInv => TypeOK
  BY DEF IInv
<1> QED BY <1>1, Invariance, PTL

(* No reference is made once the last is gone, and the memory of a runner  *)
(* goes when no worker is left to use it.                                  *)
THEOREM DestroyedByTheLast == Spec => []DestroyedLast
<1>1. IInv => DestroyedLast
  BY DEF IInv, Roles, Destroying, Joins, DestroyedLast
<1> QED BY <1>1, Invariance, PTL

(* An owner that stops and joins the runner before it lets go is safe,     *)
(* whoever drops the last reference.                                       *)
THEOREM JoinedOwnerIsSafe == Spec => []JoinedIsSafe
<1>1. IInv => JoinedIsSafe
  BY DEF IInv, Joins, LockedOut, JoinedIsSafe
<1> QED BY <1>1, Invariance, PTL

(* When the runner is gone every token has ended: in the workers, in their *)
(* queues and in the strand (~JobAliveToken, job_runner.cc).               *)
THEOREM TokensEnded == Spec => []TokensAllEnd
<1>1. IInv => TokensAllEnd
  <2> SUFFICES ASSUME IInv, memory = "freed"
               PROVE  /\ \A j \in Jobs : state[j] \in {"new", "ended", "dropped"}
                      /\ pending = <<>> /\ ~has_ready_job
    BY DEF TokensAllEnd
  <2>1. \A w \in Workers : stage[w] = "exited" /\ next[w] = NoJob
    BY DEF IInv, Joins, Roles
  <2>2. \A j \in Jobs : state[j] \notin {"ready", "running"}
    BY <2>1 DEF IInv, Tokens, Emptied, Working, Busy
  <2>3. ~has_ready_job /\ pending = <<>>
    BY <2>1, <2>2 DEF IInv, Tokens, Turn, Turning
  <2>4. \A j \in Jobs : state[j] # "pending"
    <3>1. ToSet(pending) = {}
      BY <2>3 DEF ToSet
    <3>2. \A j \in Jobs : state[j] = "pending" => j \in ToSet(pending) \/ \E w \in Workers : next[w] = j
      BY DEF IInv, Tokens, Queued
    <3> QED BY ONLY <2>1, <3>1, <3>2, OwnershipAssumption
  <2>5. \A j \in Jobs : state[j] \in States
    BY DEF IInv, TypeOK
  <2> QED BY <2>2, <2>3, <2>4, <2>5 DEF States
<1> QED BY <1>1, Invariance, PTL
=============================================================================
