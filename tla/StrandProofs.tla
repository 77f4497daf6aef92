---------------------------- MODULE StrandProofs ----------------------------
(***************************************************************************)
(* Theorems about Strand, for any set of jobs: the argument written above  *)
(* PushToRunnerIfNeeded in src/sched/job_runner.cc, checked.               *)
(*                                                                         *)
(* The centre of the argument is the turn.  A job has the turn from the    *)
(* moment a decision takes it off the pending queue (or lets it run at     *)
(* once) until its end call has decided.  At most one job has the turn,    *)
(* has_ready_job_ is set exactly while there is one (OneTurn, FlagTrue),   *)
(* and a turn is passed on only under the lock.                            *)
(***************************************************************************)
EXTENDS Strand, TLAPS

HasTurn(j) == at[j] \in {"popped", "ready", "running"} \/ pc[End(j)] \in {"lock", "locked"}

\* The lock is owned by the one call that is between taking and releasing it.
LockInv == \A c \in Calls : pc[c] \in {"trying", "locked"} <=> lock = c

\* What the stage of a call says about where its job is.
StageInv ==
  /\ \A j \in Jobs : pc[Add(j)] \in {"idle", "trying", "refused"} => at[j] = "new"
  /\ \A j \in Jobs : at[j] \in {"new", "pending", "popped", "ready", "running"}
                       => pc[End(j)] = "idle"
  /\ \A j \in Jobs : pc[End(j)] \notin {"trying", "refused"}

\* The pending queue holds the pending jobs, each once, oldest first.
PendingInv ==
  /\ \A i \in 1..Len(pending) : at[pending[i]] = "pending"
  /\ \A j \in Jobs : at[j] = "pending" => \E i \in 1..Len(pending) : pending[i] = j
  /\ \A i, k \in 1..Len(pending) : i < k => ticket[pending[i]] < ticket[pending[k]]

\* A popped job is in the hands of exactly one call, which is about to push it.
NextInv ==
  /\ \A c \in Calls : pc[c] = "push" <=> next[c] # NoJob
  /\ \A c \in Calls : next[c] # NoJob => at[next[c]] = "popped"
  /\ \A j \in Jobs : at[j] = "popped" => \E c \in Calls : next[c] = j
  /\ \A c, d \in Calls : next[c] # NoJob /\ next[c] = next[d] => c = d

OneTurn == \A j, k \in Jobs : HasTurn(j) /\ HasTurn(k) => j = k

FlagTrue ==
  /\ ~hasReady => \A j \in Jobs : ~HasTurn(j)
  /\ hasReady /\ StrandRef => \E j \in Jobs : HasTurn(j)

\* Tickets: the pending jobs are the youngest, then the job with the turn.
TicketInv ==
  /\ \A j \in Jobs : ticket[j] <= submitted
  /\ \A j, k \in Jobs :
       /\ at[j] \in {"popped", "ready", "running", "ended"}
       /\ at[k] = "pending"
       => ticket[j] < ticket[k]
  /\ \A j, k \in Jobs :
       /\ at[j] \in {"popped", "ready", "running", "ended"}
       /\ at[k] \in {"popped", "ready", "running"}
       /\ j # k
       => ticket[j] < ticket[k]

IInv ==
  /\ TypeOK /\ LockInv /\ StageInv /\ PendingInv /\ NextInv
  /\ OneTurn /\ FlagTrue /\ TicketInv /\ NoLostJob
-----------------------------------------------------------------------------
(* Calls are pairs: facts the provers need about them.                     *)
LEMMA CallFacts ==
  /\ \A j \in Jobs : /\ Add(j) \in Calls /\ End(j) \in Calls
                     /\ Add(j)[1] = j /\ Add(j)[2] = "add"
                     /\ End(j)[1] = j /\ End(j)[2] = "end"
  /\ \A j, k \in Jobs : /\ Add(j) # End(k)
                        /\ Add(j) = Add(k) => j = k
                        /\ End(j) = End(k) => j = k
  /\ \A c \in Calls : \E j \in Jobs : c = Add(j) \/ c = End(j)
  BY DEF Calls, Add, End

(* What pushing to and consuming from the pending queue do to it.          *)
LEMMA AppendFacts ==
  ASSUME NEW s \in Seq(Jobs), NEW j \in Jobs
  PROVE  /\ Append(s, j) \in Seq(Jobs)
         /\ Len(Append(s, j)) = Len(s) + 1
         /\ \A i \in 1..Len(s) : Append(s, j)[i] = s[i]
         /\ Append(s, j)[Len(s) + 1] = j
         /\ Append(s, j) # <<>>
  OBVIOUS

\* Consuming from a queue that is not empty gives its oldest job.
LEMMA TailFacts ==
  ASSUME NEW s \in Seq(Jobs), s # <<>>
  PROVE  /\ Tail(s) \in Seq(Jobs)
         /\ Len(s) \in Nat \ {0}
         /\ Len(Tail(s)) = Len(s) - 1
         /\ \A i \in 1..Len(Tail(s)) : Tail(s)[i] = s[i + 1]
         /\ Head(s) = s[1] /\ Head(s) \in Jobs
  OBVIOUS

\* A queue is empty exactly when its length is zero.
LEMMA EmptyFacts ==
  ASSUME NEW s \in Seq(Jobs)
  PROVE  (s = <<>>) <=> (Len(s) = 0)
  OBVIOUS

-----------------------------------------------------------------------------
(* Every variable keeps its type.  Take needs the queue to be non-empty;   *)
(* the two pushes need a call at "push" to hold a job (NextInv).           *)
THEOREM TypeStep == TypeOK /\ NextInv /\ [Next]_vars => TypeOK'
<1> SUFFICES ASSUME TypeOK, NextInv, [Next]_vars
             PROVE  TypeOK'
  OBVIOUS
<1> USE StrandAssumption, CallFacts DEF TypeOK, strandVars, histVars, envVars, Stages, Places
<1>1. ASSUME NEW j \in Jobs, Push(j) PROVE TypeOK'
  BY <1>1, AppendFacts DEF Push, Submits
<1>2. ASSUME NEW j \in Jobs, TryLock(j) PROVE TypeOK'
  BY <1>2 DEF TryLock
<1>3. ASSUME NEW j \in Jobs, TryRefuse(j) PROVE TypeOK'
  BY <1>3 DEF TryRefuse
<1>4. ASSUME NEW j \in Jobs, TryRun(j) PROVE TypeOK'
  BY <1>4 DEF TryRun, Submits
<1>5. ASSUME NEW j \in Jobs, GiveUp(j) PROVE TypeOK'
  BY <1>5 DEF GiveUp
<1>6. ASSUME NEW j \in Jobs, Start(j) PROVE TypeOK'
  BY <1>6 DEF Start
<1>7. ASSUME NEW j \in Jobs, TokenDies(j) PROVE TypeOK'
  BY <1>7 DEF TokenDies, EndStage
<1>8. ASSUME NEW j \in Jobs, DestroyReady(j) PROVE TypeOK'
  BY <1>8 DEF DestroyReady, EndStage
<1>9. ASSUME NEW c \in Calls, Acquire(c) PROVE TypeOK'
  BY <1>9 DEF Acquire
<1>10. ASSUME NEW c \in Calls, Skip(c) PROVE TypeOK'
  BY <1>10 DEF Skip
<1>11. ASSUME NEW c \in Calls, Clear(c) PROVE TypeOK'
  BY <1>11 DEF Clear
<1>12. ASSUME NEW c \in Calls, Take(c) PROVE TypeOK'
  BY <1>12, TailFacts DEF Take
<1>13. ASSUME NEW c \in Calls, PushToRunner(c) PROVE TypeOK'
  BY <1>13 DEF PushToRunner
<1>14. ASSUME NEW c \in Calls, DropNext(c) PROVE TypeOK'
  <2>1. next[c] \in Jobs
    BY <1>14 DEF DropNext, NextInv
  <2>2. EndStage \in Stages
    BY DEF EndStage
  <2>3. pc' \in [Calls -> Stages] /\ at' \in [Jobs -> Places] /\ next' \in [Calls -> Jobs \union {NoJob}]
    BY <1>14, <2>1, <2>2 DEF DropNext
  <2> QED BY <1>14, <2>3 DEF DropNext
<1>15. ASSUME StopWorkers \/ ExpireRunner \/ DropStrand PROVE TypeOK'
  <2>1. UNCHANGED <<strandVars, pc, next, at, histVars>>
    BY <1>15 DEF StopWorkers, ExpireRunner, DropStrand
  <2>2. userRef' \in BOOLEAN /\ runnerAlive' \in BOOLEAN /\ workersUp' \in BOOLEAN
    BY <1>15 DEF StopWorkers, ExpireRunner, DropStrand
  <2> QED BY <2>1, <2>2
<1>16. ASSUME DestroyStrand PROVE TypeOK'
  BY <1>16 DEF DestroyStrand, EndStage
<1>17. ASSUME UNCHANGED vars PROVE TypeOK'
  BY <1>17 DEF vars
<1> QED
  BY <1>1, <1>2, <1>3, <1>4, <1>5, <1>6, <1>7, <1>8, <1>9, <1>10, <1>11, <1>12,
     <1>13, <1>14, <1>15, <1>16, <1>17 DEF Next, CallStep, TryStep

(* The lock changes hands only between taking and releasing it.            *)
LEMMA LockStep == TypeOK /\ StageInv /\ LockInv /\ NextInv /\ [Next]_vars => LockInv'
<1> SUFFICES ASSUME TypeOK, StageInv, LockInv, NextInv, [Next]_vars
             PROVE  LockInv'
  OBVIOUS
<1> USE StrandAssumption, CallFacts DEF TypeOK, StageInv, strandVars, histVars, envVars, LockInv
<1>1. ASSUME NEW j \in Jobs, Push(j) PROVE LockInv'
  BY <1>1 DEF Push, Submits
<1>2. ASSUME NEW j \in Jobs, TryLock(j) PROVE LockInv'
  BY <1>2 DEF TryLock
<1>3. ASSUME NEW j \in Jobs, TryRefuse(j) PROVE LockInv'
  BY <1>3 DEF TryRefuse
<1>4. ASSUME NEW j \in Jobs, TryRun(j) PROVE LockInv'
  BY <1>4 DEF TryRun, Submits, CanRunNow
<1>5. ASSUME NEW j \in Jobs, GiveUp(j) PROVE LockInv'
  BY <1>5 DEF GiveUp
<1>6. ASSUME NEW j \in Jobs, Start(j) PROVE LockInv'
  BY <1>6 DEF Start
<1>7. ASSUME NEW j \in Jobs, TokenDies(j) PROVE LockInv'
  BY <1>7 DEF TokenDies, EndStage
<1>8. ASSUME NEW j \in Jobs, DestroyReady(j) PROVE LockInv'
  BY <1>8 DEF DestroyReady, EndStage
<1>9. ASSUME NEW c \in Calls, Acquire(c) PROVE LockInv'
  BY <1>9 DEF Acquire
<1>10. ASSUME NEW c \in Calls, Skip(c) PROVE LockInv'
  BY <1>10 DEF Skip
<1>11. ASSUME NEW c \in Calls, Clear(c) PROVE LockInv'
  BY <1>11 DEF Clear
<1>12. ASSUME NEW c \in Calls, Take(c) PROVE LockInv'
  BY <1>12 DEF Take
<1>13. ASSUME NEW c \in Calls, PushToRunner(c) PROVE LockInv'
  BY <1>13 DEF PushToRunner
<1>14. ASSUME NEW c \in Calls, DropNext(c) PROVE LockInv'
  BY <1>14 DEF DropNext, EndStage, NextInv
<1>15. ASSUME StopWorkers \/ ExpireRunner \/ DropStrand PROVE LockInv'
  BY <1>15 DEF StopWorkers, ExpireRunner, DropStrand
<1>16. ASSUME DestroyStrand PROVE LockInv'
  BY <1>16 DEF DestroyStrand, EndStage
<1>17. ASSUME UNCHANGED vars PROVE LockInv'
  BY <1>17 DEF vars
<1> QED
  BY <1>1, <1>2, <1>3, <1>4, <1>5, <1>6, <1>7, <1>8, <1>9, <1>10, <1>11, <1>12,
     <1>13, <1>14, <1>15, <1>16, <1>17 DEF Next, CallStep, TryStep

(* Stages and places move together.                                        *)
LEMMA StageStep == TypeOK /\ StageInv /\ NextInv /\ PendingInv /\ [Next]_vars => StageInv'
<1> SUFFICES ASSUME TypeOK, StageInv, NextInv, PendingInv, [Next]_vars
             PROVE  StageInv'
  OBVIOUS
<1> USE StrandAssumption, CallFacts DEF TypeOK, StageInv, strandVars, histVars, envVars
<1>1. ASSUME NEW j \in Jobs, Push(j) PROVE StageInv'
  BY <1>1 DEF Push, Submits
<1>2. ASSUME NEW j \in Jobs, TryLock(j) PROVE StageInv'
  BY <1>2 DEF TryLock
<1>3. ASSUME NEW j \in Jobs, TryRefuse(j) PROVE StageInv'
  BY <1>3 DEF TryRefuse
<1>4. ASSUME NEW j \in Jobs, TryRun(j) PROVE StageInv'
  BY <1>4 DEF TryRun, Submits, CanRunNow
<1>5. ASSUME NEW j \in Jobs, GiveUp(j) PROVE StageInv'
  BY <1>5 DEF GiveUp
<1>6. ASSUME NEW j \in Jobs, Start(j) PROVE StageInv'
  BY <1>6 DEF Start
<1>7. ASSUME NEW j \in Jobs, TokenDies(j) PROVE StageInv'
  BY <1>7 DEF TokenDies, EndStage
<1>8. ASSUME NEW j \in Jobs, DestroyReady(j) PROVE StageInv'
  BY <1>8 DEF DestroyReady, EndStage
<1>9. ASSUME NEW c \in Calls, Acquire(c) PROVE StageInv'
  BY <1>9 DEF Acquire
<1>10. ASSUME NEW c \in Calls, Skip(c) PROVE StageInv'
  BY <1>10 DEF Skip
<1>11. ASSUME NEW c \in Calls, Clear(c) PROVE StageInv'
  BY <1>11 DEF Clear
<1>12. ASSUME NEW c \in Calls, Take(c) PROVE StageInv'
  <2>1. pending \in Seq(Jobs) /\ pending # <<>>
    BY <1>12 DEF Take
  <2>2. Head(pending) \in Jobs /\ at[Head(pending)] = "pending"
    BY <2>1, TailFacts DEF PendingInv
  <2> QED BY <1>12, <2>2 DEF Take
<1>13. ASSUME NEW c \in Calls, PushToRunner(c) PROVE StageInv'
  BY <1>13 DEF PushToRunner, NextInv
<1>14. ASSUME NEW c \in Calls, DropNext(c) PROVE StageInv'
  BY <1>14 DEF DropNext, EndStage, NextInv
<1>15. ASSUME StopWorkers \/ ExpireRunner \/ DropStrand PROVE StageInv'
  BY <1>15 DEF StopWorkers, ExpireRunner, DropStrand
<1>16. ASSUME DestroyStrand PROVE StageInv'
  BY <1>16 DEF DestroyStrand, EndStage
<1>17. ASSUME UNCHANGED vars PROVE StageInv'
  BY <1>17 DEF vars
<1> QED
  BY <1>1, <1>2, <1>3, <1>4, <1>5, <1>6, <1>7, <1>8, <1>9, <1>10, <1>11, <1>12,
     <1>13, <1>14, <1>15, <1>16, <1>17 DEF Next, CallStep, TryStep

(* A popped job is in exactly one hand.                                     *)
LEMMA NextStep == TypeOK /\ StageInv /\ PendingInv /\ NextInv /\ [Next]_vars => NextInv'
<1> SUFFICES ASSUME TypeOK, StageInv, PendingInv, NextInv, [Next]_vars
             PROVE  NextInv'
  OBVIOUS
<1> USE StrandAssumption, CallFacts DEF TypeOK, StageInv, strandVars, histVars, envVars
<1>1. ASSUME NEW j \in Jobs, Push(j) PROVE NextInv'
  BY <1>1 DEF Push, Submits, NextInv
<1>2. ASSUME NEW j \in Jobs, TryLock(j) PROVE NextInv'
  BY <1>2 DEF TryLock, NextInv
<1>3. ASSUME NEW j \in Jobs, TryRefuse(j) PROVE NextInv'
  BY <1>3 DEF TryRefuse, NextInv
<1>4. ASSUME NEW j \in Jobs, TryRun(j) PROVE NextInv'
  BY <1>4 DEF TryRun, Submits, CanRunNow, NextInv
<1>5. ASSUME NEW j \in Jobs, GiveUp(j) PROVE NextInv'
  BY <1>5 DEF GiveUp, NextInv
<1>6. ASSUME NEW j \in Jobs, Start(j) PROVE NextInv'
  BY <1>6 DEF Start, NextInv
<1>7. ASSUME NEW j \in Jobs, TokenDies(j) PROVE NextInv'
  BY <1>7 DEF TokenDies, EndStage, NextInv
<1>8. ASSUME NEW j \in Jobs, DestroyReady(j) PROVE NextInv'
  BY <1>8 DEF DestroyReady, EndStage, NextInv
<1>9. ASSUME NEW c \in Calls, Acquire(c) PROVE NextInv'
  BY <1>9 DEF Acquire, NextInv
<1>10. ASSUME NEW c \in Calls, Skip(c) PROVE NextInv'
  BY <1>10 DEF Skip, NextInv
<1>11. ASSUME NEW c \in Calls, Clear(c) PROVE NextInv'
  BY <1>11 DEF Clear, NextInv
<1>12. ASSUME NEW c \in Calls, Take(c) PROVE NextInv'
<2> DEFINE h == Head(pending)
  <2>1. h \in Jobs /\ at[h] = "pending"
    <3>1. pending \in Seq(Jobs) /\ pending # <<>>
      BY <1>12 DEF Take
    <3>2. h \in Jobs /\ h = pending[1] /\ 1 \in 1..Len(pending)
      BY <3>1, TailFacts
    <3> QED BY <3>2 DEF PendingInv
  <2>2. \A d \in Calls : next[d] # h
    BY <2>1 DEF NextInv
  <2>3. next' = [next EXCEPT ![c] = h] /\ at' = [at EXCEPT ![h] = "popped"]
        /\ pc' = [pc EXCEPT ![c] = "push"] /\ pc[c] = "locked"
    BY <1>12 DEF Take
  <2> HIDE DEF h
  <2> QED BY <2>1, <2>2, <2>3 DEF NextInv
<1>13. ASSUME NEW c \in Calls, PushToRunner(c) PROVE NextInv'
  BY <1>13 DEF PushToRunner, NextInv
<1>14. ASSUME NEW c \in Calls, DropNext(c) PROVE NextInv'
  BY <1>14 DEF DropNext, EndStage, NextInv
<1>15. ASSUME StopWorkers \/ ExpireRunner \/ DropStrand PROVE NextInv'
  BY <1>15 DEF StopWorkers, ExpireRunner, DropStrand, NextInv
<1>16. ASSUME DestroyStrand PROVE NextInv'
<2>1. next' = next /\ \A d \in Calls : pc[d] = "push" <=> pc'[d] = "push"
    <3>1. /\ next' = next
          /\ \A d \in Calls : pc'[d] = pc[d] \/ (d[2] = "end" /\ at[d[1]] = "pending"
                                                     /\ pc'[d] = EndStage)
      BY <1>16 DEF DestroyStrand
    <3>2. \A k \in Jobs : at[k] = "pending" => pc[End(k)] = "idle"
      OBVIOUS
    <3>3. ASSUME NEW d \in Calls, d[2] = "end", at[d[1]] = "pending"
          PROVE  pc[d] = "idle"
      <4>1. PICK k \in Jobs : d = Add(k) \/ d = End(k)
        OBVIOUS
      <4>2. d = End(k) /\ d[1] = k
        BY <3>3, <4>1
      <4> QED BY <3>2, <3>3, <4>2
    <3>4. EndStage # "push"
      BY DEF EndStage
    <3> QED BY <3>1, <3>3, <3>4
  <2>2. \A j \in Jobs : at[j] = "popped" <=> at'[j] = "popped"
    BY <1>16 DEF DestroyStrand
  <2> QED BY <2>1, <2>2 DEF NextInv
<1>17. ASSUME UNCHANGED vars PROVE NextInv'
  BY <1>17 DEF vars, NextInv
<1> QED
  BY <1>1, <1>2, <1>3, <1>4, <1>5, <1>6, <1>7, <1>8, <1>9, <1>10, <1>11, <1>12,
     <1>13, <1>14, <1>15, <1>16, <1>17 DEF Next, CallStep, TryStep

(* Pushing appends the youngest job, consuming takes the oldest.           *)
LEMMA PendingStep ==
  TypeOK /\ StageInv /\ NextInv /\ TicketInv /\ PendingInv /\ [Next]_vars => PendingInv'
<1> SUFFICES ASSUME TypeOK, StageInv, NextInv, TicketInv, PendingInv, [Next]_vars
             PROVE  PendingInv'
  OBVIOUS
<1> USE CallFacts DEF strandVars, histVars, envVars
<1>1. ASSUME NEW j \in Jobs, Push(j) PROVE PendingInv'
  <2>1. pending \in Seq(Jobs) /\ at[j] = "new"
    BY <1>1 DEF Push, TypeOK, StageInv
  <2>2. /\ pending' = Append(pending, j)
        /\ at' = [at EXCEPT ![j] = "pending"]
        /\ ticket' = [ticket EXCEPT ![j] = submitted + 1]
    BY <1>1 DEF Push, Submits
  <2>3. Len(pending') = Len(pending) + 1 /\ pending'[Len(pending) + 1] = j
    BY <2>1, <2>2, AppendFacts
  <2>4. \A i \in 1..Len(pending) :
           pending'[i] = pending[i] /\ pending[i] \in Jobs /\ pending[i] # j
    BY <2>1, <2>2, AppendFacts DEF PendingInv
  <2>5. \A i \in 1..Len(pending') : i \in 1..Len(pending) \/ i = Len(pending) + 1
    BY <2>1, <2>3
  <2>6. \A i \in 1..Len(pending') : at'[pending'[i]] = "pending"
    BY <2>2, <2>3, <2>4, <2>5 DEF PendingInv, TypeOK
  <2>7. \A k \in Jobs : at'[k] = "pending" => \E i \in 1..Len(pending') : pending'[i] = k
    <3> SUFFICES ASSUME NEW k \in Jobs, at'[k] = "pending"
                 PROVE  \E i \in 1..Len(pending') : pending'[i] = k
      OBVIOUS
    <3>1. Len(pending) \in Nat
      BY <2>1
    <3>2. CASE k = j
      BY <2>3, <3>1, <3>2
    <3>3. CASE k # j
      <4>1. at[k] = "pending"
        BY <2>2, <3>3 DEF TypeOK
      <4>2. PICK i \in 1..Len(pending) : pending[i] = k
        BY <4>1 DEF PendingInv
      <4> QED BY <2>3, <2>4, <3>1, <4>2
    <3> QED BY <3>2, <3>3
  <2>8. ticket'[j] = submitted + 1
    BY <2>2 DEF TypeOK
  <2>9. \A i \in 1..Len(pending) : /\ ticket'[pending'[i]] = ticket[pending[i]]
                                   /\ ticket[pending[i]] <= submitted
                                   /\ ticket[pending[i]] \in Nat
    BY <2>2, <2>4 DEF TicketInv, TypeOK
  <2>10. ASSUME NEW i \in 1..Len(pending'), NEW k \in 1..Len(pending'), i < k
         PROVE  ticket'[pending'[i]] < ticket'[pending'[k]]
    <3>1. Len(pending) \in Nat /\ submitted \in Nat
      BY <2>1 DEF TypeOK
    <3>2. i \in 1..Len(pending)
      BY <2>3, <2>10, <3>1
    <3>3. CASE k \in 1..Len(pending)
      BY <2>9, <2>10, <3>2, <3>3 DEF PendingInv
    <3>4. CASE k = Len(pending) + 1
      <4>1. ticket'[pending'[k]] = submitted + 1
        BY <2>3, <2>8, <3>4
      <4> QED BY <2>9, <3>1, <3>2, <4>1
    <3> QED BY <2>5, <3>3, <3>4
  <2> QED BY <2>6, <2>7, <2>10 DEF PendingInv
<1>2. ASSUME NEW c \in Calls, Take(c) PROVE PendingInv'
  <2>1. pending \in Seq(Jobs) /\ pending # <<>>
    BY <1>2 DEF Take, TypeOK
  <2>2. /\ pending' = Tail(pending)
        /\ at' = [at EXCEPT ![Head(pending)] = "popped"]
        /\ ticket' = ticket
    BY <1>2 DEF Take
  <2>3. /\ Len(pending) \in Nat \ {0} /\ Len(pending') = Len(pending) - 1
        /\ \A i \in 1..Len(pending') : pending'[i] = pending[i + 1] /\ i + 1 \in 1..Len(pending)
        /\ Head(pending) = pending[1]
        /\ \A i \in 1..Len(pending) : pending[i] \in Jobs
    BY <2>1, <2>2, TailFacts
  <2>4. \A i \in 1..Len(pending') : pending'[i] # pending[1]
    <3>1. \A i \in 1..Len(pending') : ticket[pending[1]] < ticket[pending[i + 1]]
      <4>1. 1 \in 1..Len(pending)
        BY <2>3
      <4>2. \A i \in 1..Len(pending') : 1 < i + 1
        OBVIOUS
      <4> QED BY <2>3, <4>1, <4>2 DEF PendingInv
    <3>2. \A k \in 1..Len(pending) : ticket[pending[k]] \in Nat
      BY <2>3 DEF TypeOK
    <3>3. 1 \in 1..Len(pending)
      BY <2>3
    <3> TAKE i \in 1..Len(pending')
    <3>4. pending'[i] = pending[i + 1] /\ i + 1 \in 1..Len(pending)
      BY <2>3
    <3>5. ticket[pending[i + 1]] # ticket[pending[1]]
      BY <3>1, <3>2, <3>3, <3>4
    <3> QED BY <3>4, <3>5
  <2>5. \A i \in 1..Len(pending') : at'[pending'[i]] = "pending"
    BY <2>2, <2>3, <2>4 DEF PendingInv, TypeOK
  <2>6. ASSUME NEW k \in Jobs, at'[k] = "pending"
        PROVE  \E i \in 1..Len(pending') : pending'[i] = k
    <3>1. at[k] = "pending" /\ k # pending[1]
      BY <2>2, <2>3, <2>6 DEF TypeOK
    <3>2. PICK i \in 1..Len(pending) : pending[i] = k
      BY <3>1 DEF PendingInv
    <3>3. i # 1 /\ i - 1 \in 1..Len(pending') /\ pending'[i - 1] = pending[i]
      BY <2>3, <3>1, <3>2
    <3> QED BY <3>2, <3>3
  <2>7. \A i, k \in 1..Len(pending') : i < k => ticket'[pending'[i]] < ticket'[pending'[k]]
    BY <2>2, <2>3 DEF PendingInv
  <2> QED BY <2>5, <2>6, <2>7 DEF PendingInv
<1>3. ASSUME UNCHANGED <<pending, ticket>>,
             \A j \in Jobs : at[j] = "pending" <=> at'[j] = "pending"
      PROVE  PendingInv'
  <2>1. \A i \in 1..Len(pending) : pending[i] \in Jobs
    BY DEF TypeOK
  <2> QED BY <1>3, <2>1 DEF PendingInv
<1>4. ASSUME NEW j \in Jobs, TryLock(j) \/ TryRefuse(j) \/ GiveUp(j) PROVE PendingInv'
  BY <1>3, <1>4 DEF TryLock, TryRefuse, GiveUp
<1>5. ASSUME NEW j \in Jobs, TryRun(j) PROVE PendingInv'
  <2>1. pending = <<>> /\ pending' = pending /\ at' = [at EXCEPT ![j] = "running"]
    BY <1>5 DEF TryRun, CanRunNow
  <2> QED BY <2>1 DEF PendingInv, TypeOK
<1>6. ASSUME NEW j \in Jobs, Start(j) \/ TokenDies(j) \/ DestroyReady(j) PROVE PendingInv'
  BY <1>3, <1>6 DEF Start, TokenDies, DestroyReady, TypeOK
<1>7. ASSUME NEW c \in Calls, Acquire(c) \/ Skip(c) \/ Clear(c) PROVE PendingInv'
  BY <1>3, <1>7 DEF Acquire, Skip, Clear
<1>8. ASSUME NEW c \in Calls, PushToRunner(c) \/ DropNext(c) PROVE PendingInv'
  BY <1>3, <1>8 DEF PushToRunner, DropNext, NextInv, TypeOK
<1>9. ASSUME StopWorkers \/ ExpireRunner \/ DropStrand \/ UNCHANGED vars PROVE PendingInv'
  BY <1>3, <1>9 DEF StopWorkers, ExpireRunner, DropStrand, vars
<1>10. ASSUME DestroyStrand PROVE PendingInv'
  BY <1>10, EmptyFacts DEF DestroyStrand, PendingInv, TypeOK
<1> QED
  BY <1>1, <1>2, <1>4, <1>5, <1>6, <1>7, <1>8, <1>9, <1>10 DEF Next, CallStep, TryStep

(* A turn begins only when no job has one, or when the one who has it ends.*)
LEMMA OneTurnStep == TypeOK /\ StageInv /\ LockInv /\ PendingInv /\ NextInv /\ FlagTrue /\ OneTurn /\ [Next]_vars => OneTurn'
<1> SUFFICES ASSUME TypeOK, StageInv, LockInv, PendingInv, NextInv, FlagTrue, OneTurn, [Next]_vars
             PROVE  OneTurn'
  OBVIOUS
<1> USE StrandAssumption, CallFacts DEF TypeOK, StageInv, strandVars, histVars, envVars, OneTurn, HasTurn
<1>1. ASSUME NEW j \in Jobs, Push(j) PROVE OneTurn'
  BY <1>1 DEF Push, Submits
<1>2. ASSUME NEW j \in Jobs, TryLock(j) PROVE OneTurn'
  BY <1>2 DEF TryLock
<1>3. ASSUME NEW j \in Jobs, TryRefuse(j) PROVE OneTurn'
  BY <1>3 DEF TryRefuse
<1>4. ASSUME NEW j \in Jobs, TryRun(j) PROVE OneTurn'
  BY <1>4 DEF TryRun, Submits, CanRunNow, FlagTrue
<1>5. ASSUME NEW j \in Jobs, GiveUp(j) PROVE OneTurn'
  BY <1>5 DEF GiveUp
<1>6. ASSUME NEW j \in Jobs, Start(j) PROVE OneTurn'
  BY <1>6 DEF Start
<1>7. ASSUME NEW j \in Jobs, TokenDies(j) PROVE OneTurn'
  BY <1>7 DEF TokenDies, EndStage
<1>8. ASSUME NEW j \in Jobs, DestroyReady(j) PROVE OneTurn'
  BY <1>8 DEF DestroyReady, EndStage
<1>9. ASSUME NEW c \in Calls, Acquire(c) PROVE OneTurn'
  BY <1>9 DEF Acquire
<1>10. ASSUME NEW c \in Calls, Skip(c) PROVE OneTurn'
  BY <1>10 DEF Skip
<1>11. ASSUME NEW c \in Calls, Clear(c) PROVE OneTurn'
  BY <1>11 DEF Clear
<1>12. ASSUME NEW c \in Calls, Take(c) PROVE OneTurn'
  BY <1>12, TailFacts DEF Take, PendingInv, SomeoneElseReady, FlagTrue
<1>13. ASSUME NEW c \in Calls, PushToRunner(c) PROVE OneTurn'
  BY <1>13 DEF PushToRunner, NextInv
<1>14. ASSUME NEW c \in Calls, DropNext(c) PROVE OneTurn'
  BY <1>14 DEF DropNext, EndStage, NextInv
<1>15. ASSUME StopWorkers \/ ExpireRunner \/ DropStrand PROVE OneTurn'
  BY <1>15 DEF StopWorkers, ExpireRunner, DropStrand
<1>16. ASSUME DestroyStrand PROVE OneTurn'
  BY <1>16 DEF DestroyStrand, EndStage
<1>17. ASSUME UNCHANGED vars PROVE OneTurn'
  BY <1>17 DEF vars
<1> QED
  BY <1>1, <1>2, <1>3, <1>4, <1>5, <1>6, <1>7, <1>8, <1>9, <1>10, <1>11, <1>12,
     <1>13, <1>14, <1>15, <1>16, <1>17 DEF Next, CallStep, TryStep

-----------------------------------------------------------------------------
(* What a decision that takes a job finds: nobody has the turn but the job *)
(* whose end call is deciding, and that one is over.                       *)
LEMMA TakerHasTurn ==
  ASSUME TypeOK, StageInv, OneTurn, FlagTrue,
         NEW c \in Calls, pc[c] = "locked", ~SomeoneElseReady(c)
  PROVE  /\ \A k \in Jobs : at[k] \notin {"popped", "ready", "running"}
         /\ \A k \in Jobs : pc[End(k)] \in {"lock", "locked"} => c = End(k)
<1>1. PICK x \in Jobs : c = Add(x) \/ c = End(x)
  BY CallFacts
<1>2. CASE c = Add(x)
  <2>1. ~hasReady
    BY <1>2, CallFacts DEF SomeoneElseReady
  <2> QED BY <2>1 DEF FlagTrue, HasTurn
<1>3. CASE c = End(x)
  <2>1. HasTurn(x) /\ at[x] \notin {"popped", "ready", "running"}
    BY <1>3 DEF HasTurn, StageInv
  <2> QED BY <1>3, <2>1 DEF OneTurn, HasTurn
<1> QED BY <1>1, <1>2, <1>3

(* Once nobody owns the strand, nobody will.                               *)
LEMMA RefStep == TypeOK /\ StageInv /\ NextInv /\ [Next]_vars => (StrandRef' => StrandRef)
<1> SUFFICES ASSUME TypeOK, StageInv, NextInv, [Next]_vars
             PROVE  (StrandRef' => StrandRef)
  OBVIOUS
<1> USE StrandAssumption, CallFacts DEF TypeOK, StageInv, strandVars, histVars, envVars, StrandRef, Busy
<1>1. ASSUME NEW j \in Jobs, Push(j) PROVE (StrandRef' => StrandRef)
  BY <1>1 DEF Push, Submits
<1>2. ASSUME NEW j \in Jobs, TryLock(j) PROVE (StrandRef' => StrandRef)
  BY <1>2 DEF TryLock
<1>3. ASSUME NEW j \in Jobs, TryRefuse(j) PROVE (StrandRef' => StrandRef)
  BY <1>3 DEF TryRefuse
<1>4. ASSUME NEW j \in Jobs, TryRun(j) PROVE (StrandRef' => StrandRef)
  BY <1>4 DEF TryRun, Submits, CanRunNow
<1>5. ASSUME NEW j \in Jobs, GiveUp(j) PROVE (StrandRef' => StrandRef)
  BY <1>5 DEF GiveUp
<1>6. ASSUME NEW j \in Jobs, Start(j) PROVE (StrandRef' => StrandRef)
  BY <1>6 DEF Start
<1>7. ASSUME NEW j \in Jobs, TokenDies(j) PROVE (StrandRef' => StrandRef)
  BY <1>7 DEF TokenDies, EndStage
<1>8. ASSUME NEW j \in Jobs, DestroyReady(j) PROVE (StrandRef' => StrandRef)
  BY <1>8 DEF DestroyReady, EndStage
<1>9. ASSUME NEW c \in Calls, Acquire(c) PROVE (StrandRef' => StrandRef)
  BY <1>9 DEF Acquire
<1>10. ASSUME NEW c \in Calls, Skip(c) PROVE (StrandRef' => StrandRef)
  BY <1>10 DEF Skip
<1>11. ASSUME NEW c \in Calls, Clear(c) PROVE (StrandRef' => StrandRef)
  BY <1>11 DEF Clear
<1>12. ASSUME NEW c \in Calls, Take(c) PROVE (StrandRef' => StrandRef)
  BY <1>12 DEF Take
<1>13. ASSUME NEW c \in Calls, PushToRunner(c) PROVE (StrandRef' => StrandRef)
  BY <1>13 DEF PushToRunner
<1>14. ASSUME NEW c \in Calls, DropNext(c) PROVE (StrandRef' => StrandRef)
  BY <1>14 DEF DropNext, EndStage
<1>15. ASSUME StopWorkers \/ ExpireRunner \/ DropStrand PROVE (StrandRef' => StrandRef)
  BY <1>15 DEF StopWorkers, ExpireRunner, DropStrand
<1>16. ASSUME DestroyStrand PROVE (StrandRef' => StrandRef)
  BY <1>16 DEF DestroyStrand, EndStage
<1>17. ASSUME UNCHANGED vars PROVE (StrandRef' => StrandRef)
  BY <1>17 DEF vars
<1> QED
  BY <1>1, <1>2, <1>3, <1>4, <1>5, <1>6, <1>7, <1>8, <1>9, <1>10, <1>11, <1>12,
     <1>13, <1>14, <1>15, <1>16, <1>17 DEF Next, CallStep, TryStep

(* The flag is set exactly while a job has the turn.                       *)
LEMMA FlagStep == TypeOK /\ StageInv /\ LockInv /\ PendingInv /\ NextInv /\ OneTurn /\ FlagTrue /\ [Next]_vars => FlagTrue'
<1> SUFFICES ASSUME TypeOK, StageInv, LockInv, PendingInv, NextInv, OneTurn, FlagTrue, [Next]_vars
             PROVE  FlagTrue'
  OBVIOUS
<1> USE StrandAssumption, CallFacts DEF TypeOK, StageInv, strandVars, histVars, envVars, FlagTrue, HasTurn
<1>0. StrandRef' => StrandRef
  BY RefStep
<1>1. ASSUME NEW j \in Jobs, Push(j) PROVE FlagTrue'
  BY <1>0, <1>1 DEF Push, Submits
<1>2. ASSUME NEW j \in Jobs, TryLock(j) PROVE FlagTrue'
  BY <1>0, <1>2 DEF TryLock
<1>3. ASSUME NEW j \in Jobs, TryRefuse(j) PROVE FlagTrue'
  BY <1>0, <1>3 DEF TryRefuse
<1>4. ASSUME NEW j \in Jobs, TryRun(j) PROVE FlagTrue'
  BY <1>0, <1>4 DEF TryRun, Submits, CanRunNow
<1>5. ASSUME NEW j \in Jobs, GiveUp(j) PROVE FlagTrue'
  BY <1>0, <1>5 DEF GiveUp
<1>6. ASSUME NEW j \in Jobs, Start(j) PROVE FlagTrue'
  BY <1>0, <1>6 DEF Start
<1>7. ASSUME NEW j \in Jobs, TokenDies(j) PROVE FlagTrue'
  BY <1>0, <1>7 DEF TokenDies, EndStage
<1>8. ASSUME NEW j \in Jobs, DestroyReady(j) PROVE FlagTrue'
  BY <1>0, <1>8 DEF DestroyReady, EndStage
<1>9. ASSUME NEW c \in Calls, Acquire(c) PROVE FlagTrue'
  BY <1>0, <1>9 DEF Acquire
<1>10. ASSUME NEW c \in Calls, Skip(c) PROVE FlagTrue'
  BY <1>0, <1>10 DEF Skip, SomeoneElseReady
<1>11. ASSUME NEW c \in Calls, Clear(c) PROVE FlagTrue'
  BY <1>0, <1>11, TakerHasTurn DEF Clear
<1>12. ASSUME NEW c \in Calls, Take(c) PROVE FlagTrue'
  BY <1>0, <1>12, TailFacts DEF Take, PendingInv
<1>13. ASSUME NEW c \in Calls, PushToRunner(c) PROVE FlagTrue'
  BY <1>0, <1>13 DEF PushToRunner, NextInv
<1>14. ASSUME NEW c \in Calls, DropNext(c) PROVE FlagTrue'
  BY <1>0, <1>14 DEF DropNext, EndStage, NextInv, StrandRef, Busy
<1>15. ASSUME StopWorkers \/ ExpireRunner \/ DropStrand PROVE FlagTrue'
  BY <1>0, <1>15 DEF StopWorkers, ExpireRunner, DropStrand
<1>16. ASSUME DestroyStrand PROVE FlagTrue'
  BY <1>0, <1>16 DEF DestroyStrand, EndStage
<1>17. ASSUME UNCHANGED vars PROVE FlagTrue'
  BY <1>0, <1>17 DEF vars
<1> QED
  BY <1>1, <1>2, <1>3, <1>4, <1>5, <1>6, <1>7, <1>8, <1>9, <1>10, <1>11, <1>12,
     <1>13, <1>14, <1>15, <1>16, <1>17 DEF Next, CallStep, TryStep

(* Whoever finds the flag set leaves its job to the turn that set it.      *)
LEMMA NoLostStep == TypeOK /\ StageInv /\ LockInv /\ PendingInv /\ NextInv /\ NoLostJob /\ [Next]_vars => NoLostJob'
<1> SUFFICES ASSUME TypeOK, StageInv, LockInv, PendingInv, NextInv, NoLostJob, [Next]_vars
             PROVE  NoLostJob'
  OBVIOUS
<1> USE StrandAssumption, CallFacts DEF TypeOK, StageInv, strandVars, histVars, envVars, NoLostJob
<1>0. StrandRef' => StrandRef
  BY RefStep
<1>1. ASSUME NEW j \in Jobs, Push(j) PROVE NoLostJob'
  BY <1>0, <1>1, AppendFacts DEF Push, Submits
<1>2. ASSUME NEW j \in Jobs, TryLock(j) PROVE NoLostJob'
  BY <1>0, <1>2 DEF TryLock
<1>3. ASSUME NEW j \in Jobs, TryRefuse(j) PROVE NoLostJob'
  BY <1>0, <1>3 DEF TryRefuse
<1>4. ASSUME NEW j \in Jobs, TryRun(j) PROVE NoLostJob'
  BY <1>0, <1>4 DEF TryRun, Submits, CanRunNow
<1>5. ASSUME NEW j \in Jobs, GiveUp(j) PROVE NoLostJob'
  BY <1>0, <1>5 DEF GiveUp
<1>6. ASSUME NEW j \in Jobs, Start(j) PROVE NoLostJob'
  BY <1>0, <1>6 DEF Start
<1>7. ASSUME NEW j \in Jobs, TokenDies(j) PROVE NoLostJob'
  BY <1>0, <1>7 DEF TokenDies, EndStage
<1>8. ASSUME NEW j \in Jobs, DestroyReady(j) PROVE NoLostJob'
  BY <1>0, <1>8 DEF DestroyReady, EndStage
<1>9. ASSUME NEW c \in Calls, Acquire(c) PROVE NoLostJob'
  BY <1>0, <1>9 DEF Acquire
<1>10. ASSUME NEW c \in Calls, Skip(c) PROVE NoLostJob'
  BY <1>0, <1>10 DEF Skip, SomeoneElseReady
<1>11. ASSUME NEW c \in Calls, Clear(c) PROVE NoLostJob'
  BY <1>0, <1>11 DEF Clear
<1>12. ASSUME NEW c \in Calls, Take(c) PROVE NoLostJob'
  BY <1>0, <1>12 DEF Take
<1>13. ASSUME NEW c \in Calls, PushToRunner(c) PROVE NoLostJob'
  BY <1>0, <1>13 DEF PushToRunner, NextInv
<1>14. ASSUME NEW c \in Calls, DropNext(c) PROVE NoLostJob'
  BY <1>0, <1>14 DEF DropNext, EndStage, NextInv
<1>15. ASSUME StopWorkers \/ ExpireRunner \/ DropStrand PROVE NoLostJob'
  BY <1>0, <1>15 DEF StopWorkers, ExpireRunner, DropStrand
<1>16. ASSUME DestroyStrand PROVE NoLostJob'
  BY <1>0, <1>16 DEF DestroyStrand, EndStage
<1>17. ASSUME UNCHANGED vars PROVE NoLostJob'
  BY <1>0, <1>17 DEF vars
<1> QED
  BY <1>1, <1>2, <1>3, <1>4, <1>5, <1>6, <1>7, <1>8, <1>9, <1>10, <1>11, <1>12,
     <1>13, <1>14, <1>15, <1>16, <1>17 DEF Next, CallStep, TryStep

(* A new ticket is the highest; the oldest pending job takes the turn.     *)
LEMMA TicketStep == TypeOK /\ StageInv /\ PendingInv /\ NextInv /\ OneTurn /\ FlagTrue /\ TicketInv /\ [Next]_vars => TicketInv'
<1> SUFFICES ASSUME TypeOK, StageInv, PendingInv, NextInv, OneTurn, FlagTrue, TicketInv, [Next]_vars
             PROVE  TicketInv'
  OBVIOUS
<1> USE StrandAssumption, CallFacts DEF TypeOK, StageInv, strandVars, histVars, envVars, TicketInv
<1>1. ASSUME NEW j \in Jobs, Push(j) PROVE TicketInv'
  BY <1>1 DEF Push, Submits
<1>2. ASSUME NEW j \in Jobs, TryLock(j) PROVE TicketInv'
  BY <1>2 DEF TryLock
<1>3. ASSUME NEW j \in Jobs, TryRefuse(j) PROVE TicketInv'
  BY <1>3 DEF TryRefuse
<1>4. ASSUME NEW j \in Jobs, TryRun(j) PROVE TicketInv'
<2>1. /\ pending = <<>> /\ ~hasReady
        /\ at' = [at EXCEPT ![j] = "running"]
        /\ submitted' = submitted + 1
        /\ ticket' = [ticket EXCEPT ![j] = submitted + 1]
    BY <1>4 DEF TryRun, CanRunNow, Submits
  <2>2. \A k \in Jobs : at[k] \notin {"pending", "popped", "ready", "running"}
    BY <2>1 DEF PendingInv, FlagTrue, HasTurn
  <2> QED BY <2>1, <2>2
<1>5. ASSUME NEW j \in Jobs, GiveUp(j) PROVE TicketInv'
  BY <1>5 DEF GiveUp
<1>6. ASSUME NEW j \in Jobs, Start(j) PROVE TicketInv'
  BY <1>6 DEF Start
<1>7. ASSUME NEW j \in Jobs, TokenDies(j) PROVE TicketInv'
  BY <1>7 DEF TokenDies, EndStage
<1>8. ASSUME NEW j \in Jobs, DestroyReady(j) PROVE TicketInv'
  BY <1>8 DEF DestroyReady, EndStage
<1>9. ASSUME NEW c \in Calls, Acquire(c) PROVE TicketInv'
  BY <1>9 DEF Acquire
<1>10. ASSUME NEW c \in Calls, Skip(c) PROVE TicketInv'
  BY <1>10 DEF Skip
<1>11. ASSUME NEW c \in Calls, Clear(c) PROVE TicketInv'
  BY <1>11 DEF Clear
<1>12. ASSUME NEW c \in Calls, Take(c) PROVE TicketInv'
<2> DEFINE h == Head(pending)
  <2>1. pending \in Seq(Jobs) /\ pending # <<>>
    BY <1>12 DEF Take
  <2>2. h \in Jobs /\ h = pending[1] /\ 1 \in 1..Len(pending) /\ Len(pending) \in Nat
    BY <2>1, TailFacts
  <2>3. \A k \in Jobs : at[k] = "pending" /\ k # h => ticket[h] < ticket[k]
    <3>1. ASSUME NEW k \in Jobs, at[k] = "pending", k # h
          PROVE  ticket[h] < ticket[k]
      <4>1. PICK i \in 1..Len(pending) : pending[i] = k
        BY <3>1 DEF PendingInv
      <4>2. 1 < i
        BY <2>2, <3>1, <4>1
      <4> QED BY <2>2, <4>1, <4>2 DEF PendingInv
    <3> QED BY <3>1
  <2>4. \A k \in Jobs : at[k] \notin {"popped", "ready", "running"}
    BY <1>12, TakerHasTurn DEF Take
  <2>5. at[h] = "pending" /\ at' = [at EXCEPT ![h] = "popped"] /\ ticket' = ticket
        /\ submitted' = submitted
    BY <1>12, <2>2 DEF Take, PendingInv
  <2> HIDE DEF h
  <2> QED BY <2>2, <2>3, <2>4, <2>5
<1>13. ASSUME NEW c \in Calls, PushToRunner(c) PROVE TicketInv'
  BY <1>13 DEF PushToRunner, NextInv
<1>14. ASSUME NEW c \in Calls, DropNext(c) PROVE TicketInv'
  BY <1>14 DEF DropNext, EndStage, NextInv
<1>15. ASSUME StopWorkers \/ ExpireRunner \/ DropStrand PROVE TicketInv'
  BY <1>15 DEF StopWorkers, ExpireRunner, DropStrand
<1>16. ASSUME DestroyStrand PROVE TicketInv'
  BY <1>16 DEF DestroyStrand, EndStage
<1>17. ASSUME UNCHANGED vars PROVE TicketInv'
  BY <1>17 DEF vars
<1> QED
  BY <1>1, <1>2, <1>3, <1>4, <1>5, <1>6, <1>7, <1>8, <1>9, <1>10, <1>11, <1>12,
     <1>13, <1>14, <1>15, <1>16, <1>17 DEF Next, CallStep, TryStep

-----------------------------------------------------------------------------
(* The invariant, and what follows from it.                                *)

\* A new strand satisfies the invariant.
LEMMA InitIInv == Init => IInv
<1> SUFFICES ASSUME Init PROVE IInv
  OBVIOUS
<1>1. TypeOK
  <2>1. pending \in Seq(Jobs)
    BY DEF Init
  <2>2. pc \in [Calls -> Stages] /\ next \in [Calls -> Jobs \union {NoJob}]
    BY DEF Init, Stages
  <2>3. at \in [Jobs -> Places] /\ ticket \in [Jobs -> Nat] /\ submitted \in Nat
    BY DEF Init, Places
  <2> QED BY <2>1, <2>2, <2>3 DEF TypeOK, Init
<1> USE StrandAssumption, CallFacts DEF Init
<1>2. LockInv /\ StageInv /\ PendingInv /\ NextInv
  BY DEF LockInv, StageInv, PendingInv, NextInv
<1>3. OneTurn /\ FlagTrue /\ TicketInv /\ NoLostJob
  BY DEF OneTurn, FlagTrue, HasTurn, TicketInv, NoLostJob
<1> QED BY <1>1, <1>2, <1>3 DEF IInv

\* Every step of the strand preserves the invariant.
LEMMA NextIInv == IInv /\ [Next]_vars => IInv'
<1> SUFFICES ASSUME IInv, [Next]_vars PROVE IInv'
  OBVIOUS
<1>1. TypeOK'
  BY TypeStep DEF IInv
<1>2. LockInv' /\ StageInv' /\ PendingInv' /\ NextInv'
  BY LockStep, StageStep, PendingStep, NextStep DEF IInv
<1>3. OneTurn' /\ FlagTrue'
  BY OneTurnStep, FlagStep DEF IInv
<1>4. TicketInv' /\ NoLostJob'
  BY TicketStep, NoLostStep DEF IInv
<1> QED BY <1>1, <1>2, <1>3, <1>4 DEF IInv

(* IInv holds in every reachable state.                                    *)
THEOREM Invariance == Spec => []IInv
  BY InitIInv, NextIInv, PTL DEF Spec

(* Every variable of the strand keeps its type.                            *)
THEOREM TypeCorrect == Spec => []TypeOK
<1>1. IInv => TypeOK
  BY DEF IInv
<1> QED BY <1>1, Invariance, PTL

(* At most one job of a strand is in the runner, for any number of jobs and*)
(* of threads adding, running and ending them.                             *)
THEOREM OneInRunner == Spec => []AtMostOneInRunner
<1>1. IInv => AtMostOneInRunner
  BY DEF IInv, OneTurn, HasTurn, AtMostOneInRunner
<1> QED BY <1>1, Invariance, PTL

(* Jobs begin in the order in which they were submitted.                   *)
THEOREM InOrder == Spec => []NoOvertaking
<1>1. IInv => NoOvertaking
  BY DEF IInv, TicketInv, NoOvertaking, TypeOK
<1> QED BY <1>1, Invariance, PTL

(* No pending job is forgotten.                                            *)
THEOREM NothingLost == Spec => []NoLostJob
<1>1. IInv => NoLostJob
  BY DEF IInv
<1> QED BY <1>1, Invariance, PTL

(* has_ready_job_ tells whether a job has the turn.                        *)
THEOREM FlagCorrect == Spec => []FlagMeansOutstanding
<1>1. IInv => FlagMeansOutstanding
  BY DEF IInv, FlagTrue, HasTurn, FlagMeansOutstanding
<1> QED BY <1>1, Invariance, PTL

(* The push a decision generates happens before the next decision that     *)
(* changes the flag or takes a job.                                        *)
THEOREM PushFirst == Spec => PushBeforeNextDecision
<1> DEFINE A == hasReady' # hasReady \/ (\E j \in Jobs : at[j] = "pending" /\ at'[j] = "popped")
                => \A c \in Calls : pc[c] # "push"
<1>1. ASSUME IInv, [Next]_vars, NEW c \in Calls, pc[c] = "push"
      PROVE  hasReady' = hasReady /\ \A j \in Jobs : ~(at[j] = "pending" /\ at'[j] = "popped")
  <2> USE DEF strandVars, histVars, envVars
  <2>1. next[c] \in Jobs /\ at[next[c]] = "popped"
    BY <1>1 DEF IInv, NextInv, TypeOK
  <2>2. hasReady
    BY <1>1, <2>1 DEF IInv, FlagTrue, HasTurn
  <2>3. \A d \in Calls : ~(Clear(d) \/ Take(d))
    BY <1>1, <2>1, TakerHasTurn DEF Clear, Take, IInv
  <2>4. \A j \in Jobs : ~TryRun(j)
    BY <2>2 DEF TryRun, CanRunNow
  <2>5. hasReady' = hasReady
    BY <1>1, <2>3, <2>4 DEF Next, CallStep, TryStep, Push, TryLock, TryRefuse, GiveUp, Start, TokenDies,
         DestroyReady, Acquire, Skip, PushToRunner, DropNext, StopWorkers, ExpireRunner,
         DropStrand, DestroyStrand, vars
  <2>6. \A j \in Jobs : ~(at[j] = "pending" /\ at'[j] = "popped")
    BY <1>1, <2>1, <2>3, <2>4 DEF Next, CallStep, TryStep, Push, TryLock, TryRefuse, GiveUp, Start, TokenDies,
         DestroyReady, Acquire, Skip, PushToRunner, DropNext, StopWorkers, ExpireRunner,
         DropStrand, DestroyStrand, vars, IInv, TypeOK, NextInv
  <2> QED BY <2>5, <2>6
<1>2. IInv /\ [Next]_vars => [A]_vars
  BY <1>1
<1> QED BY <1>2, Invariance, PTL DEF Spec, PushBeforeNextDecision

-----------------------------------------------------------------------------
(* The refinement: what the strand promises, SerialQueue.  Its queue is    *)
(* the job on its way to the runner, and behind it the pending queue.      *)

(* What a queue with one more job in front is made of.                     *)
LEMMA FrontFacts ==
  ASSUME NEW q \in Seq(Jobs), NEW j \in Jobs
  PROVE  LET s == <<j>> \o q IN
           /\ s # <<>> /\ Head(s) = j /\ Tail(s) = q /\ Len(s) = Len(q) + 1
           /\ SubSeq(s, 1, 1) = <<j>> /\ SubSeq(s, 2, Len(q) + 1) = q
           /\ \A k \in Jobs : Append(s, k) = <<j>> \o Append(q, k)
<1> DEFINE s == <<j>> \o q
<1>1. s # <<>> /\ Head(s) = j
  OBVIOUS
<1>2. Tail(s) = q
  OBVIOUS
<1>3. Len(s) = Len(q) + 1 /\ s[1] = j /\ s \in Seq(Jobs) /\ Len(q) \in Nat
  OBVIOUS
<1>4. SubSeq(s, 1, 1) = <<j>>
  <2>1. SubSeq(s, 1, 1) \in Seq(Jobs) /\ Len(SubSeq(s, 1, 1)) = 1 /\ SubSeq(s, 1, 1)[1] = s[1]
    BY <1>3
  <2>2. ASSUME NEW t \in Seq(Jobs), Len(t) = 1 PROVE t = <<t[1]>>
    BY <2>2
  <2> QED BY <1>3, <2>1, <2>2
<1>5. SubSeq(s, 2, Len(q) + 1) = q
  OBVIOUS
<1>6. ASSUME NEW k \in Jobs PROVE Append(s, k) = <<j>> \o Append(q, k)
  OBVIOUS
<1> QED BY <1>1, <1>2, <1>3, <1>4, <1>5, <1>6

(* Putting the oldest job of a queue back in front of the others.          *)
LEMMA HeadTail ==
  ASSUME NEW q \in Seq(Jobs), q # <<>>
  PROVE  <<Head(q)>> \o Tail(q) = q
OBVIOUS

(* There is one choice in a set of one element.                            *)
LEMMA OneChoice ==
  ASSUME NEW j
  PROVE  (CHOOSE k \in {j} : TRUE) = j /\ {j} # {}
OBVIOUS

\* The variables of SerialQueue.
Active == {j \in Jobs : at[j] = "running"}
Seen   == {j \in Jobs : at[j] # "new"}

(* At first the queue is empty and the service is open.                    *)
LEMMA InitRefines == Init => SQ!Init
BY DEF Init, SQ!Init, Waiting, Front

(* What the queue is when a job is in front, and when there is none; the   *)
(* same after a step.                                                      *)
LEMMA WaitingFacts ==
  /\ Front = {} => Waiting = pending
  /\ \A j : Front = {j} => Waiting = <<j>> \o pending
  /\ Front' = {} => Waiting' = pending'
  /\ \A j : Front' = {j} => Waiting' = <<j>> \o pending'
BY OneChoice DEF Waiting

(* At most one job is in front, and then none is running.                  *)
LEMMA OneInFront ==
  ASSUME OneTurn
  PROVE  /\ \A j \in Front : Front = {j} /\ Active = {}
         /\ \A j \in Active : Active = {j} /\ Front = {}
BY DEF OneTurn, HasTurn, Front, Active

(* A step that moves no job and leaves the pending queue alone stutters,   *)
(* or closes the service.                                                  *)
LEMMA StutterFacts ==
  ASSUME UNCHANGED <<at, pending>>
  PROVE  UNCHANGED <<Waiting, Active, Seen>>
BY DEF Waiting, Front, Active, Seen

(* Each step of the strand is a step of the serial queue, or stutters.     *)
LEMMA StepRefines == IInv /\ [Next]_vars => [SQ!Next]_(SQ!vars)
<1> SUFFICES ASSUME IInv, [Next]_vars
             PROVE  [SQ!Next]_(SQ!vars)
  OBVIOUS
<1> DEFINE O == userRef /\ runnerAlive
<1> USE DEF strandVars, histVars, envVars
<1>0. TypeOK /\ OneTurn
  BY DEF IInv
<1>1. ASSUME UNCHANGED <<Waiting, Active, Seen, userRef, runnerAlive>>
      PROVE  [SQ!Next]_(SQ!vars)
  BY <1>1 DEF SQ!vars, Active, Seen
<1>2. ASSUME UNCHANGED <<at, pending, userRef, runnerAlive>>
      PROVE  [SQ!Next]_(SQ!vars)
  BY <1>1, <1>2, StutterFacts
<1>3. ASSUME NEW j \in Jobs, Push(j) PROVE SQ!Submit(j)
  <2>1. at[j] = "new" /\ pending' = Append(pending, j) /\ at' = [at EXCEPT ![j] = "pending"]
        /\ UNCHANGED <<userRef, runnerAlive>>
    BY <1>3, CallFacts DEF Push, IInv, StageInv
  <2>2. Front' = Front /\ Active' = Active /\ Seen' = Seen \union {j} /\ j \notin Seen
    BY <1>0, <2>1 DEF Front, Active, Seen, TypeOK
  <2>3. Waiting' = Append(Waiting, j)
    <3>1. CASE Front = {}
      BY <2>1, <2>2, <3>1, WaitingFacts
    <3>2. ASSUME NEW k \in Front PROVE Waiting' = Append(Waiting, j)
      <4>1. Front = {k} /\ k \in Jobs
        BY <1>0, OneInFront DEF Front
      <4>2. Waiting = <<k>> \o pending /\ Waiting' = <<k>> \o Append(pending, j)
        BY <2>1, <2>2, <4>1, WaitingFacts
      <4> QED BY <1>0, <4>1, <4>2, FrontFacts DEF TypeOK
    <3> QED BY <3>1, <3>2
  <2> QED BY <2>1, <2>2, <2>3 DEF SQ!Submit, Active, Seen
<1>4. ASSUME NEW j \in Jobs, TryRun(j) PROVE SQ!RunNow(j)
  <2>1. at[j] = "new" /\ pending = <<>> /\ ~hasReady /\ at' = [at EXCEPT ![j] = "running"]
        /\ UNCHANGED <<pending, userRef, runnerAlive>>
    BY <1>4 DEF TryRun, CanRunNow, IInv, StageInv
  <2>2. Front = {} /\ Active = {}
    BY <2>1 DEF IInv, FlagTrue, HasTurn, Front, Active
  <2>3. Front' = {} /\ Active' = {j} /\ Seen' = Seen \union {j} /\ j \notin Seen
    BY <1>0, <2>1, <2>2 DEF Front, Active, Seen, TypeOK
  <2>4. Waiting = <<>> /\ Waiting' = <<>>
    BY <2>1, <2>2, <2>3, WaitingFacts
  <2> QED BY <2>1, <2>2, <2>3, <2>4 DEF SQ!RunNow, Active, Seen
<1>5. ASSUME NEW j \in Jobs, Start(j) PROVE SQ!Begin
  <2>1. at[j] = "ready" /\ at' = [at EXCEPT ![j] = "running"] /\ UNCHANGED <<pending, userRef, runnerAlive>>
    BY <1>5 DEF Start
  <2>2. Front = {j} /\ Active = {}
    BY <1>0, <2>1, OneInFront DEF Front
  <2>3. Front' = {} /\ Active' = {j} /\ Seen' = Seen
    BY <1>0, <2>1, <2>2 DEF Front, Active, Seen, TypeOK
  <2>4. Waiting = <<j>> \o pending /\ Waiting' = pending
    BY <2>1, <2>2, <2>3, WaitingFacts
  <2>5. Waiting # <<>> /\ Head(Waiting) = j /\ Tail(Waiting) = pending
    BY <1>0, <2>4, FrontFacts DEF TypeOK
  <2> QED BY <2>1, <2>2, <2>3, <2>4, <2>5 DEF SQ!Begin, Active, Seen
<1>6. ASSUME NEW j \in Jobs, TokenDies(j) PROVE SQ!Finish
  <2>1. at[j] = "running" /\ at' = [at EXCEPT ![j] = "ended"] /\ UNCHANGED <<pending, userRef, runnerAlive>>
    BY <1>6 DEF TokenDies
  <2>2. Active = {j} /\ Front = {}
    BY <1>0, <2>1, OneInFront DEF Active
  <2>3. Front' = {} /\ Active' = {} /\ Seen' = Seen
    BY <1>0, <2>1, <2>2 DEF Front, Active, Seen, TypeOK
  <2>4. Waiting' = Waiting
    BY <2>1, <2>2, <2>3, WaitingFacts
  <2> QED BY <2>1, <2>2, <2>3, <2>4 DEF SQ!Finish, Active, Seen
<1>7. ASSUME NEW j \in Jobs, at[j] \in {"popped", "ready"}, at' = [at EXCEPT ![j] = "dropped"],
             ~runnerAlive, UNCHANGED <<pending, userRef, runnerAlive>>
      PROVE  SQ!Discard
  <2>1. Front = {j}
    BY <1>0, <1>7, OneInFront DEF Front
  <2>2. Front' = {} /\ Active' = Active /\ Seen' = Seen
    BY <1>0, <1>7, <2>1 DEF Front, Active, Seen, TypeOK
  <2>3. Waiting = <<j>> \o pending /\ Waiting' = pending
    BY <1>7, <2>1, <2>2, WaitingFacts
  <2>4. Len(Waiting) = Len(pending) + 1 /\ Waiting' = SubSeq(Waiting, 2, Len(pending) + 1) /\ Len(pending) \in Nat
    BY <1>0, <2>3, FrontFacts DEF TypeOK
  <2>5. Waiting' # Waiting
    BY <1>0, <2>3, <2>4 DEF TypeOK
  <2>6. 2 \in 1 .. Len(Waiting) + 1 /\ Len(pending) + 1 \in 0 .. Len(Waiting)
    BY <2>4
  <2> QED BY <1>7, <2>2, <2>4, <2>5, <2>6 DEF SQ!Discard, Active, Seen
<1>8. CASE DestroyStrand
  <2>1. /\ ~userRef /\ pending # <<>> /\ pending' = <<>> /\ UNCHANGED <<userRef, runnerAlive>>
        /\ at' = [j \in Jobs |-> IF at[j] = "pending" THEN "dropped" ELSE at[j]]
    BY <1>8 DEF DestroyStrand, StrandRef
  <2>2. Front' = Front /\ Active' = Active /\ Seen' = Seen
    BY <1>0, <2>1 DEF Front, Active, Seen, TypeOK
  <2>3. Len(pending) \in Nat \ {0}
    BY <1>0, <2>1, EmptyFacts DEF TypeOK
  <2>4. CASE Front = {}
    <3>1. Waiting = pending /\ Waiting' = <<>>
      BY <2>1, <2>2, <2>4, WaitingFacts
    <3>2. Waiting' = SubSeq(Waiting, 1, 0) /\ Waiting' # Waiting
      BY <1>0, <2>1, <3>1 DEF TypeOK
    <3>3. 1 \in 1 .. Len(Waiting) + 1 /\ 0 \in 0 .. Len(Waiting)
      BY <2>3, <3>1
    <3>4. SQ!Discard
      BY <2>1, <2>2, <3>2, <3>3 DEF SQ!Discard, Active, Seen
    <3> QED BY <3>4 DEF SQ!Next
  <2>5. ASSUME NEW k \in Front PROVE SQ!Discard
    <3>1. Front = {k} /\ k \in Jobs
      BY <1>0, OneInFront DEF Front
    <3>2. Waiting = <<k>> \o pending /\ Waiting' = <<k>> \o <<>>
      BY <2>1, <2>2, <3>1, WaitingFacts
    <3>3. Waiting' = SubSeq(Waiting, 1, 1) /\ Len(Waiting) = Len(pending) + 1 /\ Len(Waiting') = 1
      BY <1>0, <3>1, <3>2, FrontFacts DEF TypeOK
    <3>4. Waiting' # Waiting
      BY <2>3, <3>3
    <3>5. 1 \in 1 .. Len(Waiting) + 1 /\ 1 \in 0 .. Len(Waiting)
      BY <2>3, <3>3
    <3> QED BY <2>1, <2>2, <3>3, <3>4, <3>5 DEF SQ!Discard, Active, Seen
  <2> QED BY <2>4, <2>5 DEF SQ!Next
<1>9. ASSUME NEW c \in Calls, Take(c) PROVE [SQ!Next]_(SQ!vars)
  <2> DEFINE j == Head(pending)
  <2>1. /\ j \in Jobs /\ at[j] = "pending" /\ at' = [at EXCEPT ![j] = "popped"]
        /\ pending' = Tail(pending) /\ <<j>> \o Tail(pending) = pending
        /\ UNCHANGED <<userRef, runnerAlive>>
    BY <1>0, <1>9, TailFacts, HeadTail DEF Take, IInv, PendingInv, TypeOK
  <2>2. Front = {}
    BY <1>9, TakerHasTurn DEF Take, IInv, Front
  <2> HIDE DEF j
  <2>3. Front' = {j} /\ Active' = Active /\ Seen' = Seen
    BY <1>0, <2>1, <2>2 DEF Front, Active, Seen, TypeOK
  <2>4. Waiting = pending /\ Waiting' = <<j>> \o pending'
    BY <2>2, <2>3, WaitingFacts
  <2> QED BY <1>1, <2>1, <2>3, <2>4
<1>10. ASSUME NEW c \in Calls, PushToRunner(c) PROVE [SQ!Next]_(SQ!vars)
  <2> DEFINE j == next[c]
  <2>1. j \in Jobs /\ at[j] = "popped" /\ at' = [at EXCEPT ![j] = "ready"] /\ UNCHANGED <<pending, userRef, runnerAlive>>
    BY <1>0, <1>10 DEF PushToRunner, IInv, NextInv, TypeOK
  <2> HIDE DEF j
  <2>2. Front' = Front /\ Active' = Active /\ Seen' = Seen
    BY <1>0, <2>1 DEF Front, Active, Seen, TypeOK
  <2>3. Waiting' = Waiting
    BY <2>1, <2>2 DEF Waiting
  <2> QED BY <1>1, <2>1, <2>2, <2>3
<1>11. ASSUME NEW c \in Calls, DropNext(c) PROVE SQ!Discard
  <2>1. next[c] \in Jobs /\ at[next[c]] = "popped"
    BY <1>0, <1>11 DEF DropNext, IInv, NextInv, TypeOK
  <2> QED BY <1>7, <1>11, <2>1 DEF DropNext
<1>12. ASSUME NEW j \in Jobs, DestroyReady(j) PROVE SQ!Discard
  BY <1>7, <1>12 DEF DestroyReady
<1>13. CASE ExpireRunner \/ DropStrand
  <2>1. UNCHANGED <<at, pending>>
    BY <1>13 DEF ExpireRunner, DropStrand
  <2>2. UNCHANGED <<Waiting, Active, Seen>>
    BY <2>1, StutterFacts
  <2>3. O' = FALSE
    BY <1>13 DEF ExpireRunner, DropStrand
  <2> QED BY <2>2, <2>3 DEF SQ!Next, SQ!Close, SQ!vars, Active, Seen
<1>14. ASSUME NEW j \in Jobs, TryLock(j) \/ TryRefuse(j) \/ GiveUp(j)
       PROVE  [SQ!Next]_(SQ!vars)
  BY <1>2, <1>14 DEF TryLock, TryRefuse, GiveUp
<1>15. ASSUME NEW c \in Calls, Acquire(c) \/ Skip(c) \/ Clear(c)
       PROVE  [SQ!Next]_(SQ!vars)
  BY <1>2, <1>15 DEF Acquire, Skip, Clear
<1>16. CASE StopWorkers \/ UNCHANGED vars
  BY <1>2, <1>16 DEF StopWorkers, vars
<1> QED
  BY <1>3, <1>4, <1>5, <1>6, <1>8, <1>9, <1>10, <1>11, <1>12, <1>13, <1>14, <1>15, <1>16
  DEF Next, TryStep, CallStep, SQ!Next

(* The strand keeps the promise of SerialQueue: its users see a queue that *)
(* begins their jobs one at a time in the order of their submission.       *)
THEOREM Refinement == Spec => ImplementsSerialQueue
<1> QED BY InitRefines, StepRefines, Invariance, PTL DEF Spec, ImplementsSerialQueue, SQ!Spec

=============================================================================
