--------------------------- MODULE JobRunnerProofs ---------------------------
(***************************************************************************)
(* Theorems about JobRunner, for any number of workers, adders and jobs:   *)
(* stealing neither loses nor duplicates a job, the counter of active      *)
(* workers is right until a worker is shut down, and stopping is final.    *)
(*                                                                         *)
(* Every job has one place (Places), which a worker that takes or steals   *)
(* it changes in one step.  A worker that has seen its shutdown flag is on *)
(* its way out; one that set out to find a job before may begin that one   *)
(* (Late), and those that have been joined have left (Leaving).            *)
(*                                                                         *)
(* The second half is about JobLockQueue, which is shown to implement      *)
(* FifoQueue.                                                              *)
(***************************************************************************)
EXTENDS JobRunner, JobLockQueue, FiniteSetTheorems, WellFoundedInduction, TLAPS

\* What each worker has in hand, and when it may leave.
Stations ==
  /\ \A w \in Workers : job[w] # NoJob <=> pc[w] = "run"
  /\ \A w \in Workers : pc[w] = "steal" => tries[w] >= 1
  /\ \A w \in Workers : pc[w] \in {"exit", "exited"} => shutdown[w]
  /\ owner = "ctor" => \A w \in Workers : w >= index => pc[w] = "none"

\* Who has left when the owner joins, and afterwards.
Leaving ==
  /\ owner = "join" => \A w \in Workers : w < index => pc[w] = "exited"
  /\ owner = "gone" => \A w \in Workers : pc[w] = "exited"

\* A worker that has begun a job after its flag was set looks at the flag next.
Late ==
  \A w \in Workers :
    late[w] = 0 \/ (late[w] = 1 /\ shutdown[w] /\ pc[w] \in {"run", "loop", "exit", "exited"})

\* A job is in one place, and in a queue once.
InQueue(j, w) == j \in ToSet(queue[w])
WithAdder(j, a) == j \in ToSet(todo[a])
Queued ==
  /\ \A w \in Workers : IsInjective(queue[w])
  /\ \A a \in Adders : IsInjective(todo[a])
Somewhere ==
  \A j \in Jobs : \/ \E w \in Workers : InQueue(j, w)
                  \/ \E w \in Workers : job[w] = j
                  \/ \E a \in Adders : WithAdder(j, a)
                  \/ j \in done
Alone ==
  \A j \in Jobs : /\ \A w, v \in Workers : InQueue(j, w) /\ InQueue(j, v) => w = v
                  /\ \A w, v \in Workers : job[w] = j /\ job[v] = j => w = v
                  /\ \A a, b \in Adders : WithAdder(j, a) /\ WithAdder(j, b) => a = b
Apart ==
  \A j \in Jobs : /\ \A w, v \in Workers : ~(InQueue(j, w) /\ job[v] = j)
                  /\ \A w \in Workers, a \in Adders : ~(InQueue(j, w) /\ WithAdder(j, a))
                  /\ \A w \in Workers, a \in Adders : ~(job[w] = j /\ WithAdder(j, a))
Over ==
  \A j \in done : /\ \A w \in Workers : ~InQueue(j, w) /\ job[w] # j
                  /\ \A a \in Adders : ~WithAdder(j, a)
Places == owner # "gone" => Queued /\ Somewhere /\ Alone /\ Apart /\ Over

IInv == TypeOK /\ Stations /\ Leaving /\ Late /\ Places /\ ActiveCountsAwake

-----------------------------------------------------------------------------
(* The oldest job of a queue is taken.                                     *)
LEMMA PopFacts ==
  ASSUME NEW s \in Seq(Jobs), s # <<>>
  PROVE  /\ Head(s) \in Jobs /\ Tail(s) \in Seq(Jobs) /\ Head(s) \in ToSet(s)
         /\ IsInjective(s) => IsInjective(Tail(s)) /\ ToSet(Tail(s)) = ToSet(s) \ {Head(s)}
<1>1. /\ Tail(s) \in Seq(Jobs) /\ Len(Tail(s)) = Len(s) - 1 /\ Len(s) \in Nat \ {0} /\ Head(s) = s[1] /\ Head(s) \in Jobs
      /\ \A k \in 1 .. Len(s) - 1 : Tail(s)[k] = s[k + 1]
  OBVIOUS
<1>2. DOMAIN s = 1 .. Len(s) /\ DOMAIN Tail(s) = 1 .. Len(s) - 1
  BY <1>1
<1>3. Head(s) \in ToSet(s)
  BY <1>1, <1>2 DEF ToSet
<1>4. ASSUME IsInjective(s) PROVE IsInjective(Tail(s)) /\ ToSet(Tail(s)) = ToSet(s) \ {Head(s)}
  <2>1. IsInjective(Tail(s))
    BY <1>1, <1>2, <1>4 DEF IsInjective
  <2>2. ASSUME NEW k \in 1 .. Len(s), k # 1 PROVE s[k] \in ToSet(Tail(s))
    <3>1. k - 1 \in DOMAIN Tail(s) /\ Tail(s)[k - 1] = s[k]
      BY <1>1, <1>2, <2>2
    <3> QED BY <3>1 DEF ToSet
  <2>3. ASSUME NEW k \in 1 .. Len(s) - 1 PROVE Tail(s)[k] \in ToSet(s) /\ Tail(s)[k] # Head(s)
    BY <1>1, <1>2, <1>4 DEF IsInjective, ToSet
  <2> QED BY <1>1, <1>2, <2>1, <2>2, <2>3 DEF ToSet
<1> QED BY <1>1, <1>3, <1>4

(* A job is pushed that the queue does not hold.                           *)
LEMMA PushFacts ==
  ASSUME NEW s \in Seq(Jobs), NEW j \in Jobs
  PROVE  /\ Append(s, j) \in Seq(Jobs)
         /\ ToSet(Append(s, j)) = ToSet(s) \union {j}
         /\ IsInjective(s) /\ j \notin ToSet(s) => IsInjective(Append(s, j))
<1> DEFINE r == Append(s, j)
<1>1. /\ r \in Seq(Jobs) /\ Len(r) = Len(s) + 1 /\ Len(s) \in Nat
      /\ \A k \in 1 .. Len(s) : r[k] = s[k]
      /\ r[Len(s) + 1] = j
  OBVIOUS
<1> HIDE DEF r
<1>2. DOMAIN r = 1 .. Len(s) + 1 /\ DOMAIN s = 1 .. Len(s)
  BY <1>1
<1>3. ASSUME IsInjective(s), j \notin ToSet(s) PROVE IsInjective(r)
  <2>1. \A k \in 1 .. Len(s) : s[k] # j
    BY <1>2, <1>3 DEF ToSet
  <2> QED BY <1>1, <1>2, <1>3, <2>1 DEF IsInjective
<1>4. ToSet(r) = ToSet(s) \union {j}
  BY <1>1, <1>2 DEF ToSet
<1> QED BY <1>1, <1>3, <1>4 DEF r

(* How the counters and indices wrap around.                               *)
LEMMA Modulo ==
  ASSUME NEW n \in Nat \ {0}, NEW x \in Nat
  PROVE  x % n \in 0 .. n - 1 /\ (x < n => x % n = x /\ (x + n) % n = x)
OBVIOUS

(* The numbers of the configuration, and the indices worked out from them. *)
LEMMA Setting ==
  /\ ThreadNum \in Nat \ {0} /\ AlwaysActiveNum \in Nat
  /\ CounterSize \in Nat /\ CounterSize > ThreadNum
  /\ NoJob \notin Jobs
  /\ \A n \in Draw : InRange(n) \in Workers
  /\ \A i \in 0 .. ThreadNum : i < ThreadNum => i \in Workers /\ i + 1 \in 0 .. ThreadNum
  /\ \A w \in Workers : w \in Nat /\ w < ThreadNum
<1>1. /\ ThreadNum \in Nat \ {0} /\ AlwaysActiveNum \in Nat
      /\ CounterSize \in Nat \ {0} /\ CounterSize > ThreadNum
      /\ NoJob \notin Jobs
  BY RunnerAssumption
<1>2. \A n \in Draw : InRange(n) \in Workers
  BY <1>1, Modulo DEF Draw, InRange, Workers
<1> QED BY <1>1, <1>2 DEF Workers

(* The indices and the counter stay in range.                              *)
LEMMA Ranges ==
  /\ \A w \in Workers : (w + 1) % ThreadNum \in Workers
  /\ \A x \in 0 .. CounterSize - 1 :
       (x + 1) % CounterSize \in 0 .. CounterSize - 1 /\ (x + CounterSize - 1) % CounterSize \in 0 .. CounterSize - 1
<1>1. \A x \in Nat : x % ThreadNum \in 0 .. ThreadNum - 1 /\ x % CounterSize \in 0 .. CounterSize - 1
  BY Setting, Modulo
<1>2. \A w \in Workers : (w + 1) % ThreadNum \in Workers
  BY <1>1, Setting DEF Workers
<1>3. ASSUME NEW x \in 0 .. CounterSize - 1
      PROVE  (x + 1) % CounterSize \in 0 .. CounterSize - 1 /\ (x + CounterSize - 1) % CounterSize \in 0 .. CounterSize - 1
  <2>1. x + 1 \in Nat /\ x + CounterSize - 1 \in Nat
    BY Setting
  <2> QED BY <1>1, <2>1
<1> QED BY <1>2, <1>3

(* Every variable keeps its type.                                          *)
LEMMA TypeOKStep == IInv /\ [Next]_vars => TypeOK'
<1> SUFFICES ASSUME IInv, [Next]_vars
             PROVE  TypeOK'
  OBVIOUS
<1> USE Setting DEF IInv, TypeOK, Stages, Phases, Goto, workerVars, addVars, ownerVars
<1>1. ASSUME NEW a \in Adders, BeginAdd(a) PROVE TypeOK'
  BY <1>1 DEF BeginAdd
<1>2. ASSUME NEW a \in Adders, PushOne(a) PROVE TypeOK'
  <2>1. /\ target[a] \in Workers /\ queue[target[a]] \in Seq(Jobs) /\ todo[a] \in Seq(Jobs)
        /\ Head(todo[a]) \in Jobs /\ Tail(todo[a]) \in Seq(Jobs)
    BY <1>2, PopFacts DEF PushOne
  <2>2. Append(queue[target[a]], Head(todo[a])) \in Seq(Jobs)
    BY <2>1
  <2>3. queue' \in [Workers -> Seq(Jobs)] /\ todo' \in [Adders -> Seq(Jobs)]
    BY <1>2, <2>1, <2>2 DEF PushOne
  <2> QED BY <1>2, <2>3 DEF PushOne
<1>3. ASSUME NEW a \in Adders, NotifyAdded(a) PROVE TypeOK'
  BY <1>3 DEF NotifyAdded, Notified
<1>3a. ASSUME NEW a \in Adders, AddReturns(a) PROVE TypeOK'
  BY <1>3a DEF AddReturns, NotifyOneWorker, Notified
<1>4. ASSUME NEW w \in Workers, StartWorker(w) PROVE TypeOK'
  BY <1>4, Ranges DEF StartWorker, FetchAdd
<1>5. ASSUME NEW w \in Workers, CheckShutdown(w) PROVE TypeOK'
  BY <1>5 DEF CheckShutdown
<1>6. ASSUME NEW w \in Workers, TakeOwn(w) PROVE TypeOK'
  <2>1. /\ queue[w] \in Seq(Jobs) /\ Head(queue[w]) \in Jobs /\ Tail(queue[w]) \in Seq(Jobs)
    BY <1>6, PopFacts DEF TakeOwn, Consume
  <2>2. queue' \in [Workers -> Seq(Jobs)] /\ job' \in [Workers -> Jobs \union {NoJob}]
    BY <1>6, <2>1 DEF TakeOwn, Consume
  <2>3. late' = [late EXCEPT ![w] = IF shutdown[w] THEN late[w] + 1 ELSE late[w]] /\ pc' = [pc EXCEPT ![w] = "run"]
    BY <1>6 DEF TakeOwn, Consume
  <2>4. late' \in [Workers -> Nat]
    BY <2>3
  <2>5. pc' \in [Workers -> Stages]
    BY <2>3
  <2> QED BY <1>6, <2>2, <2>4, <2>5 DEF TakeOwn
<1>7. ASSUME NEW w \in Workers, OwnEmpty(w) PROVE TypeOK'
  <2>1. CASE ready
    <3>1. PICK n \in Draw : victim' = [victim EXCEPT ![w] = InRange(n)]
      BY <1>7, <2>1 DEF OwnEmpty
    <3>2. victim' \in [Workers -> Workers]
      BY <3>1
    <3>3. tries' = [tries EXCEPT ![w] = ThreadNum] /\ pc' = [pc EXCEPT ![w] = "steal"]
      BY <1>7, <2>1 DEF OwnEmpty
    <3>4. tries' \in [Workers -> 0 .. ThreadNum]
      BY <3>3
    <3>5. pc' \in [Workers -> Stages]
      BY <3>3
    <3> QED BY <1>7, <3>2, <3>4, <3>5 DEF OwnEmpty
  <2>2. CASE ~ready
    BY <1>7, <2>2 DEF OwnEmpty
  <2> QED BY <2>1, <2>2
<1>8. ASSUME NEW w \in Workers, StealOne(w) PROVE TypeOK'
  <2>1. /\ victim[w] \in Workers /\ queue[victim[w]] \in Seq(Jobs)
        /\ Head(queue[victim[w]]) \in Jobs /\ Tail(queue[victim[w]]) \in Seq(Jobs)
    BY <1>8, PopFacts DEF StealOne, Consume
  <2>2. queue' \in [Workers -> Seq(Jobs)] /\ job' \in [Workers -> Jobs \union {NoJob}]
    BY <1>8, <2>1 DEF StealOne, Consume
  <2>3. victim' \in [Workers -> Workers] /\ tries' \in [Workers -> 0 .. ThreadNum]
    BY <1>8 DEF StealOne, LeaveSteal
  <2>4. late' = [late EXCEPT ![w] = IF shutdown[w] THEN late[w] + 1 ELSE late[w]] /\ pc' = [pc EXCEPT ![w] = "run"]
    BY <1>8 DEF StealOne, Consume
  <2>5. late' \in [Workers -> Nat]
    BY <2>4
  <2>6. pc' \in [Workers -> Stages]
    BY <2>4
  <2> QED BY <1>8, <2>2, <2>3, <2>5, <2>6 DEF StealOne
<1>9. ASSUME NEW w \in Workers, StealNext(w) PROVE TypeOK'
  <2>1. victim[w] \in Workers /\ (victim[w] + 1) % ThreadNum \in Workers
    BY Ranges
  <2>2. tries[w] - 1 \in 0 .. ThreadNum
    BY <1>9 DEF Stations, StealNext
  <2>3. CASE tries[w] = 1
    <3>1. /\ victim' = [victim EXCEPT ![w] = w] /\ tries' = [tries EXCEPT ![w] = 0]
          /\ pc' = [pc EXCEPT ![w] = "idle"]
      BY <1>9, <2>3 DEF StealNext, LeaveSteal
    <3>2. victim' \in [Workers -> Workers]
      BY <3>1
    <3>3. tries' \in [Workers -> 0 .. ThreadNum]
      BY <3>1
    <3>4. pc' \in [Workers -> Stages]
      BY <3>1
    <3> QED BY <1>9, <3>2, <3>3, <3>4 DEF StealNext
  <2>4. CASE tries[w] # 1
    <3>1. victim' \in [Workers -> Workers]
      <4>1. victim' = [victim EXCEPT ![w] = (victim[w] + 1) % ThreadNum]
        BY <1>9, <2>4 DEF StealNext
      <4>2. victim \in [Workers -> Workers]
        OBVIOUS
      <4> QED BY ONLY <2>1, <4>1, <4>2
    <3>2. tries' \in [Workers -> 0 .. ThreadNum]
      BY <1>9, <2>2, <2>4 DEF StealNext
    <3> QED BY <1>9, <2>4, <3>1, <3>2 DEF StealNext
  <2> QED BY <2>3, <2>4
<1>10. ASSUME NEW w \in Workers, JobReturns(w) PROVE TypeOK'
  BY <1>10 DEF Stations, JobReturns
<1>11. ASSUME NEW w \in Workers, Spin(w) PROVE TypeOK'
  BY <1>11 DEF Spin
<1>12. ASSUME NEW w \in Workers, BecomeInactive(w) PROVE TypeOK'
  BY <1>12, Ranges DEF BecomeInactive, FetchSub
<1>13. ASSUME NEW w \in Workers, LockAndWait(w) PROVE TypeOK'
  BY <1>13 DEF LockAndWait
<1>14. ASSUME NEW w \in Workers, BecomeActive(w) PROVE TypeOK'
  BY <1>14, Ranges DEF BecomeActive, FetchAdd
<1>15. ASSUME NEW w \in Workers, WaitTimeout(w) PROVE TypeOK'
  BY <1>15 DEF WaitTimeout
<1>16. ASSUME NEW w \in Workers, ExitLoop(w) PROVE TypeOK'
  BY <1>16, Ranges DEF ExitLoop, FetchSub
<1>17. ASSUME Construct PROVE TypeOK'
  BY <1>17 DEF Construct
<1>18. ASSUME StopOne PROVE TypeOK'
  BY <1>18 DEF StopOne, Notified
<1>19. ASSUME AllStopped PROVE TypeOK'
  BY <1>19 DEF AllStopped
<1>20. ASSUME JoinOne PROVE TypeOK'
  BY <1>20 DEF JoinOne
<1>21. ASSUME DestroyWorkers PROVE TypeOK'
  BY <1>21 DEF DestroyWorkers
<1>22. ASSUME CallStop PROVE TypeOK'
  BY <1>22 DEF CallStop
<1>23. ASSUME Destroy PROVE TypeOK'
  <2>1. index' = 0 /\ owner' = "dtor" /\ ready' = FALSE
    BY <1>23 DEF Destroy
  <2>2. index' \in 0 .. ThreadNum
    BY <2>1
  <2>3. owner' \in Phases /\ ready' \in BOOLEAN
    BY <2>1
  <2> QED BY <1>23, <2>2, <2>3 DEF Destroy
<1>24. ASSUME UNCHANGED vars PROVE TypeOK'
  BY <1>24 DEF vars
<1> QED
  BY <1>1, <1>2, <1>3, <1>4, <1>5, <1>6, <1>7, <1>8, <1>9, <1>10, <1>11, <1>12, <1>13, <1>14, <1>15, <1>16, <1>17, <1>18, <1>19, <1>20, <1>21, <1>22, <1>23, <1>24, <1>3a
     DEF Next, AddStep, SearchStep, SleepStep, OwnerLoop

(* What a worker has in hand.                                              *)
LEMMA StationsStep == IInv /\ [Next]_vars => Stations'
<1> SUFFICES ASSUME IInv, [Next]_vars
             PROVE  Stations'
  OBVIOUS
<1> USE DEF IInv, TypeOK, Stages, Phases, Goto, workerVars, addVars, ownerVars, Stations
<1>1. ASSUME NEW a \in Adders, BeginAdd(a) PROVE Stations'
  BY <1>1 DEF BeginAdd
<1>2. ASSUME NEW a \in Adders, PushOne(a) PROVE Stations'
  BY <1>2 DEF PushOne
<1>3. ASSUME NEW a \in Adders, NotifyAdded(a) PROVE Stations'
  BY <1>3 DEF NotifyAdded, Notified
<1>3a. ASSUME NEW a \in Adders, AddReturns(a) PROVE Stations'
  BY <1>3a DEF AddReturns, NotifyOneWorker, Notified
<1>4. ASSUME NEW w \in Workers, StartWorker(w) PROVE Stations'
  BY <1>4 DEF StartWorker, FetchAdd
<1>5. ASSUME NEW w \in Workers, CheckShutdown(w) PROVE Stations'
  BY <1>5 DEF CheckShutdown
<1>6. ASSUME NEW w \in Workers, TakeOwn(w) PROVE Stations'
  <2>1. \A v \in Workers : v # w => pc'[v] = pc[v] /\ job'[v] = job[v]
    BY <1>6 DEF TakeOwn, Consume
  <2>2. pc'[w] = "run" /\ job'[w] = Head(queue[w]) /\ job'[w] # NoJob
    <3>1. queue[w] \in Seq(Jobs) /\ Head(queue[w]) \in Jobs
      BY <1>6, PopFacts DEF TakeOwn, Consume
    <3> QED BY <1>6, <3>1, Setting DEF TakeOwn, Consume
  <2>3. pc[w] = "own" /\ shutdown' = shutdown /\ owner' = owner /\ index' = index
    BY <1>6 DEF TakeOwn
  <2>4. \A v \in Workers : job'[v] # NoJob <=> pc'[v] = "run"
    BY <2>1, <2>2
  <2>5. \A v \in Workers : pc'[v] = "steal" => tries'[v] >= 1
    BY <1>6, <2>2 DEF TakeOwn, Consume
  <2>6. \A v \in Workers : pc'[v] \in {"exit", "exited"} => shutdown'[v]
    BY <2>1, <2>2, <2>3
  <2>7. owner' = "ctor" => \A v \in Workers : v >= index' => pc'[v] = "none"
    BY <2>1, <2>2, <2>3
  <2> QED BY <2>4, <2>5, <2>6, <2>7
<1>7. ASSUME NEW w \in Workers, OwnEmpty(w) PROVE Stations'
  <2>1. \A v \in Workers : v # w => pc'[v] = pc[v] /\ tries'[v] = tries[v]
    BY <1>7 DEF OwnEmpty
  <2>2. pc'[w] = "idle" \/ (pc'[w] = "steal" /\ tries'[w] = ThreadNum)
    BY <1>7 DEF OwnEmpty
  <2>3. pc[w] = "own" /\ job' = job /\ shutdown' = shutdown /\ owner' = owner /\ index' = index
    BY <1>7 DEF OwnEmpty
  <2>4. \A v \in Workers : job'[v] # NoJob <=> pc'[v] = "run"
    BY <2>1, <2>2, <2>3
  <2>5. ASSUME NEW v \in Workers, pc'[v] = "steal" PROVE tries'[v] >= 1
    <3>1. CASE v = w
      BY <2>2, <2>5, <3>1, Setting
    <3>2. CASE v # w
      BY <2>1, <2>5, <3>2
    <3> QED BY <3>1, <3>2
  <2>6. \A v \in Workers : pc'[v] \in {"exit", "exited"} => shutdown'[v]
    BY <2>1, <2>2, <2>3
  <2>7. owner' = "ctor" => \A v \in Workers : v >= index' => pc'[v] = "none"
    BY <2>1, <2>3
  <2> QED BY <2>4, <2>5, <2>6, <2>7
<1>8. ASSUME NEW w \in Workers, StealOne(w) PROVE Stations'
  <2>1. \A v \in Workers : v # w => pc'[v] = pc[v] /\ job'[v] = job[v]
    BY <1>8 DEF StealOne, Consume
  <2>2. pc'[w] = "run" /\ job'[w] = Head(queue[victim[w]]) /\ job'[w] # NoJob
    <3>1. queue[victim[w]] \in Seq(Jobs) /\ Head(queue[victim[w]]) \in Jobs
      BY <1>8, PopFacts DEF StealOne, Consume
    <3> QED BY <1>8, <3>1, Setting DEF StealOne, Consume
  <2>3. pc[w] = "steal" /\ shutdown' = shutdown /\ owner' = owner /\ index' = index
    BY <1>8 DEF StealOne
  <2>4. \A v \in Workers : job'[v] # NoJob <=> pc'[v] = "run"
    BY <2>1, <2>2
  <2>5. \A v \in Workers : pc'[v] = "steal" => tries'[v] >= 1
    BY <1>8, <2>2 DEF StealOne, Consume, LeaveSteal
  <2>6. \A v \in Workers : pc'[v] \in {"exit", "exited"} => shutdown'[v]
    BY <2>1, <2>2, <2>3
  <2>7. owner' = "ctor" => \A v \in Workers : v >= index' => pc'[v] = "none"
    BY <2>1, <2>2, <2>3
  <2> QED BY <2>4, <2>5, <2>6, <2>7
<1>9. ASSUME NEW w \in Workers, StealNext(w) PROVE Stations'
  <2>1. \A v \in Workers : v # w => pc'[v] = pc[v] /\ tries'[v] = tries[v]
    BY <1>9 DEF StealNext, LeaveSteal
  <2>2. pc'[w] = "idle" \/ (pc'[w] = "steal" /\ tries'[w] = tries[w] - 1 /\ tries[w] # 1)
    BY <1>9 DEF StealNext, LeaveSteal
  <2>3. pc[w] = "steal" /\ job' = job /\ shutdown' = shutdown /\ owner' = owner /\ index' = index
    BY <1>9 DEF StealNext
  <2>4. \A v \in Workers : job'[v] # NoJob <=> pc'[v] = "run"
    BY <2>1, <2>2, <2>3
  <2>5. ASSUME NEW v \in Workers, pc'[v] = "steal" PROVE tries'[v] >= 1
    <3>1. CASE v = w
      <4>1. tries[w] \in Nat /\ tries[w] >= 1
        BY <2>3
      <4>2. tries'[w] = tries[w] - 1 /\ tries[w] # 1
        BY <2>2, <2>5, <3>1
      <4>3. tries[w] - 1 >= 1
        BY ONLY <4>1, <4>2
      <4> QED BY ONLY <3>1, <4>2, <4>3
    <3>2. CASE v # w
      BY <2>1, <2>5, <3>2
    <3> QED BY <3>1, <3>2
  <2>6. \A v \in Workers : pc'[v] \in {"exit", "exited"} => shutdown'[v]
    BY <2>1, <2>2, <2>3
  <2>7. owner' = "ctor" => \A v \in Workers : v >= index' => pc'[v] = "none"
    BY <2>1, <2>3
  <2> QED BY <2>4, <2>5, <2>6, <2>7
<1>10. ASSUME NEW w \in Workers, JobReturns(w) PROVE Stations'
  BY <1>10 DEF JobReturns
<1>11. ASSUME NEW w \in Workers, Spin(w) PROVE Stations'
  BY <1>11 DEF Spin
<1>12. ASSUME NEW w \in Workers, BecomeInactive(w) PROVE Stations'
  BY <1>12 DEF BecomeInactive, FetchSub
<1>13. ASSUME NEW w \in Workers, LockAndWait(w) PROVE Stations'
  BY <1>13 DEF LockAndWait
<1>14. ASSUME NEW w \in Workers, BecomeActive(w) PROVE Stations'
  BY <1>14 DEF BecomeActive, FetchAdd
<1>15. ASSUME NEW w \in Workers, WaitTimeout(w) PROVE Stations'
  BY <1>15 DEF WaitTimeout
<1>16. ASSUME NEW w \in Workers, ExitLoop(w) PROVE Stations'
  BY <1>16 DEF ExitLoop, FetchSub
<1>17. ASSUME Construct PROVE Stations'
  <2>1. CASE index < ThreadNum
    <3>1. index \in Workers /\ owner = "ctor" /\ pc[index] = "none"
      BY <1>17, <2>1, Setting DEF Construct
    <3>2. pc' = [pc EXCEPT ![index] = "start"] /\ index' = index + 1 /\ owner' = owner
      BY <1>17, <2>1 DEF Construct
    <3>3. job' = job /\ shutdown' = shutdown /\ tries' = tries
      BY <1>17, Setting DEF Construct
    <3>4. \A w \in Workers : w >= index + 1 => w >= index /\ w # index
      BY Setting
    <3> QED BY <3>1, <3>2, <3>3, <3>4
  <2>2. CASE ~(index < ThreadNum)
    BY <1>17, <2>2 DEF Construct
  <2> QED BY <2>1, <2>2
<1>18. ASSUME StopOne PROVE Stations'
  BY <1>18, Setting DEF StopOne, Notified
<1>19. ASSUME AllStopped PROVE Stations'
  BY <1>19, Setting DEF AllStopped
<1>20. ASSUME JoinOne PROVE Stations'
  BY <1>20, Setting DEF JoinOne
<1>21. ASSUME DestroyWorkers PROVE Stations'
  BY <1>21, Setting DEF DestroyWorkers
<1>22. ASSUME CallStop PROVE Stations'
  BY <1>22 DEF CallStop
<1>23. ASSUME Destroy PROVE Stations'
  BY <1>23 DEF Destroy
<1>24. ASSUME UNCHANGED vars PROVE Stations'
  BY <1>24 DEF vars
<1> QED
  BY <1>1, <1>2, <1>3, <1>4, <1>5, <1>6, <1>7, <1>8, <1>9, <1>10, <1>11, <1>12, <1>13, <1>14, <1>15, <1>16, <1>17, <1>18, <1>19, <1>20, <1>21, <1>22, <1>23, <1>24, <1>3a
     DEF Next, AddStep, SearchStep, SleepStep, OwnerLoop

(* Those that have been joined stay away.                                  *)
LEMMA LeavingStep == IInv /\ [Next]_vars => Leaving'
<1> SUFFICES ASSUME IInv, [Next]_vars
             PROVE  Leaving'
  OBVIOUS
<1> USE DEF IInv, TypeOK, Stages, Phases, Goto, workerVars, addVars, ownerVars, Stations, Leaving
<1>1. ASSUME NEW a \in Adders, BeginAdd(a) PROVE Leaving'
  BY <1>1 DEF BeginAdd
<1>2. ASSUME NEW a \in Adders, PushOne(a) PROVE Leaving'
  BY <1>2 DEF PushOne
<1>3. ASSUME NEW a \in Adders, NotifyAdded(a) PROVE Leaving'
  BY <1>3 DEF NotifyAdded, Notified
<1>3a. ASSUME NEW a \in Adders, AddReturns(a) PROVE Leaving'
  BY <1>3a DEF AddReturns, NotifyOneWorker, Notified
<1>4. ASSUME NEW w \in Workers, StartWorker(w) PROVE Leaving'
  BY <1>4 DEF StartWorker, FetchAdd
<1>5. ASSUME NEW w \in Workers, CheckShutdown(w) PROVE Leaving'
  BY <1>5 DEF CheckShutdown
<1>6. ASSUME NEW w \in Workers, TakeOwn(w) PROVE Leaving'
  BY <1>6 DEF TakeOwn, Consume
<1>7. ASSUME NEW w \in Workers, OwnEmpty(w) PROVE Leaving'
  <2>1. \A v \in Workers : v # w => pc'[v] = pc[v]
    BY <1>7 DEF OwnEmpty
  <2>2. pc[w] = "own" /\ owner' = owner /\ index' = index
    BY <1>7 DEF OwnEmpty
  <2> QED BY <2>1, <2>2
<1>8. ASSUME NEW w \in Workers, StealOne(w) PROVE Leaving'
  BY <1>8 DEF StealOne, Consume, LeaveSteal
<1>9. ASSUME NEW w \in Workers, StealNext(w) PROVE Leaving'
  BY <1>9 DEF StealNext, LeaveSteal
<1>10. ASSUME NEW w \in Workers, JobReturns(w) PROVE Leaving'
  BY <1>10 DEF JobReturns
<1>11. ASSUME NEW w \in Workers, Spin(w) PROVE Leaving'
  BY <1>11 DEF Spin
<1>12. ASSUME NEW w \in Workers, BecomeInactive(w) PROVE Leaving'
  BY <1>12 DEF BecomeInactive, FetchSub
<1>13. ASSUME NEW w \in Workers, LockAndWait(w) PROVE Leaving'
  BY <1>13 DEF LockAndWait
<1>14. ASSUME NEW w \in Workers, BecomeActive(w) PROVE Leaving'
  BY <1>14 DEF BecomeActive, FetchAdd
<1>15. ASSUME NEW w \in Workers, WaitTimeout(w) PROVE Leaving'
  BY <1>15 DEF WaitTimeout
<1>16. ASSUME NEW w \in Workers, ExitLoop(w) PROVE Leaving'
  BY <1>16 DEF ExitLoop, FetchSub
<1>17. ASSUME Construct PROVE Leaving'
  BY <1>17, Setting DEF Construct
<1>18. ASSUME StopOne PROVE Leaving'
  BY <1>18, Setting DEF StopOne, Notified
<1>19. ASSUME AllStopped PROVE Leaving'
  BY <1>19, Setting DEF AllStopped
<1>20. ASSUME JoinOne PROVE Leaving'
  BY <1>20, Setting DEF JoinOne
<1>21. ASSUME DestroyWorkers PROVE Leaving'
  BY <1>21, Setting DEF DestroyWorkers
<1>22. ASSUME CallStop PROVE Leaving'
  BY <1>22 DEF CallStop
<1>23. ASSUME Destroy PROVE Leaving'
  BY <1>23 DEF Destroy
<1>24. ASSUME UNCHANGED vars PROVE Leaving'
  BY <1>24 DEF vars
<1> QED
  BY <1>1, <1>2, <1>3, <1>4, <1>5, <1>6, <1>7, <1>8, <1>9, <1>10, <1>11, <1>12, <1>13, <1>14, <1>15, <1>16, <1>17, <1>18, <1>19, <1>20, <1>21, <1>22, <1>23, <1>24, <1>3a
     DEF Next, AddStep, SearchStep, SleepStep, OwnerLoop

(* One job more at most.                                                   *)
LEMMA LateStep == IInv /\ [Next]_vars => Late'
<1> SUFFICES ASSUME IInv, [Next]_vars
             PROVE  Late'
  OBVIOUS
<1> USE DEF IInv, TypeOK, Stages, Phases, Goto, workerVars, addVars, ownerVars, Stations, Late
<1>1. ASSUME NEW a \in Adders, BeginAdd(a) PROVE Late'
  BY <1>1 DEF BeginAdd
<1>2. ASSUME NEW a \in Adders, PushOne(a) PROVE Late'
  BY <1>2 DEF PushOne
<1>3. ASSUME NEW a \in Adders, NotifyAdded(a) PROVE Late'
  BY <1>3 DEF NotifyAdded, Notified
<1>3a. ASSUME NEW a \in Adders, AddReturns(a) PROVE Late'
  BY <1>3a DEF AddReturns, NotifyOneWorker, Notified
<1>4. ASSUME NEW w \in Workers, StartWorker(w) PROVE Late'
  BY <1>4 DEF StartWorker, FetchAdd
<1>5. ASSUME NEW w \in Workers, CheckShutdown(w) PROVE Late'
  BY <1>5 DEF CheckShutdown
<1>6. ASSUME NEW w \in Workers, TakeOwn(w) PROVE Late'
  <2>1. \A v \in Workers : v # w => pc'[v] = pc[v] /\ late'[v] = late[v]
    BY <1>6 DEF TakeOwn, Consume
  <2>2. pc[w] = "own" /\ pc'[w] = "run" /\ shutdown' = shutdown
    BY <1>6 DEF TakeOwn, Consume
  <2>3. late'[w] = IF shutdown[w] THEN late[w] + 1 ELSE late[w]
    BY <1>6 DEF TakeOwn, Consume
  <2> QED BY <2>1, <2>2, <2>3
<1>7. ASSUME NEW w \in Workers, OwnEmpty(w) PROVE Late'
  BY <1>7 DEF OwnEmpty
<1>8. ASSUME NEW w \in Workers, StealOne(w) PROVE Late'
  <2>1. \A v \in Workers : v # w => pc'[v] = pc[v] /\ late'[v] = late[v]
    BY <1>8 DEF StealOne, Consume
  <2>2. pc[w] = "steal" /\ pc'[w] = "run" /\ shutdown' = shutdown
    BY <1>8 DEF StealOne, Consume
  <2>3. late'[w] = IF shutdown[w] THEN late[w] + 1 ELSE late[w]
    BY <1>8 DEF StealOne, Consume
  <2> QED BY <2>1, <2>2, <2>3
<1>9. ASSUME NEW w \in Workers, StealNext(w) PROVE Late'
  BY <1>9 DEF StealNext, LeaveSteal
<1>10. ASSUME NEW w \in Workers, JobReturns(w) PROVE Late'
  BY <1>10 DEF JobReturns
<1>11. ASSUME NEW w \in Workers, Spin(w) PROVE Late'
  BY <1>11 DEF Spin
<1>12. ASSUME NEW w \in Workers, BecomeInactive(w) PROVE Late'
  BY <1>12 DEF BecomeInactive, FetchSub
<1>13. ASSUME NEW w \in Workers, LockAndWait(w) PROVE Late'
  BY <1>13 DEF LockAndWait
<1>14. ASSUME NEW w \in Workers, BecomeActive(w) PROVE Late'
  BY <1>14 DEF BecomeActive, FetchAdd
<1>15. ASSUME NEW w \in Workers, WaitTimeout(w) PROVE Late'
  BY <1>15 DEF WaitTimeout
<1>16. ASSUME NEW w \in Workers, ExitLoop(w) PROVE Late'
  BY <1>16 DEF ExitLoop, FetchSub
<1>17. ASSUME Construct PROVE Late'
  <2>1. CASE index < ThreadNum
    <3>1. index \in Workers /\ owner = "ctor" /\ pc[index] = "none"
      BY <1>17, <2>1, Setting DEF Construct
    <3>2. \A w \in Workers : w # index => pc'[w] = pc[w]
      BY <1>17, <2>1 DEF Construct
    <3>3. shutdown' = shutdown /\ late' = late
      BY <1>17, Setting DEF Construct
    <3> QED BY <3>1, <3>2, <3>3
  <2>2. CASE ~(index < ThreadNum)
    BY <1>17, <2>2 DEF Construct
  <2> QED BY <2>1, <2>2
<1>18. ASSUME StopOne PROVE Late'
  BY <1>18, Setting DEF StopOne, Notified
<1>19. ASSUME AllStopped PROVE Late'
  BY <1>19, Setting DEF AllStopped
<1>20. ASSUME JoinOne PROVE Late'
  BY <1>20, Setting DEF JoinOne
<1>21. ASSUME DestroyWorkers PROVE Late'
  BY <1>21, Setting DEF DestroyWorkers
<1>22. ASSUME CallStop PROVE Late'
  BY <1>22 DEF CallStop
<1>23. ASSUME Destroy PROVE Late'
  BY <1>23 DEF Destroy
<1>24. ASSUME UNCHANGED vars PROVE Late'
  BY <1>24 DEF vars
<1> QED
  BY <1>1, <1>2, <1>3, <1>4, <1>5, <1>6, <1>7, <1>8, <1>9, <1>10, <1>11, <1>12, <1>13, <1>14, <1>15, <1>16, <1>17, <1>18, <1>19, <1>20, <1>21, <1>22, <1>23, <1>24, <1>3a
     DEF Next, AddStep, SearchStep, SleepStep, OwnerLoop

(* Where jobs are changes when one is pushed, taken, stolen or done, and   *)
(* when the runner is destroyed.                                           *)
LEMMA Moves ==
  ASSUME [Next]_vars
  PROVE  \/ \E a \in Adders : PushOne(a)
         \/ \E w \in Workers : TakeOwn(w) \/ StealOne(w) \/ JobReturns(w)
         \/ owner' = "gone"
         \/ UNCHANGED <<queue, job, todo, done>> /\ owner # "gone"
         \/ UNCHANGED <<queue, job, todo, done, owner>>
<1>1. ASSUME NEW a \in Adders, AddStep(a) PROVE PushOne(a) \/ UNCHANGED <<queue, job, todo, done, owner>>
  BY <1>1 DEF AddStep, BeginAdd, NotifyAdded, AddReturns, ownerVars, workerVars
<1>2. ASSUME NEW w \in Workers,
             StartWorker(w) \/ Spin(w) \/ BecomeInactive(w) \/ SleepStep(w) \/ WaitTimeout(w) \/ ExitLoop(w)
      PROVE  UNCHANGED <<queue, job, todo, done, owner>>
  BY <1>2 DEF StartWorker, Spin, BecomeInactive, SleepStep, LockAndWait, BecomeActive, WaitTimeout,
              ExitLoop, addVars, ownerVars
<1>3. ASSUME NEW w \in Workers, SearchStep(w)
      PROVE  TakeOwn(w) \/ StealOne(w) \/ UNCHANGED <<queue, job, todo, done, owner>>
  BY <1>3 DEF SearchStep, CheckShutdown, OwnEmpty, StealNext, addVars, ownerVars
<1>4. ASSUME OwnerLoop \/ CallStop \/ Destroy
      PROVE  \/ owner' = "gone"
             \/ UNCHANGED <<queue, job, todo, done>> /\ owner # "gone"
  BY <1>4 DEF OwnerLoop, Construct, StopOne, AllStopped, JoinOne, DestroyWorkers, CallStop, Destroy,
              workerVars, addVars
<1>5. ASSUME UNCHANGED vars PROVE UNCHANGED <<queue, job, todo, done, owner>>
  BY <1>5 DEF vars, workerVars, addVars, ownerVars
<1> QED BY <1>1, <1>2, <1>3, <1>4, <1>5 DEF Next

(* A worker that takes a job, from its queue or another's, moves it.       *)
LEMMA TakeStep ==
  ASSUME NEW w \in Workers, NEW v \in Workers, TypeOK, Places, owner # "gone",
         job[w] = NoJob, Consume(w, v), UNCHANGED <<todo, done>>
  PROVE  Places'
<1> DEFINE j0 == Head(queue[v])
<1>1. /\ queue[v] \in Seq(Jobs) /\ queue[v] # <<>> /\ j0 \in ToSet(queue[v]) /\ j0 \in Jobs
      /\ IsInjective(queue[v])
      /\ IsInjective(Tail(queue[v])) /\ ToSet(Tail(queue[v])) = ToSet(queue[v]) \ {j0}
  BY PopFacts DEF TypeOK, Places, Queued, Consume
<1>2. /\ queue' = [queue EXCEPT ![v] = Tail(queue[v])] /\ job' = [job EXCEPT ![w] = j0]
      /\ queue \in [Workers -> Seq(Jobs)] /\ job \in [Workers -> Jobs \union {NoJob}] /\ done \subseteq Jobs
  BY DEF TypeOK, Consume
<1>3. NoJob \notin Jobs
  BY Setting
<1> HIDE DEF j0
<1>4. \A u \in Workers : u # v => queue'[u] = queue[u]
  BY <1>2
<1>5. queue'[v] = Tail(queue[v])
  BY <1>2
<1>6. \A j \in Jobs, u \in Workers : j \in ToSet(queue'[u]) <=> j \in ToSet(queue[u]) /\ ~(u = v /\ j = j0)
  BY <1>1, <1>4, <1>5
<1>7. \A u \in Workers : job'[u] = IF u = w THEN j0 ELSE job[u]
  BY <1>2
<1>8. /\ \A j \in Jobs, u \in Workers : InQueue(j, u)' <=> InQueue(j, u) /\ ~(u = v /\ j = j0)
      /\ \A j \in Jobs, a \in Adders : WithAdder(j, a)' <=> WithAdder(j, a)
      /\ InQueue(j0, v) /\ done' = done /\ done \subseteq Jobs /\ j0 \in Jobs
  BY <1>1, <1>2, <1>6 DEF InQueue, WithAdder
<1>9. \A j \in Jobs, u \in Workers : job'[u] = j <=> job[u] = j \/ (u = w /\ j = j0)
  BY <1>3, <1>7
<1>10. Queued'
  BY <1>1, <1>4, <1>5 DEF Places, Queued
<1>11. Somewhere'
  <2> SUFFICES ASSUME NEW j \in Jobs
               PROVE  \/ \E u \in Workers : InQueue(j, u)'
                      \/ \E u \in Workers : job'[u] = j
                      \/ \E a \in Adders : WithAdder(j, a)'
                      \/ j \in done'
    BY DEF Somewhere
  <2> QED BY <1>8, <1>9 DEF Places, Somewhere
<1>12. Alone'
  BY ONLY <1>8, <1>9, Places, owner # "gone" DEF Places, Alone, Apart
<1>13. Apart'
  BY ONLY <1>8, <1>9, Places, owner # "gone" DEF Places, Alone, Apart
<1>14. Over'
  BY ONLY <1>8, <1>9, Places, owner # "gone" DEF Places, Over
<1> QED BY <1>10, <1>11, <1>12, <1>13, <1>14 DEF Places

(* A job that is pushed goes from its adder into a queue.                  *)
LEMMA PushStep ==
  ASSUME NEW a \in Adders, TypeOK, Places, owner # "gone", PushOne(a)
  PROVE  Places'
<1> DEFINE j0 == Head(todo[a])
           t == target[a]
<1>1. /\ todo[a] \in Seq(Jobs) /\ todo[a] # <<>> /\ j0 \in ToSet(todo[a]) /\ j0 \in Jobs
      /\ IsInjective(Tail(todo[a])) /\ ToSet(Tail(todo[a])) = ToSet(todo[a]) \ {j0}
  BY PopFacts DEF TypeOK, Places, Queued, PushOne
<1>2. /\ t \in Workers /\ queue[t] \in Seq(Jobs)
      /\ ToSet(Append(queue[t], j0)) = ToSet(queue[t]) \union {j0}
      /\ IsInjective(queue[t]) /\ j0 \notin ToSet(queue[t]) => IsInjective(Append(queue[t], j0))
  <2>1. t \in Workers /\ queue[t] \in Seq(Jobs)
    BY DEF TypeOK, PushOne
  <2> QED BY <1>1, <2>1, PushFacts
<1>3. /\ queue' = [queue EXCEPT ![t] = Append(queue[t], j0)]
      /\ todo' = [todo EXCEPT ![a] = Tail(todo[a])]
      /\ job' = job /\ done' = done
      /\ queue \in [Workers -> Seq(Jobs)] /\ todo \in [Adders -> Seq(Jobs)] /\ done \subseteq Jobs
  BY DEF TypeOK, PushOne, workerVars
<1> HIDE DEF j0, t
<1>4. /\ \A u \in Workers : u # t => queue'[u] = queue[u]
      /\ queue'[t] = Append(queue[t], j0)
  BY <1>2, <1>3
<1>5. /\ \A b \in Adders : b # a => todo'[b] = todo[b]
      /\ todo'[a] = Tail(todo[a])
  BY <1>3
<1>6. /\ \A j \in Jobs, u \in Workers : j \in ToSet(queue'[u]) <=> j \in ToSet(queue[u]) \/ (u = t /\ j = j0)
      /\ \A j \in Jobs, b \in Adders : j \in ToSet(todo'[b]) <=> j \in ToSet(todo[b]) /\ ~(b = a /\ j = j0)
  BY <1>1, <1>2, <1>4, <1>5
<1>7. /\ \A j \in Jobs, u \in Workers : InQueue(j, u)' <=> InQueue(j, u) \/ (u = t /\ j = j0)
      /\ \A j \in Jobs, b \in Adders : WithAdder(j, b)' <=> WithAdder(j, b) /\ ~(b = a /\ j = j0)
      /\ WithAdder(j0, a) /\ done' = done /\ done \subseteq Jobs /\ j0 \in Jobs /\ job' = job
      /\ t \in Workers /\ a \in Adders
  BY <1>1, <1>2, <1>3, <1>6 DEF InQueue, WithAdder
<1>8. Queued'
  <2>1. j0 \notin ToSet(queue[t])
    BY <1>7, <1>2 DEF Places, Apart, InQueue
  <2> QED BY <1>1, <1>2, <1>4, <1>5, <2>1 DEF Places, Queued
<1>9. Somewhere'
  <2> SUFFICES ASSUME NEW j \in Jobs
               PROVE  \/ \E u \in Workers : InQueue(j, u)'
                      \/ \E u \in Workers : job'[u] = j
                      \/ \E b \in Adders : WithAdder(j, b)'
                      \/ j \in done'
    BY DEF Somewhere
  <2> QED BY <1>7 DEF Places, Somewhere
<1>10. Alone'
  BY ONLY <1>7, Places, owner # "gone" DEF Places, Alone, Apart
<1>11. Apart'
  BY ONLY <1>7, Places, owner # "gone" DEF Places, Alone, Apart
<1>12. Over'
  BY ONLY <1>7, Places, owner # "gone" DEF Places, Over
<1> QED BY <1>8, <1>9, <1>10, <1>11, <1>12 DEF Places

(* A job that returns goes from its worker to those that are done.         *)
LEMMA ReturnStep ==
  ASSUME NEW w \in Workers, TypeOK, Places, owner # "gone", job[w] # NoJob, JobReturns(w)
  PROVE  Places'
<1> DEFINE j0 == job[w]
<1>1. /\ j0 \in Jobs /\ job' = [job EXCEPT ![w] = NoJob] /\ done' = done \union {j0}
      /\ queue' = queue /\ todo' = todo /\ done \subseteq Jobs
      /\ job \in [Workers -> Jobs \union {NoJob}]
  BY DEF TypeOK, JobReturns, addVars
<1>2. NoJob \notin Jobs
  BY Setting
<1> HIDE DEF j0
<1>3. \A j \in Jobs, u \in Workers : job'[u] = j <=> job[u] = j /\ u # w
  BY <1>1, <1>2
<1>4. /\ \A j \in Jobs, u \in Workers : InQueue(j, u)' <=> InQueue(j, u)
      /\ \A j \in Jobs, a \in Adders : WithAdder(j, a)' <=> WithAdder(j, a)
      /\ job[w] = j0 /\ w \in Workers /\ done \subseteq Jobs /\ done' = done \union {j0} /\ j0 \in Jobs
  BY <1>1 DEF InQueue, WithAdder, j0
<1>5. Queued'
  BY <1>1 DEF Places, Queued
<1>6. Somewhere'
  <2> SUFFICES ASSUME NEW j \in Jobs
               PROVE  \/ \E u \in Workers : InQueue(j, u)'
                      \/ \E u \in Workers : job'[u] = j
                      \/ \E a \in Adders : WithAdder(j, a)'
                      \/ j \in done'
    BY DEF Somewhere
  <2> QED BY <1>3, <1>4 DEF Places, Somewhere
<1>7. Alone'
  BY ONLY <1>3, <1>4, Places, owner # "gone" DEF Places, Alone, Apart
<1>8. Apart'
  BY ONLY <1>3, <1>4, Places, owner # "gone" DEF Places, Alone, Apart
<1>9. Over'
  BY ONLY <1>3, <1>4, Places, owner # "gone" DEF Places, Over, Alone, Apart
<1> QED BY <1>5, <1>6, <1>7, <1>8, <1>9 DEF Places

(* Every job keeps one place.                                              *)
LEMMA PlacesStep == IInv /\ [Next]_vars => Places'
<1> SUFFICES ASSUME IInv, [Next]_vars, owner' # "gone"
             PROVE  Places'
  BY DEF Places
<1>1. ASSUME NEW a \in Adders, PushOne(a) PROVE Places'
  <2>1. owner # "gone"
    BY <1>1 DEF PushOne, ownerVars
  <2> QED BY <1>1, <2>1, PushStep DEF IInv
<1>2. ASSUME NEW w \in Workers, TakeOwn(w) PROVE Places'
  <2>1. owner # "gone" /\ job[w] = NoJob
    BY <1>2 DEF IInv, Stations, TakeOwn, ownerVars
  <2>2. Consume(w, w) /\ UNCHANGED <<todo, done>>
    BY <1>2 DEF TakeOwn, addVars
  <2> QED BY <2>1, <2>2, TakeStep DEF IInv
<1>3. ASSUME NEW w \in Workers, StealOne(w) PROVE Places'
  <2>1. owner # "gone" /\ job[w] = NoJob /\ victim[w] \in Workers
    BY <1>3 DEF IInv, TypeOK, Stations, StealOne, ownerVars
  <2>2. Consume(w, victim[w]) /\ UNCHANGED <<todo, done>>
    BY <1>3 DEF StealOne, addVars
  <2> QED BY <2>1, <2>2, TakeStep DEF IInv
<1>4. ASSUME NEW w \in Workers, JobReturns(w) PROVE Places'
  <2>1. owner # "gone" /\ job[w] # NoJob
    BY <1>4 DEF IInv, Stations, JobReturns, ownerVars
  <2> QED BY <1>4, <2>1, ReturnStep DEF IInv
<1>5. ASSUME UNCHANGED <<queue, job, todo, done>>, owner # "gone" PROVE Places'
  BY <1>5 DEF IInv, Places, Queued, Somewhere, Alone, Apart, Over, InQueue, WithAdder
<1>6. ASSUME UNCHANGED <<queue, job, todo, done, owner>> PROVE Places'
  BY <1>6 DEF IInv, Places, Queued, Somewhere, Alone, Apart, Over, InQueue, WithAdder
<1> QED BY <1>1, <1>2, <1>3, <1>4, <1>5, <1>6, Moves

(* Those awake can be counted without the counter wrapping around.         *)
LEMMA AwakeFacts ==
  /\ IsFiniteSet(Awake) /\ Cardinality(Awake) \in Nat /\ Cardinality(Awake) < CounterSize
  /\ \A w \in Workers : w \notin Awake =>
       Cardinality(Awake \union {w}) = Cardinality(Awake) + 1 /\ Cardinality(Awake) + 1 < CounterSize
  /\ \A w \in Awake : Cardinality(Awake \ {w}) = Cardinality(Awake) - 1 /\ Cardinality(Awake) >= 1
<1>1. IsFiniteSet(Workers) /\ Cardinality(Workers) = ThreadNum
  BY Setting, FS_Interval DEF Workers
<1>2. \A S \in SUBSET Workers : IsFiniteSet(S) /\ Cardinality(S) \in Nat /\ Cardinality(S) < CounterSize
  BY <1>1, Setting, FS_Subset, FS_CardinalityType
<1>3. Awake \in SUBSET Workers
  BY DEF Awake
<1>4. ASSUME NEW w \in Workers, w \notin Awake
      PROVE  Cardinality(Awake \union {w}) = Cardinality(Awake) + 1 /\ Cardinality(Awake) + 1 < CounterSize
  <2>1. Cardinality(Awake \union {w}) = Cardinality(Awake) + 1
    BY <1>2, <1>3, <1>4, FS_AddElement
  <2> QED BY <1>2, <1>3, <2>1
<1>5. ASSUME NEW w \in Awake
      PROVE  Cardinality(Awake \ {w}) = Cardinality(Awake) - 1 /\ Cardinality(Awake) >= 1
  <2>1. Cardinality(Awake \ {w}) = Cardinality(Awake) - 1
    BY <1>2, <1>3, FS_RemoveElement
  <2>2. Cardinality(Awake \ {w}) \in Nat
    BY <1>2, <1>3
  <2> QED BY <1>2, <1>3, <2>1, <2>2
<1> QED BY <1>2, <1>3, <1>4, <1>5

(* Who is awake, and the counter, change together.                         *)
LEMMA Wakings ==
  ASSUME IInv, [Next]_vars, \A w \in Workers : ~shutdown'[w]
  PROVE  /\ \A w \in Workers : ~shutdown[w]
         /\ \/ Awake' = Awake /\ active' = active
            \/ \E w \in Workers \ Awake : Awake' = Awake \union {w} /\ FetchAdd
            \/ \E w \in Awake : Awake' = Awake \ {w} /\ FetchSub
<1> USE Setting DEF Goto, workerVars, addVars, ownerVars, Awake
<1>0. /\ pc \in [Workers -> Stages] /\ shutdown \in [Workers -> BOOLEAN]
      /\ target \in [Adders -> Workers \union {-1}] /\ index \in 0 .. ThreadNum
  BY DEF IInv, TypeOK
<1> DEFINE Same == shutdown' = shutdown
           Still == Awake' = Awake /\ active' = active
<1>1. ASSUME NEW a \in Adders, AddStep(a) PROVE Same /\ Still
  <2>1. CASE BeginAdd(a) \/ PushOne(a)
    BY <2>1 DEF BeginAdd, PushOne
  <2>2. CASE NotifyAdded(a)
    <3>1. pc' = Notified(target[a]) /\ Same /\ active' = active
      BY <2>2 DEF NotifyAdded
    <3>2. \A w \in Workers : pc'[w] = pc[w] \/ (pc[w] = "wait" /\ pc'[w] = "woken")
      BY <1>0, <3>1 DEF Notified
    <3> QED BY <3>1, <3>2
  <2>3. CASE AddReturns(a)
    <3>1. (pc' = pc \/ \E v \in Workers : pc' = Notified(v)) /\ Same /\ active' = active
      BY <2>3, Setting DEF AddReturns, NotifyOneWorker, Draw, Workers
    <3>2. \A w \in Workers : pc'[w] = pc[w] \/ (pc[w] = "wait" /\ pc'[w] = "woken")
      BY <1>0, <3>1 DEF Notified
    <3> QED BY <3>1, <3>2
  <2> QED BY <1>1, <2>1, <2>2, <2>3 DEF AddStep
<1>2. ASSUME NEW w \in Workers, StartWorker(w) \/ BecomeActive(w)
      PROVE  Same /\ w \notin Awake /\ Awake' = Awake \union {w} /\ FetchAdd
  <2>1. pc' = [pc EXCEPT ![w] = "loop"] /\ pc[w] \in {"start", "woken"} /\ Same /\ FetchAdd
    BY <1>2 DEF StartWorker, BecomeActive
  <2> QED BY <1>0, <2>1
<1>3. ASSUME NEW w \in Workers, BecomeInactive(w)
      PROVE  Same /\ w \in Awake /\ Awake' = Awake \ {w} /\ FetchSub
  <2>1. pc' = [pc EXCEPT ![w] = "lock"] /\ pc[w] = "idle" /\ Same /\ FetchSub
    BY <1>3 DEF BecomeInactive
  <2> QED BY <1>0, <2>1
<1>4. ASSUME NEW w \in Workers, SearchStep(w) \/ JobReturns(w) \/ Spin(w) PROVE Same /\ Still
  <2>1. /\ Same /\ active' = active
        /\ pc[w] \in {"loop", "own", "steal", "run", "idle"}
        /\ \E p \in {"loop", "own", "steal", "run", "idle", "exit"} : pc' = [pc EXCEPT ![w] = p]
    <3>1. CASE CheckShutdown(w)
      BY <3>1 DEF CheckShutdown
    <3>2. CASE TakeOwn(w)
      BY <3>2 DEF TakeOwn, Consume
    <3>3. CASE OwnEmpty(w)
      BY <3>3 DEF OwnEmpty
    <3>4. CASE StealOne(w)
      BY <3>4 DEF StealOne, Consume
    <3>5. CASE StealNext(w)
      <4>1. CASE tries[w] = 1
        BY <3>5, <4>1 DEF StealNext
      <4>2. CASE tries[w] # 1
        <5>1. pc' = [pc EXCEPT ![w] = "steal"]
          BY <1>0, <3>5, <4>2 DEF StealNext
        <5> QED BY <3>5, <5>1 DEF StealNext
      <4> QED BY <4>1, <4>2
    <3>6. CASE JobReturns(w)
      BY <3>6 DEF JobReturns
    <3>7. CASE Spin(w)
      BY <3>7 DEF Spin
    <3> QED BY <1>4, <3>1, <3>2, <3>3, <3>4, <3>5, <3>6, <3>7 DEF SearchStep
  <2>2. PICK p \in {"loop", "own", "steal", "run", "idle", "exit"} : pc' = [pc EXCEPT ![w] = p]
    BY <2>1
  <2> QED BY <1>0, <2>1, <2>2
<1>5. ASSUME NEW w \in Workers, LockAndWait(w) \/ WaitTimeout(w) PROVE Same /\ Still
  <2>1. /\ Same /\ active' = active
        /\ \A v \in Workers : v # w => pc'[v] = pc[v]
        /\ pc[w] \in {"lock", "wait"} /\ pc'[w] \in {"exit", "wait", "woken"}
        /\ pc'[w] = "exit" => shutdown[w]
    BY <1>0, <1>5 DEF LockAndWait, WaitTimeout
  <2> QED BY <2>1
<1>6. ASSUME NEW w \in Workers, ExitLoop(w) PROVE FALSE
  BY <1>6 DEF ExitLoop, IInv, Stations
<1>7. ASSUME Construct PROVE Same /\ Still
  <2>1. CASE index < ThreadNum
    <3>1. /\ index \in Workers /\ pc[index] = "none" /\ pc' = [pc EXCEPT ![index] = "start"]
          /\ Same /\ active' = active
      BY <1>0, <1>7, <2>1 DEF Construct, IInv, Stations
    <3> QED BY <1>0, <3>1
  <2>2. CASE ~(index < ThreadNum)
    BY <1>7, <2>2 DEF Construct
  <2> QED BY <2>1, <2>2
<1>8. ASSUME StopOne PROVE FALSE
  BY <1>0, <1>8 DEF StopOne
<1>9. ASSUME AllStopped \/ JoinOne \/ DestroyWorkers \/ CallStop \/ Destroy \/ UNCHANGED vars PROVE Same /\ Still
  BY <1>9 DEF AllStopped, JoinOne, DestroyWorkers, CallStop, Destroy, vars
<1> QED
  BY <1>1, <1>2, <1>3, <1>4, <1>5, <1>6, <1>7, <1>8, <1>9 DEF Next, SleepStep, OwnerLoop

(* The counter keeps counting those awake.                                 *)
LEMMA ActiveStep == IInv /\ [Next]_vars => ActiveCountsAwake'
<1> SUFFICES ASSUME IInv, [Next]_vars, \A w \in Workers : ~shutdown'[w]
             PROVE  active' = Cardinality(Awake)'
  BY DEF ActiveCountsAwake
<1>1. active = Cardinality(Awake)
  BY Wakings DEF IInv, ActiveCountsAwake
<1>2. PICK n \in Nat : n = Cardinality(Awake)
  BY AwakeFacts
<1>3. CASE Awake' = Awake /\ active' = active
  BY <1>1, <1>3
<1>4. ASSUME NEW w \in Workers \ Awake, Awake' = Awake \union {w}, FetchAdd
      PROVE  active' = Cardinality(Awake)'
  <2>1. Cardinality(Awake)' = n + 1 /\ n + 1 < CounterSize
    BY <1>2, <1>4, AwakeFacts
  <2>2. active' = (n + 1) % CounterSize
    BY <1>1, <1>2, <1>4 DEF FetchAdd
  <2>3. n + 1 \in Nat /\ CounterSize \in Nat \ {0} /\ n + 1 < CounterSize
    BY <2>1, Setting
  <2>4. (n + 1) % CounterSize = n + 1
    BY <2>3, Modulo
  <2> QED BY <2>1, <2>2, <2>4
<1>5. ASSUME NEW w \in Awake, Awake' = Awake \ {w}, FetchSub
      PROVE  active' = Cardinality(Awake)'
  <2>1. Cardinality(Awake)' = n - 1 /\ n >= 1 /\ n < CounterSize
    BY <1>2, <1>5, AwakeFacts
  <2>2. active' = (n + CounterSize - 1) % CounterSize
    BY <1>1, <1>2, <1>5 DEF FetchSub
  <2>3. n - 1 \in Nat /\ n - 1 < CounterSize /\ n + CounterSize - 1 = (n - 1) + CounterSize /\ CounterSize \in Nat \ {0}
    BY <2>1, Setting
  <2>4. ((n - 1) + CounterSize) % CounterSize = n - 1
    BY <2>3, Modulo
  <2> QED BY <2>1, <2>2, <2>3, <2>4
<1> QED BY <1>3, <1>4, <1>5, Wakings

(* The runner before its construction.                                     *)
LEMMA InitInv == Init => IInv
<1> SUFFICES ASSUME Init
             PROVE  IInv
  OBVIOUS
<1> USE Setting DEF Init
<1>1. TypeOK
  <2>1. Batch \in [Adders -> Seq(Jobs)]
    BY RunnerAssumption
  <2>2. todo \in [Adders -> Seq(Jobs)] /\ target \in [Adders -> Workers \union {-1}] /\ done \subseteq Jobs
    BY <2>1
  <2>3. active \in 0 .. CounterSize - 1 /\ index \in 0 .. ThreadNum
    <3>1. 0 \in 0 .. CounterSize - 1 /\ 0 \in 0 .. ThreadNum
      BY Setting
    <3> QED BY ONLY <3>1, Init DEF Init
  <2>4. /\ shutdown \in [Workers -> BOOLEAN] /\ pc \in [Workers -> Stages]
        /\ job \in [Workers -> Jobs \union {NoJob}] /\ victim \in [Workers -> Workers]
        /\ ready \in BOOLEAN /\ owner \in Phases
    BY DEF Stages, Phases
  <2>5. queue \in [Workers -> Seq(Jobs)] /\ tries \in [Workers -> 0 .. ThreadNum] /\ late \in [Workers -> Nat]
    BY DEF Init
  <2> QED BY <2>2, <2>3, <2>4, <2>5 DEF TypeOK
<1>2. Stations /\ Leaving /\ Late
  BY DEF Stations, Leaving, Late
<1>3. Places
  <2>1. /\ \A a \in Adders : IsInjective(Batch[a])
        /\ \A j \in Jobs : \E a \in Adders : \A b \in Adders : j \in ToSet(Batch[b]) <=> b = a
    BY RunnerAssumption
  <2>2. \A j, w : w \in Workers => ~InQueue(j, w)
    BY DEF InQueue, ToSet
  <2>3. \A j, a : WithAdder(j, a) <=> j \in ToSet(Batch[a])
    BY DEF WithAdder
  <2>4. \A w \in Workers : IsInjective(queue[w])
    BY DEF IsInjective
  <2>5. \A j \in Jobs, w \in Workers : job[w] # j
    BY DEF Init
  <2> QED
    BY ONLY <2>1, <2>2, <2>3, <2>4, <2>5, todo = Batch, done = {}, Init DEF Init, Places, Queued, Somewhere, Alone, Apart, Over
<1>4. ActiveCountsAwake
  <2>1. Awake = {}
    BY DEF Awake
  <2> QED BY <2>1, FS_EmptySet DEF ActiveCountsAwake
<1> QED BY <1>1, <1>2, <1>3, <1>4 DEF IInv

(* The inductive invariant of the runner: every job has one place, the     *)
(* counter is right, and those who are told to stop are on their way out.  *)
THEOREM Invariance == Spec => []IInv
<1>1. IInv /\ [Next]_vars => IInv'
  BY TypeOKStep, StationsStep, LeavingStep, LateStep, PlacesStep, ActiveStep DEF IInv
<1> QED BY <1>1, InitInv, PTL DEF Spec

-----------------------------------------------------------------------------
(* A job occurs at most once in a queue that repeats none.                 *)
LEMMA OccursOnce ==
  ASSUME NEW s \in Seq(Jobs), IsInjective(s), NEW j
  PROVE  Occurrences(s, j) = IF j \in ToSet(s) THEN 1 ELSE 0
<1> DEFINE P == {i \in DOMAIN s : s[i] = j}
<1>1. CASE j \in ToSet(s)
  <2>1. PICK i \in DOMAIN s : s[i] = j
    BY <1>1 DEF ToSet
  <2>2. P = {i}
    BY <2>1 DEF IsInjective
  <2> QED BY <1>1, <2>2, FS_Singleton DEF Occurrences
<1>2. CASE j \notin ToSet(s)
  <2>1. P = {}
    BY <1>2 DEF ToSet
  <2> QED BY <1>2, <2>1, FS_EmptySet DEF Occurrences
<1> QED BY <1>1, <1>2

(* A set whose members are all the same has one or none.                   *)
LEMMA OneOrNone ==
  ASSUME NEW S, \A x, y \in S : x = y
  PROVE  Cardinality(S) = IF \E x : x \in S THEN 1 ELSE 0
<1>1. CASE \E x : x \in S
  <2>1. PICK x : x \in S
    BY <1>1
  <2>2. S = {x}
    BY <2>1
  <2> QED BY <1>1, <2>2, FS_Singleton
<1>2. CASE ~\E x : x \in S
  <2>1. S = {}
    BY <1>2
  <2> QED BY <1>2, <2>1, FS_EmptySet
<1> QED BY <1>1, <1>2

(* Stealing neither loses nor duplicates a job: until the runner is        *)
(* destroyed every job is with its adder, in one queue, with one worker or *)
(* has returned, whoever steals from whom.                                 *)
THEOREM EachOnce == Spec => []EachJobOnce
<1>1. ASSUME IInv PROVE EachJobOnce
  <2>1. ASSUME owner # "gone", NEW j \in Jobs
        PROVE  LET queues  == {w \in Workers : Occurrences(queue[w], j) > 0}
                   holders == {w \in Workers : job[w] = j}
                   adders  == {a \in Adders : Occurrences(todo[a], j) > 0}
               IN  /\ Cardinality(queues) + Cardinality(holders) + Cardinality(adders)
                        + (IF j \in done THEN 1 ELSE 0) = 1
                   /\ \A w \in Workers : Occurrences(queue[w], j) <= 1
    <3> DEFINE queues  == {w \in Workers : Occurrences(queue[w], j) > 0}
               holders == {w \in Workers : job[w] = j}
               adders  == {a \in Adders : Occurrences(todo[a], j) > 0}
    <3>1. Queued /\ Somewhere /\ Alone /\ Apart /\ Over
      BY <1>1, <2>1 DEF IInv, Places
    <3>2. \A w \in Workers : Occurrences(queue[w], j) = IF InQueue(j, w) THEN 1 ELSE 0
      BY <1>1, <3>1, OccursOnce DEF IInv, TypeOK, Queued, InQueue
    <3>3. \A a \in Adders : Occurrences(todo[a], j) = IF WithAdder(j, a) THEN 1 ELSE 0
      BY <1>1, <3>1, OccursOnce DEF IInv, TypeOK, Queued, WithAdder
    <3>4. queues = {w \in Workers : InQueue(j, w)} /\ adders = {a \in Adders : WithAdder(j, a)}
      BY <3>2, <3>3
    <3> HIDE DEF queues, holders, adders
    <3>5. /\ \A w, v \in queues : w = v
          /\ \A w, v \in holders : w = v
          /\ \A a, b \in adders : a = b
      BY <3>1, <3>4 DEF Alone, holders
    <3>6. /\ (\E w : w \in queues) \/ (\E w : w \in holders) \/ (\E a : a \in adders) \/ j \in done
          /\ \A w, v : ~(w \in queues /\ v \in holders)
          /\ \A w, a : ~(w \in queues /\ a \in adders)
          /\ \A w, a : ~(w \in holders /\ a \in adders)
          /\ j \in done => \A w : w \notin queues /\ w \notin holders /\ w \notin adders
      BY <3>1, <3>4 DEF Somewhere, Apart, Over, holders
    <3>7. /\ Cardinality(queues) = IF \E w : w \in queues THEN 1 ELSE 0
          /\ Cardinality(holders) = IF \E w : w \in holders THEN 1 ELSE 0
          /\ Cardinality(adders) = IF \E a : a \in adders THEN 1 ELSE 0
      BY <3>5, OneOrNone
    <3>8. Cardinality(queues) + Cardinality(holders) + Cardinality(adders) + (IF j \in done THEN 1 ELSE 0) = 1
      BY <3>6, <3>7
    <3>9. \A w \in Workers : Occurrences(queue[w], j) <= 1
      BY <3>2
    <3> QED BY <3>8, <3>9 DEF queues, holders, adders
  <2> QED BY <1>1, <2>1 DEF EachJobOnce, IInv
<1> QED BY <1>1, Invariance, PTL

(* ActiveThreadNum() is the number of workers awake, until one of them is  *)
(* shut down, however the waits, timeouts and notifications interleave.    *)
THEOREM CountIsRight == Spec => []ActiveCountsAwake
<1>1. IInv => ActiveCountsAwake
  BY DEF IInv
<1> QED BY <1>1, Invariance, PTL

(* A worker begins at most one job after it was told to stop, and when the *)
(* runner is destroyed every thread has left, with no job in hand.         *)
THEOREM StoppingIsFinal == Spec => []StopIsFinal
<1>1. ASSUME IInv PROVE StopIsFinal
  <2>1. \A w \in Workers : late[w] <= 1
    BY <1>1 DEF IInv, Late
  <2>2. owner = "gone" => Quiet
    BY <1>1 DEF IInv, Leaving, Stations, Quiet
  <2> QED BY <2>1, <2>2 DEF StopIsFinal
<1> QED BY <1>1, Invariance, PTL

-----------------------------------------------------------------------------
(***************************************************************************)
(* JobLockQueue, of which job_runner.cc can make its job_queue_t instead   *)
(* of the lock-free one, is a FIFO queue.                                  *)
(*                                                                         *)
(* The write head is where the next job belongs (LQInv).  A buffer that    *)
(* grows from a power of two grows to its double at least, so that what is *)
(* moved to its end does not overlap where it was (MoveUpFacts); then the  *)
(* jobs between the heads are those they were (ExpandedFacts).             *)
(***************************************************************************)
CapacityIs(c) == c = 0 \/ PowerOfTwo(c)

\* The write head is where the next job after those of the queue goes.
LQInv ==
  /\ capacity \in Nat /\ CapacityIs(capacity) /\ size \in 0 .. capacity
  /\ jobs \in [0 .. capacity - 1 -> Callables \union {Hollow}]
  /\ readHead \in Nat /\ (readHead < capacity \/ readHead = 0)
  /\ writeHead = Wrap(readHead + size, capacity)

(* A nonempty set of natural numbers has a least one.                      *)
LEMMA LeastNatural ==
  ASSUME NEW S \in SUBSET Nat, S # {}
  PROVE  \E m \in S : \A n \in S : m <= n
<1> DEFINE R == {p \in Nat \X Nat : p[1] < p[2]}
<1>1. IsWellFoundedOn(R, Nat)
  BY NatLessThanWellFounded DEF OpToRel
<1>2. \A n, m \in S : n < m => <<n, m>> \in R
  OBVIOUS
<1> HIDE DEF R
<1>3. PICK m \in S : \A n \in S : ~(<<n, m>> \in R)
  BY <1>1, WFMin
<1>4. \A n \in S : ~(n < m)
  BY <1>2, <1>3
<1> QED BY <1>4

(* Doubling a number makes it a power of two just when it was one.         *)
LEMMA Doubled ==
  ASSUME NEW p \in Nat
  PROVE  PowerOfTwo(p) <=> PowerOfTwo(2 * p)
<1>1. ASSUME PowerOfTwo(p), NEW j \in 1 .. 2 * p, NEW k \in 1 .. 2 * p, (2 * j + 1) * k = 2 * p
      PROVE  FALSE
  <2>1. PICK x \in Nat : x = j * k
    OBVIOUS
  <2>2. 2 * x + k = 2 * p
    BY <1>1, <2>1
  <2>3. PICK m \in Nat : m = p - x /\ k = 2 * m /\ m \in 1 .. p
    <3>1. p - x \in Nat /\ k = 2 * (p - x) /\ p - x \in 1 .. p
      BY <2>2
    <3> QED BY <3>1
  <2>4. PICK y \in Nat : y = j * m
    OBVIOUS
  <2>5. x = 2 * y
    BY <2>1, <2>3, <2>4
  <2>6. (2 * j + 1) * m = p
    <3>1. (2 * j + 1) * m = 2 * y + m
      BY <2>4
    <3> QED BY <2>3, <2>5, <3>1
  <2>7. j \in 1 .. p
    <3>1. y + y + m = p
      BY <2>4, <2>6
    <3>2. y >= j
      BY <2>3, <2>4
    <3> QED BY <2>3, <3>1, <3>2
  <2> QED BY <1>1, <2>3, <2>6, <2>7 DEF PowerOfTwo
<1>2. ASSUME PowerOfTwo(2 * p), NEW j \in 1 .. p, NEW k \in 1 .. p, (2 * j + 1) * k = p
      PROVE  FALSE
  <2>1. j \in 1 .. 2 * p /\ 2 * k \in 1 .. 2 * p
    OBVIOUS
  <2>2. (2 * j + 1) * (2 * k) = 2 * p
    BY <1>2
  <2> QED BY <1>2, <2>1, <2>2 DEF PowerOfTwo
<1>3. p > 0 <=> 2 * p > 0
  OBVIOUS
<1> QED BY <1>1, <1>2, <1>3 DEF PowerOfTwo

(* So is the capacity a queue is made with if none is given.               *)
LEMMA DefaultCapacity == PowerOfTwo(8)
<1>1. PowerOfTwo(1)
  BY DEF PowerOfTwo
<1>2. PowerOfTwo(2 * 1) /\ PowerOfTwo(2 * (2 * 1)) /\ PowerOfTwo(2 * (2 * (2 * 1)))
  BY <1>1, Doubled
<1>3. 2 * (2 * (2 * 1)) = 8
  OBVIOUS
<1> QED BY <1>2, <1>3

(* A power of two is one, or twice a power of two.                         *)
LEMMA EvenPower ==
  ASSUME NEW p \in Nat, PowerOfTwo(p), p # 1
  PROVE  \E q \in Nat : p = 2 * q /\ q > 0 /\ PowerOfTwo(q)
<1>1. PICK q \in Nat : p = 2 * q \/ p = 2 * q + 1
  <2>1. p = 2 * (p \div 2) \/ p = 2 * (p \div 2) + 1
    OBVIOUS
  <2> QED BY <2>1
<1>2. p > 0
  BY DEF PowerOfTwo
<1>3. p # 2 * q + 1
  <2> SUFFICES ASSUME p = 2 * q + 1 PROVE FALSE
    OBVIOUS
  <2>1. q \in 1 .. p /\ 1 \in 1 .. p
    OBVIOUS
  <2>2. (2 * q + 1) * 1 = p
    OBVIOUS
  <2> QED BY <2>1, <2>2 DEF PowerOfTwo
<1>4. p = 2 * q /\ q > 0
  BY <1>1, <1>2, <1>3
<1>5. PowerOfTwo(q)
  BY <1>4, Doubled
<1> QED BY <1>4, <1>5

(* The next power of two is the double at least.                           *)
LEMMA PowersApart ==
  ASSUME NEW p \in Nat, NEW q \in Nat, PowerOfTwo(p), PowerOfTwo(q), p < q
  PROVE  2 * p <= q
<1> DEFINE S == {n \in Nat : PowerOfTwo(n) /\ \E m \in Nat : PowerOfTwo(m) /\ m < n /\ n < 2 * m}
<1> SUFFICES ASSUME S # {} PROVE FALSE
  OBVIOUS
<1>1. PICK n \in S : \A m \in S : n <= m
  BY LeastNatural
<1>2. PICK m \in Nat : PowerOfTwo(m) /\ m < n /\ n < 2 * m
  OBVIOUS
<1>3. n \in Nat /\ PowerOfTwo(n) /\ n # 1 /\ m # 1
  BY <1>2
<1>4. PICK i \in Nat : n = 2 * i /\ PowerOfTwo(i)
  BY <1>3, EvenPower
<1>5. PICK k \in Nat : m = 2 * k /\ PowerOfTwo(k)
  BY <1>2, <1>3, EvenPower
<1>6. k < i /\ i < 2 * k /\ i < n
  BY <1>2, <1>3, <1>4, <1>5
<1>7. i \in S
  BY <1>4, <1>5, <1>6
<1> QED BY <1>1, <1>3, <1>6, <1>7

(* From a number up to its double there is a power of two.                 *)
LEMMA PowerFound ==
  ASSUME NEW n \in Nat \ {0}
  PROVE  \E p \in n .. 2 * n : PowerOfTwo(p)
<1> DEFINE S == {m \in Nat \ {0} : ~\E p \in m .. 2 * m : PowerOfTwo(p)}
<1> SUFFICES ASSUME S # {} PROVE FALSE
  OBVIOUS
<1>1. PICK m \in S : \A i \in S : m <= i
  BY LeastNatural
<1>2. m \in Nat \ {0} /\ \A p \in m .. 2 * m : ~PowerOfTwo(p)
  OBVIOUS
<1>3. PowerOfTwo(1)
  BY DEF PowerOfTwo
<1>4. m > 1
  BY <1>2, <1>3
<1>5. PICK h \in Nat : m = 2 * h \/ m = 2 * h - 1
  <2>1. (m + 1) \div 2 \in Nat /\ (m = 2 * ((m + 1) \div 2) \/ m = 2 * ((m + 1) \div 2) - 1)
    BY <1>2
  <2> QED BY <2>1
<1>6. h < m /\ h > 0
  BY <1>4, <1>5
<1>7. h \notin S
  BY <1>1, <1>2, <1>6
<1>8. PICK p \in h .. 2 * h : PowerOfTwo(p)
  BY <1>6, <1>7
<1>9. p \in Nat /\ PowerOfTwo(2 * p)
  BY <1>6, <1>8, Doubled
<1>10. p \in m .. 2 * m \/ 2 * p \in m .. 2 * m
  BY <1>2, <1>5, <1>6, <1>8
<1> QED BY <1>2, <1>8, <1>9, <1>10

(* What std::bit_ceil returns.                                             *)
LEMMA BitCeilFacts ==
  ASSUME NEW n \in Nat \ {0}
  PROVE  BitCeil(n) \in Nat /\ BitCeil(n) >= n /\ PowerOfTwo(BitCeil(n))
<1> DEFINE S == {p \in n .. 2 * n : PowerOfTwo(p)}
<1>1. S # {} /\ S \in SUBSET Nat
  BY PowerFound
<1>2. PICK p \in S : \A q \in S : p <= q
  BY <1>1, LeastNatural
<1>3. \A q \in n .. p - 1 : ~PowerOfTwo(q)
  BY <1>2
<1>4. \E x \in n .. 2 * n : PowerOfTwo(x) /\ \A q \in n .. x - 1 : ~PowerOfTwo(q)
  BY <1>2, <1>3
<1>5. BitCeil(n) \in n .. 2 * n /\ PowerOfTwo(BitCeil(n))
  BY <1>4 DEF BitCeil
<1> QED BY <1>5

-----------------------------------------------------------------------------
(* The buffer grows.                                                       *)

\* The heads and what is between them, of buffer a.
Circular(a, cap, head) ==
  /\ cap \in Nat /\ CapacityIs(cap) /\ size \in 0 .. cap
  /\ a \in [0 .. cap - 1 -> Callables \union {Hollow}]
  /\ head \in Nat /\ (head < cap \/ head = 0)
  /\ writeHead = Wrap(head + size, cap)
  /\ \A k \in 1 .. size : a[Wrap(head + k - 1, cap)] = jobs[Wrap(readHead + k - 1, capacity)]

(* The buffer stays as large as it is, or its capacity is doubled at       *)
(* least.                                                                  *)
LEMMA GrownFacts ==
  ASSUME LQInv, NEW needed \in Nat
  PROVE  /\ Grown(needed) \in Nat /\ Grown(needed) >= needed /\ CapacityIs(Grown(needed))
         /\ Grown(needed) = capacity \/ (Grown(needed) >= 2 * capacity /\ Grown(needed) > capacity)
<1>1. CASE needed <= capacity
  <2>1. Grown(needed) = capacity
    BY <1>1 DEF Grown
  <2>2. capacity \in Nat /\ CapacityIs(capacity)
    BY DEF LQInv
  <2> QED BY <1>1, <2>1, <2>2
<1>2. CASE needed > capacity
  <2>1. needed \in Nat \ {0} /\ capacity \in Nat /\ CapacityIs(capacity)
    BY <1>2 DEF LQInv
  <2>2. PICK c \in Nat : c = BitCeil(needed) /\ c >= needed /\ PowerOfTwo(c)
    BY <2>1, BitCeilFacts
  <2>3. Grown(needed) = c
    BY <1>2, <2>1, <2>2 DEF Grown
  <2>4. c > capacity
    BY <1>2, <2>1, <2>2
  <2>5. c >= 2 * capacity
    BY <2>1, <2>2, <2>4, PowersApart DEF CapacityIs
  <2> QED BY <2>2, <2>3, <2>4, <2>5 DEF CapacityIs
<1> QED BY <1>1, <1>2 DEF LQInv

(* A larger buffer begins with the old one.                                *)
LEMMA ResizedFacts ==
  ASSUME LQInv, NEW cap \in Nat, cap >= capacity
  PROVE  /\ Resized(cap) \in [0 .. cap - 1 -> Callables \union {Hollow}]
         /\ \A i \in 0 .. capacity - 1 : Resized(cap)[i] = jobs[i]
BY DEF LQInv, Resized

(* As the capacity is doubled at least, nothing is overwritten before its  *)
(* turn.                                                                   *)
LEMMA MoveUpFacts ==
  ASSUME LQInv, NEW cap \in Nat, cap >= 2 * capacity, capacity > 0, NEW a \in [0 .. cap - 1 -> Callables \union {Hollow}]
  PROVE  LET m == MoveUp(a, readHead, capacity, cap - capacity)
         IN  /\ m \in [0 .. cap - 1 -> Callables \union {Hollow}]
             /\ \A i \in 0 .. readHead - 1 : m[i] = a[i]
             /\ \A i \in readHead .. capacity - 1 : m[i + (cap - capacity)] = a[i]
<1> DEFINE m == MoveUp(a, readHead, capacity, cap - capacity)
           taken(i) == a[readHead + ((i - readHead) % (cap - capacity))]
<1>1. capacity \in Nat /\ readHead \in Nat /\ readHead < capacity
  BY DEF LQInv
<1>2. PICK shift \in Nat : shift = cap - capacity /\ shift >= capacity
  BY <1>1
<1>3. m = [i \in 0 .. cap - 1 |-> CASE i \in readHead .. capacity - 1 -> Hollow
                                    [] i \in readHead + shift .. capacity + shift - 1 /\ i >= capacity -> taken(i)
                                    [] OTHER -> a[i]]
  BY <1>2 DEF MoveUp
<1>4. ASSUME NEW i \in readHead .. capacity - 1 PROVE taken(i + shift) = a[i] /\ a[i] \in Callables \union {Hollow}
  <2>1. PICK x \in Nat : x = i - readHead /\ x < shift
    BY <1>1, <1>2
  <2>2. (x + shift) % shift = x
    BY <2>1
  <2>3. (i + shift) - readHead = x + shift /\ readHead + x = i
    BY <1>1, <2>1
  <2> QED BY <1>1, <1>2, <2>2, <2>3
<1> HIDE DEF m, taken
<1>5. ASSUME NEW i \in readHead .. capacity - 1 PROVE i + shift \in 0 .. cap - 1 /\ m[i + shift] = a[i]
  <2>1. /\ i + shift \in 0 .. cap - 1 /\ i + shift \notin readHead .. capacity - 1
        /\ i + shift \in readHead + shift .. capacity + shift - 1 /\ i + shift >= capacity
    BY <1>1, <1>2
  <2>2. m[i + shift] = taken(i + shift)
    BY <1>3, <2>1
  <2> QED BY <1>4, <2>1, <2>2
<1>6. ASSUME NEW i \in 0 .. cap - 1 PROVE m[i] \in Callables \union {Hollow}
  <2>1. CASE i \in readHead .. capacity - 1
    <3>1. m[i] = Hollow
      BY <1>1, <1>2, <1>3, <2>1
    <3> QED BY <3>1
  <2>2. CASE i \in readHead + shift .. capacity + shift - 1
    <3>1. i - shift \in readHead .. capacity - 1 /\ (i - shift) + shift = i
      BY <1>1, <1>2, <2>2
    <3> QED BY <1>4, <1>5, <3>1
  <2>3. CASE i \notin readHead .. capacity - 1 /\ i \notin readHead + shift .. capacity + shift - 1
    BY <1>3, <2>3
  <2> QED BY <2>1, <2>2, <2>3
<1>7. ASSUME NEW i \in 0 .. readHead - 1 PROVE m[i] = a[i]
  <2>1. i \in 0 .. cap - 1 /\ i \notin readHead .. capacity - 1 /\ i \notin readHead + shift .. capacity + shift - 1
    BY <1>1, <1>2
  <2> QED BY <1>3, <2>1
<1>8. m \in [0 .. cap - 1 -> Callables \union {Hollow}]
  <2>1. DOMAIN m = 0 .. cap - 1 /\ m = [i \in 0 .. cap - 1 |-> m[i]]
    BY <1>3
  <2> QED BY <1>6, <2>1
<1> QED BY <1>2, <1>5, <1>7, <1>8 DEF m

(* After it has grown the buffer has the same jobs from its read head on.  *)
LEMMA ExpandedFacts ==
  ASSUME LQInv, NEW needed \in Nat, needed >= size
  PROVE  LET e == Expanded(needed) IN e.capacity >= needed /\ Circular(e.jobs, e.capacity, e.readHead)
<1> DEFINE e == Expanded(needed)
<1>1. PICK cap \in Nat : cap = Grown(needed) /\ cap >= needed /\ CapacityIs(cap) /\ (cap = capacity \/ (cap >= 2 * capacity /\ cap > capacity))
  BY GrownFacts
<1>2. capacity \in Nat /\ size \in 0 .. capacity /\ readHead \in Nat /\ (readHead < capacity \/ readHead = 0) /\ cap >= capacity
  BY <1>1 DEF LQInv
<1>3. PICK a : a = Resized(cap) /\ a \in [0 .. cap - 1 -> Callables \union {Hollow}] /\ \A i \in 0 .. capacity - 1 : a[i] = jobs[i]
  BY <1>2, ResizedFacts
<1>4. writeHead = Wrap(readHead + size, capacity)
  BY DEF LQInv
<1>5. CASE cap = capacity \/ Straight
  <2>1. e.jobs = a /\ e.capacity = cap /\ e.readHead = readHead
    BY <1>1, <1>3, <1>5 DEF Expanded
  <2>2. writeHead = Wrap(readHead + size, cap)
    BY <1>2, <1>4, <1>5 DEF Wrap, Straight
  <2>3. \A k \in 1 .. size : a[Wrap(readHead + k - 1, cap)] = jobs[Wrap(readHead + k - 1, capacity)]
    <3> TAKE k \in 1 .. size
    <3>1. Wrap(readHead + k - 1, cap) = Wrap(readHead + k - 1, capacity) /\ Wrap(readHead + k - 1, capacity) \in 0 .. capacity - 1
      BY <1>2, <1>4, <1>5 DEF Wrap, Straight
    <3> QED BY <1>3, <3>1
  <2> QED BY <1>1, <1>2, <1>3, <2>1, <2>2, <2>3 DEF Circular
<1>6. CASE cap # capacity /\ ~Straight
  <2>1. capacity > 0 /\ cap >= 2 * capacity /\ readHead < capacity /\ writeHead <= readHead /\ size > 0 /\ readHead + size = capacity + writeHead
    BY <1>1, <1>2, <1>4, <1>6 DEF Wrap, Straight
  <2>2. PICK m : m = MoveUp(a, readHead, capacity, cap - capacity)
    OBVIOUS
  <2>3. PICK head \in Nat : head = readHead + cap - capacity
    BY <1>2
  <2>4. e.jobs = m /\ e.capacity = cap /\ e.readHead = head
    BY <1>1, <1>3, <1>6, <2>2, <2>3 DEF Expanded
  <2>5. /\ m \in [0 .. cap - 1 -> Callables \union {Hollow}]
        /\ \A i \in 0 .. readHead - 1 : m[i] = a[i]
        /\ \A i \in readHead .. capacity - 1 : m[i + (cap - capacity)] = a[i]
    BY <1>3, <2>1, <2>2, MoveUpFacts
  <2>6. writeHead = Wrap(head + size, cap) /\ head < cap
    BY <1>2, <2>1, <2>3 DEF Wrap, LQInv
  <2>7. \A k \in 1 .. size : m[Wrap(head + k - 1, cap)] = jobs[Wrap(readHead + k - 1, capacity)]
    <3> TAKE k \in 1 .. size
    <3>1. CASE readHead + k - 1 < capacity
      <4>1. Wrap(readHead + k - 1, capacity) = readHead + k - 1 /\ readHead + k - 1 \in readHead .. capacity - 1
        BY <1>2, <3>1 DEF Wrap
      <4>2. Wrap(head + k - 1, cap) = (readHead + k - 1) + (cap - capacity)
        BY <1>2, <2>3, <3>1 DEF Wrap
      <4> QED BY <1>2, <1>3, <2>5, <4>1, <4>2
    <3>2. CASE readHead + k - 1 >= capacity
      <4>1. Wrap(readHead + k - 1, capacity) = readHead + k - 1 - capacity /\ readHead + k - 1 - capacity \in 0 .. readHead - 1
        BY <1>2, <2>1, <3>2 DEF Wrap
      <4>2. Wrap(head + k - 1, cap) = readHead + k - 1 - capacity
        BY <1>2, <2>3, <3>2 DEF Wrap
      <4> QED BY <1>2, <1>3, <2>1, <2>5, <4>1, <4>2
    <3> QED BY <1>2, <3>1, <3>2
  <2> QED BY <1>1, <1>2, <2>1, <2>4, <2>5, <2>6, <2>7 DEF Circular
<1> QED BY <1>5, <1>6

-----------------------------------------------------------------------------
(* The steps.                                                              *)

(* The jobs between the heads.                                             *)
LEMMA ContentsFacts ==
  ASSUME LQInv
  PROVE  /\ Contents \in Seq(Callables \union {Hollow}) /\ Len(Contents) = size
         /\ \A k \in 1 .. size : Contents[k] = jobs[Wrap(readHead + k - 1, capacity)]
         /\ Contents = <<>> <=> size = 0
<1> DEFINE V == Callables \union {Hollow}
<1>1. size \in Nat /\ size <= capacity /\ capacity \in Nat /\ jobs \in [0 .. capacity - 1 -> V]
      /\ readHead \in Nat /\ (readHead < capacity \/ readHead = 0)
  BY DEF LQInv
<1>2. \A k \in 1 .. size : Wrap(readHead + k - 1, capacity) \in 0 .. capacity - 1
  BY <1>1 DEF Wrap
<1>3. Contents \in [1 .. size -> V] /\ \A k \in 1 .. size : Contents[k] = jobs[Wrap(readHead + k - 1, capacity)]
  BY <1>1, <1>2 DEF Contents
<1>4. \A n \in Nat : \A f \in [1 .. n -> V] : f \in Seq(V) /\ Len(f) = n
  OBVIOUS
<1>5. Contents \in Seq(V) /\ Len(Contents) = size
  BY <1>1, <1>3, <1>4
<1>6. \A s \in Seq(V) : s = <<>> <=> Len(s) = 0
  OBVIOUS
<1> QED BY <1>3, <1>5, <1>6

(* A push appends its batch, wherever the heads are.                       *)
LEMMA PushRefines ==
  ASSUME LQInv, NEW b \in Batches, PushBatch(b)
  PROVE  LQInv' /\ FQ!PushBatch(b)
<1> DEFINE V == Callables \union {Hollow}
           e == Expanded(size + Len(b))
<1>1. PICK n \in Nat : b \in [1 .. n -> Callables] /\ b \in Seq(V) /\ Len(b) = n /\ DOMAIN b = 1 .. n
  <2>1. PICK n \in 0 .. MaxBatch : b \in [1 .. n -> Callables]
    BY DEF Batches
  <2>2. n \in Nat /\ b \in [1 .. n -> V]
    BY <2>1, LockQueueAssumption
  <2>3. b \in Seq(V) /\ Len(b) = n
    BY <2>2
  <2> QED BY <2>1, <2>2, <2>3
<1>2. size \in Nat /\ size + n \in Nat
  BY <1>1 DEF LQInv
<1>3. PICK a, cap, head : e.jobs = a /\ e.capacity = cap /\ e.readHead = head
  OBVIOUS
<1>4. cap >= size + n /\ Circular(a, cap, head)
  BY <1>1, <1>2, <1>3, ExpandedFacts
<1> HIDE DEF e
<1> DEFINE slot(k) == Wrap(writeHead + k - 1, cap)
           pos(k) == Wrap(head + k - 1, cap)
<1>5. /\ jobs' = [i \in DOMAIN a |-> IF \E k \in 1 .. n : slot(k) = i THEN b[CHOOSE k \in 1 .. n : slot(k) = i] ELSE a[i]]
      /\ writeHead' = IF b = <<>> THEN writeHead ELSE slot(n + 1)
      /\ capacity' = cap /\ readHead' = head /\ size' = size + n /\ out' = <<>>
  BY <1>1, <1>3 DEF PushBatch, e
<1>6. /\ cap \in Nat /\ CapacityIs(cap) /\ size \in 0 .. cap /\ a \in [0 .. cap - 1 -> V]
      /\ head \in Nat /\ (head < cap \/ head = 0) /\ writeHead = Wrap(head + size, cap)
      /\ \A k \in 1 .. size : a[pos(k)] = jobs[Wrap(readHead + k - 1, capacity)]
  BY <1>4 DEF Circular
<1>7. /\ \A k \in 1 .. size + n : pos(k) \in 0 .. cap - 1
      /\ \A k, l \in 1 .. size + n : pos(k) = pos(l) => k = l
      /\ \A k \in 1 .. n : slot(k) = pos(size + k) /\ size + k \in 1 .. size + n
  BY <1>2, <1>4, <1>6 DEF Wrap
<1>8. writeHead' = Wrap(head + (size + n), cap)
  <2>1. CASE b = <<>>
    <3>1. n = 0
      BY <1>1, <2>1
    <3> QED BY <1>2, <1>5, <1>6, <2>1, <3>1
  <2>2. CASE b # <<>>
    <3>1. n > 0
      BY <1>1, <2>2
    <3>2. writeHead' = Wrap(writeHead + (n + 1) - 1, cap)
      BY <1>5, <2>2
    <3> QED BY <1>2, <1>4, <1>6, <3>1, <3>2 DEF Wrap
  <2> QED BY <2>1, <2>2
<1> HIDE DEF slot, pos
<1>9. ASSUME NEW k \in 1 .. n PROVE jobs'[pos(size + k)] = b[k]
  <2>1. pos(size + k) \in DOMAIN a /\ slot(k) = pos(size + k)
    BY <1>6, <1>7
  <2>2. \A l \in 1 .. n : slot(l) = pos(size + k) => l = k
    <3> TAKE l \in 1 .. n
    <3> HAVE slot(l) = pos(size + k)
    <3>1. pos(size + l) = pos(size + k) /\ size + l \in 1 .. size + n /\ size + k \in 1 .. size + n
      BY <1>7
    <3>2. size + l = size + k
      BY <1>7, <3>1
    <3> QED BY <1>2, <3>2
  <2>3. (CHOOSE l \in 1 .. n : slot(l) = pos(size + k)) = k
    BY <2>1, <2>2
  <2> QED BY <1>5, <2>1, <2>3
<1>10. ASSUME NEW k \in 1 .. size PROVE jobs'[pos(k)] = a[pos(k)]
  <2>1. pos(k) \in DOMAIN a /\ k \in 1 .. size + n
    BY <1>1, <1>2, <1>6, <1>7
  <2>2. \A l \in 1 .. n : slot(l) # pos(k)
    <3> TAKE l \in 1 .. n
    <3>1. slot(l) = pos(size + l) /\ size + l \in 1 .. size + n /\ size + l # k
      BY <1>2, <1>7
    <3> QED BY <1>7, <2>1, <3>1
  <2> QED BY <1>5, <2>1, <2>2
<1>11. jobs' \in [0 .. cap - 1 -> V]
  <2>1. \A i \in 0 .. cap - 1 : (\E k \in 1 .. n : slot(k) = i) => b[CHOOSE k \in 1 .. n : slot(k) = i] \in V
    BY <1>1
  <2> QED BY <1>5, <1>6, <2>1
<1>12. LQInv'
  <2>1. size + n \in 0 .. cap
    BY <1>2, <1>4, <1>6
  <2> QED BY <1>5, <1>6, <1>8, <1>11, <2>1 DEF LQInv
<1>13. Contents' = Contents \o b
  <2>1. PICK c : c = Contents /\ c \in Seq(V) /\ Len(c) = size /\ \A k \in 1 .. size : c[k] = a[pos(k)]
    BY <1>6, ContentsFacts
  <2>2. Contents' = [k \in 1 .. size + n |-> jobs'[pos(k)]]
    BY <1>5 DEF Contents, pos
  <2>3. /\ c \o b \in [1 .. size + n -> V]
        /\ \A k \in 1 .. size : (c \o b)[k] = c[k]
        /\ \A k \in size + 1 .. size + n : (c \o b)[k] = b[k - size]
    <3>1. PICK r : r = c \o b
      OBVIOUS
    <3>2. r \in Seq(V) /\ Len(r) = size + n
      BY <1>1, <1>2, <2>1, <3>1
    <3>3. \A k \in 1 .. size : r[k] = c[k]
      BY <1>1, <1>2, <2>1, <3>1
    <3>4. \A k \in size + 1 .. size + n : r[k] = b[k - size]
      BY <1>1, <1>2, <2>1, <3>1
    <3>5. r \in [1 .. size + n -> V]
      BY <1>2, <3>2
    <3> QED BY <3>1, <3>3, <3>4, <3>5
  <2>4. ASSUME NEW k \in 1 .. size + n PROVE jobs'[pos(k)] = (c \o b)[k]
    <3>1. CASE k \in 1 .. size
      BY <1>10, <2>1, <2>3, <3>1
    <3>2. CASE k \in size + 1 .. size + n
      <4>1. k - size \in 1 .. n /\ size + (k - size) = k
        BY <1>1, <1>2, <3>2
      <4>2. jobs'[pos(size + (k - size))] = b[k - size]
        BY <1>9, <4>1
      <4> QED BY <2>3, <3>2, <4>1, <4>2
    <3>3. k \in 1 .. size \/ k \in size + 1 .. size + n
      BY <1>1, <1>2
    <3> QED BY <3>1, <3>2, <3>3
  <2>5. c \o b = [k \in 1 .. size + n |-> (c \o b)[k]]
    BY <2>3
  <2> QED BY <2>1, <2>2, <2>4, <2>5
<1> QED BY <1>5, <1>12, <1>13 DEF FQ!PushBatch

(* The oldest job is taken.                                                *)
LEMMA OneRefines ==
  ASSUME LQInv, ConsumeOne
  PROVE  LQInv' /\ FQ!ConsumeOne
<1> DEFINE V == Callables \union {Hollow}
<1>1. CASE size = 0
  <2>1. Contents = <<>>
    BY <1>1, ContentsFacts
  <2>2. UNCHANGED <<jobs, capacity, readHead, writeHead, size>> /\ out' = <<>>
    BY <1>1 DEF ConsumeOne
  <2>3. LQInv' /\ Contents' = Contents
    BY <2>2 DEF LQInv, Contents
  <2> QED BY <2>1, <2>2, <2>3 DEF FQ!ConsumeOne
<1>2. CASE size # 0
  <2>1. /\ out' = <<jobs[readHead]>> /\ jobs' = [jobs EXCEPT ![readHead] = Hollow]
        /\ readHead' = Wrap(readHead + 1, capacity) /\ size' = size - 1
        /\ capacity' = capacity /\ writeHead' = writeHead
    BY <1>2 DEF ConsumeOne
  <2>2. /\ capacity \in Nat /\ size \in 1 .. capacity /\ jobs \in [0 .. capacity - 1 -> V] /\ readHead \in 0 .. capacity - 1
        /\ writeHead = Wrap(readHead + size, capacity) /\ CapacityIs(capacity)
    BY <1>2 DEF LQInv
  <2>3. /\ readHead' \in 0 .. capacity - 1
        /\ writeHead = Wrap(readHead' + (size - 1), capacity)
        /\ \A k \in 1 .. size - 1 : Wrap(readHead' + k - 1, capacity) = Wrap(readHead + (k + 1) - 1, capacity)
        /\ \A k \in 1 .. size - 1 : Wrap(readHead' + k - 1, capacity) # readHead
        /\ \A k \in 1 .. size - 1 : Wrap(readHead' + k - 1, capacity) \in 0 .. capacity - 1
        /\ readHead = Wrap(readHead + 1 - 1, capacity)
    BY <2>1, <2>2 DEF Wrap
  <2>4. LQInv'
    <3>1. jobs' \in [0 .. capacity - 1 -> V]
      BY <2>1, <2>2
    <3>2. size - 1 \in 0 .. capacity
      BY <2>2
    <3> QED BY <2>1, <2>2, <2>3, <3>1, <3>2 DEF LQInv
  <2>5. PICK c : c = Contents /\ c \in Seq(V) /\ Len(c) = size /\ \A k \in 1 .. size : c[k] = jobs[Wrap(readHead + k - 1, capacity)]
    BY ContentsFacts
  <2>6. c # <<>> /\ Head(c) = c[1] /\ Tail(c) \in [1 .. size - 1 -> V] /\ \A k \in 1 .. size - 1 : Tail(c)[k] = c[k + 1]
    <3>1. PICK m \in Nat : m = size - 1 /\ Len(c) = m + 1
      BY <2>2, <2>5
    <3>2. c # <<>> /\ Head(c) = c[1]
      BY <2>5, <3>1
    <3>3. Tail(c) \in Seq(V) /\ Len(Tail(c)) = m
      BY <2>5, <3>1, <3>2
    <3>4. \A k \in 1 .. m : Tail(c)[k] = c[k + 1]
      BY <2>5, <3>1, <3>2
    <3>5. Tail(c) \in [1 .. m -> V]
      <4>1. \A q \in Seq(V) : Len(q) = m => q \in [1 .. m -> V]
        OBVIOUS
      <4> QED BY <3>3, <4>1
    <3> QED BY <3>1, <3>2, <3>4, <3>5
  <2>7. out' = <<Head(c)>>
    <3>1. 1 \in 1 .. size
      BY <2>2
    <3>2. c[1] = jobs[readHead]
      BY <2>3, <2>5, <3>1
    <3> QED BY <2>1, <2>6, <3>2
  <2>8. Contents' = [k \in 1 .. size - 1 |-> jobs'[Wrap(readHead' + k - 1, capacity)]]
    BY <2>1 DEF Contents
  <2>9. ASSUME NEW k \in 1 .. size - 1 PROVE jobs'[Wrap(readHead' + k - 1, capacity)] = Tail(c)[k]
    <3>1. k + 1 \in 1 .. size /\ Tail(c)[k] = jobs[Wrap(readHead + (k + 1) - 1, capacity)]
      BY <2>2, <2>5, <2>6
    <3> QED BY <2>1, <2>2, <2>3, <3>1
  <2>10. Tail(c) = [k \in 1 .. size - 1 |-> Tail(c)[k]]
    BY <2>6
  <2>11. Contents' = Tail(c)
    BY <2>8, <2>9, <2>10
  <2> QED BY <2>4, <2>5, <2>6, <2>7, <2>11 DEF FQ!ConsumeOne
<1> QED BY <1>1, <1>2

(* All jobs are taken, oldest first.                                       *)
LEMMA AllRefines ==
  ASSUME LQInv, ConsumeAll
  PROVE  LQInv' /\ FQ!ConsumeAll
<1>1. CASE size = 0
  <2>1. Contents = <<>>
    BY <1>1, ContentsFacts
  <2>2. UNCHANGED <<jobs, capacity, readHead, writeHead, size>> /\ out' = <<>>
    BY <1>1 DEF ConsumeAll
  <2>3. LQInv' /\ Contents' = Contents
    BY <2>2 DEF LQInv, Contents
  <2> QED BY <2>1, <2>2, <2>3 DEF FQ!ConsumeAll
<1>2. CASE size # 0
  <2>1. /\ out' = Contents /\ jobs' = [i \in DOMAIN jobs |-> Hollow]
        /\ readHead' = 0 /\ writeHead' = 0 /\ size' = 0 /\ capacity' = capacity
    BY <1>2 DEF ConsumeAll
  <2>2. LQInv'
    <3>1. jobs' \in [0 .. capacity - 1 -> Callables \union {Hollow}]
      BY <2>1 DEF LQInv
    <3>2. Wrap(0 + 0, capacity) = 0
      BY DEF Wrap, LQInv
    <3> QED BY <2>1, <3>1, <3>2 DEF LQInv
  <2>3. Contents' = <<>>
    <3>1. Contents' = [k \in 1 .. 0 |-> jobs'[Wrap(0 + k - 1, capacity)]]
      BY <2>1 DEF Contents
    <3>2. \A f : f = [k \in 1 .. 0 |-> f[k]] => f = <<>>
      OBVIOUS
    <3> QED BY <3>1, <3>2
  <2> QED BY <2>1, <2>2, <2>3 DEF FQ!ConsumeAll
<1> QED BY <1>1, <1>2

(* The queue is empty at first.                                            *)
LEMMA LQInitRefines ==
  ASSUME CapacityIs(InitCapacity), LQInit
  PROVE  LQInv /\ FQ!Init
<1>1. LQInv
  <2>1. capacity \in Nat /\ size = 0 /\ readHead = 0 /\ writeHead = 0 /\ CapacityIs(capacity)
        /\ jobs = [i \in 0 .. capacity - 1 |-> Hollow]
    BY LockQueueAssumption DEF LQInit
  <2>2. Wrap(0 + 0, capacity) = 0
    BY <2>1 DEF Wrap
  <2>3. jobs \in [0 .. capacity - 1 -> Callables \union {Hollow}]
    BY <2>1
  <2> QED BY <2>1, <2>2, <2>3 DEF LQInv
<1> QED BY <1>1, ContentsFacts DEF LQInit, FQ!Init

(* The circular buffer is a FIFO queue if its first capacity is a power of *)
(* two, or zero.                                                           *)
THEOREM LockQueueIsFifo == CapacityIs(InitCapacity) => (LQSpec => ImplementsFifo)
<1> SUFFICES ASSUME CapacityIs(InitCapacity) PROVE LQSpec => ImplementsFifo
  OBVIOUS
<1>1. LQInit => LQInv /\ FQ!Init
  BY LQInitRefines
<1>2. LQInv /\ [LQNext]_lqVars => LQInv' /\ [FQ!Next]_(FQ!vars)
  <2> SUFFICES ASSUME LQInv, [LQNext]_lqVars PROVE LQInv' /\ [FQ!Next]_(FQ!vars)
    OBVIOUS
  <2>1. ASSUME NEW b \in Batches, PushBatch(b) PROVE LQInv' /\ FQ!Next
    <3>1. b \in FQ!Batches
      BY DEF Batches, FQ!Batches
    <3> QED BY <2>1, <3>1, PushRefines DEF FQ!Next
  <2>2. CASE ConsumeOne
    BY <2>2, OneRefines DEF FQ!Next
  <2>3. CASE ConsumeAll
    BY <2>3, AllRefines DEF FQ!Next
  <2>4. CASE UNCHANGED lqVars
    BY <2>4 DEF lqVars, LQInv, FQ!vars, Contents
  <2> QED BY <2>1, <2>2, <2>3, <2>4 DEF LQNext
<1> QED BY <1>1, <1>2, PTL DEF LQSpec, ImplementsFifo, FQ!Spec
=============================================================================
