--------------------------- MODULE RecorderProofs ---------------------------
(***************************************************************************)
(* Theorems about Recorder, for any channels, intervals and numbers of     *)
(* messages, snapshots and copies: writes find their file open, snapshots  *)
(* are whole and contain what was published before they were asked for,    *)
(* and the listed directories are those on disk.                           *)
(*                                                                         *)
(* The strand runs one job at a time, so the files are closed just while a *)
(* snapshot copies them (Recording).  Its jobs are in the order they were  *)
(* added: every message published before a snapshot was asked for is in    *)
(* its file, in work, or ahead of the snapshot in the queue (Counting,     *)
(* Covering).  A call has one job, which answers it (Calling), and what it *)
(* copied stays at least until the call has returned (Kept); names of      *)
(* directories are never used twice (Dirs), and between a copy and its     *)
(* entry in the list just the newest directory is unlisted (Listing).      *)
(***************************************************************************)
EXTENDS Recorder, FiniteSetTheorems, WellFoundedInduction, TLAPS

Copying == RunsSnapshot("copy") \/ RunsSnapshot("open")

\* The types TypeOK leaves out.
Shapes ==
  /\ jobpc \in {"start", "copy", "open", "notify", "finish"}
  /\ coverage \in [Callers -> [Channels -> Nat]]
  /\ nextDir \in Nat
  /\ paths \in [Intervals -> Seq(Nat)]
  /\ disk \subseteq [id : Nat, caller : Callers, ok : BOOLEAN, content : [Channels -> Nat],
                     whole : BOOLEAN, stuck : BOOLEAN]

\* Files are open but while a snapshot copies them, and the jobs find theirs.
Recording ==
  /\ opc # "gone" => \A ch \in subscribed : file[ch] # "none"
  /\ Copying => \A ch \in Channels : file[ch] # "open"
  /\ ~Copying => \A ch \in Channels : file[ch] # "closed"
  /\ \A k \in DOMAIN jobs : jobs[k].kind = "message" => jobs[k].of \in subscribed
  /\ job # NoJob /\ job.kind = "message" => job.of \in subscribed

\* The messages of a channel among the first n jobs, and the one that is being written.
Ahead(s, ch, n) == Cardinality({k \in 1 .. n : s[k] = MessageJob(ch)})
InWork(ch) == IF job = MessageJob(ch) THEN 1 ELSE 0

\* Every message published is in its file, being written, or queued.
Counting ==
  \A ch \in Channels : records[ch] + InWork(ch) + Ahead(jobs, ch, Len(jobs)) = published[ch]

\* What a snapshot must contain is in the files when it comes to the copy.
Covering ==
  \A ch \in Channels :
    /\ \A k \in DOMAIN jobs : jobs[k].kind = "snapshot" =>
         coverage[jobs[k].of][ch] <= records[ch] + InWork(ch) + Ahead(jobs, ch, k)
    /\ RunsSnapshot("start") \/ RunsSnapshot("copy") => coverage[job.of][ch] <= records[ch]

\* A call that waits has one job, until it is answered.
Calling ==
  /\ \A k \in DOMAIN jobs : jobs[k].kind = "snapshot" =>
       calls[jobs[k].of] = "waiting" /\ ~flag[jobs[k].of] /\ ~success[jobs[k].of]
  /\ \A k, l \in DOMAIN jobs : jobs[k].kind = "snapshot" /\ jobs[k] = jobs[l] => k = l
  /\ job # NoJob /\ job.kind = "snapshot" /\ jobpc # "finish" =>
       /\ calls[job.of] = "waiting" /\ ~flag[job.of]
       /\ \A k \in DOMAIN jobs : jobs[k] # job
  /\ RunsSnapshot("start") \/ RunsSnapshot("copy") => ~success[job.of]
  /\ calls[Thread] = "waiting" <=> tpc = "generating"
  /\ tpc = "keep" => success[Thread]

\* A call that succeeds has its snapshot on disk.
Kept ==
  \A c \in Callers : success[c] /\ (c = Thread => tpc \in {"generating", "keep"}) =>
    \E s \in disk : s.caller = c /\ s.ok /\ \A ch \in Channels : s.content[ch] >= coverage[c][ch]

\* A directory has a name of its own.
Dirs ==
  /\ \A s \in disk : s.id < nextDir
  /\ \A r, s \in disk : r.id = s.id => r = s

Increasing(s) == \A a, b \in DOMAIN s : a < b => s[a] < s[b]
Newest(s) == s \in ThreadDirs /\ \A r \in ThreadDirs : r.id <= s.id

\* The thread has a snapshot that it has not listed yet.
Unlisted == tpc \in {"generating", "keep"} /\ success[Thread]

Listing ==
  /\ \A i \in Intervals : Increasing(paths[i])
  /\ \A i, k \in Intervals : i # k => Range(paths[i]) \intersect Range(paths[k]) = {}
  /\ \A i \in Intervals : \A n \in Range(paths[i]) : \E s \in ThreadDirs : s.id = n /\ ~s.stuck
  /\ \A s \in ThreadDirs : ~s.stuck =>
       (\E i \in Intervals : s.id \in Range(paths[i])) \/ (Unlisted /\ Newest(s))
  /\ Unlisted => \E s \in ThreadDirs : /\ ~s.stuck /\ Newest(s)
                                       /\ \A i \in Intervals : s.id \notin Range(paths[i])

IInv ==
  /\ TypeOK /\ Shapes /\ Recording /\ Counting /\ Covering
  /\ Calling /\ Kept /\ Dirs /\ Listing /\ SnapshotIsWhole

-----------------------------------------------------------------------------
(* A set of natural numbers that is not empty has a least one.             *)
LEMMA LeastNatural ==
  ASSUME NEW S \in SUBSET Nat, S # {}
  PROVE  \E m \in S : \A n \in S : m <= n
<1> DEFINE R == {p \in Nat \X Nat : p[1] < p[2]}
<1>1. IsWellFoundedOn(R, Nat)
  BY NatLessThanWellFounded DEF OpToRel
<1>2. \A n, m \in S : n < m => <<n, m>> \in R
  OBVIOUS
<1> HIDE DEF R
<1>3. PICK m \in S : \A n \in S : ~(<<n, m>> \in R)
  BY <1>1, WFMin
<1>4. \A n \in S : ~(n < m)
  BY <1>2, <1>3
<1> QED BY <1>4

(* There is an interval that wakes first.                                  *)
LEMMA EarliestFacts ==
  ASSUME NEW w \in [Intervals -> Nat]
  PROVE  Earliest(w) \in Intervals
<1>1. Intervals # {} /\ PeriodOf \in [Intervals -> Nat \ {0}]
  BY RecorderAssumption
<1>2. PICK t \in {w[i] : i \in Intervals} : \A u \in {w[i] : i \in Intervals} : t <= u
  <2>1. {w[i] : i \in Intervals} \in SUBSET Nat /\ {w[i] : i \in Intervals} # {}
    BY <1>1
  <2> QED BY <2>1, LeastNatural
<1> DEFINE First == {i \in Intervals : w[i] = t}
<1>3. PICK p \in {PeriodOf[i] : i \in First} : \A q \in {PeriodOf[i] : i \in First} : p <= q
  <2>1. {PeriodOf[i] : i \in First} \in SUBSET Nat /\ {PeriodOf[i] : i \in First} # {}
    BY <1>1, <1>2
  <2> QED BY <2>1, LeastNatural
<1>4. PICK i \in First : PeriodOf[i] = p
  BY <1>3
<1>5. ASSUME NEW k \in Intervals
      PROVE  w[i] < w[k] \/ (w[i] = w[k] /\ PeriodOf[i] <= PeriodOf[k])
  <2>1. w[i] <= w[k] /\ w[i] \in Nat /\ w[k] \in Nat
    BY <1>2, <1>4
  <2>2. w[i] = w[k] => PeriodOf[i] <= PeriodOf[k]
    BY <1>3, <1>4
  <2> QED BY <2>1, <2>2
<1> QED BY <1>4, <1>5 DEF Earliest

(* What the jobs of the strand are.                                        *)
LEMMA JobFacts ==
  /\ NoJob \notin Jobs /\ Nobody # "worker"
  /\ \A j \in Jobs : \/ j.kind = "message" /\ j.of \in Channels /\ j = MessageJob(j.of)
                     \/ j.kind = "snapshot" /\ j.of \in Callers /\ j = SnapshotJob(j.of)
  /\ \A ch \in Channels : MessageJob(ch) \in Jobs /\ MessageJob(ch).kind = "message" /\ MessageJob(ch).of = ch
  /\ \A c \in Callers : SnapshotJob(c) \in Jobs /\ SnapshotJob(c).kind = "snapshot" /\ SnapshotJob(c).of = c
<1>1. NoJob \notin Jobs /\ Nobody # "worker"
  BY RecorderAssumption
<1>2. \A j \in Jobs : \/ j.kind = "message" /\ j.of \in Channels /\ j = MessageJob(j.of)
                      \/ j.kind = "snapshot" /\ j.of \in Callers /\ j = SnapshotJob(j.of)
  BY DEF Jobs, MessageJob, SnapshotJob
<1>3. \A ch \in Channels : MessageJob(ch) \in Jobs /\ MessageJob(ch).kind = "message" /\ MessageJob(ch).of = ch
  BY DEF Jobs, MessageJob
<1>4. \A c \in Callers : SnapshotJob(c) \in Jobs /\ SnapshotJob(c).kind = "snapshot" /\ SnapshotJob(c).of = c
  BY DEF Jobs, SnapshotJob
<1> QED BY <1>1, <1>2, <1>3, <1>4

(* A job is added at the end of the queue.                                 *)
LEMMA AppendFacts ==
  ASSUME NEW S, NEW s \in Seq(S), NEW j \in S
  PROVE  /\ Append(s, j) \in Seq(S) /\ Len(Append(s, j)) = Len(s) + 1 /\ Len(s) \in Nat
         /\ DOMAIN Append(s, j) = 1 .. Len(s) + 1 /\ DOMAIN s = 1 .. Len(s)
         /\ \A k \in 1 .. Len(s) : Append(s, j)[k] = s[k]
         /\ Append(s, j)[Len(s) + 1] = j
OBVIOUS

(* The oldest job is taken.                                                *)
LEMMA TailFacts ==
  ASSUME NEW S, NEW s \in Seq(S), s # <<>>
  PROVE  /\ Head(s) \in S /\ Head(s) = s[1] /\ Tail(s) \in Seq(S)
         /\ Len(Tail(s)) = Len(s) - 1 /\ Len(s) \in Nat \ {0}
         /\ DOMAIN Tail(s) = 1 .. Len(s) - 1 /\ DOMAIN s = 1 .. Len(s)
         /\ \A k \in 1 .. Len(s) - 1 : Tail(s)[k] = s[k + 1]
OBVIOUS

(* There are finitely many messages ahead.                                 *)
LEMMA AheadType ==
  ASSUME NEW s, NEW ch, NEW n \in Nat
  PROVE  Ahead(s, ch, n) \in Nat /\ IsFiniteSet({k \in 1 .. n : s[k] = MessageJob(ch)}) /\ Ahead(s, ch, 0) = 0
<1>1. IsFiniteSet(1 .. n)
  BY FS_Interval
<1>2. IsFiniteSet({k \in 1 .. n : s[k] = MessageJob(ch)})
  BY <1>1, FS_Subset
<1>3. {k \in 1 .. 0 : s[k] = MessageJob(ch)} = {}
  OBVIOUS
<1> QED BY <1>2, <1>3, FS_CardinalityType, FS_EmptySet DEF Ahead

(* A job that is added is behind the others.                               *)
LEMMA AheadAppend ==
  ASSUME NEW s \in Seq(Jobs), NEW j \in Jobs, NEW ch \in Channels
  PROVE  /\ \A n \in 0 .. Len(s) : Ahead(Append(s, j), ch, n) = Ahead(s, ch, n)
         /\ Ahead(Append(s, j), ch, Len(s) + 1) = Ahead(s, ch, Len(s)) + (IF j = MessageJob(ch) THEN 1 ELSE 0)
<1> DEFINE r == Append(s, j)
           m == MessageJob(ch)
<1>1. /\ Len(s) \in Nat /\ \A k \in 1 .. Len(s) : r[k] = s[k]
      /\ r[Len(s) + 1] = j
  BY AppendFacts
<1> HIDE DEF r, m
<1>2. ASSUME NEW n \in 0 .. Len(s) PROVE Ahead(r, ch, n) = Ahead(s, ch, n)
  <2>1. {k \in 1 .. n : r[k] = m} = {k \in 1 .. n : s[k] = m}
    BY <1>1
  <2> QED BY <2>1 DEF Ahead, m
<1>3. Ahead(r, ch, Len(s) + 1) = Ahead(s, ch, Len(s)) + (IF j = m THEN 1 ELSE 0)
  <2> DEFINE A == {k \in 1 .. Len(s) : s[k] = m}
  <2>1. IsFiniteSet(A) /\ Cardinality(A) \in Nat /\ Cardinality(A) = Ahead(s, ch, Len(s))
    BY <1>1, AheadType DEF Ahead, m
  <2>2. {k \in 1 .. Len(s) + 1 : r[k] = m} = IF j = m THEN A \union {Len(s) + 1} ELSE A
    BY <1>1
  <2>3. Len(s) + 1 \notin A
    BY <1>1
  <2> HIDE DEF A
  <2>4. Cardinality(A \union {Len(s) + 1}) = Cardinality(A) + 1
    BY <2>1, <2>3, FS_AddElement
  <2>5. Ahead(r, ch, Len(s) + 1) = Cardinality(IF j = m THEN A \union {Len(s) + 1} ELSE A)
    BY <2>2 DEF Ahead, m
  <2>6. CASE j = m
    BY <2>1, <2>4, <2>5, <2>6
  <2>7. CASE j # m
    BY <2>1, <2>5, <2>7
  <2> QED BY <2>6, <2>7
<1> QED BY <1>2, <1>3 DEF r, m

(* When the oldest job is taken the others move up.                        *)
LEMMA AheadTail ==
  ASSUME NEW s \in Seq(Jobs), s # <<>>, NEW ch \in Channels, NEW n \in 1 .. Len(s)
  PROVE  Ahead(s, ch, n) = Ahead(Tail(s), ch, n - 1) + (IF Head(s) = MessageJob(ch) THEN 1 ELSE 0)
<1> DEFINE r == Tail(s)
           m == MessageJob(ch)
           A == {k \in 1 .. n - 1 : r[k] = m}
           B == {k \in 2 .. n : s[k] = m}
           f == [k \in A |-> k + 1]
<1>1. Head(s) = s[1] /\ Len(s) \in Nat \ {0} /\ \A k \in 1 .. Len(s) - 1 : r[k] = s[k + 1]
  BY TailFacts
<1> HIDE DEF r, m
<1>2. f \in Bijection(A, B)
  <2>1. f \in [A -> B]
    BY <1>1
  <2>2. \A x, y \in A : f[x] = f[y] => x = y
    OBVIOUS
  <2>3. ASSUME NEW y \in B PROVE \E x \in A : f[x] = y
    <3>1. y - 1 \in A
      BY <1>1
    <3> QED BY <3>1
  <2> QED BY <2>1, <2>2, <2>3 DEF Bijection, Injection, Surjection, IsInjective
<1>3. IsFiniteSet(A) /\ Cardinality(A) = Ahead(r, ch, n - 1)
  <2>1. n - 1 \in Nat
    OBVIOUS
  <2> QED BY <2>1, AheadType DEF Ahead, m
<1>4. IsFiniteSet(B) /\ Cardinality(B) = Cardinality(A)
  BY <1>2, <1>3, FS_Bijection DEF ExistsBijection
<1>5. {k \in 1 .. n : s[k] = m} = IF s[1] = m THEN B \union {1} ELSE B
  OBVIOUS
<1>6. 1 \notin B
  OBVIOUS
<1> HIDE DEF A, B, f
<1>7. Cardinality(B \union {1}) = Cardinality(B) + 1
  BY <1>4, <1>6, FS_AddElement
<1>8. Ahead(s, ch, n) = Cardinality(IF s[1] = m THEN B \union {1} ELSE B)
  BY <1>5 DEF Ahead, m
<1>9. Cardinality(A) \in Nat
  BY <1>3, FS_CardinalityType
<1>10. CASE s[1] = m
  BY <1>1, <1>3, <1>4, <1>7, <1>8, <1>9, <1>10 DEF m, r
<1>11. CASE s[1] # m
  BY <1>1, <1>3, <1>4, <1>8, <1>9, <1>11 DEF m, r
<1> QED BY <1>10, <1>11

-----------------------------------------------------------------------------
(* Steps as the invariant sees them: one that it does not notice, a call   *)
(* of the user or of the thread that begins, and one that ends.            *)
Aside ==
  /\ UNCHANGED <<channelVars, jobs, job, jobpc, callVars, dirVars>>
  /\ opc = "gone" <=> opc' = "gone"
  /\ tpc' = tpc \/ (tpc \notin {"generating", "keep"} /\ tpc' \notin {"generating", "keep"})

Asks(c) ==
  /\ AddSnapshotJob(c) /\ UNCHANGED <<channelVars, dirVars, opc>>
  /\ calls[c] # "waiting"
  /\ \/ c = Thread /\ tpc = "call" /\ tpc' = "generating"
     \/ c # Thread /\ tpc' = tpc

Returns(c) ==
  /\ Answered(c) /\ calls' = [calls EXCEPT ![c] = "returned"]
  /\ UNCHANGED <<channelVars, jobs, job, jobpc, flag, success, coverage, dirVars, opc>>
  /\ \/ c = Thread /\ tpc = "generating" /\ tpc' = IF success[Thread] THEN "keep" ELSE "waiting"
     \/ c # Thread /\ tpc' = tpc

Copies == \E ok, left \in BOOLEAN : (ok => left) /\ CopyDirectory(ok, left)

(* Every step is one of these.                                             *)
LEMMA Kinds ==
  ASSUME Calling, [Next]_vars
  PROVE  \/ Aside
         \/ \E ch \in Channels : CreateFile(ch) \/ SubscribeChannel(ch) \/ Publish(ch)
         \/ \E c \in Callers : Asks(c) \/ Returns(c)
         \/ TakeJob \/ WriteMessage \/ CloseFiles \/ Copies \/ OpenFiles \/ NotifyCaller \/ FinishJob
         \/ ThreadKeeps \/ ClearFiles
<1> USE DEF channelVars, strandVars, callVars, dirVars, threadVars, ownerVars
<1>0. \A c \in Users : c # Thread
  BY RecorderAssumption DEF Users, Thread
<1>1. ASSUME NEW c \in Callers, UserCalls(c) PROVE Asks(c)
  BY <1>0, <1>1 DEF UserCalls, Asks
<1>2. ASSUME NEW c \in Callers, UserReturns(c) PROVE Returns(c)
  BY <1>0, <1>2 DEF UserReturns, Returns
<1>3. ASSUME WorkerStep \/ \E left \in BOOLEAN : CopyDirectory(FALSE, left)
      PROVE  TakeJob \/ WriteMessage \/ CloseFiles \/ Copies \/ OpenFiles \/ NotifyCaller \/ FinishJob
  BY <1>3 DEF WorkerStep, Copies
<1>4. ASSUME ThreadStep
      PROVE  Aside \/ (\E c \in Callers : Asks(c) \/ Returns(c)) \/ ThreadKeeps
  <2>1. ASSUME ThreadExits \/ ThreadSkips \/ ThreadDecides \/ ThreadWakes PROVE Aside
    <3>1. /\ UNCHANGED <<channelVars, jobs, job, jobpc, callVars, dirVars, opc>>
          /\ tpc \in {"check", "waiting"} /\ tpc' \in {"exited", "waiting", "call", "check"}
      BY <2>1 DEF ThreadExits, ThreadSkips, ThreadDecides, ThreadWakes, Requeue
    <3> QED BY <3>1 DEF Aside
  <2>2. Thread \in Callers
    BY DEF Callers, Thread
  <2>3. ASSUME ThreadCalls PROVE Asks(Thread)
    BY <2>3 DEF ThreadCalls, Asks, Calling
  <2>4. ASSUME ThreadReturns PROVE Returns(Thread)
    BY <2>4 DEF ThreadReturns, Returns, Requeue
  <2> QED BY <1>4, <2>1, <2>2, <2>3, <2>4 DEF ThreadStep
<1>5. ASSUME StopRunner \/ WorkerLeaves \/ SetShutdown \/ JoinThread \/ Tick PROVE Aside
  <2>1. UNCHANGED <<channelVars, jobs, job, jobpc, callVars, dirVars, tpc>> /\ (opc = "gone" <=> opc' = "gone")
    BY <1>5 DEF StopRunner, WorkerLeaves, SetShutdown, JoinThread, Tick
  <2> QED BY <2>1 DEF Aside
<1>6. ASSUME UNCHANGED vars PROVE Aside
  BY <1>6 DEF vars, Aside
<1> QED BY <1>1, <1>2, <1>3, <1>4, <1>5, <1>6 DEF Next, OwnerStep

-----------------------------------------------------------------------------
(* The files and the jobs of the strand.                                   *)
LEMMA RecordingStep == IInv /\ [Next]_vars => Recording'
<1> SUFFICES ASSUME IInv, [Next]_vars
             PROVE  Recording'
  OBVIOUS
<1>0. /\ file \in [Channels -> {"none", "open", "closed"}] /\ subscribed \subseteq Channels
      /\ jobs \in Seq(Jobs) /\ (job = NoJob \/ job \in Jobs)
      /\ (mutex = "worker") <=> Copying
      /\ Recording /\ Calling
  BY DEF IInv, TypeOK, Copying
<1> USE DEF Recording, channelVars, strandVars, callVars, dirVars, threadVars, ownerVars
<1>1. ASSUME UNCHANGED <<file, subscribed, jobs, job, jobpc>>, opc = "gone" <=> opc' = "gone" PROVE Recording'
  BY <1>0, <1>1 DEF Copying, RunsSnapshot
<1>2. ASSUME NEW ch \in Channels, CreateFile(ch) PROVE Recording'
  <2>1. ~Copying /\ ~Copying'
    BY <1>0, <1>2, JobFacts DEF CreateFile, Copying, RunsSnapshot
  <2>2. \A d \in Channels : file'[d] = IF d = ch THEN "open" ELSE file[d]
    BY <1>0, <1>2 DEF CreateFile
  <2>3. UNCHANGED <<subscribed, jobs, job, opc>>
    BY <1>2 DEF CreateFile
  <2> QED BY <1>0, <2>1, <2>2, <2>3
<1>3. ASSUME NEW ch \in Channels, SubscribeChannel(ch) PROVE Recording'
  BY <1>0, <1>3 DEF SubscribeChannel, Copying, RunsSnapshot
<1>4. ASSUME NEW j \in Jobs, jobs' = Append(jobs, j), j.kind = "message" => j.of \in subscribed,
             UNCHANGED <<file, subscribed, job, jobpc, opc>>
      PROVE  Recording'
  <2>1. Copying' <=> Copying
    BY <1>4 DEF Copying, RunsSnapshot
  <2>2. \A k \in DOMAIN jobs' : jobs'[k].kind = "message" => jobs'[k].of \in subscribed
    BY <1>0, <1>4, AppendFacts
  <2> QED BY <1>0, <1>4, <2>1, <2>2
<1>5. ASSUME NEW ch \in Channels, Publish(ch) PROVE Recording'
  BY <1>4, <1>5, JobFacts DEF Publish
<1>6. ASSUME NEW c \in Callers, Asks(c) PROVE Recording'
  BY <1>4, <1>6, JobFacts DEF Asks, AddSnapshotJob
<1>7. ASSUME TakeJob PROVE Recording'
  <2>1. ~Copying /\ ~Copying'
    BY <1>0, <1>7 DEF TakeJob, Copying, RunsSnapshot
  <2>2. /\ jobs # <<>> /\ job' = Head(jobs) /\ jobs' = Tail(jobs)
        /\ UNCHANGED <<file, subscribed, opc>>
    BY <1>7 DEF TakeJob
  <2>3. /\ job' = jobs[1] /\ 1 \in DOMAIN jobs
        /\ \A k \in DOMAIN jobs' : k + 1 \in DOMAIN jobs /\ jobs'[k] = jobs[k + 1]
    BY <1>0, <2>2, TailFacts
  <2> QED BY <1>0, <2>1, <2>2, <2>3
<1>8. ASSUME WriteMessage \/ FinishJob PROVE Recording'
  <2>1. ~Copying /\ ~Copying'
    BY <1>8 DEF WriteMessage, FinishJob, Copying, RunsSnapshot
  <2>2. job' = NoJob /\ UNCHANGED <<file, subscribed, jobs, opc>>
    BY <1>8 DEF WriteMessage, FinishJob
  <2> QED BY <1>0, <2>1, <2>2
<1>9. ASSUME CloseFiles PROVE Recording'
  <2>1. /\ ~Copying /\ Copying'
        /\ \A d \in Channels : file'[d] = IF file[d] = "open" THEN "closed" ELSE file[d]
        /\ UNCHANGED <<subscribed, jobs, job, opc>>
    BY <1>9 DEF CloseFiles, Copying, RunsSnapshot
  <2> QED BY <1>0, <2>1
<1>10. ASSUME Copies PROVE Recording'
  <2>1. Copying /\ Copying' /\ UNCHANGED <<file, subscribed, jobs, job, opc>>
    BY <1>10 DEF Copies, CopyDirectory, Copying, RunsSnapshot
  <2> QED BY <1>0, <2>1
<1>11. ASSUME OpenFiles PROVE Recording'
  <2>1. /\ Copying /\ ~Copying'
        /\ \A d \in Channels : file'[d] = IF file[d] = "closed" THEN "open" ELSE file[d]
        /\ UNCHANGED <<subscribed, jobs, job, opc>>
    BY <1>11 DEF OpenFiles, Copying, RunsSnapshot
  <2> QED BY <1>0, <2>1
<1>12. ASSUME NotifyCaller PROVE Recording'
  <2>1. ~Copying /\ ~Copying' /\ UNCHANGED <<file, subscribed, jobs, job, opc>>
    BY <1>12 DEF NotifyCaller, Copying, RunsSnapshot
  <2> QED BY <1>0, <2>1
<1>13. ASSUME ClearFiles PROVE Recording'
  <2>1. /\ Copying' <=> Copying
        /\ \A d \in Channels : file'[d] = "none"
        /\ UNCHANGED <<subscribed, jobs, job>> /\ opc' = "gone"
    BY <1>13 DEF ClearFiles, Copying, RunsSnapshot
  <2> QED BY <1>0, <2>1
<1>14. ASSUME NEW c \in Callers, Returns(c) PROVE Recording'
  BY <1>1, <1>14 DEF Returns
<1>15. ASSUME Aside \/ ThreadKeeps PROVE Recording'
  BY <1>1, <1>15 DEF Aside, ThreadKeeps
<1> QED BY <1>0, <1>2, <1>3, <1>5, <1>6, <1>7, <1>8, <1>9, <1>10, <1>11, <1>12, <1>13, <1>14, <1>15, Kinds

-----------------------------------------------------------------------------
(* The interval that the thread puts back is one of the queue.             *)
LEMMA RequeueFacts ==
  ASSUME wake \in [Intervals -> Nat], current \in Intervals, Requeue
  PROVE  wake' \in [Intervals -> Nat] /\ current' \in Intervals /\ tpc' = "waiting"
<1>1. PeriodOf \in [Intervals -> Nat \ {0}]
  BY RecorderAssumption
<1>2. wake' \in [Intervals -> Nat]
  <2>1. /\ wake' = [wake EXCEPT ![current] = wake[current] + PeriodOf[current]]
        /\ wake[current] + PeriodOf[current] \in Nat
    <3>1. wake' = [wake EXCEPT ![current] = @ + PeriodOf[current]]
      BY DEF Requeue
    <3>2. wake[current] \in Nat /\ PeriodOf[current] \in Nat
      BY <1>1
    <3> QED BY ONLY <3>1, <3>2
  <2> QED BY ONLY <2>1, wake \in [Intervals -> Nat], current \in Intervals
<1>3. current' = Earliest(wake')
  BY DEF Requeue
<1>4. \A w \in [Intervals -> Nat] : Earliest(w) \in Intervals
  BY EarliestFacts
<1> QED BY <1>2, <1>3, <1>4 DEF Requeue

(* Every variable keeps its type.                                          *)
LEMMA TypeOKStep == IInv /\ [Next]_vars => TypeOK'
<1> SUFFICES ASSUME IInv, [Next]_vars
             PROVE  TypeOK'
  OBVIOUS
<1>0. TypeOK /\ Shapes
  BY DEF IInv
<1> USE JobFacts DEF TypeOK, RunsSnapshot, channelVars, strandVars, callVars, dirVars, threadVars, ownerVars
<1>1. ASSUME NEW ch \in Channels, CreateFile(ch) PROVE TypeOK'
  BY <1>0, <1>1 DEF CreateFile
<1>2. ASSUME NEW ch \in Channels, SubscribeChannel(ch) PROVE TypeOK'
  BY <1>0, <1>2 DEF SubscribeChannel
<1>3. ASSUME NEW ch \in Channels, Publish(ch) PROVE TypeOK'
  <2>1. MessageJob(ch) \in Jobs /\ MaxMessages \in Nat
    BY RecorderAssumption
  <2>2. published' \in [Channels -> 0..MaxMessages]
    BY <1>0, <1>3, <2>1 DEF Publish
  <2>3. jobs' \in Seq(Jobs)
    BY <1>0, <1>3, <2>1 DEF Publish
  <2> QED BY <1>0, <1>3, <2>2, <2>3 DEF Publish
<1>4. ASSUME NEW c \in Callers, UserCalls(c) PROVE TypeOK'
  BY <1>0, <1>4 DEF UserCalls, AddSnapshotJob
<1>5. ASSUME NEW c \in Callers, UserReturns(c) PROVE TypeOK'
  BY <1>0, <1>5 DEF UserReturns
<1>6. ASSUME TakeJob PROVE TypeOK'
  <2>1. workers' \in 0..Workers
    BY <1>0, <1>6, RecorderAssumption DEF TakeJob
  <2> QED BY <1>0, <1>6, <2>1 DEF TakeJob
<1>7. ASSUME WriteMessage PROVE TypeOK'
  <2>1. job \in Jobs /\ job.of \in Channels /\ job = MessageJob(job.of)
    BY <1>0, <1>7 DEF WriteMessage
  <2>2. PICK ch \in Channels : ch = job.of
    BY <2>1
  <2>3. records[ch] + 1 + Ahead(jobs, ch, Len(jobs)) = published[ch] /\ Len(jobs) \in Nat
    BY <1>0, <2>1, <2>2 DEF IInv, Counting, InWork
  <2>4. Ahead(jobs, ch, Len(jobs)) \in Nat
    BY <2>3, AheadType
  <2>5. records[ch] + 1 \in 0..MaxMessages
    BY <1>0, <2>3, <2>4, RecorderAssumption
  <2>6. records' \in [Channels -> 0..MaxMessages]
    BY <1>0, <1>7, <2>2, <2>5 DEF WriteMessage
  <2> QED BY <1>0, <1>7, <2>6 DEF WriteMessage
<1>8. ASSUME CloseFiles PROVE TypeOK'
  BY <1>0, <1>8 DEF CloseFiles
<1>9. ASSUME Copies PROVE TypeOK'
  BY <1>0, <1>9 DEF Copies, CopyDirectory
<1>10. ASSUME OpenFiles PROVE TypeOK'
  BY <1>0, <1>10 DEF OpenFiles
<1>11. ASSUME NotifyCaller PROVE TypeOK'
  BY <1>0, <1>11 DEF NotifyCaller
<1>12. ASSUME FinishJob PROVE TypeOK'
  BY <1>0, <1>12 DEF FinishJob
<1>13. ASSUME ThreadExits PROVE TypeOK'
  BY <1>0, <1>13 DEF ThreadExits
<1>14. ASSUME ThreadSkips PROVE TypeOK'
  BY <1>0, <1>14, RequeueFacts DEF ThreadSkips
<1>15. ASSUME ThreadDecides PROVE TypeOK'
  BY <1>0, <1>15 DEF ThreadDecides
<1>16. ASSUME ThreadCalls PROVE TypeOK'
  <2>1. Thread \in Callers
    BY DEF Callers, Thread
  <2>2. /\ calls' \in [Callers -> {"idle", "waiting", "returned"}]
        /\ flag' \in [Callers -> BOOLEAN] /\ success' \in [Callers -> BOOLEAN]
    BY <1>0, <1>16, <2>1 DEF ThreadCalls, AddSnapshotJob
  <2>3. jobs' \in Seq(Jobs)
    BY <1>0, <1>16, <2>1 DEF ThreadCalls, AddSnapshotJob
  <2> QED BY <1>0, <1>16, <2>2, <2>3 DEF ThreadCalls, AddSnapshotJob
<1>17. ASSUME ThreadReturns PROVE TypeOK'
  <2>1. calls' \in [Callers -> {"idle", "waiting", "returned"}]
    BY <1>0, <1>17 DEF ThreadReturns
  <2>2. /\ wake' \in [Intervals -> Nat] /\ current' \in Intervals
        /\ tpc' \in {"keep", "waiting"}
    BY <1>0, <1>17, RequeueFacts DEF ThreadReturns
  <2> QED BY <1>0, <1>17, <2>1, <2>2 DEF ThreadReturns
<1>18. ASSUME ThreadKeeps PROVE TypeOK'
  <2>1. wake' \in [Intervals -> Nat] /\ current' \in Intervals /\ tpc' = "waiting"
    BY <1>0, <1>18, RequeueFacts DEF ThreadKeeps
  <2> QED BY <1>0, <1>18, <2>1 DEF ThreadKeeps
<1>19. ASSUME ThreadWakes PROVE TypeOK'
  BY <1>0, <1>19 DEF ThreadWakes
<1>20. ASSUME StopRunner \/ WorkerLeaves PROVE TypeOK'
  <2>1. workers' \in 0..Workers
    BY <1>0, <1>20, RecorderAssumption DEF StopRunner, WorkerLeaves
  <2> QED BY <1>0, <1>20, <2>1 DEF StopRunner, WorkerLeaves
<1>21. ASSUME SetShutdown PROVE TypeOK'
  BY <1>0, <1>21 DEF SetShutdown
<1>22. ASSUME JoinThread PROVE TypeOK'
  BY <1>0, <1>22 DEF JoinThread
<1>23. ASSUME ClearFiles PROVE TypeOK'
  BY <1>0, <1>23 DEF ClearFiles
<1>24. ASSUME Tick PROVE TypeOK'
  <2>1. now' \in 0..MaxTime
    BY <1>0, <1>24, RecorderAssumption DEF Tick
  <2> QED BY <1>0, <1>24, <2>1 DEF Tick
<1>25. ASSUME UNCHANGED vars PROVE TypeOK'
  BY <1>0, <1>25 DEF vars
<1> QED
  BY <1>1, <1>2, <1>3, <1>4, <1>5, <1>6, <1>7, <1>8, <1>9, <1>10, <1>11, <1>12, <1>13, <1>14, <1>15, <1>16, <1>17, <1>18, <1>19, <1>20, <1>21, <1>22, <1>23, <1>24, <1>25
     DEF Next, WorkerStep, ThreadStep, OwnerStep, Copies

-----------------------------------------------------------------------------
(* What the thread keeps: the newest directory is listed, and the oldest   *)
(* of the list may go.                                                     *)
Keeps(d) ==
  /\ Newest(d) /\ ~d.stuck /\ \A i \in Intervals : d.id \notin Range(paths[i])
  /\ LET list == Append(paths[current], d.id) IN
       \/ paths' = [paths EXCEPT ![current] = list] /\ disk' = disk
       \/ \E o \in ThreadDirs :
            /\ ~o.stuck /\ o.id = Head(list)
            /\ paths' = [paths EXCEPT ![current] = Tail(list)]
            /\ disk' \in {disk \ {o}, (disk \ {o}) \union {[o EXCEPT !.stuck = TRUE]}}

(* Elements and range of a list.                                           *)
LEMMA RangeFacts ==
  ASSUME NEW s \in Seq(Nat)
  PROVE  /\ Range(s) \subseteq Nat
         /\ \A k \in 1 .. Len(s) : s[k] \in Range(s)
         /\ \A n \in Range(s) : \E k \in 1 .. Len(s) : s[k] = n
BY DEF Range

\* The directory the snapshot thread keeps is the one unlisted and the newest.
LEMMA KeepFacts ==
  ASSUME IInv, ThreadKeeps
  PROVE  \E d \in ThreadDirs : Keeps(d)
<1>0. /\ TypeOK /\ Shapes /\ Dirs /\ Listing /\ tpc = "keep" /\ success[Thread]
  BY DEF IInv, Calling, ThreadKeeps
<1>1. /\ ThreadDirs \subseteq disk /\ current \in Intervals /\ paths[current] \in Seq(Nat)
      /\ \A s \in disk : s.id \in Nat
  BY <1>0 DEF ThreadDirs, TypeOK, Shapes
<1>2. PICK d \in ThreadDirs : Newest(d) /\ ~d.stuck /\ \A i \in Intervals : d.id \notin Range(paths[i])
  BY <1>0 DEF Listing, Unlisted
<1>3. ThreadDir = d
  <2>1. Newest(ThreadDir)
    BY <1>2 DEF ThreadDir, Newest
  <2>2. ThreadDir.id = d.id
    BY <1>1, <1>2, <2>1 DEF Newest
  <2> QED BY <1>0, <1>1, <2>1, <2>2 DEF Dirs, Newest
<1> DEFINE list == Append(paths[current], d.id)
<1>4. list \in Seq(Nat) /\ Len(list) = Len(paths[current]) + 1 /\ Len(paths[current]) \in Nat
  BY <1>1
<1>5. PICK o \in ThreadDirs : ~o.stuck /\ o.id = Head(list)
  <2>1. CASE paths[current] = <<>>
    <3>1. Head(list) = d.id
      BY <2>1
    <3> QED BY <3>1, <1>2
  <2>2. CASE paths[current] # <<>>
    <3>1. Head(list) = paths[current][1] /\ 1 \in 1 .. Len(paths[current])
      BY <1>1, <2>2
    <3>2. Head(list) \in Range(paths[current])
      BY <1>1, <3>1, RangeFacts
    <3> QED BY <1>0, <1>1, <3>2 DEF Listing
  <2> QED BY <2>1, <2>2
<1>6. {s \in disk : s.id = Head(list)} = {o}
  BY <1>0, <1>1, <1>5 DEF Dirs
<1>7. {[s EXCEPT !.stuck = TRUE] : s \in {o}} = {[o EXCEPT !.stuck = TRUE]}
  OBVIOUS
<1>8. Maintain(list)
  BY <1>3 DEF ThreadKeeps
<1> HIDE DEF list
<1>9. \/ paths' = [paths EXCEPT ![current] = list] /\ disk' = disk
      \/ /\ paths' = [paths EXCEPT ![current] = Tail(list)]
         /\ disk' \in {disk \ {o}, (disk \ {o}) \union {[o EXCEPT !.stuck = TRUE]}}
  BY <1>6, <1>7, <1>8 DEF Maintain
<1> QED BY <1>2, <1>5, <1>9 DEF Keeps, list

-----------------------------------------------------------------------------
(* A directory the copy leaves.                                            *)
LEMMA CopyFacts ==
  ASSUME IInv, Copies
  PROVE  /\ job # NoJob /\ job.kind = "snapshot" /\ jobpc = "copy" /\ jobpc' = "open"
         /\ nextDir \in Nat /\ nextDir' = nextDir + 1
         /\ \E ok, left \in BOOLEAN :
              /\ ok => left
              /\ success' = [success EXCEPT ![job.of] = ok]
              /\ disk' = IF left THEN disk \union {Snapshot(nextDir, job.of, ok)} ELSE disk
         /\ job \in Jobs /\ job.of \in Callers
         /\ UNCHANGED <<channelVars, jobs, job, flag, calls, coverage, paths, tpc, current, opc>>
BY JobFacts DEF IInv, TypeOK, Shapes, Copies, CopyDirectory, RunsSnapshot, threadVars, ownerVars

(* Disks hold snapshots.                                                   *)
LEMMA ShapesStep == IInv /\ [Next]_vars => Shapes'
<1> SUFFICES ASSUME IInv, [Next]_vars
             PROVE  Shapes'
  OBVIOUS
<1>0. TypeOK /\ Shapes /\ Calling
  BY DEF IInv
<1> USE DEF Shapes
<1>1. ASSUME UNCHANGED <<coverage, dirVars>>, jobpc' \in {jobpc, "start", "copy", "open", "notify", "finish"}
      PROVE  Shapes'
  BY <1>0, <1>1 DEF dirVars
<1>2. ASSUME NEW c \in Callers, Asks(c) PROVE Shapes'
  <2>1. published \in [Channels -> Nat]
    BY <1>0, RecorderAssumption DEF TypeOK
  <2>2. coverage' = [coverage EXCEPT ![c] = published] /\ UNCHANGED <<jobpc, dirVars>>
    BY <1>2 DEF Asks, AddSnapshotJob
  <2>3. coverage' \in [Callers -> [Channels -> Nat]]
    BY <1>0, <2>1, <2>2
  <2> QED BY <1>0, <2>2, <2>3 DEF dirVars
<1>3. ASSUME Copies PROVE Shapes'
  <2>1. PICK ok, left \in BOOLEAN : disk' = IF left THEN disk \union {Snapshot(nextDir, job.of, ok)} ELSE disk
    BY <1>3, CopyFacts
  <2>2. records \in [Channels -> Nat]
    BY <1>0, RecorderAssumption DEF TypeOK
  <2>3. Snapshot(nextDir, job.of, ok) \in [id : Nat, caller : Callers, ok : BOOLEAN, content : [Channels -> Nat],
                     whole : BOOLEAN, stuck : BOOLEAN]
    BY <1>3, <2>2, CopyFacts DEF Snapshot
  <2> QED BY <1>0, <1>3, <2>1, <2>3, CopyFacts DEF dirVars
<1>4. ASSUME ThreadKeeps PROVE Shapes'
  <2>1. PICK d \in ThreadDirs : Keeps(d)
    BY <1>4, KeepFacts
  <2>2. d.id \in Nat /\ current \in Intervals /\ paths[current] \in Seq(Nat)
    BY <1>0 DEF ThreadDirs, TypeOK
  <2>3. PICK list \in Seq(Nat) : list = Append(paths[current], d.id)
    <3>1. Append(paths[current], d.id) \in Seq(Nat)
      BY <2>2
    <3> QED BY <3>1
  <2>4. list # <<>> /\ Tail(list) \in Seq(Nat)
    BY <2>2, <2>3
  <2>5. /\ paths' = [paths EXCEPT ![current] = list] \/ paths' = [paths EXCEPT ![current] = Tail(list)]
        /\ disk' = disk \/ \E o \in disk : disk' \in {disk \ {o}, (disk \ {o}) \union {[o EXCEPT !.stuck = TRUE]}}
    BY <2>1, <2>3 DEF Keeps, ThreadDirs
  <2>6. paths' \in [Intervals -> Seq(Nat)]
    BY <1>0, <2>2, <2>4, <2>5
  <2>7. disk' \subseteq [id : Nat, caller : Callers, ok : BOOLEAN, content : [Channels -> Nat],
                     whole : BOOLEAN, stuck : BOOLEAN]
    <3> DEFINE Shape == [id : Nat, caller : Callers, ok : BOOLEAN, content : [Channels -> Nat],
                         whole : BOOLEAN, stuck : BOOLEAN]
    <3>1. ASSUME NEW o \in disk PROVE [o EXCEPT !.stuck = TRUE] \in Shape
      <4>1. o \in Shape
        BY <1>0
      <4> QED BY ONLY <4>1
    <3>2. disk \subseteq Shape
      BY <1>0
    <3> HIDE DEF Shape
    <3>3. disk' \subseteq Shape
      BY ONLY <2>5, <3>1, <3>2
    <3> QED BY <3>3 DEF Shape
  <2> QED BY <1>0, <1>4, <2>6, <2>7 DEF ThreadKeeps, strandVars, callVars
<1>5. ASSUME NEW ch \in Channels, CreateFile(ch) \/ SubscribeChannel(ch) \/ Publish(ch) PROVE Shapes'
  BY <1>1, <1>5 DEF CreateFile, SubscribeChannel, Publish, strandVars, callVars
<1>6. ASSUME TakeJob \/ WriteMessage \/ CloseFiles \/ OpenFiles \/ NotifyCaller \/ FinishJob PROVE Shapes'
  BY <1>1, <1>6 DEF TakeJob, WriteMessage, CloseFiles, OpenFiles, NotifyCaller, FinishJob, callVars
<1>7. ASSUME NEW c \in Callers, Returns(c) PROVE Shapes'
  BY <1>1, <1>7 DEF Returns
<1>8. ASSUME Aside \/ ClearFiles PROVE Shapes'
  BY <1>1, <1>8 DEF Aside, ClearFiles, strandVars, callVars
<1> QED BY <1>0, <1>2, <1>3, <1>4, <1>5, <1>6, <1>7, <1>8, Kinds

-----------------------------------------------------------------------------
(* Names of directories, and what the copy found.                          *)
LEMMA DirsStep == IInv /\ [Next]_vars => Dirs' /\ SnapshotIsWhole'
<1> SUFFICES ASSUME IInv, [Next]_vars
             PROVE  Dirs' /\ SnapshotIsWhole'
  OBVIOUS
<1>0. TypeOK /\ Shapes /\ Calling /\ Dirs /\ SnapshotIsWhole
  BY DEF IInv
<1> USE DEF Dirs, SnapshotIsWhole
<1>1. ASSUME UNCHANGED <<disk, nextDir>> PROVE Dirs' /\ SnapshotIsWhole'
  BY <1>0, <1>1
<1>2. ASSUME Copies PROVE Dirs' /\ SnapshotIsWhole'
  <2>1. PICK ok, left \in BOOLEAN : disk' = IF left THEN disk \union {Snapshot(nextDir, job.of, ok)} ELSE disk
    BY <1>2, CopyFacts
  <2> DEFINE n == Snapshot(nextDir, job.of, ok)
  <2>2. n.id = nextDir /\ nextDir \in Nat /\ nextDir' = nextDir + 1
    BY <1>2, CopyFacts DEF Snapshot
  <2>3. n.whole
    <3>1. \A ch \in Channels : file[ch] # "open" /\ file[ch] \in {"none", "open", "closed"}
      BY <1>0, <1>2, CopyFacts DEF IInv, TypeOK, Recording, Copying, RunsSnapshot
    <3> QED BY <3>1 DEF Snapshot, Files
  <2>4. \A s \in disk : s.id \in Nat /\ s.id < nextDir
    BY <1>0 DEF Shapes
  <2>5. disk' \subseteq disk \union {n}
    BY <2>1
  <2> HIDE DEF n
  <2>6. \A s \in disk' : s.id < nextDir' /\ s.whole
    BY <1>0, <2>2, <2>3, <2>4, <2>5
  <2>7. \A r, s \in disk' : r.id = s.id => r = s
    BY <1>0, <2>2, <2>4, <2>5
  <2> QED BY <2>6, <2>7
<1>3. ASSUME ThreadKeeps PROVE Dirs' /\ SnapshotIsWhole'
  <2>1. nextDir' = nextDir
    BY <1>3 DEF ThreadKeeps
  <2>2. CASE disk' = disk
    BY <1>1, <2>1, <2>2
  <2>3. ASSUME NEW o \in disk, disk' \in {disk \ {o}, (disk \ {o}) \union {[o EXCEPT !.stuck = TRUE]}}
        PROVE  Dirs' /\ SnapshotIsWhole'
    <3>1. o \in [id : Nat, caller : Callers, ok : BOOLEAN, content : [Channels -> Nat],
                     whole : BOOLEAN, stuck : BOOLEAN]
      BY <1>0 DEF Shapes
    <3>2. PICK q : q = [o EXCEPT !.stuck = TRUE]
      OBVIOUS
    <3>3. q.id = o.id /\ q.whole = o.whole
      BY <3>1, <3>2
    <3>4. disk' \subseteq (disk \ {o}) \union {q}
      BY <2>3, <3>2
    <3> QED BY <1>0, <2>1, <3>3, <3>4
  <2> QED BY <1>3, <2>2, <2>3, KeepFacts DEF Keeps, ThreadDirs
<1>4. ASSUME NEW ch \in Channels, CreateFile(ch) \/ SubscribeChannel(ch) \/ Publish(ch) PROVE Dirs' /\ SnapshotIsWhole'
  BY <1>1, <1>4 DEF CreateFile, SubscribeChannel, Publish, dirVars
<1>5. ASSUME TakeJob \/ WriteMessage \/ CloseFiles \/ OpenFiles \/ NotifyCaller \/ FinishJob \/ ClearFiles \/ Aside
      PROVE  Dirs' /\ SnapshotIsWhole'
  BY <1>1, <1>5 DEF TakeJob, WriteMessage, CloseFiles, OpenFiles, NotifyCaller, FinishJob, ClearFiles, Aside, dirVars
<1>6. ASSUME NEW c \in Callers, Returns(c) \/ Asks(c) PROVE Dirs' /\ SnapshotIsWhole'
  BY <1>1, <1>6 DEF Returns, Asks, dirVars
<1> QED BY <1>0, <1>2, <1>3, <1>4, <1>5, <1>6, Kinds

-----------------------------------------------------------------------------
(* The messages of a channel, and what snapshots must contain of them.     *)
LEMMA CountingStep == IInv /\ [Next]_vars => Counting' /\ Covering'
<1> SUFFICES ASSUME IInv, [Next]_vars, NEW ch \in Channels
             PROVE  /\ records'[ch] + InWork(ch)' + Ahead(jobs', ch, Len(jobs')) = published'[ch]
                    /\ \A k \in DOMAIN jobs' : jobs'[k].kind = "snapshot" =>
                         coverage'[jobs'[k].of][ch] <= records'[ch] + InWork(ch)' + Ahead(jobs', ch, k)
                    /\ (RunsSnapshot("start") \/ RunsSnapshot("copy"))' => coverage'[job'.of][ch] <= records'[ch]
  BY DEF Counting, Covering
<1> DEFINE Fresh == RunsSnapshot("start") \/ RunsSnapshot("copy")
           Goal1 == records'[ch] + InWork(ch)' + Ahead(jobs', ch, Len(jobs')) = published'[ch]
           Goal2 == \A k \in DOMAIN jobs' : jobs'[k].kind = "snapshot" =>
                      coverage'[jobs'[k].of][ch] <= records'[ch] + InWork(ch)' + Ahead(jobs', ch, k)
           Goal3 == Fresh' => coverage'[job'.of][ch] <= records'[ch]
           Goals == Goal1 /\ Goal2 /\ Goal3
<1>0. /\ jobs \in Seq(Jobs) /\ (job = NoJob \/ job \in Jobs)
      /\ records \in [Channels -> Nat] /\ published \in [Channels -> Nat]
      /\ coverage \in [Callers -> [Channels -> Nat]]
      /\ Calling
  BY RecorderAssumption DEF IInv, TypeOK, Shapes
<1>1. /\ records[ch] + InWork(ch) + Ahead(jobs, ch, Len(jobs)) = published[ch]
      /\ \A k \in DOMAIN jobs : jobs[k].kind = "snapshot" =>
           coverage[jobs[k].of][ch] <= records[ch] + InWork(ch) + Ahead(jobs, ch, k)
      /\ Fresh => coverage[job.of][ch] <= records[ch]
  BY DEF IInv, Counting, Covering
<1>2. /\ Len(jobs) \in Nat /\ DOMAIN jobs = 1 .. Len(jobs)
      /\ \A n \in Nat : Ahead(jobs, ch, n) \in Nat
      /\ InWork(ch) \in Nat /\ records[ch] \in Nat /\ published[ch] \in Nat
  <2>1. Len(jobs) \in Nat /\ DOMAIN jobs = 1 .. Len(jobs)
    BY <1>0
  <2>2. \A n \in Nat : Ahead(jobs, ch, n) \in Nat
    BY AheadType
  <2>3. InWork(ch) \in Nat
    BY DEF InWork
  <2> QED BY <1>0, <2>1, <2>2, <2>3
<1>3. ASSUME UNCHANGED <<records, published, coverage, jobs, job>>, Fresh' => Fresh PROVE Goals
  BY <1>1, <1>3 DEF InWork
<1>4. ASSUME NEW d \in Channels, Publish(d) PROVE Goals
  <2>1. /\ MessageJob(d) \in Jobs /\ MessageJob(d).kind = "message"
        /\ MessageJob(d) = MessageJob(ch) <=> d = ch
    BY JobFacts
  <2>2. /\ jobs' = Append(jobs, MessageJob(d)) /\ published' = [published EXCEPT ![d] = published[d] + 1]
        /\ UNCHANGED <<records, coverage, job, jobpc>>
    BY <1>4 DEF Publish, callVars
  <2>3. /\ Len(jobs') = Len(jobs) + 1 /\ DOMAIN jobs' = 1 .. Len(jobs) + 1
        /\ \A k \in 1 .. Len(jobs) : jobs'[k] = jobs[k]
        /\ jobs'[Len(jobs) + 1] = MessageJob(d)
    BY <1>0, <2>1, <2>2, AppendFacts
  <2>4. /\ \A n \in 0 .. Len(jobs) : Ahead(jobs', ch, n) = Ahead(jobs, ch, n)
        /\ Ahead(jobs', ch, Len(jobs) + 1) = Ahead(jobs, ch, Len(jobs)) + (IF d = ch THEN 1 ELSE 0)
    BY <1>0, <2>1, <2>2, AheadAppend
  <2>5. InWork(ch)' = InWork(ch) /\ (Fresh' <=> Fresh)
    BY <2>2 DEF InWork, RunsSnapshot
  <2>6. published'[ch] = published[ch] + (IF d = ch THEN 1 ELSE 0)
    BY <1>0, <2>2
  <2>7. Goal1
    <3>1. Ahead(jobs', ch, Len(jobs')) = Ahead(jobs, ch, Len(jobs)) + (IF d = ch THEN 1 ELSE 0)
      BY <2>3, <2>4
    <3>2. /\ Ahead(jobs, ch, Len(jobs)) \in Nat /\ InWork(ch) \in Nat /\ records[ch] \in Nat
          /\ published[ch] = records[ch] + InWork(ch) + Ahead(jobs, ch, Len(jobs))
      BY <1>1, <1>2
    <3>3. records'[ch] = records[ch] /\ InWork(ch)' = InWork(ch)
      BY <2>2, <2>5
    <3>4. CASE d = ch
      BY <2>6, <3>1, <3>2, <3>3, <3>4
    <3>5. CASE d # ch
      BY <2>6, <3>1, <3>2, <3>3, <3>5
    <3> QED BY <3>4, <3>5
  <2>8. Goal2
    <3>1. ASSUME NEW k \in DOMAIN jobs', jobs'[k].kind = "snapshot"
          PROVE  coverage'[jobs'[k].of][ch] <= records'[ch] + InWork(ch)' + Ahead(jobs', ch, k)
      <4>1. k # Len(jobs) + 1
        BY <2>1, <2>3, <3>1
      <4>2. k \in 1 .. Len(jobs) /\ k \in 0 .. Len(jobs) /\ jobs'[k] = jobs[k]
        <5>1. k \in 1 .. Len(jobs) + 1 /\ Len(jobs) \in Nat
          BY <1>2, <2>3
        <5>2. k \in 1 .. Len(jobs)
          BY <5>1, <4>1
        <5> QED BY <2>3, <5>2
      <4>3. coverage[jobs[k].of][ch] <= records[ch] + InWork(ch) + Ahead(jobs, ch, k)
        BY <1>1, <1>2, <3>1, <4>2
      <4>4. Ahead(jobs', ch, k) = Ahead(jobs, ch, k)
        BY <2>4, <4>2
      <4> QED BY <2>2, <2>5, <4>2, <4>3, <4>4
    <3> QED BY <3>1
  <2>9. Goal3
    BY <1>1, <2>2, <2>5
  <2> QED BY <2>7, <2>8, <2>9
<1>5. ASSUME NEW c \in Callers, Asks(c) PROVE Goals
  <2>1. /\ SnapshotJob(c) \in Jobs /\ SnapshotJob(c).kind = "snapshot" /\ SnapshotJob(c).of = c
        /\ SnapshotJob(c) # MessageJob(ch)
    BY JobFacts
  <2>2. /\ jobs' = Append(jobs, SnapshotJob(c)) /\ coverage' = [coverage EXCEPT ![c] = published]
        /\ UNCHANGED <<records, published, job, jobpc>> /\ calls[c] # "waiting"
    BY <1>5 DEF Asks, AddSnapshotJob, channelVars
  <2>3. /\ Len(jobs') = Len(jobs) + 1 /\ DOMAIN jobs' = 1 .. Len(jobs) + 1
        /\ \A k \in 1 .. Len(jobs) : jobs'[k] = jobs[k]
        /\ jobs'[Len(jobs) + 1] = SnapshotJob(c)
    BY <1>0, <2>1, <2>2, AppendFacts
  <2>4. /\ \A n \in 0 .. Len(jobs) : Ahead(jobs', ch, n) = Ahead(jobs, ch, n)
        /\ Ahead(jobs', ch, Len(jobs) + 1) = Ahead(jobs, ch, Len(jobs))
    BY <1>0, <1>2, <2>1, <2>2, AheadAppend
  <2>5. InWork(ch)' = InWork(ch) /\ (Fresh' <=> Fresh)
    BY <2>2 DEF InWork, RunsSnapshot
  <2>6. coverage'[c][ch] = published[ch] /\ \A e \in Callers : e # c => coverage'[e] = coverage[e]
    BY <1>0, <2>2
  <2>7. Goal1
    BY <1>1, <2>2, <2>3, <2>4, <2>5
  <2>8. Goal2
    <3>1. ASSUME NEW k \in DOMAIN jobs', jobs'[k].kind = "snapshot"
          PROVE  coverage'[jobs'[k].of][ch] <= records'[ch] + InWork(ch)' + Ahead(jobs', ch, k)
      <4>1. CASE k = Len(jobs) + 1
        <5>1. coverage'[jobs'[k].of][ch] = published[ch]
          BY <2>1, <2>3, <2>6, <4>1
        <5>2. records'[ch] + InWork(ch)' + Ahead(jobs', ch, k) = published[ch]
          BY <1>1, <1>2, <2>2, <2>4, <2>5, <4>1
        <5>3. published[ch] \in Nat
          BY <1>2
        <5> QED BY ONLY <5>1, <5>2, <5>3
      <4>2. CASE k # Len(jobs) + 1
        <5>1. k \in 1 .. Len(jobs) /\ k \in 0 .. Len(jobs) /\ jobs'[k] = jobs[k]
          <6>1. k \in 1 .. Len(jobs) + 1 /\ Len(jobs) \in Nat
            BY <1>2, <2>3
          <6>2. k \in 1 .. Len(jobs)
            BY <6>1, <4>2
          <6> QED BY <2>3, <6>2
        <5>2. jobs[k] \in Jobs /\ jobs[k].kind = "snapshot"
          BY <1>0, <3>1, <5>1
        <5>3. jobs[k].of \in Callers
          BY <5>2, JobFacts
        <5>4. jobs[k].of # c
          BY <1>0, <1>2, <2>2, <5>1, <5>2 DEF Calling
        <5>5. coverage'[jobs'[k].of] = coverage[jobs[k].of]
          BY <2>6, <5>1, <5>3, <5>4
        <5>6. coverage[jobs[k].of][ch] <= records[ch] + InWork(ch) + Ahead(jobs, ch, k)
          BY <1>1, <1>2, <5>1, <5>2
        <5>7. Ahead(jobs', ch, k) = Ahead(jobs, ch, k)
          BY <2>4, <5>1
        <5> QED BY <2>2, <2>5, <5>5, <5>6, <5>7
      <4> QED BY <4>1, <4>2
    <3> QED BY <3>1
  <2>9. Goal3
    <3>1. ASSUME Fresh' PROVE coverage'[job'.of][ch] <= records'[ch]
      <4>1. job \in Jobs /\ job.of \in Callers /\ job.of # c
        BY <1>0, <2>2, <2>5, <3>1, JobFacts DEF Calling, RunsSnapshot
      <4> QED BY <1>1, <2>2, <2>5, <2>6, <3>1, <4>1
    <3> QED BY <3>1
  <2> QED BY <2>7, <2>8, <2>9
<1>6. ASSUME TakeJob PROVE Goals
  <2>1. /\ jobs # <<>> /\ job = NoJob /\ job' = Head(jobs) /\ jobs' = Tail(jobs) /\ jobpc' = "start"
        /\ UNCHANGED <<records, published, coverage>>
    BY <1>6 DEF TakeJob, channelVars, callVars
  <2>2. /\ job' = jobs[1] /\ Len(jobs') = Len(jobs) - 1 /\ Len(jobs) \in Nat \ {0}
        /\ DOMAIN jobs' = 1 .. Len(jobs) - 1 /\ job' \in Jobs
        /\ \A k \in 1 .. Len(jobs) - 1 : jobs'[k] = jobs[k + 1]
    BY <1>0, <2>1, TailFacts
  <2>3. InWork(ch) = 0 /\ InWork(ch)' = IF Head(jobs) = MessageJob(ch) THEN 1 ELSE 0
    BY <2>1, JobFacts DEF InWork
  <2>4. \A n \in 1 .. Len(jobs) : Ahead(jobs, ch, n) = Ahead(jobs', ch, n - 1) + InWork(ch)'
    BY <1>0, <2>1, <2>3, AheadTail
  <2>5. \A n \in Nat : Ahead(jobs', ch, n) \in Nat
    BY AheadType
  <2>6. Goal1
    <3>1. Len(jobs) \in 1 .. Len(jobs) /\ Len(jobs) - 1 \in Nat /\ Len(jobs') = Len(jobs) - 1
      BY <2>2
    <3>2. Ahead(jobs, ch, Len(jobs)) = Ahead(jobs', ch, Len(jobs')) + InWork(ch)'
      BY <2>4, <3>1
    <3>3. Ahead(jobs', ch, Len(jobs')) \in Nat /\ InWork(ch)' \in Nat /\ InWork(ch) = 0
      <4>1. Len(jobs') \in Nat
        BY ONLY <3>1
      <4>2. InWork(ch)' \in Nat /\ InWork(ch) = 0
        BY ONLY <2>3
      <4> QED BY <2>5, <4>1, <4>2
    <3>4. records'[ch] = records[ch] /\ published'[ch] = published[ch]
      BY <2>1
    <3>5. records[ch] + 0 + (Ahead(jobs', ch, Len(jobs')) + InWork(ch)') = published[ch] /\ records[ch] \in Nat
      BY <1>1, <1>2, <3>2, <3>3
    <3> QED BY <3>3, <3>4, <3>5
  <2>7. Goal2
    <3>1. ASSUME NEW k \in DOMAIN jobs', jobs'[k].kind = "snapshot"
          PROVE  coverage'[jobs'[k].of][ch] <= records'[ch] + InWork(ch)' + Ahead(jobs', ch, k)
      <4>1. k \in Nat /\ k + 1 \in 1 .. Len(jobs) /\ jobs'[k] = jobs[k + 1] /\ (k + 1) - 1 = k
        BY <2>2
      <4>2. Ahead(jobs, ch, k + 1) = Ahead(jobs', ch, k) + InWork(ch)' /\ Ahead(jobs', ch, k) \in Nat
        BY <2>4, <2>5, <4>1
      <4>3. coverage[jobs[k + 1].of][ch] <= records[ch] + InWork(ch) + Ahead(jobs, ch, k + 1)
        BY <1>1, <1>2, <3>1, <4>1
      <4>4. records[ch] + InWork(ch) + Ahead(jobs, ch, k + 1) = records[ch] + InWork(ch)' + Ahead(jobs', ch, k)
        <5>1. InWork(ch)' \in Nat /\ InWork(ch) = 0 /\ records[ch] \in Nat
          BY <1>2, <2>3
        <5> QED BY <4>2, <5>1
      <4> QED BY <2>1, <4>1, <4>3, <4>4
    <3> QED BY <3>1
  <2>8. Goal3
    <3>1. ASSUME Fresh' PROVE coverage'[job'.of][ch] <= records'[ch]
      <4>1. job'.kind = "snapshot" /\ InWork(ch)' = 0 /\ 1 \in 1 .. Len(jobs)
        BY <2>2, <2>3, <2>1, <3>1, JobFacts DEF RunsSnapshot
      <4>2. Ahead(jobs, ch, 1) = 0
        <5>1. Ahead(jobs, ch, 1) = Ahead(jobs', ch, 1 - 1) + 0
          BY <2>4, <4>1
        <5>2. Ahead(jobs', ch, 0) = 0
          BY AheadType
        <5> QED BY <5>1, <5>2
      <4>3. job' = jobs[1] /\ 1 \in DOMAIN jobs
        BY <1>2, <2>2, <4>1
      <4>4. coverage[jobs[1].of][ch] <= records[ch] + InWork(ch) + Ahead(jobs, ch, 1)
        BY <1>1, <4>1, <4>3
      <4>5. records[ch] + InWork(ch) + Ahead(jobs, ch, 1) = records[ch]
        BY <1>2, <2>3, <4>2
      <4> QED BY <2>1, <4>3, <4>4, <4>5
    <3> QED BY <3>1
  <2> QED BY <2>6, <2>7, <2>8
<1>7. ASSUME WriteMessage \/ FinishJob PROVE Goals
  <2>1. /\ job \in Jobs /\ job' = NoJob /\ UNCHANGED <<published, coverage, jobs>>
        /\ InWork(ch)' = 0 /\ ~Fresh'
    BY <1>0, <1>7, JobFacts DEF WriteMessage, FinishJob, RunsSnapshot, InWork, channelVars, callVars
  <2>2. records'[ch] = records[ch] + InWork(ch)
    <3>1. CASE WriteMessage
      <4>1. job.of \in Channels /\ job = MessageJob(job.of) /\ records' = [records EXCEPT ![job.of] = records[job.of] + 1]
        BY <2>1, <3>1, JobFacts DEF WriteMessage
      <4>2. job = MessageJob(ch) <=> job.of = ch
        BY <4>1, JobFacts
      <4> QED BY <1>0, <4>1, <4>2 DEF InWork
    <3>2. CASE FinishJob
      <4>1. InWork(ch) = 0 /\ records' = records
        BY <3>2, JobFacts DEF FinishJob, RunsSnapshot, InWork, channelVars
      <4> QED BY <1>2, <4>1
    <3> QED BY <1>7, <3>1, <3>2
  <2>3. records'[ch] + InWork(ch)' = records[ch] + InWork(ch)
    <3>1. records[ch] \in Nat /\ InWork(ch) \in Nat
      BY <1>2
    <3> QED BY ONLY <2>1, <2>2, <3>1
  <2>4. Goal1 /\ Goal2
    BY <1>1, <2>1, <2>3
  <2>5. Goal3
    BY <2>1
  <2> QED BY <2>3, <2>4, <2>5
<1>8. ASSUME CloseFiles \/ OpenFiles \/ NotifyCaller \/ Copies PROVE Goals
  BY <1>3, <1>8 DEF CloseFiles, OpenFiles, NotifyCaller, Copies, CopyDirectory, RunsSnapshot, channelVars, callVars
<1>9. ASSUME NEW c \in Callers, Returns(c) PROVE Goals
  BY <1>3, <1>9 DEF Returns, RunsSnapshot, channelVars
<1>10. ASSUME Aside \/ ThreadKeeps \/ ClearFiles PROVE Goals
  BY <1>3, <1>10 DEF Aside, ThreadKeeps, ClearFiles, RunsSnapshot, channelVars, callVars, strandVars
<1>11. ASSUME NEW d \in Channels, CreateFile(d) \/ SubscribeChannel(d) PROVE Goals
  BY <1>3, <1>11 DEF CreateFile, SubscribeChannel, RunsSnapshot, callVars, strandVars
<1> HIDE DEF Goal1, Goal2, Goal3, Fresh
<1>12. Goals
  BY <1>0, <1>4, <1>5, <1>6, <1>7, <1>8, <1>9, <1>10, <1>11, Kinds
<1> QED BY <1>12 DEF Goal1, Goal2, Goal3, Fresh

-----------------------------------------------------------------------------
(* A call that waits has one job.                                          *)
LEMMA CallingStep == IInv /\ [Next]_vars => Calling'
<1> SUFFICES ASSUME IInv, [Next]_vars
             PROVE  Calling'
  OBVIOUS
<1>0. /\ jobs \in Seq(Jobs) /\ (job = NoJob \/ job \in Jobs)
      /\ calls \in [Callers -> {"idle", "waiting", "returned"}]
      /\ flag \in [Callers -> BOOLEAN] /\ success \in [Callers -> BOOLEAN]
      /\ Calling /\ Thread \in Callers
  BY DEF IInv, TypeOK, Callers, Thread
<1>1. /\ Len(jobs) \in Nat /\ DOMAIN jobs = 1 .. Len(jobs)
      /\ \A k \in DOMAIN jobs : jobs[k] \in Jobs
      /\ \A k \in DOMAIN jobs : jobs[k].kind = "snapshot" =>
           jobs[k].of \in Callers /\ jobs[k] = SnapshotJob(jobs[k].of)
      /\ job # NoJob /\ job.kind = "snapshot" => job.of \in Callers /\ job = SnapshotJob(job.of)
  <2>1. \A k \in DOMAIN jobs : jobs[k] \in Jobs
    BY <1>0
  <2> QED BY <1>0, <2>1, JobFacts
<1>2. ASSUME UNCHANGED <<jobs, job, jobpc, callVars>>, tpc' = "generating" <=> tpc = "generating",
             tpc' = "keep" => tpc = "keep"
      PROVE  Calling'
  BY <1>0, <1>2 DEF Calling, RunsSnapshot, callVars
<1>3. ASSUME NEW ch \in Channels, Publish(ch) PROVE Calling'
  <2>1. /\ jobs' = Append(jobs, MessageJob(ch)) /\ UNCHANGED <<job, jobpc, flag, success, calls, tpc>>
    BY <1>3 DEF Publish, callVars, threadVars
  <2>2. MessageJob(ch) \in Jobs /\ MessageJob(ch).kind = "message"
    BY JobFacts
  <2>3. /\ DOMAIN jobs' = 1 .. Len(jobs) + 1
        /\ \A k \in 1 .. Len(jobs) : jobs'[k] = jobs[k]
        /\ jobs'[Len(jobs) + 1] = MessageJob(ch)
    BY <1>0, <2>1, <2>2, AppendFacts
  <2>4. \A k \in DOMAIN jobs' : (k \in DOMAIN jobs /\ jobs'[k] = jobs[k]) \/ jobs'[k].kind = "message"
    <3>1. \A k \in 1 .. Len(jobs) + 1 : k \in 1 .. Len(jobs) \/ k = Len(jobs) + 1
      BY <1>1
    <3> QED BY <1>1, <2>2, <2>3, <3>1
  <2> QED BY <1>0, <2>1, <2>4 DEF Calling, RunsSnapshot
<1>4. ASSUME NEW c \in Callers, Asks(c) PROVE Calling'
  <2>1. /\ jobs' = Append(jobs, SnapshotJob(c)) /\ calls' = [calls EXCEPT ![c] = "waiting"]
        /\ flag' = [flag EXCEPT ![c] = FALSE] /\ success' = [success EXCEPT ![c] = FALSE]
        /\ UNCHANGED <<job, jobpc>> /\ calls[c] # "waiting"
        /\ \/ c = Thread /\ tpc = "call" /\ tpc' = "generating"
           \/ c # Thread /\ tpc' = tpc
    BY <1>4 DEF Asks, AddSnapshotJob
  <2>2. /\ SnapshotJob(c) \in Jobs /\ SnapshotJob(c).kind = "snapshot" /\ SnapshotJob(c).of = c
    BY JobFacts
  <2>3. /\ DOMAIN jobs' = 1 .. Len(jobs) + 1
        /\ \A k \in 1 .. Len(jobs) : jobs'[k] = jobs[k]
        /\ jobs'[Len(jobs) + 1] = SnapshotJob(c)
    BY <1>0, <2>1, <2>2, AppendFacts
  <2>4. /\ \A k \in DOMAIN jobs' : (k \in DOMAIN jobs /\ jobs'[k] = jobs[k]) \/ (k = Len(jobs) + 1 /\ jobs'[k] = SnapshotJob(c))
    <3>1. \A k \in 1 .. Len(jobs) + 1 : k \in 1 .. Len(jobs) \/ k = Len(jobs) + 1
      BY <1>1
    <3> QED BY <1>1, <2>3, <3>1
  <2>5. /\ calls'[c] = "waiting" /\ ~flag'[c] /\ ~success'[c]
        /\ \A e \in Callers : e # c => calls'[e] = calls[e] /\ flag'[e] = flag[e] /\ success'[e] = success[e]
    BY <1>0, <2>1
  <2>6. \A k \in DOMAIN jobs : jobs[k].kind = "snapshot" => jobs[k].of # c /\ jobs[k] # SnapshotJob(c)
    BY <1>0, <2>1, <2>2 DEF Calling
  <2>7. \A k \in DOMAIN jobs' : jobs'[k].kind = "snapshot" =>
          calls'[jobs'[k].of] = "waiting" /\ ~flag'[jobs'[k].of] /\ ~success'[jobs'[k].of]
    <3>1. ASSUME NEW k \in DOMAIN jobs, jobs[k].kind = "snapshot"
          PROVE  calls'[jobs[k].of] = "waiting" /\ ~flag'[jobs[k].of] /\ ~success'[jobs[k].of]
      BY <1>0, <1>1, <2>5, <2>6, <3>1 DEF Calling
    <3> QED BY <2>2, <2>4, <2>5, <3>1
  <2>8. \A k, l \in DOMAIN jobs' : jobs'[k].kind = "snapshot" /\ jobs'[k] = jobs'[l] => k = l
    <3>1. SUFFICES ASSUME NEW k \in DOMAIN jobs', NEW l \in DOMAIN jobs', jobs'[k].kind = "snapshot", jobs'[k] = jobs'[l]
                   PROVE  k = l
      OBVIOUS
    <3>2. CASE jobs'[k] = SnapshotJob(c)
      BY <2>2, <2>4, <2>6, <3>1, <3>2
    <3>3. CASE jobs'[k] # SnapshotJob(c)
      BY <1>0, <2>4, <3>1, <3>3 DEF Calling
    <3> QED BY <3>2, <3>3
  <2>9. job # NoJob /\ job.kind = "snapshot" /\ jobpc # "finish" =>
          job.of # c /\ job.of \in Callers /\ job # SnapshotJob(c)
    BY <1>0, <1>1, <2>1, <2>2 DEF Calling
  <2>10. job' # NoJob /\ job'.kind = "snapshot" /\ jobpc' # "finish" =>
           /\ calls'[job'.of] = "waiting" /\ ~flag'[job'.of]
           /\ \A k \in DOMAIN jobs' : jobs'[k] # job'
    BY <1>0, <2>1, <2>4, <2>5, <2>9 DEF Calling
  <2>11. (RunsSnapshot("start") \/ RunsSnapshot("copy"))' => ~success'[job'.of]
    BY <1>0, <2>1, <2>5, <2>9 DEF Calling, RunsSnapshot
  <2>12. (calls'[Thread] = "waiting" <=> tpc' = "generating") /\ (tpc' = "keep" => success'[Thread])
    BY <1>0, <2>1, <2>5 DEF Calling
  <2> QED BY <2>7, <2>8, <2>10, <2>11, <2>12 DEF Calling
<1>5. ASSUME NEW c \in Callers, Returns(c) PROVE Calling'
  <2>1. /\ flag[c] /\ calls[c] = "waiting" /\ calls' = [calls EXCEPT ![c] = "returned"]
        /\ UNCHANGED <<jobs, job, jobpc, flag, success>>
        /\ \/ c = Thread /\ tpc = "generating" /\ tpc' = IF success[Thread] THEN "keep" ELSE "waiting"
           \/ c # Thread /\ tpc' = tpc
    BY <1>5 DEF Returns, Answered
  <2>2. calls'[c] = "returned" /\ \A e \in Callers : e # c => calls'[e] = calls[e]
    BY <1>0, <2>1
  <2>3. \A k \in DOMAIN jobs : jobs[k].kind = "snapshot" => calls'[jobs[k].of] = "waiting"
    BY <1>0, <1>1, <2>1, <2>2 DEF Calling
  <2>4. job # NoJob /\ job.kind = "snapshot" /\ jobpc # "finish" => calls'[job.of] = "waiting"
    BY <1>0, <1>1, <2>1, <2>2 DEF Calling
  <2>5. (calls'[Thread] = "waiting" <=> tpc' = "generating") /\ (tpc' = "keep" => success'[Thread])
    BY <1>0, <2>1, <2>2 DEF Calling
  <2> QED BY <1>0, <2>1, <2>3, <2>4, <2>5 DEF Calling, RunsSnapshot
<1>6. ASSUME TakeJob PROVE Calling'
  <2>1. /\ jobs # <<>> /\ job' = Head(jobs) /\ jobs' = Tail(jobs) /\ jobpc' = "start"
        /\ UNCHANGED <<calls, flag, success, tpc>>
    BY <1>6 DEF TakeJob, callVars, threadVars
  <2>2. /\ job' = jobs[1] /\ 1 \in DOMAIN jobs
        /\ \A k \in DOMAIN jobs' : k + 1 \in DOMAIN jobs /\ k + 1 # 1 /\ jobs'[k] = jobs[k + 1] /\ k \in Nat
    BY <1>0, <2>1, TailFacts
  <2>3. \A k \in DOMAIN jobs' : jobs'[k].kind = "snapshot" =>
          calls'[jobs'[k].of] = "waiting" /\ ~flag'[jobs'[k].of] /\ ~success'[jobs'[k].of]
    BY <1>0, <2>1, <2>2 DEF Calling
  <2>4. \A k, l \in DOMAIN jobs' : jobs'[k].kind = "snapshot" /\ jobs'[k] = jobs'[l] => k = l
    <3>1. SUFFICES ASSUME NEW k \in DOMAIN jobs', NEW l \in DOMAIN jobs', jobs'[k].kind = "snapshot", jobs'[k] = jobs'[l]
                   PROVE  k = l
      OBVIOUS
    <3>2. k + 1 = l + 1
      BY <1>0, <2>2, <3>1 DEF Calling
    <3> QED BY <2>2, <3>2
  <2>5. job'.kind = "snapshot" =>
           /\ calls'[job'.of] = "waiting" /\ ~flag'[job'.of] /\ ~success'[job'.of]
           /\ \A k \in DOMAIN jobs' : jobs'[k] # job'
    BY <1>0, <2>1, <2>2 DEF Calling
  <2>6. (calls'[Thread] = "waiting" <=> tpc' = "generating") /\ (tpc' = "keep" => success'[Thread])
    BY <1>0, <2>1 DEF Calling
  <2>7. (RunsSnapshot("start") \/ RunsSnapshot("copy"))' => ~success'[job'.of]
    BY <2>5 DEF RunsSnapshot
  <2> QED BY <2>3, <2>4, <2>5, <2>6, <2>7 DEF Calling
<1>7. ASSUME WriteMessage \/ FinishJob PROVE Calling'
  <2>1. job' = NoJob /\ UNCHANGED <<jobs, calls, flag, success, tpc>>
    BY <1>7 DEF WriteMessage, FinishJob, callVars, threadVars
  <2> QED BY <1>0, <2>1 DEF Calling, RunsSnapshot
<1>8. ASSUME CloseFiles \/ OpenFiles PROVE Calling'
  <2>1. /\ UNCHANGED <<job, jobs, calls, flag, success, tpc>> /\ jobpc # "finish"
        /\ (RunsSnapshot("start") \/ RunsSnapshot("copy"))' => RunsSnapshot("start") \/ RunsSnapshot("copy")
    BY <1>8 DEF CloseFiles, OpenFiles, RunsSnapshot, callVars, threadVars
  <2> QED BY <1>0, <2>1 DEF Calling
<1>9. ASSUME Copies \/ NotifyCaller PROVE Calling'
  <2>1. /\ job # NoJob /\ job.kind = "snapshot" /\ jobpc # "finish" /\ job.of \in Callers
        /\ UNCHANGED <<job, jobs, calls, tpc>>
        /\ ~(RunsSnapshot("start") \/ RunsSnapshot("copy"))'
    BY <1>1, <1>9 DEF Copies, CopyDirectory, NotifyCaller, RunsSnapshot, threadVars
  <2>2. PICK c \in Callers : c = job.of /\ job = SnapshotJob(c)
    BY <1>1, <2>1
  <2>3. \A k \in DOMAIN jobs : jobs[k].kind = "snapshot" => jobs[k].of # c /\ jobs[k].of \in Callers
    BY <1>0, <1>1, <2>1, <2>2 DEF Calling
  <2>4. calls[c] = "waiting" /\ ~flag[c] /\ \A k \in DOMAIN jobs : jobs[k] # job
    BY <1>0, <2>1, <2>2 DEF Calling
  <2>5. \A e \in Callers : e # c => flag'[e] = flag[e] /\ success'[e] = success[e]
    BY <1>0, <1>9, <2>2 DEF Copies, CopyDirectory, NotifyCaller
  <2>6. \A k \in DOMAIN jobs : jobs[k].kind = "snapshot" =>
          calls[jobs[k].of] = "waiting" /\ ~flag'[jobs[k].of] /\ ~success'[jobs[k].of]
    BY <1>0, <2>3, <2>5 DEF Calling
  <2>7. jobpc' = "finish" \/ flag'[c] = flag[c]
    BY <1>9 DEF Copies, CopyDirectory, NotifyCaller
  <2>8. tpc = "keep" => success'[Thread]
    BY <1>0, <2>4, <2>5 DEF Calling
  <2> QED BY <1>0, <2>1, <2>2, <2>4, <2>6, <2>7, <2>8 DEF Calling
<1>10. ASSUME NEW ch \in Channels, CreateFile(ch) \/ SubscribeChannel(ch) PROVE Calling'
  BY <1>2, <1>10 DEF CreateFile, SubscribeChannel, strandVars, threadVars
<1>11. ASSUME ThreadKeeps PROVE Calling'
  BY <1>2, <1>11 DEF ThreadKeeps, Requeue, strandVars
<1>12. ASSUME Aside \/ ClearFiles PROVE Calling'
  BY <1>2, <1>12 DEF Aside, ClearFiles, strandVars, threadVars
<1> QED BY <1>0, <1>3, <1>4, <1>5, <1>6, <1>7, <1>8, <1>9, <1>10, <1>11, <1>12, Kinds

-----------------------------------------------------------------------------
(* A call that succeeds has its snapshot on disk.                          *)
LEMMA KeptStep == IInv /\ [Next]_vars => Kept'
<1> SUFFICES ASSUME IInv, [Next]_vars
             PROVE  Kept'
  OBVIOUS
<1>0. /\ success \in [Callers -> BOOLEAN] /\ coverage \in [Callers -> [Channels -> Nat]]
      /\ records \in [Channels -> Nat] /\ Calling /\ Kept /\ Thread \in Callers
  BY RecorderAssumption DEF IInv, TypeOK, Shapes, Callers, Thread
<1> USE DEF Kept
<1>1. ASSUME UNCHANGED <<success, coverage, disk>>,
             tpc' \in {"generating", "keep"} => tpc \in {"generating", "keep"}
      PROVE  Kept'
  BY <1>0, <1>1
<1>2. ASSUME NEW c \in Callers, Asks(c) PROVE Kept'
  <2>1. /\ ~success'[c] /\ disk' = disk
        /\ \A e \in Callers : e # c => success'[e] = success[e] /\ coverage'[e] = coverage[e]
        /\ c = Thread \/ tpc' = tpc
    BY <1>0, <1>2 DEF Asks, AddSnapshotJob, dirVars
  <2> QED BY <1>0, <2>1
<1>3. ASSUME Copies PROVE Kept'
  <2>1. PICK ok, left \in BOOLEAN :
          /\ ok => left
          /\ success' = [success EXCEPT ![job.of] = ok]
          /\ disk' = IF left THEN disk \union {Snapshot(nextDir, job.of, ok)} ELSE disk
    BY <1>3, CopyFacts
  <2>2. PICK c \in Callers : c = job.of
    BY <1>3, CopyFacts
  <2>3. \A ch \in Channels : coverage[c][ch] <= records[ch]
    BY <1>3, <2>2, CopyFacts DEF IInv, Covering, RunsSnapshot
  <2>4. UNCHANGED <<coverage, tpc>> /\ disk \subseteq disk'
    BY <1>3, <2>1, CopyFacts
  <2>5. success'[c] = ok /\ \A e \in Callers : e # c => success'[e] = success[e]
    BY <1>0, <2>1, <2>2
  <2>6. ASSUME success'[c]
        PROVE  \E s \in disk' : s.caller = c /\ s.ok /\ \A ch \in Channels : s.content[ch] >= coverage'[c][ch]
    <3>1. PICK n : n = Snapshot(nextDir, c, ok)
      OBVIOUS
    <3>2. n.caller = c /\ n.ok = ok /\ n.content = records
      BY <3>1 DEF Snapshot
    <3>3. n \in disk' /\ ok
      BY <2>1, <2>2, <2>5, <2>6, <3>1
    <3>4. \A ch \in Channels : records[ch] >= coverage[c][ch]
      BY <1>0, <2>3
    <3> QED BY <2>4, <3>2, <3>3, <3>4
  <2>7. ASSUME NEW e \in Callers, e # c, success'[e], e = Thread => tpc' \in {"generating", "keep"}
        PROVE  \E s \in disk' : s.caller = e /\ s.ok /\ \A ch \in Channels : s.content[ch] >= coverage'[e][ch]
    BY <1>0, <2>4, <2>5, <2>7
  <2> QED BY <2>6, <2>7
<1>4. ASSUME ThreadKeeps PROVE Kept'
  <2>1. UNCHANGED <<success, coverage>> /\ tpc' = "waiting"
    BY <1>4 DEF ThreadKeeps, Requeue, callVars
  <2>2. disk' = disk \/ \E o \in ThreadDirs : disk \ {o} \subseteq disk'
    BY <1>4, KeepFacts DEF Keeps
  <2>3. \A s \in disk : s.caller # Thread => s \in disk'
    BY <2>2 DEF ThreadDirs
  <2> QED BY <1>0, <2>1, <2>3
<1>5. ASSUME NEW c \in Callers, Returns(c) PROVE Kept'
  BY <1>1, <1>5 DEF Returns, dirVars
<1>6. ASSUME NEW ch \in Channels, CreateFile(ch) \/ SubscribeChannel(ch) \/ Publish(ch) PROVE Kept'
  BY <1>1, <1>6 DEF CreateFile, SubscribeChannel, Publish, callVars, dirVars, threadVars
<1>7. ASSUME TakeJob \/ WriteMessage \/ CloseFiles \/ OpenFiles \/ NotifyCaller \/ FinishJob PROVE Kept'
  BY <1>1, <1>7 DEF TakeJob, WriteMessage, CloseFiles, OpenFiles, NotifyCaller, FinishJob, callVars, dirVars, threadVars
<1>8. ASSUME Aside \/ ClearFiles PROVE Kept'
  BY <1>1, <1>8 DEF Aside, ClearFiles, callVars, dirVars, threadVars
<1> QED BY <1>0, <1>2, <1>3, <1>4, <1>5, <1>6, <1>7, <1>8, Kinds

-----------------------------------------------------------------------------
(* A greater number goes to the end of a list.                             *)
LEMMA AppendIncreasing ==
  ASSUME NEW s \in Seq(Nat), NEW n \in Nat, Increasing(s), \A m \in Range(s) : m < n
  PROVE  Increasing(Append(s, n)) /\ Range(Append(s, n)) = Range(s) \union {n}
<1> DEFINE r == Append(s, n)
<1>1. /\ Len(s) \in Nat /\ DOMAIN s = 1 .. Len(s) /\ DOMAIN r = 1 .. Len(s) + 1
      /\ \A k \in 1 .. Len(s) : r[k] = s[k]
      /\ r[Len(s) + 1] = n
  OBVIOUS
<1> HIDE DEF r
<1>2. \A k \in DOMAIN r : (k \in DOMAIN s /\ r[k] = s[k]) \/ (k = Len(s) + 1 /\ r[k] = n)
  BY <1>1
<1>3. Increasing(r)
  <2>1. SUFFICES ASSUME NEW a \in DOMAIN r, NEW b \in DOMAIN r, a < b PROVE r[a] < r[b]
    BY DEF Increasing
  <2>2. a \in DOMAIN s /\ r[a] = s[a]
    BY <1>1, <1>2, <2>1
  <2>3. CASE b \in DOMAIN s
    BY <1>1, <2>1, <2>2, <2>3 DEF Increasing
  <2>4. CASE b \notin DOMAIN s
    <3>1. s[a] \in Range(s)
      BY <2>2 DEF Range
    <3> QED BY <1>2, <2>2, <2>4, <3>1
  <2> QED BY <2>3, <2>4
<1>4. Range(r) = Range(s) \union {n}
  <2>1. Range(r) \subseteq Range(s) \union {n}
    BY <1>2 DEF Range
  <2>2. \A k \in DOMAIN s : k \in DOMAIN r
    BY <1>1
  <2>3. Range(s) \subseteq Range(r)
    BY <1>1, <2>2 DEF Range
  <2>4. n \in Range(r)
    <3>1. Len(s) + 1 \in DOMAIN r
      BY <1>1
    <3> QED BY <1>1, <3>1 DEF Range
  <2> QED BY <2>1, <2>3, <2>4
<1> QED BY <1>3, <1>4 DEF r

(* The least one is taken from a list.                                     *)
LEMMA TailIncreasing ==
  ASSUME NEW s \in Seq(Nat), s # <<>>, Increasing(s)
  PROVE  Increasing(Tail(s)) /\ Range(Tail(s)) = Range(s) \ {Head(s)}
<1> DEFINE r == Tail(s)
<1>1. /\ Head(s) = s[1] /\ 1 \in DOMAIN s /\ DOMAIN s = 1 .. Len(s) /\ Len(s) \in Nat
      /\ \A k \in DOMAIN r : k \in Nat /\ k + 1 \in DOMAIN s /\ k + 1 > 1 /\ r[k] = s[k + 1]
      /\ \A k \in DOMAIN s : k # 1 => k \in Nat /\ k - 1 \in DOMAIN r
  BY TailFacts
<1>2. \A k \in DOMAIN s : s[k] \in Nat
  OBVIOUS
<1> HIDE DEF r
<1>3. Increasing(r)
  <2>1. SUFFICES ASSUME NEW a \in DOMAIN r, NEW b \in DOMAIN r, a < b PROVE r[a] < r[b]
    BY DEF Increasing
  <2>2. a + 1 < b + 1
    BY <1>1, <2>1
  <2> QED BY <1>1, <2>1, <2>2 DEF Increasing
<1>4. ASSUME NEW m \in Range(r) PROVE m \in Range(s) \ {Head(s)}
  <2>1. PICK k \in DOMAIN r : m = r[k]
    BY DEF Range
  <2>2. m = s[k + 1] /\ s[1] < s[k + 1] /\ k + 1 \in DOMAIN s
    BY <1>1, <2>1 DEF Increasing
  <2> QED BY <1>1, <1>2, <2>2 DEF Range
<1>5. ASSUME NEW m \in Range(s) \ {Head(s)} PROVE m \in Range(r)
  <2>1. PICK k \in DOMAIN s : m = s[k]
    BY DEF Range
  <2>2. k # 1 /\ k \in Nat /\ k - 1 \in DOMAIN r
    BY <1>1, <2>1
  <2>3. r[k - 1] = s[k]
    BY <1>1, <2>2
  <2> QED BY <2>1, <2>2, <2>3 DEF Range
<1> QED BY <1>3, <1>4, <1>5 DEF r

-----------------------------------------------------------------------------
(* The lists of directories are those on disk.                             *)
LEMMA ListingStep == IInv /\ [Next]_vars => Listing'
<1> SUFFICES ASSUME IInv, [Next]_vars
             PROVE  Listing'
  OBVIOUS
<1>0. /\ success \in [Callers -> BOOLEAN] /\ Thread \in Callers
      /\ paths \in [Intervals -> Seq(Nat)] /\ current \in Intervals /\ nextDir \in Nat
      /\ Calling /\ Dirs /\ Listing
      /\ ThreadDirs \subseteq disk /\ \A s \in disk : s.id \in Nat
      /\ \A i \in Intervals : paths[i] \in Seq(Nat) /\ Range(paths[i]) \subseteq Nat
  <2>1. paths \in [Intervals -> Seq(Nat)] /\ \A s \in disk : s.id \in Nat
    BY DEF IInv, Shapes
  <2>2. \A i \in Intervals : paths[i] \in Seq(Nat) /\ Range(paths[i]) \subseteq Nat
    BY <2>1, RangeFacts
  <2> QED BY <2>1, <2>2 DEF IInv, TypeOK, Shapes, ThreadDirs, Callers, Thread
<1>1. ASSUME UNCHANGED <<disk, paths>>, Unlisted' <=> Unlisted PROVE Listing'
  BY <1>0, <1>1 DEF Listing, Newest, ThreadDirs
<1>2. ASSUME NEW c \in Callers, Asks(c) PROVE Listing'
  <2>1. /\ ~success'[c] /\ UNCHANGED <<disk, paths>>
        /\ \A e \in Callers : e # c => success'[e] = success[e]
        /\ \/ c = Thread /\ tpc = "call"
           \/ c # Thread /\ tpc' = tpc
    BY <1>0, <1>2 DEF Asks, AddSnapshotJob, dirVars
  <2> QED BY <1>0, <1>1, <2>1 DEF Unlisted
<1>3. ASSUME NEW c \in Callers, Returns(c) PROVE Listing'
  <2>1. /\ UNCHANGED <<disk, paths, success>>
        /\ \/ c = Thread /\ tpc = "generating" /\ tpc' = IF success[Thread] THEN "keep" ELSE "waiting"
           \/ c # Thread /\ tpc' = tpc
    BY <1>3 DEF Returns, dirVars
  <2> QED BY <1>1, <2>1 DEF Unlisted
<1>4. ASSUME Copies PROVE Listing'
  <2>1. PICK ok, left \in BOOLEAN :
          /\ ok => left
          /\ success' = [success EXCEPT ![job.of] = ok]
          /\ disk' = IF left THEN disk \union {Snapshot(nextDir, job.of, ok)} ELSE disk
    BY <1>4, CopyFacts
  <2>2. PICK n : n = Snapshot(nextDir, job.of, ok)
    OBVIOUS
  <2>3. n.id = nextDir /\ n.caller = job.of /\ n.ok = ok /\ ~n.stuck
    BY <2>2 DEF Snapshot
  <2>4. /\ job.of \in Callers /\ calls[job.of] = "waiting" /\ ~success[job.of]
        /\ UNCHANGED <<paths, tpc>>
    BY <1>0, <1>4, CopyFacts DEF Calling, RunsSnapshot
  <2>5. CASE job.of = Thread /\ ok
    <3>1. ThreadDirs' = ThreadDirs \union {n} /\ Unlisted' /\ ~Unlisted
      BY <1>0, <2>1, <2>2, <2>3, <2>4, <2>5 DEF ThreadDirs, Unlisted, Calling
    <3>2. \A s \in ThreadDirs : s.id < nextDir
      BY <1>0 DEF Dirs
    <3>3. Newest(n)'
      BY <1>0, <2>3, <3>1, <3>2 DEF Newest
    <3>4. \A i \in Intervals : n.id \notin Range(paths[i])
      BY <1>0, <2>3, <3>2 DEF Listing
    <3> QED BY <1>0, <2>3, <2>4, <3>1, <3>3, <3>4 DEF Listing
  <2>6. CASE ~(job.of = Thread /\ ok)
    <3>1. ThreadDirs' = ThreadDirs
      BY <2>1, <2>2, <2>3, <2>6 DEF ThreadDirs
    <3>2. Unlisted' <=> Unlisted
      BY <1>0, <2>1, <2>4, <2>6 DEF Unlisted
    <3> QED BY <1>0, <2>4, <3>1, <3>2 DEF Listing, Newest
  <2> QED BY <2>5, <2>6
<1>5. ASSUME ThreadKeeps PROVE Listing'
  <2>1. PICK d \in ThreadDirs : Keeps(d)
    BY <1>5, KeepFacts
  <2> DEFINE list == Append(paths[current], d.id)
             Listed == UNION {Range(paths[i]) : i \in Intervals}
  <2>2. d.id \in Nat /\ ~d.stuck /\ ~Unlisted'
    BY <1>0, <1>5, <2>1 DEF Keeps, ThreadKeeps, Requeue, Unlisted
  <2>3. \A i \in Intervals : \A m \in Range(paths[i]) : m < d.id
    <3>1. ASSUME NEW i \in Intervals, NEW m \in Range(paths[i]) PROVE m < d.id
      <4>1. PICK s \in ThreadDirs : s.id = m
        BY <1>0 DEF Listing
      <4>2. m <= d.id /\ m # d.id /\ m \in Nat
        BY <1>0, <2>1, <4>1 DEF Keeps, Newest
      <4> QED BY <2>2, <4>2
    <3> QED BY <3>1
  <2>4. /\ list \in Seq(Nat) /\ list # <<>> /\ Increasing(list)
        /\ Range(list) = Range(paths[current]) \union {d.id}
    <3>1. list \in Seq(Nat) /\ list # <<>>
      <4>1. paths[current] \in Seq(Nat) /\ d.id \in Nat
        BY <1>0, <2>2
      <4> QED BY ONLY <4>1
    <3>2. paths[current] \in Seq(Nat) /\ Increasing(paths[current]) /\ \A m \in Range(paths[current]) : m < d.id
      BY <1>0, <2>3 DEF Listing
    <3> QED BY <2>2, <3>1, <3>2, AppendIncreasing
  <2>5. /\ \A s \in ThreadDirs : ~s.stuck => s.id = d.id \/ \E i \in Intervals : s.id \in Range(paths[i])
        /\ \A i \in Intervals : d.id \notin Range(paths[i])
    <3>1. \A s \in ThreadDirs : Newest(s) => s.id = d.id
      BY <1>0, <2>1 DEF Keeps, Newest
    <3> QED BY <1>0, <2>1, <3>1 DEF Listing, Keeps
  <2> HIDE DEF list, Listed
  <2>6. CASE paths' = [paths EXCEPT ![current] = list] /\ disk' = disk
    <3>1. /\ paths'[current] = list
          /\ \A i \in Intervals : i # current => paths'[i] = paths[i]
          /\ ThreadDirs' = ThreadDirs
      BY <1>0, <2>6 DEF ThreadDirs
    <3>2. \A i \in Intervals : Increasing(paths'[i])
      BY <1>0, <2>4, <3>1 DEF Listing
    <3>3. \A i, k \in Intervals : i # k => Range(paths'[i]) \intersect Range(paths'[k]) = {}
      <4>1. \A i \in Intervals : i # current =>
              Range(paths[i]) \intersect (Range(paths[current]) \union {d.id}) = {}
        BY <1>0, <2>5 DEF Listing
      <4> QED BY <1>0, <2>4, <3>1, <4>1 DEF Listing
    <3>4. \A i \in Intervals : \A m \in Range(paths'[i]) : \E s \in ThreadDirs' : s.id = m /\ ~s.stuck
      BY <1>0, <2>2, <2>4, <3>1 DEF Listing
    <3>5. \A s \in ThreadDirs' : ~s.stuck => \E i \in Intervals : s.id \in Range(paths'[i])
      BY <1>0, <2>4, <2>5, <3>1
    <3> QED BY <2>2, <3>2, <3>3, <3>4, <3>5 DEF Listing
  <2>7. ASSUME NEW o \in ThreadDirs, ~o.stuck, o.id = Head(list),
               paths' = [paths EXCEPT ![current] = Tail(list)],
               disk' \in {disk \ {o}, (disk \ {o}) \union {[o EXCEPT !.stuck = TRUE]}}
        PROVE  Listing'
    <3>1. Increasing(Tail(list)) /\ Range(Tail(list)) = (Range(paths[current]) \union {d.id}) \ {o.id}
      BY <2>4, <2>7, TailIncreasing
    <3>2. /\ paths'[current] = Tail(list)
          /\ \A i \in Intervals : i # current => paths'[i] = paths[i]
      BY <1>0, <2>7
    <3>3. \A s \in ThreadDirs' : ~s.stuck => s \in ThreadDirs /\ s # o
      <4>1. o \in [id : Nat, caller : Callers, ok : BOOLEAN, content : [Channels -> Nat],
                     whole : BOOLEAN, stuck : BOOLEAN]
        BY <1>0 DEF IInv, Shapes
      <4>2. [o EXCEPT !.stuck = TRUE].stuck
        BY <4>1
      <4> QED BY <2>7, <4>2 DEF ThreadDirs
    <3>4. \A s \in ThreadDirs : s # o => s \in ThreadDirs'
      BY <2>7 DEF ThreadDirs
    <3>5. \A s \in ThreadDirs : s.id = o.id => s = o
      BY <1>0 DEF Dirs
    <3>6. \A i \in Intervals : i # current => o.id \notin Range(paths[i])
      <4>1. o.id \in Range(list)
        BY <2>4, <2>7, TailFacts, RangeFacts
      <4> QED BY <1>0, <2>4, <2>5, <4>1 DEF Listing
    <3>7. \A i \in Intervals : Increasing(paths'[i])
      BY <1>0, <3>1, <3>2 DEF Listing
    <3>8. \A i, k \in Intervals : i # k => Range(paths'[i]) \intersect Range(paths'[k]) = {}
      <4>1. \A i \in Intervals : i # current =>
              Range(paths[i]) \intersect ((Range(paths[current]) \union {d.id}) \ {o.id}) = {}
        BY <1>0, <2>5 DEF Listing
      <4>2. \A i, k \in Intervals : i # k => Range(paths[i]) \intersect Range(paths[k]) = {}
        BY <1>0 DEF Listing
      <4> QED BY ONLY <3>1, <3>2, <4>1, <4>2
    <3>9. \A i \in Intervals : \A m \in Range(paths'[i]) : \E s \in ThreadDirs' : s.id = m /\ ~s.stuck
      <4>1. ASSUME NEW i \in Intervals, NEW m \in Range(paths'[i])
            PROVE  \E s \in ThreadDirs' : s.id = m /\ ~s.stuck
        <5>1. m # o.id /\ (m \in Range(paths[i]) \/ m = d.id)
          BY <3>1, <3>2, <3>6, <4>1
        <5>2. PICK s \in ThreadDirs : s.id = m /\ ~s.stuck
          BY <1>0, <2>1, <2>2, <5>1 DEF Listing
        <5> QED BY <3>4, <5>1, <5>2
      <4> QED BY <4>1
    <3>10. \A s \in ThreadDirs' : ~s.stuck => \E i \in Intervals : s.id \in Range(paths'[i])
      <4>1. ASSUME NEW s \in ThreadDirs', ~s.stuck
            PROVE  \E i \in Intervals : s.id \in Range(paths'[i])
        <5>1. s \in ThreadDirs /\ s.id # o.id
          BY <3>3, <3>5, <4>1
        <5>2. CASE s.id = d.id
          BY <1>0, <3>1, <3>2, <5>1, <5>2
        <5>3. ASSUME NEW i \in Intervals, s.id \in Range(paths[i])
              PROVE  s.id \in Range(paths'[i])
          BY <3>1, <3>2, <5>1, <5>3
        <5> QED BY <2>5, <4>1, <5>1, <5>2, <5>3
      <4> QED BY <4>1
    <3> QED BY <2>2, <3>7, <3>8, <3>9, <3>10 DEF Listing
  <2> QED BY <2>1, <2>6, <2>7 DEF Keeps, list
<1>6. ASSUME NEW ch \in Channels, CreateFile(ch) \/ SubscribeChannel(ch) \/ Publish(ch) PROVE Listing'
  BY <1>1, <1>6 DEF CreateFile, SubscribeChannel, Publish, callVars, dirVars, threadVars, Unlisted
<1>7. ASSUME TakeJob \/ WriteMessage \/ CloseFiles \/ OpenFiles \/ NotifyCaller \/ FinishJob PROVE Listing'
  BY <1>1, <1>7 DEF TakeJob, WriteMessage, CloseFiles, OpenFiles, NotifyCaller, FinishJob, callVars, dirVars, threadVars, Unlisted
<1>8. ASSUME Aside \/ ClearFiles PROVE Listing'
  BY <1>1, <1>8 DEF Aside, ClearFiles, callVars, dirVars, threadVars, Unlisted
<1> QED BY <1>0, <1>2, <1>3, <1>4, <1>5, <1>6, <1>7, <1>8, Kinds

-----------------------------------------------------------------------------
(* The invariant holds before anything is registered.                      *)
LEMMA InitInv == Init => IInv
<1> SUFFICES ASSUME Init PROVE IInv
  OBVIOUS
<1> USE DEF Init
<1>0. jobs = <<>> /\ DOMAIN jobs = {} /\ Len(jobs) = 0
  OBVIOUS
<1>1. TypeOK
  <2>1. [i \in Intervals |-> 0] \in [Intervals -> Nat]
    OBVIOUS
  <2>2. Earliest([i \in Intervals |-> 0]) \in Intervals
    BY <2>1, EarliestFacts
  <2>3. 0 \in 0..MaxMessages /\ 0 \in 0..MaxTime
    BY RecorderAssumption
  <2>4. mutex # "worker"
    BY RecorderAssumption
  <2>5. workers \in 0..Workers
    BY RecorderAssumption
  <2> QED BY <2>1, <2>2, <2>3, <2>4, <2>5 DEF TypeOK, RunsSnapshot
<1>2. Shapes
  BY DEF Shapes
<1>3. Recording
  BY <1>0 DEF Recording, Copying, RunsSnapshot
<1>4. Counting
  <2>1. \A ch \in Channels : Ahead(jobs, ch, 0) = 0
    BY AheadType
  <2>2. \A ch \in Channels : InWork(ch) = 0
    BY JobFacts DEF InWork
  <2> QED BY <1>0, <2>1, <2>2 DEF Counting
<1>5. Covering
  BY <1>0 DEF Covering, RunsSnapshot
<1>6. Calling
  <2>1. Thread \in Callers
    BY DEF Callers, Thread
  <2> QED BY <1>0, <2>1 DEF Calling, RunsSnapshot
<1>7. Kept
  BY DEF Kept
<1>8. Dirs /\ SnapshotIsWhole
  BY DEF Dirs, SnapshotIsWhole
<1>9. Listing
  <2>1. \A i \in Intervals : paths[i] = <<>> /\ DOMAIN paths[i] = {} /\ Range(paths[i]) = {}
    BY DEF Range
  <2>2. ThreadDirs = {} /\ ~Unlisted
    BY DEF ThreadDirs, Unlisted
  <2> QED BY <2>1, <2>2 DEF Listing, Increasing
<1> QED BY <1>1, <1>2, <1>3, <1>4, <1>5, <1>6, <1>7, <1>8, <1>9 DEF IInv

(* The inductive invariant holds in every state: the worker, the snapshot  *)
(* thread, the user's thread and the destructor keep the files, the queue  *)
(* of the strand, the calls and the directories in step.                   *)
THEOREM Invariance == Spec => []IInv
<1>1. IInv /\ [Next]_vars => IInv'
  BY TypeOKStep, ShapesStep, RecordingStep, CountingStep, CallingStep, KeptStep, DirsStep, ListingStep DEF IInv
<1> QED BY <1>1, InitInv, PTL DEF Spec

(* A job of the strand that writes a message (RecordFile::Write) finds its *)
(* file open as long as the recorder has files.                            *)
THEOREM WritesAreSafe == Spec => []WriteFindsOpenFile
<1>1. IInv => WriteFindsOpenFile
  <2> SUFFICES ASSUME IInv, opc # "gone", job # NoJob, job.kind = "message"
               PROVE  file[job.of] = "open"
    BY DEF IInv, WriteFindsOpenFile
  <2>1. job.of \in Channels /\ file[job.of] \in {"none", "open", "closed"} /\ ~Copying
    BY JobFacts DEF IInv, TypeOK, Copying, RunsSnapshot
  <2> QED BY <2>1 DEF IInv, Recording
<1> QED BY <1>1, Invariance, PTL

(* GenerateSnapshotImpl copies the directory while every file is closed.   *)
THEOREM Whole == Spec => []SnapshotIsWhole
<1>1. IInv => SnapshotIsWhole
  BY DEF IInv
<1> QED BY <1>1, Invariance, PTL

(* What was published before GenerateSnapshot was called is in the         *)
(* snapshot it returns.                                                    *)
THEOREM Covers == Spec => []SnapshotCovers
<1>1. IInv => SnapshotCovers
  BY DEF IInv, Kept, SnapshotCovers
<1> QED BY <1>1, Invariance, PTL

(* Outside its own work the snapshot thread lists just the directories it  *)
(* has on disk, in the order they were made.                               *)
THEOREM ListsAreRight == Spec => []PathsMatchDisk
<1>1. IInv => PathsMatchDisk
  <2> SUFFICES ASSUME IInv, tpc \notin {"generating", "keep"}
               PROVE  /\ {s.id : s \in {t \in ThreadDirs : ~t.stuck}} = UNION {Range(paths[i]) : i \in Intervals}
                      /\ \A i \in Intervals : \A a, b \in DOMAIN paths[i] : a < b => paths[i][a] < paths[i][b]
    BY DEF PathsMatchDisk
  <2>1. Listing /\ ~Unlisted
    BY DEF IInv, Unlisted
  <2>2. \A s \in ThreadDirs : ~s.stuck => \E i \in Intervals : s.id \in Range(paths[i])
    BY <2>1 DEF Listing
  <2>3. \A i \in Intervals : \A n \in Range(paths[i]) : \E s \in ThreadDirs : s.id = n /\ ~s.stuck
    BY <2>1 DEF Listing
  <2>4. {s.id : s \in {t \in ThreadDirs : ~t.stuck}} = UNION {Range(paths[i]) : i \in Intervals}
    BY <2>2, <2>3
  <2>5. \A i \in Intervals : \A a, b \in DOMAIN paths[i] : a < b => paths[i][a] < paths[i][b]
    BY <2>1 DEF Listing, Increasing
  <2> QED BY <2>4, <2>5
<1> QED BY <1>1, Invariance, PTL
=============================================================================
