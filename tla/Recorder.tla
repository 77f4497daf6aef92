------------------------------ MODULE Recorder ------------------------------
(***************************************************************************)
(* MessageRecorder of src/msg_recorder/recorder.cc and recorder.h: the     *)
(* messages of the registered channels are written to their files by jobs  *)
(* of one strand, and a snapshot is a job of the same strand that closes   *)
(* the files, copies the directory and opens the files again.              *)
(*                                                                         *)
(* The processes are the snapshot thread (SnapshotWorker), a user thread   *)
(* that calls GenerateSnapshot, the thread that owns the recorder, and the *)
(* worker that runs the strand.  The strand is the serial queue that       *)
(* module Strand implements.  A file is open or closed and holds the first *)
(* records[ch] messages of its channel; module RecordFile has the rest.    *)
(***************************************************************************)
EXTENDS Naturals, Sequences, SequencesExt, FiniteSets

CONSTANTS
  Channels,        \* the channels that may be registered
  Intervals,       \* recorder_config_.snapshot_intervals_
  PeriodOf,        \* period_ of an interval
  CopiesOf,        \* max_num_of_copies_ of an interval
  SnapshotMaxNum,  \* snapshot_max_num_
  UserSnapshots,   \* bound: the calls of the user thread
  MaxMessages,     \* bound: the messages published on a channel
  MaxTime,         \* bound: the clock stops there
  Workers,         \* how many workers the runner has
  NoJob,           \* the strand runs nothing
  Nobody           \* the owner of a free mutex

Users   == 1..UserSnapshots
\* Who calls GenerateSnapshot: a call of the user, or the snapshot thread.
Callers == Users \cup {0}
Thread  == 0

\* What the strand runs: a message of a channel, or a snapshot for a caller.
Jobs == [kind : {"message"}, of : Channels] \cup [kind : {"snapshot"}, of : Callers]

ASSUME RecorderAssumption ==
  /\ IsFiniteSet(Channels) /\ IsFiniteSet(Intervals) /\ Intervals # {}
  /\ PeriodOf \in [Intervals -> Nat \ {0}]
  /\ CopiesOf \in [Intervals -> Nat]
  /\ SnapshotMaxNum \in Nat /\ UserSnapshots \in Nat
  /\ MaxMessages \in Nat /\ MaxTime \in Nat /\ Workers \in Nat \ {0}
  /\ NoJob \notin Jobs /\ Nobody # "worker"

VARIABLES
  file,        \* files_: the state of the file of each channel
  subscribed,  \* the channels whose messages are dispatched to the recorder
  published,   \* how many messages each channel has published to it
  records,     \* how many messages are in the file of each channel
  jobs,        \* the jobs waiting on record_strand_, oldest first
  job,         \* the job it runs, or NoJob
  jobpc,       \* how far the snapshot job is
  workers,     \* the workers that may take a job: those of a stopped runner take one more at most
  mutex,       \* the owner of snapshot_mtx_
  flag,        \* snapshot_generated_flag of each call
  success,     \* info.success of each call
  calls,       \* where each call of GenerateSnapshot is
  coverage,    \* history: what had been published when the job was added
  disk,        \* the snapshot directories that exist
  paths,       \* snapshot_path_map_: directories from old to new
  nextDir,     \* history: how many names SnapshotDirNameGenerator has made
  tpc,         \* where the snapshot thread is
  current,     \* current_snapshot_wakeup.interval_config
  wake,        \* wake_time of each interval
  now,         \* the steady clock
  shutdown,    \* snapshot_shutdown_flag_
  opc          \* where the thread that owns the recorder is

channelVars == <<file, subscribed, published, records>>
strandVars  == <<jobs, job, jobpc, workers>>
callVars    == <<flag, success, calls, coverage>>
dirVars     == <<disk, paths, nextDir>>
threadVars  == <<tpc, current, wake>>
ownerVars   == <<shutdown, opc>>
vars == <<channelVars, strandVars, mutex, callVars, dirVars, threadVars, now, ownerVars>>

Files == {ch \in Channels : file[ch] # "none"}

MessageJob(ch) == [kind |-> "message", of |-> ch]
SnapshotJob(c) == [kind |-> "snapshot", of |-> c]

\* A snapshot directory: what the copy found.  "whole" says that it found no
\* file open, so that nothing unfinished was copied; "stuck" that it could not
\* be removed.
Snapshot(id, c, ok) ==
  [id |-> id, caller |-> c, ok |-> ok, content |-> records,
   whole |-> \A ch \in Files : file[ch] = "closed", stuck |-> FALSE]

-----------------------------------------------------------------------------
\* The interval that wakes first; of two that wake together, the shorter.
Earliest(w) ==
  CHOOSE i \in Intervals : \A k \in Intervals :
    w[i] < w[k] \/ (w[i] = w[k] /\ PeriodOf[i] <= PeriodOf[k])

Init ==
  /\ file = [ch \in Channels |-> "none"]
  /\ subscribed = {}
  /\ published = [ch \in Channels |-> 0]
  /\ records = [ch \in Channels |-> 0]
  /\ jobs = <<>> /\ job = NoJob /\ jobpc = "start"
  /\ workers = Workers
  /\ mutex = Nobody
  /\ flag = [c \in Callers |-> FALSE]
  /\ success = [c \in Callers |-> FALSE]
  /\ calls = [c \in Callers |-> "idle"]
  /\ coverage = [c \in Callers |-> [ch \in Channels |-> 0]]
  /\ disk = {} /\ paths = [i \in Intervals |-> <<>>] /\ nextDir = 0
  /\ tpc = "check"
  /\ wake = [i \in Intervals |-> 0]
  /\ current = Earliest([i \in Intervals |-> 0])
  /\ now = 0
  /\ shutdown = FALSE
  /\ opc = "alive"

-----------------------------------------------------------------------------
(* RegisterChannel: CreateFile under the mutex, then the subscription.     *)

\* Mutation: CreateFile does not take the mutex.
CreateFile_Unlocked(ch) ==
  /\ opc # "gone" /\ file[ch] = "none"
  /\ file' = [file EXCEPT ![ch] = "open"]
  /\ UNCHANGED <<subscribed, published, records, strandVars, mutex, callVars, dirVars,
                 threadVars, now, ownerVars>>

CreateFile(ch) ==
  /\ opc # "gone" /\ file[ch] = "none"
  /\ mutex = Nobody
  /\ file' = [file EXCEPT ![ch] = "open"]
  /\ UNCHANGED <<subscribed, published, records, strandVars, mutex, callVars, dirVars,
                 threadVars, now, ownerVars>>

SubscribeChannel(ch) ==
  /\ opc # "gone" /\ file[ch] # "none" /\ ch \notin subscribed
  /\ subscribed' = subscribed \cup {ch}
  /\ UNCHANGED <<file, published, records, strandVars, mutex, callVars, dirVars,
                 threadVars, now, ownerVars>>

(* A message of a subscribed channel is added to the strand.               *)
Publish(ch) ==
  /\ ch \in subscribed /\ opc # "gone"
  /\ published[ch] < MaxMessages
  /\ published' = [published EXCEPT ![ch] = @ + 1]
  /\ jobs' = Append(jobs, MessageJob(ch))
  /\ UNCHANGED <<file, subscribed, records, job, jobpc, workers, mutex, callVars, dirVars,
                 threadVars, now, ownerVars>>

-----------------------------------------------------------------------------
\* Mutation: the snapshot goes before the messages that wait.
AddSnapshotJob_Ahead(c) ==
  /\ flag' = [flag EXCEPT ![c] = FALSE]
  /\ success' = [success EXCEPT ![c] = FALSE]
  /\ calls' = [calls EXCEPT ![c] = "waiting"]
  /\ coverage' = [coverage EXCEPT ![c] = published]
  /\ jobs' = <<SnapshotJob(c)>> \o jobs
  /\ UNCHANGED <<job, jobpc, workers>>

(* GenerateSnapshot, up to the wait: the job is added to the strand.       *)
AddSnapshotJob(c) ==
  /\ flag' = [flag EXCEPT ![c] = FALSE]
  /\ success' = [success EXCEPT ![c] = FALSE]
  /\ calls' = [calls EXCEPT ![c] = "waiting"]
  /\ coverage' = [coverage EXCEPT ![c] = published]
  /\ jobs' = Append(jobs, SnapshotJob(c))
  /\ UNCHANGED <<job, jobpc, workers>>

\* The wait ends with the flag of the call set and the mutex taken.
Answered(c) == calls[c] = "waiting" /\ flag[c] /\ mutex = Nobody

UserCalls(c) ==
  /\ opc # "gone" /\ calls[c] = "idle" /\ c \in Users
  /\ \A u \in Users : calls[u] # "waiting"
  /\ AddSnapshotJob(c)
  /\ UNCHANGED <<channelVars, mutex, dirVars, threadVars, now, ownerVars>>

UserReturns(c) ==
  /\ c \in Users /\ Answered(c)
  /\ calls' = [calls EXCEPT ![c] = "returned"]
  /\ UNCHANGED <<channelVars, strandVars, mutex, flag, success, coverage, dirVars,
                 threadVars, now, ownerVars>>

-----------------------------------------------------------------------------
(* The strand.                                                             *)
TakeJob ==
  /\ workers > 0 /\ job = NoJob /\ jobs # <<>>
  /\ job' = Head(jobs) /\ jobs' = Tail(jobs)
  /\ jobpc' = "start"
  /\ workers' = IF opc = "alive" THEN workers ELSE workers - 1
  /\ UNCHANGED <<channelVars, mutex, callVars, dirVars, threadVars, now, ownerVars>>

(* RecordFile::Write.                                                      *)
WriteMessage ==
  /\ job # NoJob /\ job.kind = "message"
  /\ records' = [records EXCEPT ![job.of] = @ + 1]
  /\ job' = NoJob
  /\ UNCHANGED <<file, subscribed, published, jobs, jobpc, workers, mutex, callVars, dirVars,
                 threadVars, now, ownerVars>>

RunsSnapshot(stage) == job # NoJob /\ job.kind = "snapshot" /\ jobpc = stage

(* GenerateSnapshotImpl closes the files, under the mutex.                 *)
CloseFiles ==
  /\ RunsSnapshot("start") /\ mutex = Nobody
  /\ mutex' = "worker"
  /\ file' = [ch \in Channels |-> IF file[ch] = "open" THEN "closed" ELSE file[ch]]
  /\ jobpc' = "copy"
  /\ UNCHANGED <<subscribed, published, records, jobs, job, workers, callVars, dirVars,
                 threadVars, now, ownerVars>>

\* The copy of the directory: it succeeds or not, and a failed one may leave
\* its directory behind.
CopyDirectory(ok, left) ==
  /\ RunsSnapshot("copy")
  /\ nextDir' = nextDir + 1
  /\ disk' = IF left THEN disk \cup {Snapshot(nextDir, job.of, ok)} ELSE disk
  /\ success' = [success EXCEPT ![job.of] = ok]
  /\ jobpc' = "open"
  /\ UNCHANGED <<channelVars, jobs, job, workers, mutex, flag, calls, coverage, paths,
                 threadVars, now, ownerVars>>

\* Mutation: the files are not opened again.
OpenFiles_Forgotten ==
  /\ RunsSnapshot("open")
  /\ mutex' = Nobody
  /\ jobpc' = "notify"
  /\ UNCHANGED <<channelVars, jobs, job, workers, callVars, dirVars, threadVars, now, ownerVars>>

(* GenerateSnapshotImpl opens the files and releases the mutex.            *)
OpenFiles ==
  /\ RunsSnapshot("open")
  /\ file' = [ch \in Channels |-> IF file[ch] = "closed" THEN "open" ELSE file[ch]]
  /\ mutex' = Nobody
  /\ jobpc' = "notify"
  /\ UNCHANGED <<subscribed, published, records, jobs, job, workers, callVars, dirVars,
                 threadVars, now, ownerVars>>

\* Mutation: the flag is not set.
NotifyCaller_NoFlag ==
  /\ RunsSnapshot("notify") /\ mutex = Nobody
  /\ jobpc' = "finish"
  /\ UNCHANGED <<channelVars, jobs, job, workers, mutex, callVars, dirVars,
                 threadVars, now, ownerVars>>

NotifyCaller ==
  /\ RunsSnapshot("notify") /\ mutex = Nobody
  /\ flag' = [flag EXCEPT ![job.of] = TRUE]
  /\ jobpc' = "finish"
  /\ UNCHANGED <<channelVars, jobs, job, workers, mutex, success, calls, coverage, dirVars,
                 threadVars, now, ownerVars>>

(* post_finish_, and the end of the job.                                   *)
FinishJob ==
  /\ RunsSnapshot("finish")
  /\ job' = NoJob
  /\ UNCHANGED <<channelVars, jobs, jobpc, workers, mutex, callVars, dirVars,
                 threadVars, now, ownerVars>>

WorkerStep ==
  \/ TakeJob \/ WriteMessage \/ CloseFiles \/ CopyDirectory(TRUE, TRUE) \/ OpenFiles
  \/ NotifyCaller \/ FinishJob

-----------------------------------------------------------------------------
(* SnapshotWorker.                                                         *)

\* More than half of the period is left until the interval wakes again.
InTime(i) == 2 * (wake[i] + PeriodOf[i]) > 2 * now + PeriodOf[i]

\* The current interval goes back to the queue, and the thread waits.
Requeue ==
  LET w == [wake EXCEPT ![current] = @ + PeriodOf[current]] IN
    /\ wake' = w
    /\ current' = Earliest(w)
    /\ tpc' = "waiting"

ThreadExits ==
  /\ tpc = "check" /\ shutdown
  /\ tpc' = "exited"
  /\ UNCHANGED <<channelVars, strandVars, mutex, callVars, dirVars, current, wake, now, ownerVars>>

ThreadSkips ==
  /\ tpc = "check" /\ ~shutdown /\ ~InTime(current)
  /\ Requeue
  /\ UNCHANGED <<channelVars, strandVars, mutex, callVars, dirVars, now, ownerVars>>

ThreadDecides ==
  /\ tpc = "check" /\ ~shutdown /\ InTime(current)
  /\ tpc' = "call"
  /\ UNCHANGED <<channelVars, strandVars, mutex, callVars, dirVars, current, wake, now, ownerVars>>

ThreadCalls ==
  /\ tpc = "call"
  /\ AddSnapshotJob(Thread)
  /\ tpc' = "generating"
  /\ UNCHANGED <<channelVars, mutex, dirVars, current, wake, now, ownerVars>>

\* The directory of the snapshot that answered the thread.
ThreadDirs == {s \in disk : s.caller = Thread /\ s.ok}
ThreadDir  == CHOOSE s \in ThreadDirs : \A r \in ThreadDirs : r.id <= s.id

ThreadReturns ==
  /\ tpc = "generating" /\ Answered(Thread)
  /\ calls' = [calls EXCEPT ![Thread] = "returned"]
  /\ IF success[Thread]
       THEN tpc' = "keep" /\ UNCHANGED <<current, wake>>
       ELSE Requeue
  /\ UNCHANGED <<channelVars, strandVars, mutex, flag, success, coverage, dirVars, now, ownerVars>>

\* Mutation: the oldest path is forgotten and its directory left.
Maintain_PathOnly(list) ==
  /\ paths' = [paths EXCEPT ![current] = IF Len(list) > SnapshotMaxNum THEN Tail(list) ELSE list]
  /\ disk' = disk

(* MaintainMaxNumOfSnapshots: the oldest directory beyond the limit goes.  *)
(* Its path is forgotten also when it cannot be removed.                   *)
\* The list was within the limit before, so the loop runs once at most.
Maintain(list) ==
  IF Len(list) > SnapshotMaxNum
    THEN /\ paths' = [paths EXCEPT ![current] = Tail(list)]
         /\ LET oldest == {s \in disk : s.id = Head(list)}
            IN  disk' \in {disk \ oldest, (disk \ oldest) \cup {[s EXCEPT !.stuck = TRUE] : s \in oldest}}
    ELSE /\ paths' = [paths EXCEPT ![current] = list]
         /\ disk' = disk

ThreadKeeps ==
  /\ tpc = "keep" /\ mutex = Nobody
  /\ Maintain(Append(paths[current], ThreadDir.id))
  /\ Requeue
  /\ UNCHANGED <<channelVars, strandVars, mutex, callVars, nextDir, now, ownerVars>>

\* The wait ends at the time of the current interval, or at the shutdown.
ThreadWakes ==
  /\ tpc = "waiting" /\ mutex = Nobody
  /\ shutdown \/ now >= wake[current]
  /\ tpc' = "check"
  /\ UNCHANGED <<channelVars, strandVars, mutex, callVars, dirVars, current, wake, now, ownerVars>>

ThreadStep ==
  ThreadExits \/ ThreadSkips \/ ThreadDecides \/ ThreadCalls \/ ThreadReturns \/ ThreadKeeps \/ ThreadWakes

-----------------------------------------------------------------------------
(* StopMainLoop, which is StopSnapshotWorker; and the destructor, which is *)
(* that, unless it was done before, and files_.clear().                    *)

(* The runner is stopped.  A worker that has looked at its shutdown flag   *)
(* before takes one more job, or finds none.                               *)
StopRunner ==
  /\ opc = "alive"
  /\ workers' \in 0..Workers
  /\ opc' = "stopped"
  /\ UNCHANGED <<channelVars, jobs, job, jobpc, mutex, callVars, dirVars, threadVars, now, shutdown>>

WorkerLeaves ==
  /\ opc # "alive" /\ workers > 0
  /\ workers' = workers - 1
  /\ UNCHANGED <<channelVars, jobs, job, jobpc, mutex, callVars, dirVars, threadVars, now, ownerVars>>

SetShutdown ==
  /\ opc = "stopped" /\ mutex = Nobody
  /\ shutdown' = TRUE
  /\ opc' = "joining"
  /\ UNCHANGED <<channelVars, strandVars, mutex, callVars, dirVars, threadVars, now>>

JoinThread ==
  /\ opc = "joining" /\ tpc = "exited"
  /\ opc' = "joined"
  /\ UNCHANGED <<channelVars, strandVars, mutex, callVars, dirVars, threadVars, now, shutdown>>

\* The destructor: nobody is in a call of the recorder any more.
ClearFiles ==
  /\ opc = "joined" /\ Files \subseteq subscribed
  /\ \A u \in Users : calls[u] # "waiting"
  /\ file' = [ch \in Channels |-> "none"]
  /\ opc' = "gone"
  /\ UNCHANGED <<subscribed, published, records, strandVars, mutex, callVars, dirVars,
                 threadVars, now, shutdown>>

OwnerStep == SetShutdown \/ JoinThread \/ ClearFiles

\* Only the snapshot thread looks at the clock.
Tick ==
  /\ tpc # "exited" /\ now < MaxTime
  /\ now' = now + 1
  /\ UNCHANGED <<channelVars, strandVars, mutex, callVars, dirVars, threadVars, ownerVars>>

Next ==
  \/ \E ch \in Channels : CreateFile(ch) \/ SubscribeChannel(ch) \/ Publish(ch)
  \/ \E c \in Callers : UserCalls(c) \/ UserReturns(c)
  \/ WorkerStep \/ (\E left \in BOOLEAN : CopyDirectory(FALSE, left))
  \/ ThreadStep
  \/ StopRunner \/ WorkerLeaves \/ OwnerStep
  \/ Tick

Spec == Init /\ [][Next]_vars

(* The worker and the snapshot thread run; StopSnapshotWorker, once called, *)
(* goes on.  Nothing makes the user call, publish or stop.                  *)
Fairness ==
  /\ WF_vars(WorkerStep) /\ WF_vars(ThreadStep) /\ WF_vars(OwnerStep)
  /\ \A c \in Users : WF_vars(UserReturns(c))

FairSpec == Spec /\ Fairness

-----------------------------------------------------------------------------
\* Every variable has its type, and the worker owns the mutex exactly while
\* a snapshot job is between closing the files and opening them again.
TypeOK ==
  /\ file \in [Channels -> {"none", "open", "closed"}]
  /\ subscribed \subseteq Channels
  /\ published \in [Channels -> 0..MaxMessages]
  /\ records \in [Channels -> 0..MaxMessages]
  /\ jobs \in Seq(Jobs)
  /\ job = NoJob \/ job \in Jobs
  /\ workers \in 0..Workers
  /\ (mutex = "worker") <=> (RunsSnapshot("copy") \/ RunsSnapshot("open"))
  /\ calls \in [Callers -> {"idle", "waiting", "returned"}]
  /\ flag \in [Callers -> BOOLEAN] /\ success \in [Callers -> BOOLEAN]
  /\ tpc \in {"check", "call", "generating", "keep", "waiting", "exited"}
  /\ current \in Intervals
  /\ wake \in [Intervals -> Nat]
  /\ now \in 0..MaxTime
  /\ opc \in {"alive", "stopped", "joining", "joined", "gone"}

\* A write finds its file open as long as the files exist: the snapshot,
\* which closes every file, never comes between two parts of the recording.
WriteFindsOpenFile ==
  TypeOK /\ (opc # "gone" /\ job # NoJob /\ job.kind = "message" => file[job.of] = "open")

\* A snapshot is whole: it was copied while every file was closed, so that
\* each of its databases is a committed one.
SnapshotIsWhole == \A s \in disk : s.whole

\* A call of GenerateSnapshot that returns success made a snapshot with every
\* message published before the call in it.
SnapshotCovers ==
  \A c \in Callers : calls[c] = "returned" /\ success[c] /\ (c = Thread => tpc = "keep") =>
    \E s \in disk : s.caller = c /\ s.ok /\ \A ch \in Channels : s.content[ch] >= coverage[c][ch]

\* The directories the recorder lists are the good ones of the snapshot
\* thread that are on disk, but for those it could not remove, each once and
\* in the order they were made.
PathsMatchDisk ==
  tpc \notin {"generating", "keep"} =>
    /\ {s.id : s \in {t \in ThreadDirs : ~t.stuck}} = UNION {Range(paths[i]) : i \in Intervals}
    /\ \A i \in Intervals : \A a, b \in DOMAIN paths[i] : a < b => paths[i][a] < paths[i][b]

\* A call of GenerateSnapshot returns unless the runner is stopped.
SnapshotAnswered == \A c \in Callers : calls[c] = "waiting" ~> (calls[c] = "returned" \/ opc # "alive")

\* StopSnapshotWorker returns, and with it the destructor of the recorder and
\* StopMainLoop.
DestructionEnds == opc = "stopped" ~> opc = "joined"

\* post_finish_ is called with references into the frame of GenerateSnapshot,
\* which is there: the caller has not returned.
CallerOutlivesJob == RunsSnapshot("finish") => calls[job.of] = "waiting"

\* No job is left that uses a file when the destructor has cleared files_.
FilesOutliveJobs == opc = "gone" => job = NoJob

\* The recorder keeps no more snapshots of an interval than its
\* configuration asks for.
CopiesWithinConfig == \A i \in Intervals : Len(paths[i]) <= CopiesOf[i]
=============================================================================
