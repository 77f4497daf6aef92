# A TLA+ model of cris-core

cris-core is the middleware of a robot's software in one process: nodes
publish and subscribe to messages, the callbacks run as jobs of a thread
pool, strands keep the jobs of a node apart, a recorder writes messages to
LevelDB and takes snapshots of what it has written, and a profiling timer
counts what threads spend their time on.  The modules here model those parts
as they are in `src/`, TLC checks them on small instances, and TLAPS proves the
safety properties of all of them, and two refinements, for every value of their constants.

    tlc -workers 2 -config MCStrand.cfg MCStrand     one run
    tlapm StrandProofs.tla                           the proofs of a module

`PROJECT.json` lists the runs, for each property a change of the model (a
*mutation*) under which it fails, the source lines behind every definition,
the hazards, the findings and the theorems.

## 1. The system

| Component | State | Operations | Talks to |
|---|---|---|---|
| Job strand (`sched/job_runner.cc`, `spin_mutex`) | queue of pending jobs, `has_ready_job_`, a spin lock | AddJob, AddJob with ForceRunImmediately, the end of a job's token | the runner through a weak pointer |
| Job runner (`sched/job_runner.cc`) | a queue, a flag and a condition variable per worker, two counters | AddJob(s), Steal, WorkerLoop, Stop, Join, the destructor | its queues, whoever adds |
| Job queues (`sched/job_lockfree_queue.cc`, `job_lock_queue.cc`) | a queue of jobs | Push, PushBatch, ConsumeOne, ConsumeAll | - |
| Publish/subscribe (`msg/message.cc`, `msg/node.cc`) | a subscriber list per channel and a callback table per node, one shared mutex | Publish, Subscribe, `~CRNode` | the runner or a strand of each node |
| Record file (`msg_recorder/record_file.cc`, `rolling_helper.cc`) | a LevelDB directory, its name with or without `.saving`, the rolling time or size | OpenDB, CloseDB, Write, Roll, Iterate | the file system, LevelDB |
| Recorder (`msg_recorder/recorder.cc`) | a file per channel, a strand, a snapshot thread with a queue of wake-up times, the list of snapshots | RegisterChannel, GenerateSnapshot, recording, the destructor | nodes, strand, record files |
| Replayer (`msg_recorder/replayer.cc`) | a heap of readers ordered by their keys, the start of the recording and of the replay, two flags | RegisterChannel, MainLoop, StopMainLoop | record files, publish |
| Profiling timer (`timer/timer_enable.cc`) | a table of hits per thread, the list of them, a total, a tree of sections | Report, SubSection, GetReport, GetAllReports, the end of a thread | - |
| Signal handler (`signal/cr_signal.cc`) | a pointer to the thread that dumps, the dispositions | SignalHandler, InvokeDefaultSignalHandler | the timer (its report on SIGINT), every thread it interrupts |
| Configuration, timeline, utilities, conversion tool | a table of parsed files; a list of events | RegisterOrGet; AddEvent | - |

How they interact: `CRNode::Publish` walks the subscriber list under the read
lock and gives each subscriber's job to its runner or strand; the strand pushes
at most one job at a time to the runner; a worker runs it, and the end of the
job's token, in whatever thread that is, makes the strand look for the next.
The recorder is a node whose callbacks are jobs of one strand, and
its snapshots are jobs of the same strand.

### What is hard, and what makes each part correct

* **Strand.**  Deciding which job goes next is under the lock, pushing it is
  not, adding to the pending queue is not, and a caller may return without
  doing anything because the flag is set.  Correct: one job at a time, in the
  order they were added, none forgotten; also when the runner is stopped or
  gone or the users have dropped the strand.
* **Runner.**  `notify_one` without the mutex, workers that sleep while
  others steal, a worker stuck in a job, stopping a worker that is just
  falling asleep, relaxed counters.  Correct: every job runs once at most, and
  in the end unless the runner is stopped; stopping is prompt; destruction ends.
* **The end of a runner.**  A runner is held by its owner, by jobs, and for a moment by
  every thread that hands it a job; whoever lets go last stops and joins its workers,
  perhaps being one of them, or holding a lock that a job waits for.  Correct: nobody
  uses a runner that is gone, every token ends, and an owner that stops and
  joins first is safe.
* **Job lock queue.**  A circular buffer that grows in place.  Correct: a FIFO queue.
* **Publish/subscribe.**  A subscription is two tables in two objects, a
  node unsubscribes channel by channel, a subscriber may come in
  between two messages.  Correct: a target can always be called; a subscriber
  gets every message from some point on, once and in each publisher's order.
* **Record file.**  A database is closed, renamed or removed in separate steps
  on disk, each may fail, and the process may die between any two.  Names have a resolution of a
  second.  Correct: what was written is there after any sequence of rolls,
  snapshots, failures, crashes and restarts, in order, and a committed directory does not
  change.
* **Recorder.**  Close all files, copy, open all files, while messages
  arrive, channels register, users ask for snapshots and wait for them, and the
  recorder is destroyed.  Correct: snapshots are whole and contain what was
  there when they were asked for; whoever waits is answered; the list of
  snapshots matches the disk; the destructor ends.
* **Replayer.**  Channels recorded apart are merged by one at a time being taken from a
  heap while the others' keys stay, the thread may be late at any moment, a
  stop may come at any moment, and keys may be unreadable.  Correct: one order for all
  channels, nothing left out, nothing too early, and an end.
* **Signal handler.**  It interrupts any step of any thread, also another handler; a dump
  takes the locks of the allocator, and for SIGINT those of the log and the timer, which the
  interrupted thread may hold; a signal it raises again waits until some thread can take it.  Correct:
  one thread dumps, what the pointer leads to is there, and a signal that is caught kills
  the process, unless the dump is in a deadlock with what was interrupted.
* **Timer.**  Four kinds of mutex and a `try_lock`; hits are under way between
  tables while threads end and reports clear.  Correct: no hit is
  lost or counted twice.

## 2. The modules

Each module names the source it models in its head; its actions carry the names
of the functions they are steps of.

| Module | Models | Grain of a step |
|---|---|---|
| `Strand` | JobRunnerStrand, JobAliveToken, ForceRunImmediately | every lock, unlock, push and decision of each call |
| `SerialQueue` | what a strand promises: a queue, one job out at a time | - |
| `StrandProofs` | theorems about `Strand` | - |
| `JobRunner` | JobRunner, JobRunnerWorker | every queue operation, every access to a counter or flag; a section under a condition variable's mutex |
| `JobRunnerProofs` | theorems about `JobRunner` and about `JobLockQueue` | - |
| `RunnerOwnership` | the references to a runner, `~JobRunner`, Stop and Join by its owner, with a strand, publishers and closing nodes around it | taking and dropping a reference, joining one worker; a decision of the strand is one step |
| `RunnerOwnershipProofs` | theorems about `RunnerOwnership` | - |
| `JobLockQueue`, `FifoQueue` | JobLockQueue, and the queue it promises to be | an operation (all are under one mutex) |
| `PubSub` | SubscriptionMap, CRNode | each subscriber of a dispatch, both tables of a subscription, each channel of `~CRNode` |
| `PubSubProofs` | theorems about `PubSub` | - |
| `RecordFile` | RecordFile, rolling helpers, the disk | every change of the disk |
| `RecordFileProofs` | theorems about `RecordFile` | - |
| `Recorder` | MessageRecorder | every step of the snapshot thread, the users and the snapshot job; an access to a file or a mutex |
| `RecorderProofs` | theorems about `Recorder` | - |
| `Replayer` | MessageReplayer, RecordReader and its order, RecordFileIterator's search for a valid key | popping a reader, the sleep, publishing one record |
| `ReplayerProofs` | theorems about `Replayer` | - |
| `SignalHandler` | SignalHandler, InvokeDefaultSignalHandler, delivery and blocking of signals, the locks of the allocator, the log and the timer | one lock or unlock, one delivery, the exchange, raising the signal again |
| `Timer` | TimerStatCollector, TimerSection | a copy, a clear and a merge each, under their mutexes |
| `TimerProofs` | theorems about `Timer` and about `SignalHandler`, whose report takes the timer's locks | - |

`RunnerOwnership` composes a runner, a strand and the dispatch of messages at a grain
coarse enough to ask who is left holding the runner; that a strand decides in one step there
is what the refinement of `SerialQueue` by `Strand` allows (`Refinement` in `StrandProofs`).
`Recorder` takes its strand for the serial queue that `Strand` is shown to
implement, `JobRunner` and `Strand` take a lock-free queue for the sequence
of its linearised operations, `PubSub` ends where a job is handed over, and `Recorder`
knows of a file whether it is open and what is in it, the rest being in `RecordFile`.

### Correspondence and decisions

**Strand.**  The processes are the calls of PushToRunnerIfNeeded: for a job j
`<<j, "add">>` in the thread that adds it and `<<j, "end">>` in the thread that
destroys its token.  `next` is the local variable of that name, `at` says
where a job is (pending, popped, ready in the runner, running, ...).  The three
environment flags stand for the users' pointers to the strand
(`userRef`), `runner_weak_.lock()` (`runnerAlive`) and workers that take jobs
(`workersUp`).  `ticket` and `submitted` are history: the order in which
jobs were pushed or run at once.  The runner is a bag of ready jobs, of
which any may be started.

**JobRunner.**  Constructing, stopping and joining are loops of an owner that
go over the workers one at a time, as in the code, and workers start and stop
at different times.  What is done under `inactive_cv_mutex_` is one step, as the
mutex protects nothing else and waiting releases it.  A worker that sleeps
may be woken by a notification, by the timeout of one second or for no reason.
The counter of active workers wraps around at `CounterSize` (2^64 in the code).
A job is in one adder's batch, once: it is a closure that its adder makes and moves.
A call of AddJob comes from a thread or from the job a worker runs (`caller`), and that job does not
return before the call does.  Threads have ended their calls before the runner is destroyed, as C++ asks of its users; a job that is
running then has until its worker is joined, and by then stealing is off, so that `AddReturns` comes to
`NotifyOneWorker`.  The index which that draws may be one past the end of `workers_`
(job_runner.cc:379-382).  This is undefined behaviour, and of its outcomes the model has the one in
which nobody is notified; a crash would end the process.

**RunnerOwnership.**  `holders` is the reference count with names: the owner, a publisher or
a worker between `runner_weak_.lock()` and the end of the temporary, a job whose
closure holds the runner until the job is destroyed.  `GiveUp` is the one way to let go, and
whoever empties the set goes to `destroying` before its next step, as the destructor
runs inside that statement.  `joining` is the loop over `workers_`; a worker that reaches itself
gets std::system_error out of a destructor, which is `terminated`.  `Closing` jobs wait for the
publishers' read lock, as `~CRNode` and Subscribe do.  `Free` is the end of the
destructor: jobs left in the queues are destroyed, each token pops the next pending
job, which meets an expired pointer and goes the same way.

**JobLockQueue.**  The buffer, its two heads and its size as in the code, so
that growth is the moves it makes; a job that has been moved from is `Hollow`.
Production code uses the lock-free queue; this one is compiled and tested.
`std::bit_ceil` is the first power of two from its argument on, and a power of two is a number that no odd
number but one divides: so put, the doubling of a buffer can be reasoned about.  `MCJobLockQueue` has TLC compare
both with powers of two that are written as such, and `MoveUp` with the loop of `std::move`.

**PubSub.**  The shared mutex is a set of readers and a writer.  Dispatch takes a
step per subscriber, which may find that its runner is gone.  `since` and `inbox`
record which messages of each channel and publisher a node has been handed and from which on.
No list holds a node twice (`IsInjective` in `TypeOK`), so that `Erase` takes out the one entry.
A node that was made without a runner (`can_subscribe`) publishes only: the CHECK of node.cc:76 would end the process, and such
a call is no step.
`latest_delivered_time_` is left out.

**RecordFile.**  `committed` and `saving` map a directory's name (the second it
was made in) to the set of records in it; names with `.saving` are in the latter.
OpenDB, CloseDB and Roll are the steps between which a crash leaves the disk
different.  A crash is of the process: what LevelDB was given has reached
the operating system.  Every call to the file system and to LevelDB may fail, with
what the code makes of it: a rename that throws out of CheckoutDB or a removal that throws out of CloseDB
ends the object or the process (`Die`), a rename that CommitDB catches leaves the `.saving` name, a
database that cannot be opened leaves `db_` null (`broken`), where the next write ends the
process unless it rolls, and a failing roll or Put goes on, both in one call if it comes to that.  Crashes and
failures are the faults of which there are `MaxFaults`.  A first attempt to open that fails where the second,
with the legacy comparator, succeeds is left out, as are databases of the legacy format, links and compaction.
The clock is never set back, one RecordFile exists in a directory at a time, and a reader does not roll.  The recorder
refuses rolling by size (recorder.cc:262), users of RecordFile may do it, so it is
one of the helpers.

**Recorder.**  Workers run the strand's jobs, a thread is the SnapshotWorker,
a user calls GenerateSnapshot, an owner stops the recorder (StopMainLoop) or destroys it:
both are StopSnapshotWorker, from `StopRunner` to `JoinThread`, and may come at any moment.  `files_.clear()`, the rest of the
destructor, comes when no user is inside a call and no registration is under way,
which is what C++ asks of its users.  A worker that was past its look at the flag when the runner was stopped may begin one
more job: `workers` counts those that may, all of them until then, and afterwards any number that gets smaller as each
takes its job (`TakeJob`) or finds none (`WorkerLeaves`).  A write between `files_.clear()` and
the end of the recorder is an access to freed memory; WriteFindsOpenFile says nothing
about that state.  A directory that cannot be removed is forgotten by the list
(`stuck`); files that cannot be opened again are the matter of `RecordFile`, and a
second recorder in the process is left out.  `SnapshotMaxNum` stands for the constant 48.

**Replayer.**  A reader is known by its channel and the number of its database among those of the channel: RegisterChannel
takes the first whose name has the suffix of a database, and one that is open is called `.saving`, so that a channel which is registered
again gets the next one, and an exception when there is none left (no step).  `place` is the iterator of each reader; what a recording may contain is a constant, a small set of tables of
sorted records, since the replayer changes none of it.  A key is a time, a counter, and whether
its bytes can be parsed.  `Take` pops a least reader and computes the end of its sleep, `PublishTop`
publishes and puts the reader back: between the two, and everywhere else, the clock may tick.
The speed is a fraction, and rounding is that of `llround`.  The callbacks before
and after the loop are steps without effect.  The counter of a key is
not followed back to RecordFileKey::Make: two records of a channel have
different keys, which is the order LevelDB keeps.  `published` is history: each entry has the record
published and its number in its database, so that `NothingSkipped` can say that the numbers published
of each database that was opened are, without a gap, the first ones that can be read.

**SignalHandler.**  A thread is a stack of activations, of which the topmost moves, with the
locks it still has to take and give back as a list.  `Programs` has those lists for what a thread does
under locks: it allocates, writes to the log, ends a session, flushes, asks for a report, finds or makes a section, and begins or ends
with a collector.  `Dump` has that of a dump: every one allocates, and that of SIGINT flushes
twice, copies the total, walks over the sections and logs.  The flushes go over the collectors in some order.
`Interrupt`, `Wait`, `Take` and `End` are the kernel's part: a signal that is sent interrupts some thread that does not block it, or waits;
one that is raised by its handler (`Raise`) waits, as the handler blocks it, until another thread takes it
at some moment or this handler returns.
`sa_mask` is empty and SA_NODEFER is not
set, so a handler is interrupted by the other signals only.  A handler interrupted in its
dump and the one that interrupts it dump in one thread: `Second` is the pthread_equal.
Definitions that every module has carry the prefix `SH` here, and `LQ` in `JobLockQueue`, so that a proofs
module can extend either beside another component.

**Timer.**  Each hit has a name, so that a table of counts becomes a table of how
often each hit is in it, and "counted once" can be said: `TimesCounted` maps each place a hit can be in (a
thread's table or hands, a caller's hands, the total, a cleared report) to how often it is
there, and that is 1 at one place and 0 at all others.  Durations, buckets and
percentiles are left out.  Report is one step: it is all under the collector's
mutex or skipped.  Sections are those of the main section: the code is the same
one level down.

## 3. The runs

States are distinct states found by TLC.

| Run | Instance | States | What it shows |
|---|---|---|---|
| `strand` | three jobs | 39 thousand | `AtMostOneInRunner`, `NoOvertaking`, `PendingIsRun` are the claims of the comment above PushToRunnerIfNeeded; `NoLostJob` and `FlagMeansOutstanding` why it holds; `ExpiredRunnerDrains` that a strand whose runner is gone does not keep jobs; `ImplementsSerialQueue` the refinement |
| `runner` | two workers, one always active, a job that may hang, a batch of two, added by threads or by jobs | 445 thousand | stealing neither loses nor doubles (`EachJobOnce`), `ActiveCountsAwake` relates the counter to the workers, `StopIsFinal` (a worker begins one job at most after the flag, and none when the runner is gone), and under fairness `QueuedIsRun`, `DestructionEnds` |
| `ownership` | two workers, two publishers, three jobs, of which one holds the runner and one closes a node | 104 thousand | `DestroyedLast`, `TokensAllEnd`, `JoinedIsSafe`, and under fairness `FreedInTheEnd`, which names the three ways in which a runner is not freed |
| `lockqueue` | capacity 1, growing to 8, batches up to 3 | 9 thousand | the buffer is a FIFO queue |
| `pubsub` | two nodes, two channels, two publishers, three messages | 507 thousand | `TargetsCallable`, `GoneIsForgotten`, `NoGapNoDuplicate`, `DestructionEnds` |
| `recordfile` | three records, five seconds, rolling every two seconds or at size two, two faults | 1.4 million | `NothingLost`, `InOrder`, `OneDirectory` (never both names of one database), `CommittedIsFrozen` |
| `recorder` | one channel, one message, intervals of 2 and 4 ticks, one user snapshot, two workers | 1.1 million | `WriteFindsOpenFile`, `SnapshotIsWhole`, `SnapshotCovers`, `PathsMatchDisk`, `SnapshotAnswered` |
| `timer` | two threads with a hit each, two callers, two names, four indices | 2.3 million | `EachHitOnce`, `ReportCovers` (which needs that the collectors a flush walks over are alive), `OneSectionPerName` |
| `replayer` | five recordings of two channels, two readers of a channel, three speeds, eight ticks | 1.2 million | `InKeyOrder`, `NothingSkipped`, `OnPace`, and under fairness `Finishes` |
| `signal` | two threads with one operation each, one of them with a collector, SIGINT and another signal, two sent | 618 thousand | `OneDumper`, `FrameIsThere`, and under fairness `CaughtIsDeadly` |

Each module's type invariant is a conjunct of one of its invariants, and TLC checks it there.

Why the bounds are enough to meet what is interesting:

* *Strand*: three jobs are needed for one in the runner, one decided and not yet
  pushed, and one added between.  The proofs cover any number.
* *Runner*: two workers are one to be stuck and one to steal, one that never sleeps
  and one that does; the batch is spread over both.  `AlwaysActiveNum` of one
  exercises both kinds.  A third worker only adds thieves.
* *Ownership*: two workers, so that a destroying worker has one to join before itself and one
  after; two publishers, so that one destroys and another meets the expired pointer; three
  jobs leave one pending behind one in the queue and one running.  The safety properties are
  proved for any number of each.
* *Lock queue*: from 1 the buffer grows three times, with the heads at every
  place; batches of three make it grow by more than double in one push.
* *PubSub*: the two publishers overlap on one channel; the second channel
  gives `~CRNode` two steps.
* *Record file*: five seconds see two rolls by time and one that falls in the
  second of another; three records can be in three databases; two faults are, for
  example, a file that cannot be opened and then cannot roll, or a crash after a failed rename.
* *Recorder*: both intervals fall due together and apart; the limit on copies is
  reached; the message can be published before, in and after a snapshot, and each property sets a message
  against a snapshot; the proofs cover any number.  Of two workers that are slow to stop one can take the message
  and one the snapshot, or neither.
* *Timer*: indices 0 and 1 are taken, so two sections fit and a third index finds the
  timer full; both threads can race for one name.  `MaxIndex` is the bound past
  which no new section is asked for.  Threads, callers and names are
  interchangeable, and no property is a liveness property, so symmetry is sound.
* *Replayer*: the recordings are chosen to differ where the code does: equal keys and equal times
  in both channels, an unreadable key first, last and in between, a time stamp of 0, a channel without
  a database, one without a readable record, one that was rolled; it has two databases, so that registering
  it twice opens both.  Eight ticks exceed the length
  of a recording at the normal speed, so that the thread can be late for every record; `MaxClock` does not
  end a sleep.
* *Signals*: two, so that a handler is interrupted by the other signal, or another thread meets the dump, or a signal that
  is still waiting comes again; `MaxOperations` of one reaches every lock being held at a signal, in both threads.  One
  collector is what a flush can meet of a thread that it interrupts; the other thread takes all locks but its own.  The safety
  properties are proved for any number of signals, threads and operations.

Deadlock is checked in `recordfile` and `timer`.  In the others the system may stop: all jobs
done, all nodes gone, the recorder or the runner destroyed, the replay returned, the process
killed, the buffer at its bound.

### Disagreements found

Two runs end in a counterexample, each with a claim of the repository's tests (quoted in
`PROJECT.json`):

* `recordfile_keys`: a roll in the second its database was made in fails, and leaves
  `legacy_` set for the database that stays open.
* `recorder_stop`: the destructor joins a snapshot thread that waits for a job which
  the runner, stopped just before, does not run.

More can be reproduced by hand:

* `tlc -config MCJobRunner_active.cfg MCJobRunner`, `ActiveWithinThreads`: a worker stopped while it
  falls asleep decrements `active_workers_num_` twice (job_runner.cc:463 and 474), and the number of
  active threads wraps around.  `ActiveCountsAwake` in the run `runner` states what does hold until then.
* `tlc -config MCJobLockQueue_3.cfg MCJobLockQueue`, `ImplementsFifo`: `ExpandUnsafe` moves a range towards
  the back with `std::move` from the front; with a capacity that is not a power of two it overlaps
  itself and jobs are lost.
* `tlc -config MCRecorder_copies.cfg MCRecorder`, `CopiesWithinConfig`: `max_num_of_copies_` of an interval is read
  and never used.
* `tlc -continue -config MCRecorder_lifetimes.cfg MCRecorder`, `CallerOutlivesJob` and `FilesOutliveJobs`: the snapshot
  job calls `post_finish_` with references to locals of a GenerateSnapshot that may have returned since the
  notification (recorder.cc:133); and `files_.clear()` may come while a job that was running when the runner
  was stopped still uses a file (recorder.cc:159), as Stop does not wait for it.

Other things the code does that its users should know, stated by the properties rather than against them:

* `JoinedIsSafe` and `FreedInTheEnd`: an owner that drops its runner without stopping and joining it may
  leave the last reference to one of the runner's workers, which joins itself and ends the process, or to a
  publisher, which then waits under the read lock for a job that waits for the write lock.
* `FreedInTheEnd`: a runner that was stopped while jobs that hold it are queued is never freed.
* `CaughtIsDeadly`: a dump may hang for good.  Any dump allocates, so that a signal which interrupts the thread inside the
  allocator can be enough; the one of SIGINT takes the locks of the log and the timer as well.
* `OnPace`: records with the time stamp 0 do not start the replayer's clock.
* `NothingSkipped`: of a channel that was rolled only the first database is replayed (a TODO of replayer.cc:91), unless it is registered again.

### Fairness

Weak fairness only, of steps that a thread takes once it is inside a call, of workers
that are up, of jobs that return and of `wait_for`'s timeout: what an operating
system that schedules its threads gives.  Nobody has to
add, publish, subscribe, stop or destroy.  A hanging job need not return.
`wait_for` times out after a second, which is what `QueuedIsRun`
needs: a notification may come before the wait and is then lost.  In `PubSub` weak
fairness of the writer is enough only because messages are bounded:
`std::shared_mutex` promises nothing to a writer among ever new readers.  In
`RunnerOwnership` the threads that are adding, running or destroying go on, and nobody has to publish,
stop or let go; in `Replayer` the thread of MainLoop and time go on; in `SignalHandler` a thread
that can move is run, a signal that a thread can take is taken, and nobody has to send one.  The destructor of a recorder
and StopMainLoop, once called, go on; a worker need not take a job after it was stopped.

## 4. What is proved

The theorems hold for every value of the constants that satisfies the module's named assumption; TLC evaluates those
assumptions in the runs.  Except where said otherwise sets may be infinite.  Each component has the same
layout: the parts of its invariant (`IInv`; `HInv` and `LQInv` in the second halves of `TimerProofs` and
`JobRunnerProofs`) with a sentence each, lemmas about the operators of the model,
the initial states, a lemma per part or per action, and the theorems at the end.
All but a few of the properties are not inductive, so that the parts of the invariant say what else is true.

### The strand

`StrandProofs` proves, for any set of jobs, from the one assumption
that the values standing for "no call" and "no job" are neither:

| Theorem | Statement |
|---|---|
| `Invariance` | `Spec => []IInv` |
| `TypeCorrect` | `Spec => []TypeOK` |
| `OneInRunner` | `Spec => []AtMostOneInRunner` |
| `InOrder` | `Spec => []NoOvertaking` |
| `NothingLost` | `Spec => []NoLostJob` |
| `FlagCorrect` | `Spec => []FlagMeansOutstanding` |
| `PushFirst` | `Spec => PushBeforeNextDecision` |
| `Refinement` | `Spec => ImplementsSerialQueue` |

`PushBeforeNextDecision` is the lemma of the comment's argument: the push of one decision comes before
the next decision.  It has no run, being proved.

None of the safety properties is inductive.  The argument is the *turn*: a job has the
turn from the decision that takes it off the pending queue (or lets it run at once)
until its end call has decided.  `OneTurn`: at most one has.
`FlagTrue`: `has_ready_job_` is set while one has, and only then as long as somebody
holds the strand.  That needs to know who holds the lock (`LockInv`), where a job is
given the stages of its calls (`StageInv`), that the pending queue holds the pending
jobs, each once, by ticket (`PendingInv`), and that a popped job is in the hands of
one call (`NextInv`).  Order is `TicketInv`: what was submitted later is not ahead.
`NoLostJob` says that a pending job has a job before it or a call that has yet to look.

`Refinement` maps the queue of `SerialQueue` to the job that is on its way into the runner, if there is one,
followed by the pending queue.  Taking a job off the pending queue and pushing it are stutters; a job that begins is the
head because it has the turn; a job that runs at once finds the queue empty because nobody has the turn and
nothing is pending; jobs dropped by a dead strand are a part of the queue cut out.

### The end of a runner

`RunnerOwnershipProofs` proves, for any number of workers and any sets of publishers and jobs, from
`OwnershipAssumption`: there is a worker, a thread has one role, and threads, jobs and the two values for "none"
are told apart.

| Theorem | Statement |
|---|---|
| `Invariance` | `Spec => []IInv` |
| `TypeCorrect` | `Spec => []TypeOK` |
| `DestroyedByTheLast` | `Spec => []DestroyedLast` |
| `JoinedOwnerIsSafe` | `Spec => []JoinedIsSafe` |
| `TokensEnded` | `Spec => []TokensAllEnd` |

The argument is about who can still make a reference.  While the owner joins, or a publisher or a worker hands over
a job, it is a holder itself, so that nobody is destroying the runner (`Roles`); a runner that is being destroyed has
no holder, an expired pointer cannot be locked, and a job that is taken over has its holder already, so
that there will be none (`Destroying`).  Whoever joins has seen every worker before `joining` leave, and a worker that
has left does nothing more (`Joins`): at the end of the loop all have left, and when
that loop was the owner's, a later destroyer is not a worker, meets no worker that it would have to wait for, and there is no
running job to be locked out.

For the tokens, `IInv` also says where each job is that has one (`Tokens`): with the thread that adds it, in the queue or the
strand's pending jobs, taken, or running, in one place only, and that the strand's flag is set while one of its jobs has the turn.
When the runner is freed all workers have left, hence hold no job, and the destructor empties the two queues.

### The runner

`JobRunnerProofs` proves, for any number of workers and sets of adders and jobs, from `RunnerAssumption`: there is a
worker, the counter can hold the number of workers, and every job is in the batch of one adder, once.

| Theorem | Statement |
|---|---|
| `Invariance` | `Spec => []IInv` |
| `EachOnce` | `Spec => []EachJobOnce` |
| `CountIsRight` | `Spec => []ActiveCountsAwake` |
| `StoppingIsFinal` | `Spec => []StopIsFinal` |

`Places` says that until destruction a job is with one adder, in one queue once, in one worker's hands or has returned; each
operation on a queue moves one job from one place to another.  `Stations` says what a worker has in hand at each
stage, `Late` that a worker which begins a job after its flag was set looks at the flag next, `Leaving` that
those the owner has joined have left.  `ActiveCountsAwake` counts a set of workers: going to sleep
and waking up take one out and put one in, and the counter is below `CounterSize` because the set is among the workers.

### The lock queue

The second half of `JobRunnerProofs` proves, for any jobs, batches and bound of the capacity, from `LockQueueAssumption`
(types; `Hollow` is not a job):

| Theorem | Statement |
|---|---|
| `LockQueueIsFifo` | `CapacityIs(InitCapacity) => (LQSpec => ImplementsFifo)` |

The hypothesis says that the capacity given to the constructor is a power of two or zero.  It is needed, as the counterexample
from a capacity of 3 shows (section 3), and it holds of the default, 8 (`DefaultCapacity`).

`LQInv` is that the capacity stays so and that the write head is where the next job belongs, `size` places after the read
head.  Two powers of two differ by a factor of two at least (`PowersApart`), so a buffer that grows at least doubles, and
`std::move` does not overwrite what it has yet to move (`MoveUpFacts`); then the jobs from the read head on are those they were, whether
they were moved or not (`ExpandedFacts`), and the slots a batch is written to are not theirs (`PushRefines`).
That `std::bit_ceil` has something to return (`PowerFound`), and `PowersApart`, are shown by a least counterexample.

### Publish/subscribe

`PubSubProofs` proves, for any sets of nodes, channels and publishers and any numbers of messages, from
`PubSubAssumption` (the values for "nobody" and "no channel" are neither):

| Theorem | Statement |
|---|---|
| `Invariance` | `Spec => []IInv` |
| `AlwaysCallable` | `Spec => []TargetsCallable` |
| `GoneForgotten` | `Spec => []GoneIsForgotten` |
| `EachOnce` | `Spec => []NoGapNoDuplicate` |

The two tables of a subscription agree but for the channel that the holder of the write lock is adding (`Tables`), and a
dispatch under way means that there is no such holder (`Lock`); so whoever a dispatch finds has its callback.
`Streams` is `NoGapNoDuplicate` with a bound that makes it inductive: a subscription begins at most where the dispatch is.

### The record file

`RecordFileProofs` proves, for any number of seconds, records and faults, any rolling helpers, sizes and periods, from
`RecordFileAssumption` (types; a period is not zero) and `NothingAssumption` (no set of records is the value for an
absent directory, no number that for no name):

| Theorem | Statement |
|---|---|
| `Invariance` | `Spec => []IInv` |
| `NeverTwo` | `Spec => []OneDirectory` |
| `NeverLost` | `Spec => []NothingLost` |
| `NamesInOrder` | `Spec => []InOrder` |
| `Frozen` | `Spec => CommittedIsFrozen` |

`Frozen` is about steps, the others about states.
The argument has two parts.  A writer is made with the name of the current second and rolls to a later one, so no name after its own
has a record or a committed directory (`NothingLater`, of `Directories`); the rest of `Directories` says which
directory is whose at each stage, and, as long as nothing has failed, that nothing else is
unfinished or empty.  And a step of the code, the failing ones included, either leaves what is stored in each name as it is or adds the
next record to a database that nothing follows (`ContentStep`): from this follow that each record is in one database
(`Kept`, `Written`) and that the databases are in order.

### The recorder

`RecorderProofs` proves, for any finite sets of channels and intervals and any numbers of messages, snapshots, copies and ticks, from
`RecorderAssumption` (types; there is an interval; a period is not zero; the values for "nobody" and "no job" are told from the
others):

| Theorem | Statement |
|---|---|
| `Invariance` | `Spec => []IInv` |
| `WritesAreSafe` | `Spec => []WriteFindsOpenFile` |
| `Whole` | `Spec => []SnapshotIsWhole` |
| `Covers` | `Spec => []SnapshotCovers` |
| `ListsAreRight` | `Spec => []PathsMatchDisk` |

The strand runs one job at a time, so files are closed just while a snapshot job is between closing and opening them
(`Recording`).  The number of messages published is the number in the file, in work and queued (`Counting`), and
what a snapshot must contain is in the file, in work, or queued ahead of it (`Covering`): at the copy it is in the file.  A
waiting call has one job in the queue or running (`Calling`), and a call that has succeeded has its directory on disk until it has
been listed (`Kept`), which needs that the thread only removes listed directories.  `Dirs` and `Listing` are
about names and lists: names are never used twice, each directory is in one list, and between a copy
and its entry just the newest one is in none.

### The replayer

`ReplayerProofs` proves, for any channels, recordings, speeds and thresholds, from `ReplayerAssumption` (types) and
`SortedAssumption` (the records of a database that can be read are sorted by key, as LevelDB keeps them):

| Theorem | Statement |
|---|---|
| `Invariance` | `Spec => []IInv` |
| `KeyOrder` | `Spec => []InKeyOrder` |
| `PaceIsKept` | `Spec => []OnPace` |
| `AllReplayed` | `Spec => []NothingSkipped` |

An iterator is on a record that can be read or past the end (`Places`), what was published is what the iterators have
left behind (`Turns`), no reader has a key before that of the one that was popped (`Leads`), and the loop ends with the
records or by a stop (`Ended`).  `Pace` is why a record is not early: the sleep computed
when it was popped, less the threshold.  The search for the next valid key is a minimum over a set of numbers, and that it
skips nothing is shown with the well-foundedness of the natural numbers (`LeastNatural`).

### The timer

`TimerProofs` proves, for any sets of threads, callers and names and any numbers of hits and indices, from
`TimerAssumption` (a thread is not a caller, the value for "nobody" is neither, there is room for two indices):

| Theorem | Statement |
|---|---|
| `Invariance` | `Spec => []IInv` |
| `HitsCountedOnce` | `Spec => []EachHitOnce` |
| `ReportsCover` | `Spec => []ReportCovers` |
| `SectionsApart` | `Spec => []OneSectionPerName` |

A hit has one place, and flushing, clearing, merging and the end of a thread move it (`MovedOnce`, `OnceMoved`); that a copy is
not a second place needs that it equals what it was copied from and that the mutex of that is held until it is cleared
(`Locks`, `Copies`).  `Owing` follows the hits a report must contain: before the report reaches them they are in
a collector on its way, or the total has them already.  `Numbers` and `Indexed` say that an index is drawn once and
used for one name.

### The signal handler

The second half of `TimerProofs` proves, for any finite set of threads, any signals and any numbers of operations and of signals sent, from
`SignalAssumption` (SIGINT is one of the signals, the value for "no thread" is not a thread, the threads are finitely many):

| Theorem | Statement |
|---|---|
| `HandlerInvariance` | `SHSpec => []HInv` |
| `HandlerTypes` | `SHSpec => []SHTypeOK` |
| `OneDumps` | `SHSpec => []OneDumper` |
| `FrameStays` | `SHSpec => []FrameIsThere` |
| `InterruptedIsOver` | `SHSpec => NeverResumed` |

`FrameIsThere` is not inductive: a handler could return to what it has interrupted and leave the pointer behind.  It does
not, because its signal was raised again before (`Raised`) and nothing else in its thread blocks that signal, the handlers of
a thread being of distinct signals (`Stacks`): the process ends as the handler returns.  `NeverResumed` says so of every
step, and explains why a mutex that an interrupted program holds stays locked.  It has no run, being proved.
`Dumpers` says of every activation what `OneDumper` says of handlers; the exchange lets one thread past, and who dumps
again after it was interrupted is in the same thread.  That the count of the shared lock never goes below zero (a part of the types) needs that who shares it
gives it back later in its script (`Paired`, `Shared`), which the scripts of programs and dumps satisfy for any
number of threads (`ScriptFacts`).

### What is only model-checked

* The liveness properties: `PendingIsRun`, `ExpiredRunnerDrains`, `QueuedIsRun`, the two named `DestructionEnds`, `FreedInTheEnd`,
  `SnapshotAnswered`, `Finishes`, `CaughtIsDeadly`.  TLAPS has no ENABLED here, hence no fairness.
* That `PowerOfTwo` and `BitCeil` are what their names say, and `MoveUp` what a loop computes: powers and loops are
  defined by recursion.
* The two disagreements and those to be reproduced by hand: they are counterexamples.

## 5. What is not modelled, and why

* `boost::lockfree::queue`, LevelDB, JSON and the standard library: external.
* The spin lock's two phases: mutual exclusion is all the strand needs of it.
* Configuration: a table under one mutex around a library's parser.
* The timeline: it is used by its own test only, and which threads share a session is its users' choice;
  that `print` frees events an open region still writes to is listed as a hazard.
* The simple and the disabled timer, clocks, performance counters and the
  conversion tool: sequential, without state that another part reads.
* The text a signal's dump writes, and the stack trace; the handler of glog, which cr_signal.cc replaces.
* How the allocator is made: it has one lock for the process, where one with an arena per thread would hang less often.
  The guards of function-local statics, such as the main section's, which a signal may also interrupt the making of.
* A file of the recorder that cannot be opened again after a snapshot: `RecordFile` has what becomes of a file without a
  database, and `Recorder` opens them all.
* Depth of the stack: with the runner gone, the pending jobs are destroyed by a
  recursion as deep as the queue is long.

## 6. Plan

Done: the strand, the runner and its end, the queues, publish/subscribe, record file, recorder, replayer, timer
and signal handler as models; every safety property that a run checks, the action properties and both refinements as theorems.

Next:

1. The recorder with a file that could not be reopened, in `Recorder` itself.
2. `Config`; `Timeline`.
