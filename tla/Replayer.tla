------------------------------ MODULE Replayer ------------------------------
(***************************************************************************)
(* The message replayer: src/msg_recorder/replayer.cc and replayer.h, with *)
(* the forward iterator of src/msg_recorder/record_file.cc.                *)
(*                                                                         *)
(* One thread registers channels and runs MainLoop, which merges their     *)
(* readers by the keys of the records and publishes each record when its   *)
(* time has come; another thread may call StopMainLoop at any moment.      *)
(*                                                                         *)
(* A reader is known by its channel and by the place of its database among *)
(* those of the channel: a channel that is registered again gets the next. *)
(* Time passes in ticks of the system clock, which is never set back here. *)
(***************************************************************************)
EXTENDS Integers, Sequences

CONSTANTS
  Channels,
  Recordings,    \* what a recording may hold: the databases of each channel, by name
  Speeds,        \* speed-up rates, as pairs <<numerator, denominator>>
  Threshold,     \* the sleep that is too short to be worth it
  MaxReaders,    \* bound: how often a channel is registered
  Nothing,       \* no reader
  MaxClock       \* bound: ticks of the clock

\* A record in a database: its key, and whether the bytes of its key can be parsed.
Records == [time : Nat, count : Nat, readable : BOOLEAN]

Readers == Channels \X (1..MaxReaders)

ASSUME ReplayerAssumption ==
  /\ MaxReaders \in Nat
  /\ Nothing \notin Readers
  /\ Recordings \subseteq [Channels -> Seq(Seq(Records))]
  /\ Speeds \subseteq (Nat \ {0}) \X (Nat \ {0})
  /\ Threshold \in Nat /\ MaxClock \in Nat

VARIABLES
  recording,             \* the databases in record_dir_, as ListSubdirsWithSuffix sorts them
  speed,                 \* speed_up_rate_
  place,                 \* record_itr_ of each reader: its place in its database, 0 before registration
  record_readers,        \* record_readers_: the readers in the heap
  start_record_timestamp, start_local_timestamp,
  shutdown_flag, is_finished,
  phase,                 \* where the thread of MainLoop is
  top, wakeTime,         \* the popped reader, and when the sleep before its record ends
  clock,
  published              \* history: what was published, from which place, and when

startVars  == <<start_record_timestamp, start_local_timestamp>>
readerVars == <<place, record_readers>>
threadVars == <<phase, top, wakeTime>>
vars == <<recording, speed, readerVars, startVars, shutdown_flag, is_finished, threadVars, clock, published>>

Init ==
  /\ recording \in Recordings
  /\ speed \in Speeds
  /\ place = [r \in Readers |-> 0]
  /\ record_readers = {}
  /\ start_record_timestamp = 0 /\ start_local_timestamp = 0
  /\ shutdown_flag = FALSE /\ is_finished = FALSE
  /\ phase = "created" /\ top = Nothing /\ wakeTime = 0
  /\ clock = 1
  /\ published = <<>>

-----------------------------------------------------------------------------
(* Keys and iterators.                                                     *)

\* RecordFileKey::compare on the zero-padded bytes of ToBytes.
KeyBefore(k, l) == \/ k.time < l.time
                   \/ k.time = l.time /\ k.count < l.count

\* LevelDB keeps the records of a database sorted by their keys; where a key that cannot be parsed
\* comes is of no matter.
ASSUME SortedAssumption ==
  \A rec \in Recordings : \A ch \in Channels : \A d \in DOMAIN rec[ch] :
    LET db == rec[ch][d]
    IN  \A i, j \in DOMAIN db :
          (i < j /\ db[i].readable /\ db[j].readable) => KeyBefore(db[i], db[j])

Exists(r)   == r[2] \in DOMAIN recording[r[1]]
Database(r) == recording[r[1]][r[2]]

\* Mutation: a key that cannot be parsed ends the iteration.
NextReadable_Stops(r, i) ==
  IF i \in DOMAIN Database(r) /\ Database(r)[i].readable THEN i ELSE Len(Database(r)) + 1

\* ReadNextValidKey: records whose keys cannot be parsed are skipped.
NextReadable(r, i) ==
  LET later == {j \in DOMAIN Database(r) : j >= i /\ Database(r)[j].readable}
  IN  IF later = {} THEN Len(Database(r)) + 1
                    ELSE CHOOSE j \in later : \A k \in later : j <= k

Valid(r, i) == i \in DOMAIN Database(r)
Current(r)  == Database(r)[place[r]]

-----------------------------------------------------------------------------
(* RegisterChannel, before MainLoop.  GetRecordItr opens the first         *)
(* database of the channel in lexical order.  One that a reader has open   *)
(* is called ".saving", and is not found; when none is left, GetRecordItr  *)
(* throws.  A reader without a valid record is not kept.                   *)

GetRecordItr(r) == Exists(r) /\ place[r] = 0 /\ \A d \in 1 .. r[2] - 1 : place[<<r[1], d>>] # 0

RegisterChannel(r) ==
  /\ phase = "created" /\ GetRecordItr(r)
  /\ LET first == NextReadable(r, 1)
     IN  /\ place' = [place EXCEPT ![r] = first]
         /\ record_readers' = IF Valid(r, first) THEN record_readers \union {r} ELSE record_readers
  /\ UNCHANGED <<recording, speed, startVars, shutdown_flag, is_finished, threadVars, clock, published>>

-----------------------------------------------------------------------------
(* MainLoop and ReplayMessages.                                            *)

\* post_start_() is called first.
BeginMainLoop ==
  /\ phase = "created"
  /\ phase' = "replaying"
  /\ UNCHANGED <<recording, speed, readerVars, startVars, shutdown_flag, is_finished, top, wakeTime, clock, published>>

\* Mutation: the heap is a queue with the greatest key in front.
Least_Greatest(r) == \A other \in record_readers : ~KeyBefore(Current(r), Current(other))

\* RecordReaderPQueue::Compare: pop_heap yields a reader with the least key, any of them if several have it.
Least(r) == \A other \in record_readers : ~KeyBefore(Current(other), Current(r))

\* llround((time - start) / speed_up_rate_)
Expected(time) ==
  LET distance == time - start_record_timestamp
  IN  (2 * distance * speed[2] + speed[1]) \div (2 * speed[1])

\* Mutation: the time already spent is not taken off the sleep.
SleepTime_FromNow(time) == Expected(time)

SleepTime(time) == Expected(time) - (clock - start_local_timestamp)

\* Pop a reader and get its record: the first one starts the clock.
IsStart(r) == start_record_timestamp = 0

Take(r) ==
  /\ phase = "replaying" /\ ~shutdown_flag /\ record_readers # {}
  /\ r \in record_readers /\ Least(r)
  /\ record_readers' = record_readers \ {r}
  /\ top' = r
  /\ LET time == Current(r).time
     IN  IF IsStart(r)
           THEN /\ start_record_timestamp' = time /\ start_local_timestamp' = clock
                /\ wakeTime' = clock
           ELSE /\ wakeTime' = clock + (IF SleepTime(time) > Threshold THEN SleepTime(time) ELSE 0)
                /\ UNCHANGED startVars
  /\ phase' = "sleeping"
  /\ UNCHANGED <<recording, speed, place, shutdown_flag, is_finished, clock, published>>

\* record_itr_.Next()
Step(r) == NextReadable(r, place[r] + 1)

\* After the sleep: Publish, Next, and the reader goes back while it is valid.
PublishTop ==
  /\ phase = "sleeping" /\ clock >= wakeTime
  /\ published' = Append(published, [reader |-> top, index |-> place[top], record |-> Current(top), at |-> clock])
  /\ place' = [place EXCEPT ![top] = Step(top)]
  /\ record_readers' = IF Valid(top, Step(top)) THEN record_readers \union {top} ELSE record_readers
  /\ phase' = "replaying" /\ top' = Nothing
  /\ UNCHANGED <<recording, speed, startVars, shutdown_flag, is_finished, wakeTime, clock>>

\* Mutation: replaying does not end before its records do.
MayEnd_IgnoresFlag == record_readers = {}

MayEnd == shutdown_flag \/ record_readers = {}

\* The loop is left, and pre_finish_() is called.
EndReplay ==
  /\ phase = "replaying" /\ MayEnd
  /\ phase' = "ending"
  /\ UNCHANGED <<recording, speed, readerVars, startVars, shutdown_flag, is_finished, top, wakeTime, clock, published>>

SetFinished ==
  /\ phase = "ending"
  /\ is_finished' = TRUE /\ phase' = "finished"
  /\ UNCHANGED <<recording, speed, readerVars, startVars, shutdown_flag, top, wakeTime, clock, published>>

\* post_finish_() is called, and MainLoop returns.
EndMainLoop ==
  /\ phase = "finished"
  /\ phase' = "returned"
  /\ UNCHANGED <<recording, speed, readerVars, startVars, shutdown_flag, is_finished, top, wakeTime, clock, published>>

-----------------------------------------------------------------------------
(* The other thread, and time.                                             *)

StopMainLoop ==
  /\ ~shutdown_flag
  /\ shutdown_flag' = TRUE
  /\ UNCHANGED <<recording, speed, readerVars, startVars, is_finished, threadVars, clock, published>>

\* Time may pass between any two steps of the thread: it may be slow, or not be scheduled.
\* Nothing else looks at the clock.  The bound does not end a sleep.
Tick ==
  /\ phase \in {"replaying", "sleeping"}
  /\ clock < MaxClock \/ clock < wakeTime
  /\ clock' = clock + 1
  /\ UNCHANGED <<recording, speed, readerVars, startVars, shutdown_flag, is_finished, threadVars, published>>

MainThread ==
  \/ BeginMainLoop \/ PublishTop \/ EndReplay \/ SetFinished \/ EndMainLoop
  \/ \E r \in Readers : Take(r)

Next ==
  \/ \E r \in Readers : RegisterChannel(r)
  \/ MainThread
  \/ StopMainLoop
  \/ Tick

Spec == Init /\ [][Next]_vars

\* The scheduler runs the thread of MainLoop, and time goes on; nobody has to stop it.
FairSpec == Spec /\ WF_vars(MainThread) /\ WF_vars(Tick)

-----------------------------------------------------------------------------
(* Properties.                                                             *)

\* Every variable has its type; a reader in the heap is on a record.
TypeOK ==
  /\ place \in [Readers -> Nat]
  /\ record_readers \subseteq Readers /\ \A r \in record_readers : Valid(r, place[r])
  /\ phase \in {"created", "replaying", "sleeping", "ending", "finished", "returned"}
  /\ top \in Readers \union {Nothing} /\ (top # Nothing <=> phase = "sleeping")
  /\ top \notin record_readers
  /\ shutdown_flag \in BOOLEAN
  /\ is_finished <=> phase \in {"finished", "returned"}

\* The readers whose records are to be replayed, the one being published included.
Waiting == record_readers \union ({top} \ {Nothing})

\* Channels recorded apart are replayed in the one order of their keys, at every moment: what has
\* been published is in order, and nothing that is still to be published belongs before any of it.
InKeyOrder ==
  \A i \in DOMAIN published :
    /\ \A j \in 1 .. i - 1 : ~KeyBefore(published[i].record, published[j].record)
    /\ \A r \in Waiting : ~KeyBefore(Current(r), published[i].record)

\* The places of the records of a reader that have been published, and of those that can be.
Replayed(r) == {published[i].index : i \in {j \in DOMAIN published : published[j].reader = r}}
Readable(r) == {i \in DOMAIN Database(r) : Database(r)[i].readable}

\* Of every database that is opened a beginning is replayed, each record once and in its turn,
\* the unreadable keys left out; all of it when a replay ends that nobody stopped.
NothingSkipped ==
  TypeOK /\ \A r \in Readers : Exists(r) =>
    /\ Replayed(r) \subseteq Readable(r)
    /\ \A i \in Replayed(r), k \in Readable(r) : k < i => k \in Replayed(r)
    /\ \A i, j \in DOMAIN published : (i < j /\ published[i].reader = r /\ published[j].reader = r) =>
         published[i].index < published[j].index
    /\ \A i \in DOMAIN published : published[i].reader = r =>
         published[i].record = Database(r)[published[i].index]
    /\ (is_finished /\ ~shutdown_flag /\ place[r] # 0) => Replayed(r) = Readable(r)

Due(time) == start_local_timestamp + Expected(time)

\* The pace is that of the recording divided by the speed: no record comes before its time by more
\* than the threshold, and a sleep ends at that time, however late the records before it were.  Records
\* with time stamp 0 do not start the clock: the pace is kept from the first other record on.
OnPace ==
  /\ \A i \in DOMAIN published :
       published[i].record.time > 0 => published[i].at + Threshold >= Due(published[i].record.time)
  /\ (phase = "sleeping" /\ clock < wakeTime) => wakeTime = Due(Current(top).time)

\* MainLoop returns, with all records replayed or stopped in the middle of them.
Finishes == phase # "created" ~> phase = "returned"
=============================================================================
