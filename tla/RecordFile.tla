----------------------------- MODULE RecordFile -----------------------------
(***************************************************************************)
(* RecordFile and the rolling helpers of src/msg_recorder/record_file.cc   *)
(* and rolling_helper.cc: one recorded channel on disk, across rolls,      *)
(* snapshots (CloseDB, OpenDB), crashes and restarts of the process.       *)
(*                                                                         *)
(* A database is a directory named after the second it was made in.  While *)
(* it is open its name ends in ".saving"; CommitDB renames it when it has  *)
(* been closed and CheckoutDB renames it back before it is opened again.   *)
(* A database is represented by the set of the records in it; a record is  *)
(* its position among the records written.                                 *)
(*                                                                         *)
(* One RecordFile exists at a time in a directory.  A writer is made with  *)
(* the name of the current second (MessageRecorder::CreateFile), a reader  *)
(* with the name of a database that exists (MessageReplayer, and the tests *)
(* that reopen a file); the name of a reader never rolls.                  *)
(*                                                                         *)
(* Any call to the file system or to leveldb may fail, and the process may *)
(* be killed, MaxFaults times together.                                    *)
(* An exception that leaves RecordFile ends the process, or the object     *)
(* before it exists: nothing is left of it but the disk.                   *)
(***************************************************************************)
EXTENDS Naturals, FiniteSets

CONSTANTS
  MaxTime,     \* bound: the clock stops there
  MaxRecords,  \* bound: how many records are written
  MaxFaults,   \* bound: how often the process is killed, or the disk fails
  Helpers,     \* the rolling helpers a writer may have
  Period,      \* interval_len of CalcNextRollingTime
  Offset,      \* offset_seconds of CalcNextRollingTime
  SizeLimit,   \* limit_bytesize_
  Sizes,       \* the sizes of the values written
  Absent,      \* there is no such directory
  NoName       \* Roll is not on its way

ASSUME RecordFileAssumption ==
  /\ MaxTime \in Nat /\ MaxRecords \in Nat /\ MaxFaults \in Nat
  /\ Helpers \subseteq {"none", "period", "size"}
  /\ Period \in Nat \ {0} /\ Offset \in Nat
  /\ SizeLimit \in Nat /\ Sizes \subseteq Nat

Names   == 0..MaxTime
Records == 1..MaxRecords

ASSUME NothingAssumption ==
  /\ \A records \in SUBSET Records : Absent # records
  /\ \A n \in Names : NoName # n

VARIABLES
  committed,   \* the directories without the suffix
  saving,      \* the directories with the suffix ".saving"
  now,         \* system_clock, in seconds; it is never set back
  pc,          \* where the RecordFile is
  filepath,    \* filepath_
  mode,        \* the class of rolling_helper_, or "read"
  due,         \* time_to_roll_
  bytes,       \* current_bytesize_
  legacy,      \* legacy_
  isEmpty,     \* the local is_empty of CloseDB
  rolling,     \* the database Roll has opened as new_db, or NoName
  value,       \* the size of the value the Write that rolls has to put
  acked,       \* history: the records whose Put has returned
  faults       \* history: how often the process was killed or the disk failed

diskVars   == <<committed, saving>>
helperVars == <<mode, due, bytes>>
callVars   == <<isEmpty, rolling, value>>
histVars   == <<acked, faults>>
vars == <<diskVars, now, pc, filepath, helperVars, legacy, callVars, histVars>>

\* "broken": OpenDB has failed, and db_ is null.
Stages == {"none", "opening", "checkedOut", "open", "committing", "removing",
           "rolled", "closed", "broken"}

Exists(dirs, n) == dirs[n] # Absent

\* What leveldb::DB::Open with create_if_missing finds there.
Opened(n) == IF Exists(saving, n) THEN saving[n] ELSE {}

Faults(n) == faults + n <= MaxFaults /\ faults' = faults + n
Fault == Faults(1)

\* MakeDirs fails; or leveldb does, and again with the legacy comparator, having made a directory or not.
FailedOpens(n) ==
  {[saving |-> saving, legacy |-> legacy], [saving |-> saving, legacy |-> TRUE],
   [saving |-> [saving EXCEPT ![n] = Opened(n)], legacy |-> TRUE]}

\* fs::rename(from/filepath_, to/filepath_).
Rename(from, to, from2, to2) ==
  /\ to2 = [to EXCEPT ![filepath] = from[filepath]]
  /\ from2 = [from EXCEPT ![filepath] = Absent]

-----------------------------------------------------------------------------
(* The rolling helpers.                                                    *)

CalcNextRollingTime(t) == (t - (t % Period)) + Period + Offset

NeedToRoll(size) ==
  \/ mode = "period" /\ now >= due
  \/ mode = "size" /\ (SizeLimit <= size \/ bytes >= SizeLimit - size)

Update(size) == bytes' = IF mode = "size" THEN bytes + size ELSE bytes

\* Mutation: the name is a time of the day.
NewName_NoDate == now % Period

\* MakeNewRecordDirName: the name is the second of the clock.
NewName == now

\* Nothing is left of the object, nor of the calls on it.
Die ==
  /\ pc' = "none" /\ filepath' = 0 /\ mode' = "read"
  /\ due' = CalcNextRollingTime(0) /\ bytes' = 0 /\ legacy' = FALSE
  /\ isEmpty' = FALSE /\ rolling' = NoName /\ value' = 0

-----------------------------------------------------------------------------
Init ==
  /\ committed = [n \in Names |-> Absent]
  /\ saving = [n \in Names |-> Absent]
  /\ now = 0
  /\ pc = "none"
  /\ filepath = 0
  /\ mode = "read"
  /\ due = CalcNextRollingTime(0)
  /\ bytes = 0
  /\ legacy = FALSE
  /\ isEmpty = FALSE
  /\ rolling = NoName
  /\ value = 0
  /\ acked = {}
  /\ faults = 0

(* The constructor, up to the rename of CheckoutDB.                        *)
Construct(n, m) ==
  /\ pc = "none"
  /\ pc' = "opening"
  /\ filepath' = n
  /\ mode' = m
  /\ due' = CalcNextRollingTime(now)
  /\ bytes' = 0
  /\ legacy' = FALSE
  /\ UNCHANGED <<diskVars, now, callVars, histVars>>

MakeWriter == \E m \in Helpers : Construct(NewName, m)

MakeReader == \E n \in Names :
  /\ Exists(committed, n) \/ Exists(saving, n)
  /\ Construct(n, "read")

(* OpenDB of a file that has been closed: the snapshot does that.  It does *)
(* so, too, with a file that could not be opened the last time.            *)
Reopen ==
  /\ pc \in {"closed", "broken"}
  /\ pc' = "opening"
  /\ UNCHANGED <<diskVars, now, filepath, helperVars, legacy, callVars, histVars>>

\* Mutation: the committed database is left where it is.
CheckoutDB_Skipped ==
  /\ pc = "opening"
  /\ pc' = "checkedOut"
  /\ UNCHANGED <<diskVars, now, filepath, helperVars, legacy, callVars, histVars>>

(* CheckoutDB: throws when both directories exist.                         *)
CheckoutDB ==
  /\ pc = "opening"
  /\ IF Exists(committed, filepath) /\ Exists(saving, filepath)
       THEN Die /\ UNCHANGED diskVars
       ELSE /\ pc' = "checkedOut"
            /\ IF Exists(committed, filepath) THEN Rename(committed, saving, committed', saving')
                                              ELSE UNCHANGED diskVars
            /\ UNCHANGED <<filepath, helperVars, legacy, callVars>>
  /\ UNCHANGED <<now, histVars>>

\* The rename throws.
CheckoutFails ==
  /\ pc = "opening" /\ Exists(committed, filepath) /\ Fault
  /\ Die
  /\ UNCHANGED <<diskVars, now, acked>>

(* leveldb opens or creates the unfinished database.                       *)
OpenDB ==
  /\ pc = "checkedOut"
  /\ pc' = "open"
  /\ saving' = [saving EXCEPT ![filepath] = Opened(filepath)]
  /\ UNCHANGED <<committed, now, filepath, helperVars, legacy, callVars, histVars>>

OpenFails ==
  /\ pc = "checkedOut" /\ Fault
  /\ pc' = "broken"
  /\ \E open \in FailedOpens(filepath) : saving' = open.saving /\ legacy' = open.legacy
  /\ UNCHANGED <<committed, now, filepath, helperVars, callVars, acked>>

-----------------------------------------------------------------------------
\* The next record is put into the database n, and Write returns.
Put(dirs, n, size) ==
  LET r == Cardinality(acked) + 1 IN
    /\ r <= MaxRecords
    /\ saving' = [dirs EXCEPT ![n] = @ \cup {r}]
    /\ acked' = acked \cup {r}
    /\ Update(size)
    /\ UNCHANGED <<committed, now>>

\* db_->Put fails: Write logs it, and returns.
PutFails == Fault /\ UNCHANGED <<diskVars, now, bytes, acked>>

Write(size) ==
  /\ pc = "open" /\ mode # "read"
  /\ ~NeedToRoll(size)
  /\ \/ Put(saving, filepath, size) /\ UNCHANGED faults
     \/ PutFails
  /\ UNCHANGED <<pc, filepath, mode, due, legacy, callVars>>

(* Roll fails, and the open database is written to, which may fail, too.   *)
(* When the new name is that of the open database leveldb finds it locked, *)
(* and OpenDB(path) has tried it as a legacy one.                          *)
WriteRollFails(size) ==
  /\ pc = "open" /\ mode # "read"
  /\ NeedToRoll(size)
  /\ LET locked == NewName = filepath
         failed == IF locked THEN 0 ELSE 1
     IN  \E open \in IF locked THEN {[saving |-> saving, legacy |-> TRUE]} ELSE FailedOpens(NewName) :
           /\ legacy' = open.legacy
           /\ \/ Put(open.saving, filepath, size) /\ Faults(failed)
              \/ saving' = open.saving /\ Faults(failed + 1) /\ UNCHANGED <<committed, now, bytes, acked>>
  /\ UNCHANGED <<pc, filepath, mode, due, callVars>>

\* Mutation: the emptiness of the new database is looked at.
EmptyBeforeRoll_New == Opened(NewName) = {}

EmptyBeforeRoll == saving[filepath] = {}

(* Roll opens the new database and starts to close the old one.            *)
WriteRolls(size) ==
  /\ pc = "open" /\ mode # "read"
  /\ NeedToRoll(size) /\ NewName # filepath
  /\ Cardinality(acked) < MaxRecords
  /\ saving' = [saving EXCEPT ![NewName] = Opened(NewName)]
  /\ rolling' = NewName
  /\ value' = size
  /\ isEmpty' = EmptyBeforeRoll
  /\ pc' = "committing"
  /\ UNCHANGED <<committed, now, filepath, helperVars, legacy, histVars>>

(* The rest of Roll and of Write: the new database takes over.             *)
FinishRoll ==
  /\ pc = "rolled"
  /\ \/ LET r == Cardinality(acked) + 1
        IN  /\ saving' = [saving EXCEPT ![rolling] = @ \cup {r}]
            /\ acked' = acked \cup {r}
            /\ bytes' = IF mode = "size" THEN value ELSE bytes
            /\ UNCHANGED faults
     \/ /\ Fault
        /\ bytes' = IF mode = "size" THEN 0 ELSE bytes
        /\ UNCHANGED <<saving, acked>>
  /\ filepath' = rolling
  /\ due' = IF mode = "period" THEN CalcNextRollingTime(now) ELSE due
  /\ rolling' = NoName /\ value' = 0
  /\ pc' = "open"
  /\ UNCHANGED <<committed, now, mode, legacy, isEmpty>>

(* A write to a file that could not be opened.  A roll mends it: CloseDB   *)
(* finds nothing to close.  Without one, or when it fails, db_ is null.    *)
RollBroken(size) ==
  /\ pc = "broken" /\ mode # "read"
  /\ NeedToRoll(size)
  /\ Cardinality(acked) < MaxRecords
  /\ saving' = [saving EXCEPT ![NewName] = Opened(NewName)]
  /\ rolling' = NewName
  /\ value' = size
  /\ pc' = "rolled"
  /\ UNCHANGED <<committed, now, filepath, helperVars, legacy, isEmpty, histVars>>

WriteToNull(size) ==
  /\ pc = "broken" /\ mode # "read"
  /\ IF NeedToRoll(size)
       THEN Fault /\ \E open \in FailedOpens(NewName) : saving' = open.saving
       ELSE UNCHANGED <<saving, faults>>
  /\ Die
  /\ UNCHANGED <<committed, now, acked>>

-----------------------------------------------------------------------------
(* CloseDB up to db_.reset().                                              *)
CloseDB ==
  /\ pc = "open"
  /\ isEmpty' = (saving[filepath] = {})
  /\ pc' = "committing"
  /\ UNCHANGED <<diskVars, now, filepath, helperVars, legacy, rolling, value, histVars>>

(* CommitDB: refused when ".saving" is missing or the name is taken.       *)
CommitDB ==
  /\ pc = "committing"
  /\ IF Exists(saving, filepath) /\ ~Exists(committed, filepath)
       THEN Rename(saving, committed, saving', committed')
       ELSE UNCHANGED diskVars
  /\ pc' = "removing"
  /\ UNCHANGED <<now, filepath, helperVars, legacy, callVars, histVars>>

\* The rename fails: CommitDB logs it, and returns.
CommitFails ==
  /\ pc = "committing" /\ Fault
  /\ Exists(saving, filepath) /\ ~Exists(committed, filepath)
  /\ pc' = "removing"
  /\ UNCHANGED <<diskVars, now, filepath, helperVars, legacy, callVars, acked>>

\* Mutation: every closed database is removed.
RemoveEmpty_Always ==
  /\ pc = "removing"
  /\ committed' = [committed EXCEPT ![filepath] = Absent]
  /\ pc' = IF rolling = NoName THEN "closed" ELSE "rolled"
  /\ isEmpty' = FALSE
  /\ UNCHANGED <<saving, now, filepath, helperVars, legacy, rolling, value, histVars>>

(* The end of CloseDB: an empty database is removed.                       *)
RemoveEmpty ==
  /\ pc = "removing"
  /\ committed' = IF isEmpty THEN [committed EXCEPT ![filepath] = Absent] ELSE committed
  /\ pc' = IF rolling = NoName THEN "closed" ELSE "rolled"
  /\ isEmpty' = FALSE
  /\ UNCHANGED <<saving, now, filepath, helperVars, legacy, rolling, value, histVars>>

\* remove_all throws.
RemoveFails ==
  /\ pc = "removing" /\ isEmpty /\ Exists(committed, filepath) /\ Fault
  /\ Die
  /\ UNCHANGED <<diskVars, now, acked>>

(* The end of the destructor; its CloseDB has run before, or had nothing   *)
(* to close.                                                               *)
Destroy ==
  /\ pc \in {"closed", "broken"}
  /\ Die
  /\ UNCHANGED <<diskVars, now, histVars>>

-----------------------------------------------------------------------------
(* The process dies: what is on disk stays (leveldb has handed every Put   *)
(* to the operating system), everything else is gone.                      *)
Crash ==
  /\ pc # "none" /\ Fault
  /\ Die
  /\ UNCHANGED <<diskVars, now, acked>>

Tick ==
  /\ now < MaxTime
  /\ now' = now + 1
  /\ UNCHANGED <<diskVars, pc, filepath, helperVars, legacy, callVars, histVars>>

Next ==
  \/ MakeWriter \/ MakeReader \/ Reopen \/ CloseDB \/ Destroy
  \/ \E size \in Sizes : Write(size) \/ WriteRollFails(size) \/ WriteRolls(size)
  \/ \E size \in Sizes : RollBroken(size) \/ WriteToNull(size)
  \/ CheckoutDB \/ OpenDB \/ CommitDB \/ RemoveEmpty \/ FinishRoll
  \/ CheckoutFails \/ OpenFails \/ CommitFails \/ RemoveFails
  \/ Crash \/ Tick

Spec == Init /\ [][Next]_vars

-----------------------------------------------------------------------------
Dirs == {Absent} \cup SUBSET Records

\* Every variable has its type; a rolling time is Offset past a multiple of
\* Period, as CalcNextRollingTime is to compute it.
TypeOK ==
  /\ committed \in [Names -> Dirs]
  /\ saving \in [Names -> Dirs]
  /\ now \in Names
  /\ pc \in Stages
  /\ filepath \in Names
  /\ mode \in {"none", "period", "size", "read"}
  /\ due \in Nat /\ due >= Offset /\ (due - Offset) % Period = 0
  /\ bytes \in Nat
  /\ legacy \in BOOLEAN /\ isEmpty \in BOOLEAN
  /\ rolling \in Names \cup {NoName}
  /\ value \in Nat
  /\ acked \in SUBSET Records
  /\ faults \in 0 .. MaxFaults

\* A name has one directory at most: the committed database and the
\* unfinished one of a name never exist together, so that CheckoutDB
\* never throws and CommitDB is never refused.
OneDirectory ==
  /\ TypeOK
  /\ \A n \in Names : ~(Exists(committed, n) /\ Exists(saving, n))

Content(n) ==
  (IF Exists(committed, n) THEN committed[n] ELSE {}) \cup
  (IF Exists(saving, n) THEN saving[n] ELSE {})

\* A record whose Write has returned is in a database, and in one only,
\* whatever rolls, reopenings, removals of empty databases, failures of the
\* disk and crashes follow it; and when no file is open, the process has never
\* died and the disk never failed, every directory is a committed database with
\* records in it: nothing unfinished and nothing empty is left beside them.
NothingLost ==
  /\ \A r \in acked : \E n \in Names :
       /\ r \in Content(n)
       /\ \A m \in Names \ {n} : r \notin Content(m)
  /\ pc \in {"none", "closed"} /\ faults = 0 =>
       \A n \in Names : ~Exists(saving, n) /\ committed[n] # {}

\* The databases of a channel follow one another: what is in an earlier one
\* was written before what is in a later one, so that reading them in the
\* order of their names replays the records in the order of their writing.
InOrder ==
  \A n \in Names : \A m \in 0..n - 1 :
    \A r \in Content(n), s \in Content(m) : s < r

\* The records of a committed database never change: the only step that may
\* touch them is CheckoutDB, which renames the whole directory.
CommittedIsFrozen ==
  [][\A n \in Names : Exists(committed, n) /\ committed[n] # {} =>
       \/ committed'[n] = committed[n]
       \/ committed'[n] = Absent /\ saving'[n] = committed[n]]_vars

\* A file whose databases were all made by this code is read with the key
\* format they were written with: Iterate gives back the keys of Write.
KeysReadBack == pc = "open" => ~legacy
=============================================================================
