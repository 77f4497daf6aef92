-------------------------- MODULE RecordFileProofs --------------------------
(***************************************************************************)
(* Theorems about RecordFile, for any clock, any number of records and any *)
(* number of faults: a name has one directory, no record is lost or kept   *)
(* twice, the databases follow one another, and a committed database is    *)
(* frozen.                                                                 *)
(*                                                                         *)
(* Two things carry the argument.  A writer is made with the name of the   *)
(* current second and rolls to the name of a later one, so that no name    *)
(* after its own has a record or a committed directory (NothingLater); and *)
(* the steps of the code, failed renames and half-made directories         *)
(* included, do one of two things to what is stored: nothing, or add the   *)
(* next record to a database that nothing follows (ContentStep).           *)
(***************************************************************************)
EXTENDS RecordFile, FiniteSetTheorems, TLAPS

\* The records written are the first ones, and what is stored was written.
Written ==
  /\ acked = 1 .. Cardinality(acked)
  /\ \A n \in Names : Content(n) \subseteq acked

\* Each of them is in one database.
Kept == \A r \in acked : \E n \in Names :
  /\ r \in Content(n)
  /\ \A m \in Names \ {n} : r \notin Content(m)

\* No name is one of the future, and none after a writer's own is used: only
\* a roll that failed may have left an empty unfinished database there.
NothingLater ==
  /\ filepath <= now
  /\ \A n \in Names : Exists(committed, n) \/ Exists(saving, n) => n <= now
  /\ pc # "none" /\ mode # "read" => \A n \in Names : n > filepath =>
       ~Exists(committed, n) /\ saving[n] \in {Absent, {}}

\* The directory of the database that is open, and what CloseDB knows of it.
OwnDirectory ==
  /\ pc \in {"checkedOut", "open", "broken", "committing"} => ~Exists(committed, filepath)
  /\ pc \in {"open", "committing"} => Exists(saving, filepath)
  /\ pc = "committing" => (isEmpty <=> saving[filepath] = {})
  /\ pc = "removing" /\ isEmpty => committed[filepath] \in {Absent, {}}

\* The database that Roll has opened.
NewDirectory ==
  /\ pc = "rolled" => rolling # NoName
  /\ rolling # NoName =>
       /\ pc \in {"committing", "removing", "rolled"}
       /\ mode # "read"
       /\ filepath <= rolling /\ rolling <= now
       /\ pc # "rolled" => rolling # filepath
       /\ Exists(saving, rolling) /\ ~Exists(committed, rolling)
       /\ Cardinality(acked) < MaxRecords

\* As long as nothing has failed, only what is in use is unfinished or empty.
Clean == faults = 0 =>
  /\ pc # "broken"
  /\ \A n \in Names : committed[n] = {} => pc = "removing" /\ n = filepath /\ isEmpty
  /\ \A n \in Names : Exists(saving, n) =>
       n = rolling \/ (n = filepath /\ pc \in {"checkedOut", "open", "committing"})

Directories == NothingLater /\ OwnDirectory /\ NewDirectory /\ Clean

IInv == OneDirectory /\ Written /\ Kept /\ InOrder /\ Directories

\* The next record goes into the database n, which nothing follows.
Stored(n) ==
  LET r == Cardinality(acked) + 1 IN
    /\ r \in Records
    /\ acked' = acked \union {r}
    /\ Content(n)' = Content(n) \union {r}
    /\ \A m \in Names \ {n} : Content(m)' = Content(m)
    /\ \A m \in Names : m > n => Content(m) = {}

\* Nothing happens to the records, whatever becomes of the directories.
NothingStored ==
  /\ acked' = acked
  /\ \A n \in Names : Content(n)' = Content(n)

-----------------------------------------------------------------------------
(* The records written are counted, and the next one is not among them.    *)
LEMMA NextRecord ==
  ASSUME TypeOK, Written
  PROVE  /\ Cardinality(acked) \in Nat
         /\ Cardinality(acked) + 1 \notin acked
         /\ \A r \in acked : r < Cardinality(acked) + 1
         /\ LET next == acked \union {Cardinality(acked) + 1}
            IN  Cardinality(next) = Cardinality(acked) + 1 /\ next = 1 .. Cardinality(next)
<1>1. IsFiniteSet(acked)
  <2>1. IsFiniteSet(1 .. MaxRecords)
    BY RecordFileAssumption, FS_Interval
  <2>2. acked \subseteq 1 .. MaxRecords
    BY DEF TypeOK, Records
  <2> QED BY <2>1, <2>2, FS_Subset
<1>2. Cardinality(acked) \in Nat
  BY <1>1, FS_CardinalityType
<1>3. Cardinality(acked) + 1 \notin acked
  BY <1>2 DEF Written
<1>4. \A r \in acked : r < Cardinality(acked) + 1
  BY <1>2 DEF Written
<1>5. Cardinality(acked \union {Cardinality(acked) + 1}) = Cardinality(acked) + 1
  BY <1>1, <1>3, FS_AddElement
<1>6. acked \union {Cardinality(acked) + 1} = 1 .. Cardinality(acked) + 1
  BY <1>2 DEF Written
<1> QED BY <1>2, <1>3, <1>4, <1>5, <1>6

(* A multiple of the period is left when the rest of a time is taken off.  *)
LEMMA NextMultiple ==
  ASSUME NEW p \in Nat \ {0}, NEW t \in Nat
  PROVE  (t - (t % p)) + p \in Nat /\ ((t - (t % p)) + p) % p = 0
<1>1. t % p \in Nat /\ t % p <= t
  OBVIOUS
<1>2. (t - (t % p) + p) % p = 0
  OBVIOUS
<1> QED BY <1>1, <1>2

(* A rolling time is a multiple of the period, and the offset.             *)
LEMMA RollingTime ==
  ASSUME NEW t \in Nat
  PROVE  LET d == CalcNextRollingTime(t)
         IN  d \in Nat /\ d >= Offset /\ (d - Offset) % Period = 0
<1> DEFINE k == (t - (t % Period)) + Period
<1> USE RecordFileAssumption
<1>2. k \in Nat /\ k % Period = 0
  BY NextMultiple
<1>3. CalcNextRollingTime(t) = k + Offset
  BY DEF CalcNextRollingTime
<1> HIDE DEF k
<1>4. (k + Offset) - Offset = k /\ k + Offset >= Offset /\ k + Offset \in Nat
  BY <1>2
<1> QED BY <1>2, <1>3, <1>4

(* Opening a database, or failing to, creates its directory at most.       *)
LEMMA OpenFacts ==
  ASSUME TypeOK, NEW n \in Names
  PROVE  /\ Opened(n) \in SUBSET Records
         /\ \A open \in FailedOpens(n) :
              /\ open.legacy \in BOOLEAN
              /\ open.saving \in {saving, [saving EXCEPT ![n] = Opened(n)]}
BY DEF TypeOK, Opened, FailedOpens, Exists, Dirs

(* The process that dies leaves well-typed variables behind.               *)
LEMMA DieFacts ==
  ASSUME Die
  PROVE  /\ pc' \in Stages /\ filepath' \in Names /\ mode' \in {"none", "period", "size", "read"}
         /\ due' \in Nat /\ due' >= Offset /\ (due' - Offset) % Period = 0
         /\ bytes' \in Nat /\ legacy' \in BOOLEAN /\ isEmpty' \in BOOLEAN
         /\ rolling' \in Names \cup {NoName} /\ value' \in Nat
<1>1. LET d == CalcNextRollingTime(0)
      IN  d \in Nat /\ d >= Offset /\ (d - Offset) % Period = 0
  BY RollingTime
<1>2. due' \in Nat /\ due' >= Offset /\ (due' - Offset) % Period = 0
  BY <1>1 DEF Die
<1>3. filepath' \in Names
  BY RecordFileAssumption DEF Die, Names
<1> QED BY <1>2, <1>3 DEF Die, Stages

(* A roll that fails leaves a directory behind, at most, and then a fault  *)
(* is counted; the record goes to the open database, or nowhere.           *)
LEMMA RollFailsFacts ==
  ASSUME TypeOK, NEW size, WriteRollFails(size)
  PROVE  /\ legacy' \in BOOLEAN /\ faults' \in 0 .. MaxFaults
         /\ \E dirs \in {saving, [saving EXCEPT ![NewName] = Opened(NewName)]} :
              /\ \/ Put(dirs, filepath, size)
                 \/ saving' = dirs /\ UNCHANGED <<committed, now, bytes, acked>>
              /\ dirs = saving \/ NewName # filepath
              /\ faults' = 0 => faults = 0 /\ dirs = saving
<1>1. NewName \in Names /\ faults \in Nat
  BY DEF TypeOK, NewName
<1>2. \A open \in FailedOpens(NewName) :
        /\ open.legacy \in BOOLEAN
        /\ open.saving \in {saving, [saving EXCEPT ![NewName] = Opened(NewName)]}
  BY <1>1, OpenFacts
<1>3. CASE NewName = filepath
  <2>1. /\ legacy' = TRUE
        /\ \/ Put(saving, filepath, size) /\ Faults(0)
           \/ saving' = saving /\ Faults(1) /\ UNCHANGED <<committed, now, bytes, acked>>
    BY <1>3 DEF WriteRollFails
  <2>2. faults' \in 0 .. MaxFaults /\ (faults' = 0 => faults = 0)
    BY <1>1, <2>1, RecordFileAssumption DEF Faults
  <2> QED BY <2>1, <2>2
<1>4. CASE NewName # filepath
  <2>1. PICK open \in FailedOpens(NewName) :
          /\ legacy' = open.legacy
          /\ \/ Put(open.saving, filepath, size) /\ Faults(1)
             \/ saving' = open.saving /\ Faults(2) /\ UNCHANGED <<committed, now, bytes, acked>>
    BY <1>4 DEF WriteRollFails
  <2>2. faults' \in 0 .. MaxFaults /\ faults' # 0
    BY <1>1, <2>1, RecordFileAssumption DEF Faults
  <2> QED BY <1>2, <1>4, <2>1, <2>2
<1> QED BY <1>3, <1>4

(* Every variable keeps its type.                                          *)
LEMMA TypeStep == IInv /\ [Next]_vars => TypeOK'
<1> SUFFICES ASSUME IInv, [Next]_vars
             PROVE  TypeOK'
  OBVIOUS
<1> USE RecordFileAssumption DEF vars, diskVars, helperVars, callVars, histVars, Fault, Faults
<1>0. TypeOK /\ Written /\ now \in Nat /\ Offset \in Nat
  BY DEF IInv, OneDirectory, TypeOK, Names
<1>1. \A n \in Names : Opened(n) \in SUBSET Records
  BY <1>0, OpenFacts
<1>2. \A n \in Names : \A open \in FailedOpens(n) :
        open.legacy \in BOOLEAN /\ open.saving \in [Names -> Dirs]
  BY <1>0, <1>1, OpenFacts DEF TypeOK, Dirs
<1>3. Cardinality(acked) \in Nat
  BY <1>0, NextRecord
<1>4. NewName \in Names
  BY <1>0 DEF NewName, TypeOK
<1>5. ASSUME NEW dirs \in [Names -> Dirs], NEW n \in Names, NEW size \in Nat,
             Put(dirs, n, size), dirs[n] # Absent
      PROVE  saving' \in [Names -> Dirs] /\ acked' \in SUBSET Records /\ bytes' \in Nat
  <2> DEFINE r == Cardinality(acked) + 1
  <2>1. r \in Records /\ dirs[n] \in SUBSET Records
    BY <1>3, <1>5 DEF Put, Dirs, Records
  <2>2. saving' = [dirs EXCEPT ![n] = dirs[n] \union {r}] /\ acked' = acked \union {r}
    BY <1>5 DEF Put
  <2>3. bytes' \in Nat
    BY <1>0, <1>5 DEF Put, Update, TypeOK
  <2> HIDE DEF r
  <2> QED BY <1>0, <2>1, <2>2, <2>3 DEF TypeOK, Dirs
<1>6. ASSUME NEW n, NEW m, n \in Names, m \in Helpers \union {"read"}, Construct(n, m)
      PROVE  TypeOK'
  <2>1. due' \in Nat /\ due' >= Offset /\ (due' - Offset) % Period = 0
    BY <1>0, <1>6, RollingTime DEF Construct
  <2> QED BY <1>0, <1>6, <2>1 DEF Construct, TypeOK, Stages
<1>7. CASE MakeWriter \/ MakeReader
  BY <1>4, <1>6, <1>7 DEF MakeWriter, MakeReader
<1>8. CASE Reopen \/ CloseDB \/ Tick \/ UNCHANGED vars
  <2>1. CASE Reopen
    BY <1>0, <2>1 DEF Reopen, TypeOK, Stages
  <2>2. CASE CloseDB
    BY <1>0, <2>2 DEF CloseDB, TypeOK, Stages
  <2>3. CASE Tick
    BY <1>0, <2>3 DEF Tick, TypeOK, Names
  <2>4. CASE UNCHANGED vars
    BY <1>0, <2>4 DEF TypeOK
  <2> QED BY <1>8, <2>1, <2>2, <2>3, <2>4
<1>9. CASE CheckoutFails \/ RemoveFails \/ Destroy \/ Crash
  <2>1. Die /\ UNCHANGED <<diskVars, now, acked>> /\ faults' \in 0 .. MaxFaults
    BY <1>0, <1>9 DEF CheckoutFails, RemoveFails, Destroy, Crash, TypeOK
  <2> QED BY <1>0, <2>1, DieFacts DEF TypeOK
<1>10. CASE CheckoutDB
  <2>1. CASE Die /\ UNCHANGED diskVars
    BY <1>0, <1>10, <2>1, DieFacts DEF CheckoutDB, TypeOK
  <2>2. CASE ~(Die /\ UNCHANGED diskVars)
    BY <1>0, <1>10, <2>2 DEF CheckoutDB, Rename, TypeOK, Stages, Dirs
  <2> QED BY <2>1, <2>2
<1>11. CASE OpenDB \/ OpenFails
  <2>1. saving' \in [Names -> Dirs] /\ legacy' \in BOOLEAN /\ pc' \in Stages /\ faults' \in 0 .. MaxFaults
    BY <1>0, <1>1, <1>2, <1>11 DEF OpenDB, OpenFails, TypeOK, Stages, Dirs
  <2> QED BY <1>0, <1>11, <2>1 DEF OpenDB, OpenFails, TypeOK
<1>12. ASSUME NEW size \in Sizes, Write(size) PROVE TypeOK'
  <2>1. Exists(saving, filepath)
    BY <1>12 DEF Write, IInv, Directories, OwnDirectory
  <2>2. saving' \in [Names -> Dirs] /\ acked' \in SUBSET Records /\ bytes' \in Nat
    BY <1>0, <1>5, <1>12, <2>1 DEF Write, PutFails, TypeOK, Exists
  <2> QED BY <1>0, <1>12, <2>2 DEF Write, PutFails, Put, TypeOK
<1>13. ASSUME NEW size \in Sizes, WriteRollFails(size) PROVE TypeOK'
  <2>1. Exists(saving, filepath)
    BY <1>13 DEF WriteRollFails, IInv, Directories, OwnDirectory
  <2>2. PICK dirs \in {saving, [saving EXCEPT ![NewName] = Opened(NewName)]} :
          \/ Put(dirs, filepath, size)
          \/ saving' = dirs /\ UNCHANGED <<committed, now, bytes, acked>>
    BY <1>0, <1>13, RollFailsFacts
  <2>3. dirs \in [Names -> Dirs] /\ dirs[filepath] # Absent
    BY <1>0, <1>1, <1>4, <2>1, <2>2 DEF TypeOK, Exists, Dirs, Opened
  <2>4. saving' \in [Names -> Dirs] /\ acked' \in SUBSET Records /\ bytes' \in Nat
    BY <1>0, <1>5, <2>2, <2>3 DEF TypeOK
  <2>5. legacy' \in BOOLEAN /\ faults' \in 0 .. MaxFaults
    BY <1>0, <1>13, RollFailsFacts
  <2>6. UNCHANGED <<committed, now>>
    BY <2>2 DEF Put
  <2> QED BY <1>0, <1>13, <2>4, <2>5, <2>6 DEF WriteRollFails, TypeOK
<1>14. ASSUME NEW size \in Sizes, WriteRolls(size) \/ RollBroken(size) PROVE TypeOK'
  BY <1>0, <1>1, <1>4, <1>14 DEF WriteRolls, RollBroken, EmptyBeforeRoll, TypeOK, Stages, Dirs
<1>15. ASSUME NEW size \in Sizes, WriteToNull(size) PROVE TypeOK'
  <2>1. saving' \in [Names -> Dirs] /\ faults' \in 0 .. MaxFaults
    BY <1>0, <1>2, <1>4, <1>15 DEF WriteToNull, TypeOK
  <2> QED BY <1>0, <1>15, <2>1, DieFacts DEF WriteToNull, TypeOK
<1>16. CASE CommitDB \/ CommitFails \/ RemoveEmpty
  <2>1. CASE CommitDB
    BY <1>0, <2>1 DEF CommitDB, Rename, TypeOK, Stages, Dirs
  <2>2. CASE CommitFails
    BY <1>0, <2>2 DEF CommitFails, TypeOK, Stages
  <2>3. CASE RemoveEmpty
    BY <1>0, <2>3 DEF RemoveEmpty, TypeOK, Stages, Dirs
  <2> QED BY <1>16, <2>1, <2>2, <2>3
<1>17. CASE FinishRoll
  <2>1. rolling \in Names /\ Exists(saving, rolling) /\ Cardinality(acked) + 1 \in Records
    BY <1>0, <1>3, <1>17 DEF FinishRoll, IInv, Directories, NewDirectory, TypeOK, Records
  <2>2. due' \in Nat /\ due' >= Offset /\ (due' - Offset) % Period = 0
    BY <1>0, <1>17, RollingTime DEF FinishRoll, TypeOK
  <2>3. saving' \in [Names -> Dirs] /\ acked' \in SUBSET Records
    BY <1>0, <1>17, <2>1 DEF FinishRoll, TypeOK, Dirs, Exists
  <2> QED BY <1>0, <1>17, <2>1, <2>2, <2>3 DEF FinishRoll, TypeOK, Stages
<1> QED
  BY <1>7, <1>8, <1>9, <1>10, <1>11, <1>12, <1>13, <1>14, <1>15, <1>16, <1>17 DEF Next

-----------------------------------------------------------------------------
(* A directory that is created empty holds no record.                      *)
LEMMA OpenedContent ==
  ASSUME TypeOK, NEW n \in Names,
         saving' \in {saving, [saving EXCEPT ![n] = Opened(n)]}, committed' = committed
  PROVE  \A m \in Names : Content(m)' = Content(m)
BY NothingAssumption DEF TypeOK, Content, Opened, Exists, Dirs

(* A record that is put into an open database is stored there, whatever    *)
(* directory was created before.                                           *)
LEMMA PutContent ==
  ASSUME TypeOK, NEW n \in Names, NEW m \in Names, NEW r \in Records, Exists(saving, n),
         NEW dirs, dirs \in {saving, [saving EXCEPT ![m] = Opened(m)]},
         saving' = [dirs EXCEPT ![n] = dirs[n] \union {r}], committed' = committed
  PROVE  /\ Content(n)' = Content(n) \union {r}
         /\ \A k \in Names \ {n} : Content(k)' = Content(k)
<1> USE NothingAssumption
<1>1. dirs \in [Names -> Dirs] /\ dirs[n] = saving[n]
  BY DEF TypeOK, Opened, Exists, Dirs
<1>2. saving[n] \in SUBSET Records /\ saving'[n] = saving[n] \union {r} /\ saving'[n] # Absent
  BY <1>1 DEF TypeOK, Exists, Dirs
<1>3. Content(n)' = Content(n) \union {r}
  BY <1>2 DEF Content, Exists
<1>4. ASSUME NEW k \in Names \ {n} PROVE Content(k)' = Content(k)
  <2>1. saving'[k] = dirs[k]
    BY <1>1
  <2>2. dirs[k] = saving[k] \/ (saving[k] = Absent /\ dirs[k] = {})
    BY DEF TypeOK, Opened, Exists
  <2> QED BY <2>1, <2>2 DEF Content, Exists
<1> QED BY <1>3, <1>4

(* A directory that is renamed to a name that is free keeps its records.   *)
LEMMA RenamedContent ==
  ASSUME TypeOK, ~(Exists(committed, filepath) /\ Exists(saving, filepath)),
         \/ Exists(committed, filepath) /\ Rename(committed, saving, committed', saving')
         \/ Exists(saving, filepath) /\ Rename(saving, committed, saving', committed')
  PROVE  \A n \in Names : Content(n)' = Content(n)
<1> SUFFICES ASSUME NEW n \in Names PROVE Content(n)' = Content(n)
  OBVIOUS
<1>1. CASE n # filepath
  BY <1>1 DEF TypeOK, Content, Exists, Rename
<1>2. CASE n = filepath /\ Exists(committed, n) /\ Rename(committed, saving, committed', saving')
  <2>1. committed'[n] = Absent /\ saving'[n] = committed[n]
    BY <1>2 DEF TypeOK, Rename
  <2> QED BY <1>2, <2>1 DEF Content, Exists
<1>3. CASE n = filepath /\ Exists(saving, n) /\ Rename(saving, committed, saving', committed')
  <2>1. saving'[n] = Absent /\ committed'[n] = saving[n]
    BY <1>3 DEF TypeOK, Rename
  <2> QED BY <1>3, <2>1 DEF Content, Exists
<1> QED BY <1>1, <1>2, <1>3

(* Nothing follows the database that a writer has open, or rolls to.       *)
LEMMA NothingFollows ==
  ASSUME IInv, pc # "none", mode # "read"
  PROVE  \A m \in Names : m > filepath => Content(m) = {}
BY DEF IInv, Directories, NothingLater, Content, Exists

(* What a step does to the records: nothing, or it adds the next one to a  *)
(* database that nothing follows.                                          *)
LEMMA ContentStep == IInv /\ [Next]_vars => NothingStored \/ \E n \in Names : Stored(n)
<1> SUFFICES ASSUME IInv, [Next]_vars
             PROVE  NothingStored \/ \E n \in Names : Stored(n)
  OBVIOUS
<1> USE DEF vars, diskVars, histVars
<1>0. TypeOK /\ Written /\ Cardinality(acked) \in Nat /\ filepath \in Names /\ NewName \in Names
  BY NextRecord DEF IInv, OneDirectory, TypeOK, NewName
<1>1. ASSUME UNCHANGED <<committed, saving, acked>> PROVE NothingStored
  BY <1>1 DEF NothingStored, Content, Exists
<1>2. CASE MakeWriter \/ MakeReader \/ Reopen \/ CloseDB \/ Tick \/ Destroy \/ UNCHANGED vars
  BY <1>1, <1>2 DEF MakeWriter, MakeReader, Construct, Reopen, CloseDB, Tick, Destroy
<1>3. CASE CheckoutFails \/ RemoveFails \/ Crash \/ CommitFails
  BY <1>1, <1>3 DEF CheckoutFails, RemoveFails, Crash, CommitFails
<1>4. CASE CheckoutDB
  <2>1. ~(Exists(committed, filepath) /\ Exists(saving, filepath))
    BY <1>0 DEF IInv, OneDirectory
  <2>2. acked' = acked
    BY <1>4 DEF CheckoutDB
  <2>3. UNCHANGED diskVars \/ (Exists(committed, filepath) /\ Rename(committed, saving, committed', saving'))
    BY <1>4, <2>1 DEF CheckoutDB
  <2> QED BY <1>0, <1>1, <2>1, <2>2, <2>3, RenamedContent DEF NothingStored
<1>5. CASE CommitDB
  <2>1. ~(Exists(committed, filepath) /\ Exists(saving, filepath))
    BY <1>0 DEF IInv, OneDirectory
  <2>2. acked' = acked
    BY <1>5 DEF CommitDB
  <2>3. UNCHANGED diskVars \/ (Exists(saving, filepath) /\ Rename(saving, committed, saving', committed'))
    BY <1>5 DEF CommitDB
  <2> QED BY <1>0, <1>1, <2>1, <2>2, <2>3, RenamedContent DEF NothingStored
<1>6. CASE OpenDB \/ OpenFails
  <2>1. UNCHANGED <<committed, acked>> /\ saving' \in {saving, [saving EXCEPT ![filepath] = Opened(filepath)]}
    BY <1>0, <1>6, OpenFacts DEF OpenDB, OpenFails
  <2> QED BY <1>0, <2>1, OpenedContent DEF NothingStored
<1>7. ASSUME NEW size \in Sizes, WriteRolls(size) \/ RollBroken(size) \/ WriteToNull(size)
      PROVE  NothingStored
  <2>1. UNCHANGED <<committed, acked>> /\ saving' \in {saving, [saving EXCEPT ![NewName] = Opened(NewName)]}
    BY <1>0, <1>7, OpenFacts DEF WriteRolls, RollBroken, WriteToNull
  <2> QED BY <1>0, <2>1, OpenedContent DEF NothingStored
<1>8. CASE RemoveEmpty
  <2>1. UNCHANGED <<saving, acked>>
    BY <1>8 DEF RemoveEmpty
  <2>2. ASSUME NEW n \in Names PROVE Content(n)' = Content(n)
    <3>1. CASE n = filepath /\ isEmpty
      <4>1. committed[n] \in {Absent, {}} /\ committed'[n] = Absent
        BY <1>0, <1>8, <3>1 DEF RemoveEmpty, IInv, Directories, OwnDirectory, TypeOK
      <4> QED BY <2>1, <4>1 DEF Content, Exists
    <3>2. CASE ~(n = filepath /\ isEmpty)
      <4>1. committed'[n] = committed[n]
        BY <1>0, <1>8, <3>2 DEF RemoveEmpty, TypeOK
      <4> QED BY <2>1, <4>1 DEF Content, Exists
    <3> QED BY <3>1, <3>2
  <2> QED BY <2>1, <2>2 DEF NothingStored
<1>f. PICK f \in Names : f = filepath
  BY <1>0
<1>n. PICK n \in Names : n = NewName
  BY <1>0
<1>9. ASSUME NEW size \in Sizes, NEW m \in Names, NEW dirs, pc = "open", mode # "read",
             dirs \in {saving, [saving EXCEPT ![m] = Opened(m)]}, Put(dirs, f, size)
      PROVE  Stored(f)
  <2> DEFINE r == Cardinality(acked) + 1
  <2>1. r \in Records /\ acked' = acked \union {r} /\ committed' = committed
        /\ saving' = [dirs EXCEPT ![f] = dirs[f] \union {r}]
    BY <1>0, <1>9 DEF Put, Records
  <2>2. Exists(saving, f)
    BY <1>f, <1>9 DEF IInv, Directories, OwnDirectory
  <2>c. PICK s \in Records : s = r
    BY <2>1
  <2>3. /\ Content(f)' = Content(f) \union {s}
        /\ \A k \in Names \ {f} : Content(k)' = Content(k)
    <3>1. TypeOK /\ committed' = committed /\ saving' = [dirs EXCEPT ![f] = dirs[f] \union {s}]
      BY <1>0, <2>1, <2>c
    <3> HIDE DEF r
    <3> QED BY ONLY <3>1, <1>9, <2>2, PutContent
  <2> QED BY <1>f, <1>9, <2>1, <2>3, <2>c, NothingFollows DEF Stored
<1>10. ASSUME NEW size \in Sizes, Write(size) PROVE NothingStored \/ Stored(f)
  <2>1. CASE Put(saving, filepath, size)
    BY <1>f, <1>9, <1>10, <2>1 DEF Write
  <2>2. CASE PutFails
    BY <1>1, <2>2 DEF PutFails
  <2> QED BY <1>10, <2>1, <2>2 DEF Write
<1>11. ASSUME NEW size \in Sizes, WriteRollFails(size) PROVE NothingStored \/ Stored(f)
  <2>1. PICK dirs \in {saving, [saving EXCEPT ![NewName] = Opened(NewName)]} :
          \/ Put(dirs, filepath, size)
          \/ saving' = dirs /\ UNCHANGED <<committed, now, bytes, acked>>
    BY <1>0, <1>11, RollFailsFacts
  <2>2. CASE Put(dirs, filepath, size)
    <3>1. dirs \in {saving, [saving EXCEPT ![n] = Opened(n)]} /\ Put(dirs, f, size)
      BY <1>f, <1>n, <2>1, <2>2
    <3>2. pc = "open" /\ mode # "read"
      BY <1>11 DEF WriteRollFails
    <3> QED BY <1>9, <3>1, <3>2
  <2>3. CASE saving' = dirs /\ UNCHANGED <<committed, acked>>
    BY <1>0, <2>1, <2>3, OpenedContent DEF NothingStored
  <2> QED BY <2>1, <2>2, <2>3
<1>12. CASE FinishRoll
  <2> DEFINE r == Cardinality(acked) + 1
  <2>1. /\ rolling \in Names /\ rolling >= filepath /\ mode # "read"
        /\ Exists(saving, rolling) /\ r \in Records
    BY <1>0, <1>12, RecordFileAssumption DEF FinishRoll, IInv, Directories, NewDirectory, TypeOK, Records, Names
  <2>2. CASE UNCHANGED <<saving, acked>>
    BY <1>1, <1>12, <2>2 DEF FinishRoll
  <2>3. CASE acked' = acked \union {r} /\ saving' = [saving EXCEPT ![rolling] = saving[rolling] \union {r}]
    <3>c. PICK k \in Names, s \in Records : k = rolling /\ s = r
      BY <2>1
    <3>1. /\ Content(k)' = Content(k) \union {s}
          /\ \A m \in Names \ {k} : Content(m)' = Content(m)
      BY <1>0, <1>12, <2>1, <2>3, <3>c, PutContent DEF FinishRoll
    <3>2. \A m \in Names : m > filepath => Content(m) = {}
      BY <1>12, <2>1, NothingFollows DEF FinishRoll
    <3>3. \A m \in Names : m > k => Content(m) = {}
      BY <1>0, <2>1, <3>2, <3>c, RecordFileAssumption DEF Names
    <3> QED BY <2>1, <2>3, <3>1, <3>3, <3>c DEF Stored
  <2> QED BY <1>12, <2>2, <2>3 DEF FinishRoll
<1> QED
  BY <1>2, <1>3, <1>4, <1>5, <1>6, <1>7, <1>8, <1>10, <1>11, <1>12 DEF Next

-----------------------------------------------------------------------------
(* The records stay the first ones, and each stays where it was stored.    *)
LEMMA WrittenStep ==
  ASSUME IInv, NothingStored \/ \E n \in Names : Stored(n)
  PROVE  Written' /\ Kept' /\ InOrder'
<1>0. TypeOK /\ Written /\ Kept /\ InOrder
  BY DEF IInv, OneDirectory
<1>1. CASE NothingStored
  <2>1. acked' = 1 .. Cardinality(acked')
    BY <1>0, <1>1 DEF NothingStored, Written
  <2>2. \A n \in Names : Content(n)' \subseteq acked'
    BY <1>0, <1>1 DEF NothingStored, Written
  <2>3. Kept'
    BY <1>0, <1>1 DEF NothingStored, Kept
  <2>4. InOrder'
    <3>1. \A n \in Names : \A m \in 0..n - 1 : m \in Names
      BY RecordFileAssumption DEF Names
    <3> QED BY <1>0, <1>1, <3>1 DEF NothingStored, InOrder
  <2> QED BY <2>1, <2>2, <2>3, <2>4 DEF Written
<1>2. ASSUME NEW n \in Names, Stored(n) PROVE Written' /\ Kept' /\ InOrder'
  <2> DEFINE r == Cardinality(acked) + 1
  <2>1. /\ acked' = acked \union {r} /\ Content(n)' = Content(n) \union {r}
        /\ \A m \in Names \ {n} : Content(m)' = Content(m)
        /\ \A m \in Names : m > n => Content(m) = {}
    BY <1>2 DEF Stored
  <2>2. r \notin acked /\ (\A s \in acked : s < r) /\ acked' = 1 .. Cardinality(acked')
    BY <1>0, <2>1, NextRecord
  <2> HIDE DEF r
  <2>3. \A m \in Names : r \notin Content(m) /\ Content(m) \subseteq acked
    BY <1>0, <2>2 DEF Written
  <2>4. \A m \in Names : Content(m)' \subseteq acked'
    BY <2>1, <2>3
  <2>5. Kept'
    <3> SUFFICES ASSUME NEW s \in acked'
                 PROVE  \E k \in Names : s \in Content(k)' /\ \A m \in Names \ {k} : s \notin Content(m)'
      BY DEF Kept
    <3>1. CASE s = r
      BY <2>1, <2>3, <3>1
    <3>2. CASE s \in acked /\ s # r
      <4>1. PICK k \in Names : s \in Content(k) /\ \A m \in Names \ {k} : s \notin Content(m)
        BY <1>0, <3>2 DEF Kept
      <4>2. s \in Content(k)' /\ \A m \in Names \ {k} : s \notin Content(m)'
        BY <2>1, <3>2, <4>1
      <4> QED BY <4>2
    <3> QED BY <2>1, <3>1, <3>2
  <2>6. InOrder'
    <3> SUFFICES ASSUME NEW k \in Names, NEW m \in 0..k - 1, NEW s \in Content(k)', NEW t \in Content(m)'
                 PROVE  t < s
      BY DEF InOrder
    <3>1. m \in Names /\ m # k /\ k > m
      BY RecordFileAssumption DEF Names
    <3>2. CASE m = n
      <4>1. Content(k) = {} /\ Content(k)' = Content(k)
        BY <2>1, <3>1, <3>2
      <4> QED BY <4>1
    <3>3. CASE m # n /\ (k # n \/ s # r)
      <4>1. s \in Content(k) /\ t \in Content(m)
        BY <2>1, <3>1, <3>3
      <4> QED BY <1>0, <4>1 DEF InOrder
    <3>4. CASE m # n /\ s = r
      <4>1. t \in acked
        BY <2>1, <2>3, <3>1, <3>4
      <4> QED BY <2>2, <3>4, <4>1
    <3> QED BY <3>2, <3>3, <3>4
  <2> QED BY <2>2, <2>4, <2>5, <2>6 DEF Written
<1> QED BY <1>1, <1>2

-----------------------------------------------------------------------------
(* Each step leaves the directories as the code expects them: no two of a  *)
(* name, none of a later one but what a failed roll left, and the open and *)
(* the new database where CloseDB and Roll will look for them.             *)
LEMMA DirectoryStep ==
  ASSUME IInv, [Next]_vars
  PROVE  Directories' /\ \A n \in Names : ~(Exists(committed, n)' /\ Exists(saving, n)')
<1> DEFINE Goal == Directories' /\ \A n \in Names : ~(Exists(committed, n)' /\ Exists(saving, n)')
<1> SUFFICES Goal
  OBVIOUS
<1> USE RecordFileAssumption, NothingAssumption
    DEF IInv, OneDirectory, TypeOK, Directories, NothingLater, OwnDirectory, NewDirectory, Clean,
        Names, Dirs, Exists, Opened, FailedOpens, Rename, Die, NewName, EmptyBeforeRoll, Fault, Faults,
        vars, diskVars, helperVars, callVars, histVars
<1>1. CASE MakeWriter
  BY <1>1 DEF MakeWriter, Construct
<1>2. CASE MakeReader
  BY <1>2 DEF MakeReader, Construct
<1>3. CASE Reopen
  BY <1>3 DEF Reopen
<1>4. CASE CheckoutDB
  <2>1. ~(Exists(committed, filepath) /\ Exists(saving, filepath))
    OBVIOUS
  <2>2. NothingLater'
    BY <1>4, <2>1 DEF CheckoutDB
  <2>3. OwnDirectory'
    BY <1>4, <2>1 DEF CheckoutDB
  <2>4. NewDirectory'
    BY <1>4, <2>1 DEF CheckoutDB
  <2>5. Clean'
    BY <1>4, <2>1 DEF CheckoutDB
  <2>6. \A n \in Names : ~(Exists(committed, n)' /\ Exists(saving, n)')
    BY <1>4, <2>1 DEF CheckoutDB
  <2> QED BY <2>2, <2>3, <2>4, <2>5, <2>6 DEF Directories
<1>5. CASE CheckoutFails
  BY <1>5 DEF CheckoutFails
<1>6. CASE OpenDB
  BY <1>6 DEF OpenDB
<1>7. CASE OpenFails
  BY <1>7 DEF OpenFails
<1>r. Cardinality(acked) \in Nat
  BY NextRecord
<1>t. TypeOK /\ NewName \in Names /\ faults \in Nat
  OBVIOUS
<1>p. ASSUME NEW dirs, NEW size, Put(dirs, filepath, size)
      PROVE  \E r \in Records : saving' = [dirs EXCEPT ![filepath] = dirs[filepath] \union {r}]
  <2>1. Cardinality(acked) + 1 \in Records
    BY ONLY <1>r, <1>p, RecordFileAssumption DEF Put, Records
  <2> QED BY ONLY <2>1, <1>p DEF Put
<1>8. ASSUME NEW size \in Sizes, Write(size) PROVE Goal
  <2>1. CASE PutFails
    BY <1>8, <2>1 DEF Write, PutFails
  <2>2. CASE Put(saving, filepath, size) /\ UNCHANGED faults
    <3>1. PICK r \in Records : saving' = [saving EXCEPT ![filepath] = saving[filepath] \union {r}]
      BY ONLY <1>r, <1>p, <2>2
    <3>2. /\ UNCHANGED <<committed, now, filepath, pc, rolling, mode, faults>>
          /\ pc = "open" /\ rolling = NoName
          /\ Exists(saving, filepath) /\ saving[filepath] \in SUBSET Records /\ ~Exists(committed, filepath)
      BY <1>8, <2>2 DEF Write, Put
    <3>3. saving' \in [Names -> Dirs] /\ saving'[filepath] # Absent
      BY <3>1, <3>2
    <3> QED BY <3>1, <3>2, <3>3
  <2> QED BY <1>8, <2>1, <2>2 DEF Write
<1>9. ASSUME NEW size \in Sizes, WriteRollFails(size) PROVE Goal
  <2>1. PICK dirs \in {saving, [saving EXCEPT ![NewName] = Opened(NewName)]} :
          /\ \/ Put(dirs, filepath, size)
             \/ saving' = dirs /\ UNCHANGED <<committed, now, bytes, acked>>
          /\ dirs = saving \/ NewName # filepath
          /\ faults' = 0 => faults = 0 /\ dirs = saving
    BY ONLY <1>9, <1>t, RollFailsFacts
  <2>2. UNCHANGED <<committed, now>>
    BY ONLY <2>1 DEF Put
  <2>3. /\ UNCHANGED <<filepath, pc, rolling, mode>>
        /\ pc = "open" /\ rolling = NoName /\ mode # "read"
        /\ Exists(saving, filepath) /\ saving[filepath] \in SUBSET Records /\ ~Exists(committed, filepath)
    BY <1>9 DEF WriteRollFails
  <2>4. dirs[filepath] = saving[filepath] /\ dirs \in [Names -> Dirs]
    BY <2>1, <2>3
  <2>c. \/ saving' = dirs
        \/ \E r \in Records : saving' = [dirs EXCEPT ![filepath] = dirs[filepath] \union {r}]
    BY ONLY <1>p, <2>1
  <2>5. saving' \in [Names -> Dirs] /\ saving'[filepath] # Absent
    BY <2>3, <2>4, <2>c
  <2>a. \A n \in Names \ {filepath} : saving'[n] = dirs[n]
    BY <2>4, <2>c
  <2>6. \A n \in Names \ {filepath} : saving'[n] = saving[n] \/ (n = now /\ now > filepath /\ saving'[n] \in {saving[n], {}})
    BY <2>1, <2>3, <2>4, <2>a
  <2>7. faults' = 0 => faults = 0 /\ \A n \in Names \ {filepath} : saving'[n] = saving[n]
    BY <2>1, <2>a
  <2>8. ~Exists(committed, now) \/ now = filepath
    BY <2>3
  <2> QED BY <2>2, <2>3, <2>5, <2>6, <2>7, <2>8
<1>10. ASSUME NEW size \in Sizes, WriteRolls(size) PROVE Goal
  <2>2. NothingLater'
    BY <1>10 DEF WriteRolls
  <2>3. OwnDirectory'
    BY <1>10 DEF WriteRolls
  <2>4. NewDirectory'
    BY <1>10 DEF WriteRolls
  <2>5. Clean'
    BY <1>10 DEF WriteRolls
  <2>6. \A n \in Names : ~(Exists(committed, n)' /\ Exists(saving, n)')
    BY <1>10 DEF WriteRolls
  <2> QED BY <2>2, <2>3, <2>4, <2>5, <2>6 DEF Directories
<1>11. ASSUME NEW size \in Sizes, RollBroken(size) PROVE Goal
  BY <1>11 DEF RollBroken
<1>12. ASSUME NEW size \in Sizes, WriteToNull(size) PROVE Goal
  <2>1. /\ UNCHANGED <<committed, now>> /\ pc' = "none" /\ filepath' = 0 /\ rolling' = NoName
        /\ NewName # filepath => NewName > filepath
    BY <1>12 DEF WriteToNull
  <2>2. saving' \in {saving, [saving EXCEPT ![NewName] = Opened(NewName)]}
    BY ONLY <1>12, <1>t, OpenFacts DEF WriteToNull
  <2>3. \A n \in Names : saving'[n] = saving[n] \/ (n = NewName /\ saving'[n] = {} /\ saving[n] = Absent)
    BY <2>2
  <2>4. ~Exists(committed, NewName)
    BY <1>12, <2>1 DEF WriteToNull
  <2>5. faults' # 0
    BY <1>12 DEF WriteToNull
  <2> QED BY <2>1, <2>3, <2>4, <2>5
<1>13. CASE FinishRoll
  <2>2. NothingLater'
    BY <1>13 DEF FinishRoll
  <2>3. OwnDirectory'
    <3>1. rolling \in Names /\ Exists(saving, rolling) /\ ~Exists(committed, rolling)
      BY <1>13 DEF FinishRoll
    <3>2. saving'[rolling] # Absent /\ committed' = committed /\ filepath' = rolling /\ pc' = "open"
      BY <1>r, <1>13, <3>1 DEF FinishRoll, Records
    <3> QED BY <3>1, <3>2
  <2>4. NewDirectory'
    BY <1>13 DEF FinishRoll
  <2>5. Clean'
    BY <1>13 DEF FinishRoll
  <2>6. \A n \in Names : ~(Exists(committed, n)' /\ Exists(saving, n)')
    BY <1>13 DEF FinishRoll
  <2> QED BY <2>2, <2>3, <2>4, <2>5, <2>6 DEF Directories
<1>14. CASE CloseDB
  BY <1>14 DEF CloseDB
<1>15. CASE CommitDB
  <2>1. CASE UNCHANGED diskVars
    BY <1>15, <2>1 DEF CommitDB
  <2>2. CASE Rename(saving, committed, saving', committed')
    <3>1. \A n \in Names \ {filepath} : committed'[n] = committed[n] /\ saving'[n] = saving[n]
      BY <2>2
    <3>2. committed'[filepath] = saving[filepath] /\ saving'[filepath] = Absent
      BY <2>2
    <3>3. /\ pc = "committing" /\ pc' = "removing"
          /\ UNCHANGED <<now, filepath, mode, rolling, isEmpty, acked, faults>>
      BY <1>15 DEF CommitDB
    <3>4. NothingLater'
      BY <3>1, <3>2, <3>3
    <3>5. OwnDirectory' /\ NewDirectory'
      BY <3>1, <3>2, <3>3
    <3>6. Clean'
      BY <3>1, <3>2, <3>3
    <3>7. \A n \in Names : ~(Exists(committed, n)' /\ Exists(saving, n)')
      BY <3>1, <3>2
    <3> QED BY ONLY <3>4, <3>5, <3>6, <3>7 DEF Directories
  <2> QED BY <1>15, <2>1, <2>2 DEF CommitDB
<1>16. CASE CommitFails
  BY <1>16 DEF CommitFails
<1>17. CASE RemoveEmpty
  BY <1>17 DEF RemoveEmpty
<1>18. CASE RemoveFails
  BY <1>18 DEF RemoveFails
<1>19. CASE Destroy
  BY <1>19 DEF Destroy
<1>20. CASE Crash
  BY <1>20 DEF Crash
<1>21. CASE Tick
  BY <1>21 DEF Tick
<1>22. CASE UNCHANGED vars
  BY <1>22 DEF vars
<1> QED
  BY <1>1, <1>2, <1>3, <1>4, <1>5, <1>6, <1>7, <1>8, <1>9, <1>10, <1>11, <1>12, <1>13, <1>14, <1>15, <1>16, <1>17, <1>18, <1>19, <1>20, <1>21, <1>22 DEF Next

-----------------------------------------------------------------------------
(* The disk is empty and nothing is written at first.                      *)
LEMMA InitInv == Init => IInv
<1> SUFFICES ASSUME Init
             PROVE  IInv
  OBVIOUS
<1> USE RecordFileAssumption, NothingAssumption DEF Init, Names, Exists, Content, Records
<1>1. TypeOK
  <2>1. LET d == CalcNextRollingTime(0)
        IN  d \in Nat /\ d >= Offset /\ (d - Offset) % Period = 0
    BY RollingTime
  <2>2. now \in Names /\ filepath \in Names /\ faults \in 0 .. MaxFaults
    OBVIOUS
  <2>3. committed \in [Names -> Dirs] /\ saving \in [Names -> Dirs]
    BY DEF Dirs
  <2> QED BY <2>1, <2>2, <2>3 DEF TypeOK, Stages
<1>2. Cardinality(acked) = 0
  BY FS_EmptySet
<1>3. Written /\ Kept /\ InOrder
  <2>1. acked = 1 .. Cardinality(acked)
    BY <1>2
  <2>2. \A n \in Nat : n \notin Names \/ (committed[n] = Absent /\ saving[n] = Absent)
    OBVIOUS
  <2>3. \A n \in Names : Content(n) = {}
    OBVIOUS
  <2> QED BY <2>1, <2>3 DEF Written, Kept, InOrder
<1>4. OneDirectory
  BY <1>1 DEF OneDirectory
<1>5. NothingLater /\ OwnDirectory /\ NewDirectory /\ Clean
  <2>1. Absent # {}
    OBVIOUS
  <2> QED BY <1>1, <2>1 DEF NothingLater, OwnDirectory, NewDirectory, Clean, TypeOK
<1> QED BY <1>3, <1>4, <1>5 DEF IInv, Directories

(* Each step of the code keeps the invariant.                              *)
LEMMA StepInv == IInv /\ [Next]_vars => IInv'
<1> SUFFICES ASSUME IInv, [Next]_vars
             PROVE  IInv'
  OBVIOUS
<1>1. TypeOK'
  BY TypeStep
<1>2. Written' /\ Kept' /\ InOrder'
  BY ContentStep, WrittenStep
<1>3. Directories' /\ \A n \in Names : ~(Exists(committed, n)' /\ Exists(saving, n)')
  BY DirectoryStep
<1> QED BY <1>1, <1>2, <1>3 DEF IInv, OneDirectory

(* The inductive invariant holds in every state of the specification.      *)
THEOREM Invariance == Spec => []IInv
BY InitInv, StepInv, PTL DEF Spec

(* No name ever has both its directories, a committed and an unfinished    *)
(* one: CheckoutDB never throws over them and CommitDB is never refused,   *)
(* whatever renames failed and whenever the process was killed.            *)
THEOREM NeverTwo == Spec => []OneDirectory
<1>1. IInv => OneDirectory
  BY DEF IInv
<1> QED BY Invariance, <1>1, PTL

(* Each record whose Write has returned is in one database, and in one     *)
(* only; and when nothing is open and nothing has ever failed, all there   *)
(* is on disk are committed databases with records in them.                *)
THEOREM NeverLost == Spec => []NothingLost
<1>1. IInv => NothingLost
  <2> SUFFICES ASSUME IInv
               PROVE  NothingLost
    OBVIOUS
  <2>1. Kept
    BY DEF IInv
  <2>2. ASSUME pc \in {"none", "closed"}, faults = 0, NEW n \in Names
        PROVE  ~Exists(saving, n) /\ committed[n] # {}
    <3>1. rolling = NoName
      BY <2>2 DEF IInv, Directories, NewDirectory
    <3>2. rolling # n
      BY <3>1, NothingAssumption
    <3> QED BY <2>2, <3>2 DEF IInv, Directories, Clean
  <2> QED BY <2>1, <2>2 DEF NothingLost, Kept
<1> QED BY Invariance, <1>1, PTL

(* What is in a database was written before what is in a later one: the    *)
(* order of the names is the order of the records.                         *)
THEOREM NamesInOrder == Spec => []InOrder
<1>1. IInv => InOrder
  BY DEF IInv
<1> QED BY Invariance, <1>1, PTL

(* The records of a committed database never change, but that CheckoutDB   *)
(* renames the directory as a whole.                                       *)
THEOREM Frozen == Spec => CommittedIsFrozen
<1>1. ASSUME IInv, [Next]_vars, NEW n \in Names, Exists(committed, n), committed[n] # {}
      PROVE  committed'[n] = committed[n] \/ (committed'[n] = Absent /\ saving'[n] = committed[n])
  <2> USE <1>1 DEF vars, diskVars
  <2>0. committed \in [Names -> Dirs] /\ saving \in [Names -> Dirs] /\ filepath \in Names
    BY DEF IInv, OneDirectory, TypeOK
  <2>1. CASE UNCHANGED committed
    BY <2>1
  <2>2. CASE CheckoutDB
    BY <2>0, <2>2 DEF CheckoutDB, Rename
  <2>3. CASE CommitDB
    BY <2>0, <2>3 DEF CommitDB, Rename, Exists
  <2>4. CASE RemoveEmpty
    BY <2>0, <2>4 DEF RemoveEmpty, IInv, Directories, OwnDirectory
  <2>5. CASE \E size \in Sizes : Write(size) \/ WriteRollFails(size)
    BY <2>1, <2>5 DEF Write, WriteRollFails, Put, PutFails
  <2>6. CASE \E size \in Sizes : WriteRolls(size) \/ RollBroken(size) \/ WriteToNull(size)
    BY <2>1, <2>6 DEF WriteRolls, RollBroken, WriteToNull
  <2>7. CASE MakeWriter \/ MakeReader \/ Reopen \/ CloseDB \/ Destroy \/ Crash \/ Tick
    BY <2>1, <2>7 DEF MakeWriter, MakeReader, Construct, Reopen, CloseDB, Destroy, Crash, Tick
  <2>8. CASE OpenDB \/ FinishRoll \/ CheckoutFails \/ OpenFails \/ CommitFails \/ RemoveFails
    BY <2>1, <2>8 DEF OpenDB, FinishRoll, CheckoutFails, OpenFails, CommitFails, RemoveFails
  <2> QED
    BY <2>1, <2>2, <2>3, <2>4, <2>5, <2>6, <2>7, <2>8 DEF Next
<1>2. IInv /\ [Next]_vars =>
        [\A n \in Names : Exists(committed, n) /\ committed[n] # {} =>
           \/ committed'[n] = committed[n]
           \/ committed'[n] = Absent /\ saving'[n] = committed[n]]_vars
  BY <1>1
<1> QED BY Invariance, <1>2, PTL DEF Spec, CommittedIsFrozen

=============================================================================
