---------------------------- MODULE ReplayerProofs ----------------------------
(***************************************************************************)
(* Theorems about Replayer, for any channels, recordings, speeds and       *)
(* thresholds: records are published in the order of their keys, each in   *)
(* its turn, and at the pace of the recording.                             *)
(*                                                                         *)
(* An iterator stands on the first record of its database that can be read *)
(* and has not been published (Places, Turns), no reader has a key before  *)
(* that of the one that was popped (Leads), and a sleep lasts at least     *)
(* until the record's time (Pace).  Where an iterator stops next is the    *)
(* least number of a readable record (LeastNatural).                       *)
(***************************************************************************)
EXTENDS Replayer, WellFoundedInduction, TLAPS

Phases == {"created", "replaying", "sleeping", "ending", "finished", "returned"}
Publications == [reader : Readers, index : Nat, record : Records, at : Nat]

\* The types.
Shapes ==
  /\ recording \in Recordings /\ speed \in Speeds
  /\ start_record_timestamp \in Nat /\ start_local_timestamp \in Nat
  /\ clock \in Nat /\ wakeTime \in Int
  /\ published \in Seq(Publications)

\* A reader that was made is on a record that can be published, or through.
Places ==
  /\ \A r \in Readers : place[r] # 0 =>
       Exists(r) /\ (place[r] \in Readable(r) \/ place[r] = Len(Database(r)) + 1)
  /\ \A r \in Readers : r \in Waiting <=> (place[r] # 0 /\ Valid(r, place[r]))

\* What has been published is what the iterators have left behind.
Turns ==
  /\ \A i \in DOMAIN published :
       LET p == published[i]
       IN  p.index < place[p.reader] /\ p.index \in Readable(p.reader) /\ p.record = Database(p.reader)[p.index]
  /\ \A i, j \in DOMAIN published :
       i < j /\ published[i].reader = published[j].reader => published[i].index < published[j].index
  /\ \A r \in Readers : place[r] # 0 => \A k \in Readable(r) : k < place[r] =>
       \E i \in DOMAIN published : published[i].reader = r /\ published[i].index = k

\* The least key is published, and nothing before all are registered.
Leads ==
  /\ phase = "sleeping" => \A other \in record_readers : ~KeyBefore(Current(other), Current(top))
  /\ phase = "created" => published = <<>>

\* A replay ends with the records, or is stopped.
Ended == phase \in {"ending", "finished", "returned"} /\ ~shutdown_flag => record_readers = {}

\* The clock starts with the first time stamp that is not 0, and a sleep is as long as it has to be.
Pace ==
  /\ start_record_timestamp = 0 =>
       /\ \A i \in DOMAIN published : published[i].record.time = 0
       /\ phase = "sleeping" => Current(top).time = 0
  /\ start_record_timestamp # 0 /\ phase = "sleeping" => wakeTime + Threshold >= Due(Current(top).time)

IInv ==
  /\ TypeOK /\ Shapes /\ Places /\ Turns /\ Leads /\ Ended /\ Pace
  /\ InKeyOrder /\ OnPace

-----------------------------------------------------------------------------
(* A set of natural numbers has a least one.                               *)
LEMMA LeastNatural ==
  ASSUME NEW S \in SUBSET Nat, S # {}
  PROVE  \E m \in S : \A n \in S : m <= n
<1> DEFINE R == {p \in Nat \X Nat : p[1] < p[2]}
<1>1. IsWellFoundedOn(R, Nat)
  BY NatLessThanWellFounded DEF OpToRel
<1>2. \A n, m \in S : n < m => <<n, m>> \in R
  OBVIOUS
<1> HIDE DEF R
<1>3. PICK m \in S : \A n \in S : ~(<<n, m>> \in R)
  BY <1>1, WFMin
<1>4. \A n \in S : ~(n < m)
  BY <1>2, <1>3
<1> QED BY <1>4

(* The databases.                                                          *)
LEMMA DatabaseFacts ==
  ASSUME recording \in Recordings, NEW r \in Readers, Exists(r)
  PROVE  /\ Database(r) \in Seq(Records)
         /\ \A i, j \in Readable(r) : i < j => KeyBefore(Database(r)[i], Database(r)[j])
         /\ Readable(r) \subseteq 1 .. Len(Database(r))
<1> DEFINE ch == r[1]
           d == r[2]
<1>1. ch \in Channels /\ d \in DOMAIN recording[ch] /\ Database(r) = recording[ch][d]
  BY DEF Readers, Exists, Database
<1>2. Database(r) \in Seq(Records)
  <2>1. recording[ch] \in Seq(Seq(Records))
    BY <1>1, ReplayerAssumption
  <2> QED BY <1>1, <2>1
<1> HIDE DEF ch, d
<1>3. Readable(r) \subseteq 1 .. Len(Database(r))
  BY <1>2 DEF Readable
<1>4. ASSUME NEW i \in Readable(r), NEW j \in Readable(r), i < j
      PROVE  KeyBefore(Database(r)[i], Database(r)[j])
  <2>1. \A k, l \in DOMAIN recording[ch][d] :
          (k < l /\ recording[ch][d][k].readable /\ recording[ch][d][l].readable) =>
            KeyBefore(recording[ch][d][k], recording[ch][d][l])
    BY <1>1, SortedAssumption
  <2>2. i \in DOMAIN Database(r) /\ j \in DOMAIN Database(r) /\ Database(r)[i].readable /\ Database(r)[j].readable
    BY DEF Readable
  <2> QED BY <1>1, <1>4, <2>1, <2>2
<1> QED BY <1>2, <1>3, <1>4

(* The next readable record, or the end.                                   *)
LEMMA NextFacts ==
  ASSUME recording \in Recordings, NEW r \in Readers, Exists(r), NEW i \in Nat
  PROVE  /\ NextReadable(r, i) \in Nat \ {0}
         /\ \/ NextReadable(r, i) \in Readable(r) /\ NextReadable(r, i) >= i
            \/ NextReadable(r, i) = Len(Database(r)) + 1
         /\ \A k \in Readable(r) : k >= i => NextReadable(r, i) <= k
<1> DEFINE later == {j \in DOMAIN Database(r) : j >= i /\ Database(r)[j].readable}
<1>1. /\ Database(r) \in Seq(Records) /\ Readable(r) \subseteq 1 .. Len(Database(r))
      /\ later = {j \in Readable(r) : j >= i}
  BY DatabaseFacts DEF Readable
<1>2. NextReadable(r, i) = IF later = {} THEN Len(Database(r)) + 1
                                         ELSE CHOOSE j \in later : \A k \in later : j <= k
  BY DEF NextReadable
<1> HIDE DEF later
<1>3. CASE later = {}
  BY <1>1, <1>2, <1>3
<1>4. CASE later # {}
  <2>1. later \in SUBSET Nat
    BY <1>1
  <2>2. \E m \in later : \A k \in later : m <= k
    BY <1>4, <2>1, LeastNatural
  <2>3. NextReadable(r, i) \in later /\ \A k \in later : NextReadable(r, i) <= k
    BY <1>2, <1>4, <2>2
  <2> QED BY <1>1, <2>3
<1> QED BY <1>3, <1>4

(* Keys are ordered by time and count.                                     *)
LEMMA KeyFacts ==
  /\ \A k \in Records : ~KeyBefore(k, k)
  /\ \A k, l \in Records : KeyBefore(k, l) => ~KeyBefore(l, k)
  /\ \A k, l, m \in Records : ~KeyBefore(l, k) /\ ~KeyBefore(m, l) => ~KeyBefore(m, k)
BY DEF KeyBefore, Records

\* The distance in time at the speed of the replay.
Rounded(distance, s) == (2 * distance * s[2] + s[1]) \div (2 * s[1])

(* The rounding of a distance; no distance is none at any speed.           *)
LEMMA RoundedFacts ==
  ASSUME NEW s \in Speeds
  PROVE  Rounded(0, s) = 0 /\ \A d \in Int : Rounded(d, s) \in Int
<1>1. PICK a \in Nat \ {0}, b \in Nat \ {0} : s = <<a, b>>
  BY ReplayerAssumption
<1>2. a \div (2 * a) = 0
  OBVIOUS
<1>3. 2 * 0 * b + a = a
  OBVIOUS
<1>4. Rounded(0, s) = 0
  BY <1>1, <1>2, <1>3 DEF Rounded
<1>5. ASSUME NEW d \in Int PROVE Rounded(d, s) \in Int
  <2>1. PICK x \in Int : x = 2 * d * b + a
    OBVIOUS
  <2>2. PICK y \in Nat : y = 2 * a /\ y > 0
    OBVIOUS
  <2>3. x \div y \in Int
    BY <2>2
  <2> QED BY <1>1, <2>1, <2>2, <2>3 DEF Rounded
<1> QED BY <1>4, <1>5

(* What a state that the invariant describes is made of.                   *)
LEMMA StateFacts ==
  ASSUME IInv
  PROVE  /\ place \in [Readers -> Nat] /\ record_readers \subseteq Readers
         /\ top \in Readers \union {Nothing} /\ Nothing \notin Readers
         /\ \A r \in Waiting : /\ r \in Readers /\ Exists(r)
                                /\ place[r] \in Readable(r) /\ place[r] \in Nat
                                /\ Current(r) = Database(r)[place[r]]
                                /\ Current(r) \in Records
         /\ \A r \in Readers : r \in Waiting <=> (r \in record_readers \/ r = top)
         /\ \A i \in DOMAIN published :
              /\ published[i] \in Publications /\ published[i].reader \in Readers
              /\ published[i].record \in Records /\ published[i].index \in Nat
         /\ DOMAIN published = 1 .. Len(published) /\ Len(published) \in Nat
<1>1. /\ place \in [Readers -> Nat] /\ record_readers \subseteq Readers
      /\ top \in Readers \union {Nothing} /\ Nothing \notin Readers
      /\ published \in Seq(Publications) /\ recording \in Recordings
  BY ReplayerAssumption DEF IInv, TypeOK, Shapes
<1>2. \A r \in Readers : r \in Waiting <=> (r \in record_readers \/ r = top)
  BY <1>1 DEF Waiting
<1>3. Waiting \subseteq Readers
  BY <1>1 DEF Waiting
<1>4. ASSUME NEW r \in Waiting
      PROVE  /\ r \in Readers /\ Exists(r) /\ place[r] \in Readable(r)
             /\ Current(r) = Database(r)[place[r]] /\ Current(r) \in Records
  <2>1. r \in Readers /\ place[r] # 0 /\ Valid(r, place[r])
    BY <1>3 DEF IInv, Places
  <2>2. Exists(r) /\ (place[r] \in Readable(r) \/ place[r] = Len(Database(r)) + 1)
    BY <2>1 DEF IInv, Places
  <2>3. Database(r) \in Seq(Records) /\ Readable(r) \subseteq 1 .. Len(Database(r))
    BY <1>1, <2>1, <2>2, DatabaseFacts
  <2>4. place[r] \in 1 .. Len(Database(r))
    BY <2>1, <2>3 DEF Valid
  <2>5. place[r] \in Readable(r)
    BY <2>2, <2>3, <2>4
  <2> QED BY <2>1, <2>2, <2>3, <2>4, <2>5 DEF Current
<1>5. DOMAIN published = 1 .. Len(published) /\ Len(published) \in Nat
  BY <1>1
<1>6. ASSUME NEW i \in DOMAIN published PROVE published[i] \in Publications
  BY <1>1
<1>7. ASSUME NEW i \in DOMAIN published
      PROVE  published[i].reader \in Readers /\ published[i].record \in Records /\ published[i].index \in Nat
  BY <1>6 DEF Publications
<1> QED BY <1>1, <1>2, <1>3, <1>4, <1>5, <1>6, <1>7

(* Steps that touch neither the readers nor what has been published.       *)
LEMMA QuietStep ==
  ASSUME IInv, UNCHANGED <<recording, speed, place, record_readers, startVars, top, wakeTime, published>>,
         clock' = clock \/ clock' = clock + 1,
         phase' \in Phases, phase' = "sleeping" <=> phase = "sleeping", phase' = "created" => phase = "created",
         shutdown_flag' \in BOOLEAN, is_finished' <=> phase' \in {"finished", "returned"},
         Ended'
  PROVE  IInv'
<1> USE DEF startVars
<1>1. TypeOK'
  BY DEF IInv, TypeOK, Valid, Database, Phases
<1>2. Shapes'
  BY DEF IInv, Shapes
<1>3. Places'
  BY DEF IInv, Places, Readable, Exists, Database, Valid, Waiting
<1>4. Turns'
  BY DEF IInv, Turns, Readable, Database
<1>5. Leads'
  BY DEF IInv, Leads, Current, Database
<1>6. Pace'
  BY DEF IInv, Pace, Current, Database, Due, Expected
<1>7. InKeyOrder'
  BY DEF IInv, InKeyOrder, Current, Database, Waiting
<1>8. OnPace'
  <2>1. \A i \in DOMAIN published :
          published[i].record.time > 0 => published[i].at + Threshold >= Due(published[i].record.time)
    BY DEF IInv, OnPace
  <2>2. clock \in Nat /\ wakeTime \in Int
    BY DEF IInv, Shapes
  <2>3. phase = "sleeping" /\ clock' < wakeTime => wakeTime = Due(Current(top).time)
    BY <2>2 DEF IInv, OnPace
  <2> QED BY <2>1, <2>3 DEF OnPace, Due, Expected, Current, Database
<1> QED BY <1>1, <1>2, <1>3, <1>4, <1>5, <1>6, <1>7, <1>8 DEF IInv

(* A channel is registered.                                                *)
LEMMA RegisterStep ==
  ASSUME IInv, NEW r \in Readers, RegisterChannel(r)
  PROVE  IInv'
<1> DEFINE first == NextReadable(r, 1)
<1>0. /\ phase = "created" /\ place[r] = 0 /\ Exists(r)
      /\ place' = [place EXCEPT ![r] = first]
      /\ record_readers' = IF Valid(r, first) THEN record_readers \union {r} ELSE record_readers
      /\ UNCHANGED <<recording, speed, start_record_timestamp, start_local_timestamp, shutdown_flag, is_finished,
                     phase, top, wakeTime, clock, published>>
  BY DEF RegisterChannel, GetRecordItr, startVars, threadVars
<1>1. /\ first \in Nat \ {0} /\ (first \in Readable(r) \/ first = Len(Database(r)) + 1)
      /\ \A k \in Readable(r) : k >= 1 => first <= k
  BY <1>0, NextFacts DEF IInv, Shapes
<1>2. Readable(r) \subseteq 1 .. Len(Database(r)) /\ Database(r) \in Seq(Records)
  BY <1>0, DatabaseFacts DEF IInv, Shapes
<1>3. published = <<>> /\ DOMAIN published = {} /\ top = Nothing /\ Nothing \notin Readers
  BY <1>0, ReplayerAssumption DEF IInv, Leads, TypeOK
<1>4. place \in [Readers -> Nat] /\ record_readers \subseteq Readers
  BY StateFacts
<1> HIDE DEF first
<1>5. place'[r] = first /\ \A c \in Readers : c # r => place'[c] = place[c]
  BY <1>0, <1>4
<1>6. TypeOK'
  <2>1. place' \in [Readers -> Nat]
    BY <1>0, <1>1, <1>4
  <2>2. record_readers' \subseteq Readers
    BY <1>0, <1>4
  <2>3. ASSUME NEW c \in record_readers' PROVE Valid(c, place[c])'
    <3>1. CASE c = r
      <4>1. ~Valid(r, place[r])
        BY <1>0, <1>2 DEF Valid
      <4>2. r \notin record_readers
        BY <4>1 DEF IInv, TypeOK
      <4>3. Valid(r, first)
        BY <1>0, <2>3, <3>1, <4>2
      <4> QED BY <1>0, <1>5, <3>1, <4>3 DEF Valid, Database
    <3>2. CASE c # r
      <4>1. c \in record_readers /\ place'[c] = place[c]
        BY <1>0, <1>4, <1>5, <2>2, <2>3, <3>2
      <4> QED BY <1>0, <4>1 DEF IInv, TypeOK, Valid, Database
    <3> QED BY <3>1, <3>2
  <2> QED BY <1>0, <1>3, <2>1, <2>2, <2>3 DEF IInv, TypeOK
<1>7. Shapes'
  BY <1>0 DEF IInv, Shapes
<1>8. Places'
  <2>1. Waiting = record_readers /\ Waiting' = record_readers'
    BY <1>0, <1>3 DEF Waiting
  <2>2. \A c \in Readers : Readable(c)' = Readable(c) /\ Database(c)' = Database(c)
    BY <1>0 DEF Readable, Database
  <2>3. ASSUME NEW c \in Readers, place'[c] # 0
        PROVE  Exists(c) /\ (place'[c] \in Readable(c) \/ place'[c] = Len(Database(c)) + 1)
    BY <1>0, <1>1, <1>5, <2>3 DEF IInv, Places
  <2>4. ASSUME NEW c \in Readers
        PROVE  c \in record_readers' <=> (place'[c] # 0 /\ place'[c] \in DOMAIN Database(c))
    <3>1. CASE c = r
      <4>1. r \notin record_readers
        BY <1>0, <2>1 DEF IInv, Places
      <4>2. r \in record_readers' <=> Valid(r, first)
        BY <1>0, <4>1
      <4> QED BY <1>1, <1>5, <3>1, <4>2 DEF Valid
    <3>2. CASE c # r
      <4>1. c \in record_readers' <=> c \in record_readers
        BY <1>0, <3>2
      <4> QED BY <1>5, <2>1, <3>2, <4>1 DEF IInv, Places, Valid
    <3> QED BY <3>1, <3>2
  <2> QED BY <1>0, <2>1, <2>2, <2>3, <2>4 DEF Places, Exists, Valid
<1>9. Turns'
  <2>1. ASSUME NEW c \in Readers, place'[c] # 0, NEW k \in Readable(c), k < place'[c]
        PROVE  FALSE
    <3>1. CASE c = r
      BY <1>1, <1>2, <1>5, <2>1, <3>1
    <3>2. CASE c # r
      BY <1>3, <1>5, <2>1, <3>2 DEF IInv, Turns
    <3> QED BY <3>1, <3>2
  <2>2. \A c \in Readers : Readable(c)' = Readable(c)
    BY <1>0 DEF Readable, Database
  <2>3. DOMAIN published' = {}
    BY <1>0, <1>3
  <2> QED BY <2>1, <2>2, <2>3 DEF Turns
<1>10. Leads' /\ Ended'
  BY <1>0, <1>3 DEF IInv, Leads, Ended
<1>11. Pace'
  BY <1>0, <1>3 DEF IInv, Pace
<1>12. InKeyOrder' /\ OnPace'
  BY <1>0, <1>3 DEF InKeyOrder, OnPace
<1> QED BY <1>6, <1>7, <1>8, <1>9, <1>10, <1>11, <1>12 DEF IInv

(* A reader is popped.                                                     *)
LEMMA TakeStep ==
  ASSUME IInv, NEW r \in Readers, Take(r)
  PROVE  IInv'
<1>0. /\ phase = "replaying" /\ ~shutdown_flag /\ r \in record_readers /\ Least(r)
      /\ record_readers' = record_readers \ {r} /\ top' = r /\ phase' = "sleeping"
      /\ UNCHANGED <<recording, speed, place, shutdown_flag, is_finished, clock, published>>
  BY DEF Take
<1> DEFINE time == Current(r).time
<1>1. \/ /\ start_record_timestamp = 0 /\ start_record_timestamp' = time
         /\ start_local_timestamp' = clock /\ wakeTime' = clock
      \/ /\ start_record_timestamp # 0
         /\ start_record_timestamp' = start_record_timestamp /\ start_local_timestamp' = start_local_timestamp
         /\ wakeTime' = clock + (IF SleepTime(time) > Threshold THEN SleepTime(time) ELSE 0)
  BY DEF Take, IsStart, startVars
<1>2. /\ top = Nothing /\ r # Nothing /\ Nothing \notin Readers
      /\ record_readers \subseteq Readers /\ r \in Waiting
      /\ Waiting = record_readers /\ Waiting' = record_readers
  <2>1. top = Nothing /\ r # Nothing /\ record_readers \subseteq Readers
    BY <1>0, ReplayerAssumption DEF IInv, TypeOK
  <2> QED BY <1>0, <2>1, ReplayerAssumption DEF Waiting
<1>3. Current(r) \in Records /\ time \in Nat
  BY <1>2, StateFacts DEF Records
<1>4. clock \in Nat /\ Threshold \in Nat /\ speed \in Speeds
      /\ start_record_timestamp \in Nat /\ start_local_timestamp \in Nat
  BY ReplayerAssumption DEF IInv, Shapes
<1>5. /\ \A c : Database(c)' = Database(c)
      /\ \A c : Current(c)' = Current(c) /\ Readable(c)' = Readable(c)
      /\ \A c, i : Valid(c, i)' <=> Valid(c, i)
  BY <1>0 DEF Database, Current, Readable, Valid
<1>6. Current(top)' = Current(r)
  BY <1>0 DEF Current, Database
<1> HIDE DEF time
<1>7. Expected(time) \in Int
  <2>1. Expected(time) = Rounded(time - start_record_timestamp, speed)
    BY DEF Expected, Rounded
  <2>2. time - start_record_timestamp \in Int
    BY <1>3, <1>4
  <2> QED BY <1>4, <2>1, <2>2, RoundedFacts
<1>8. TypeOK'
  <2>1. \A c \in record_readers' : Valid(c, place[c])'
    BY <1>0 DEF IInv, TypeOK, Valid, Database
  <2> QED BY <1>0, <1>2, <2>1 DEF IInv, TypeOK
<1>9. wakeTime' \in Int /\ SleepTime(time) \in Int
  <2>1. SleepTime(time) \in Int
    BY <1>4, <1>7 DEF SleepTime
  <2> QED BY <1>1, <1>4, <2>1
<1>10. Shapes'
  BY <1>0, <1>1, <1>3, <1>4, <1>9 DEF IInv, Shapes
<1>11. Places'
  BY <1>0, <1>2 DEF IInv, Places, Readable, Exists, Database, Valid
<1>12. Turns'
  BY <1>0 DEF IInv, Turns, Readable, Database
<1>13. Leads'
  <2>1. \A c \in record_readers' : ~KeyBefore(Current(c), Current(r))
    BY <1>0 DEF Least
  <2> QED BY <1>0, <1>6, <2>1 DEF Leads, Current, Database
<1>14. Ended'
  BY <1>0 DEF Ended
<1>15. InKeyOrder'
  BY <1>0, <1>2 DEF IInv, InKeyOrder, Current, Database
<1>16. Pace' /\ OnPace'
  <2>1. CASE /\ start_record_timestamp = 0 /\ start_record_timestamp' = time
             /\ start_local_timestamp' = clock /\ wakeTime' = clock
    <3>1. \A i \in DOMAIN published : published[i].record.time = 0
      BY <2>1 DEF IInv, Pace
    <3>2. Due(Current(top).time)' = clock
      <4>1. Expected(Current(top).time)' = Rounded(time - time, speed)
        BY <1>0, <1>6, <2>1 DEF Expected, Rounded, time
      <4>2. time - time = 0
        BY <1>3
      <4>3. Expected(Current(top).time)' = 0
        BY <1>4, <4>1, <4>2, RoundedFacts
      <4> QED BY <1>4, <2>1, <4>3 DEF Due
    <3>3. Pace'
      <4>1. wakeTime' + Threshold >= Due(Current(top).time)'
        BY <1>4, <2>1, <3>2
      <4>2. start_record_timestamp' = 0 => Current(top).time' = 0
        BY <1>6, <2>1 DEF time
      <4> QED BY <1>0, <3>1, <4>1, <4>2 DEF Pace
    <3>4. OnPace'
      <4>1. ~(clock' < wakeTime')
        BY <1>0, <1>4, <2>1
      <4> QED BY <1>0, <3>1, <4>1 DEF OnPace
    <3> QED BY <3>3, <3>4
  <2>2. CASE /\ start_record_timestamp # 0
             /\ start_record_timestamp' = start_record_timestamp /\ start_local_timestamp' = start_local_timestamp
             /\ wakeTime' = clock + (IF SleepTime(time) > Threshold THEN SleepTime(time) ELSE 0)
    <3>1. \A x : Due(x)' = Due(x)
      BY <1>0, <2>2 DEF Due, Expected
    <3>2. Due(Current(top).time)' = Due(time)
      BY <1>0, <1>6, <2>2 DEF Due, Expected, time
    <3>3. Due(time) = clock + SleepTime(time) /\ Due(time) \in Int
      BY <1>4, <1>7 DEF Due, SleepTime
    <3>4. wakeTime' + Threshold >= Due(time) /\ (clock < wakeTime' => wakeTime' = Due(time))
      BY <1>4, <1>9, <2>2, <3>3
    <3>5. Pace'
      BY <1>0, <2>2, <3>2, <3>4 DEF Pace
    <3>6. \A i \in DOMAIN published :
            published[i].record.time > 0 => published[i].at + Threshold >= Due(published[i].record.time)
      BY DEF IInv, OnPace
    <3>7. OnPace'
      <4>1. \A i \in DOMAIN published' :
              published'[i].record.time > 0 => published'[i].at + Threshold >= Due(published[i].record.time)'
        BY <1>0, <2>2, <3>6 DEF Due, Expected
      <4> QED BY <1>0, <3>2, <3>4, <4>1 DEF OnPace
    <3> QED BY <3>5, <3>7
  <2> QED BY <1>1, <2>1, <2>2
<1> QED BY <1>8, <1>10, <1>11, <1>12, <1>13, <1>14, <1>15, <1>16 DEF IInv

(* A record is published, and its reader goes on to the next.              *)
LEMMA PublishStep ==
  ASSUME IInv, PublishTop
  PROVE  IInv'
<1> DEFINE n == NextReadable(top, place[top] + 1)
           e == [reader |-> top, index |-> place[top], record |-> Current(top), at |-> clock]
           L == Len(published)
<1>0. /\ phase = "sleeping" /\ clock >= wakeTime /\ published' = Append(published, e)
      /\ place' = [place EXCEPT ![top] = n]
      /\ record_readers' = IF Valid(top, n) THEN record_readers \union {top} ELSE record_readers
      /\ phase' = "replaying" /\ top' = Nothing
      /\ UNCHANGED <<recording, speed, start_record_timestamp, start_local_timestamp, shutdown_flag, is_finished,
                     wakeTime, clock>>
  BY DEF PublishTop, Step, startVars
<1>1. /\ top \in Readers /\ top \notin record_readers /\ top # Nothing /\ Nothing \notin Readers
      /\ place \in [Readers -> Nat] /\ record_readers \subseteq Readers
  BY <1>0, ReplayerAssumption DEF IInv, TypeOK
<1>2. /\ Exists(top) /\ place[top] \in Readable(top) /\ place[top] \in Nat
      /\ Current(top) = Database(top)[place[top]] /\ Current(top) \in Records
      /\ top \in Waiting
  BY <1>1, StateFacts
<1>3. /\ n \in Nat \ {0}
      /\ (n \in Readable(top) /\ n >= place[top] + 1) \/ n = Len(Database(top)) + 1
      /\ \A k \in Readable(top) : k >= place[top] + 1 => n <= k
  BY <1>1, <1>2, NextFacts DEF IInv, Shapes
<1>4. /\ Database(top) \in Seq(Records) /\ Readable(top) \subseteq 1 .. Len(Database(top))
      /\ \A i, j \in Readable(top) : i < j => KeyBefore(Database(top)[i], Database(top)[j])
  BY <1>1, <1>2, DatabaseFacts DEF IInv, Shapes
<1>5. place[top] < n /\ (Valid(top, n) <=> n \in Readable(top))
  BY <1>2, <1>3, <1>4 DEF Valid
<1>6. published \in Seq(Publications) /\ clock \in Nat /\ wakeTime \in Int /\ Threshold \in Nat
  BY ReplayerAssumption DEF IInv, Shapes
<1>7. e \in Publications
  BY <1>1, <1>2, <1>6 DEF Publications
<1>8. /\ e.reader = top /\ e.index = place[top] /\ e.record = Current(top) /\ e.at = clock
  OBVIOUS
<1> HIDE DEF e, n, L
<1>9. /\ L \in Nat /\ DOMAIN published = 1 .. L /\ DOMAIN published' = 1 .. L + 1
      /\ published'[L + 1] = e /\ \A i \in 1 .. L : published'[i] = published[i]
      /\ published' \in Seq(Publications)
  BY <1>0, <1>6, <1>7 DEF L
<1>10. \A i \in 1 .. L + 1 : i = L + 1 \/ i \in 1 .. L
  BY <1>9
<1>11. place'[top] = n /\ \A c \in Readers : c # top => place'[c] = place[c]
  BY <1>0, <1>1
<1>12. /\ \A c : Database(c)' = Database(c)
       /\ \A c : Readable(c)' = Readable(c)
       /\ \A c, i : Valid(c, i)' <=> Valid(c, i)
  BY <1>0 DEF Database, Readable, Valid
<1>13. /\ Waiting' = record_readers' /\ record_readers' \subseteq Readers
       /\ \A c \in Readers : c # top => (c \in record_readers' <=> c \in record_readers)
       /\ \A c \in Readers : c # top => (c \in Waiting <=> c \in record_readers)
       /\ top \in record_readers' <=> n \in Readable(top)
  <2>1. Waiting' = record_readers'
    BY <1>0, <1>1 DEF Waiting
  <2>2. /\ \A c \in Readers : c # top => (c \in record_readers' <=> c \in record_readers)
        /\ top \in record_readers' <=> n \in Readable(top)
        /\ record_readers' \subseteq Readers
    BY <1>0, <1>1, <1>5
  <2>3. \A c \in Readers : c # top => (c \in Waiting <=> c \in record_readers)
    BY <1>1 DEF Waiting
  <2> QED BY <2>1, <2>2, <2>3
<1>14. TypeOK'
  <2>1. place' \in [Readers -> Nat]
    BY <1>0, <1>1, <1>3
  <2>2. ASSUME NEW c \in record_readers' PROVE Valid(c, place[c])'
    <3>1. CASE c = top
      BY <1>5, <1>11, <1>12, <1>13, <2>2, <3>1 DEF Valid
    <3>2. CASE c # top
      <4>1. c \in record_readers /\ place'[c] = place[c]
        BY <1>11, <1>13, <2>2, <3>2
      <4> QED BY <1>0, <4>1 DEF IInv, TypeOK, Valid, Database
    <3> QED BY <3>1, <3>2
  <2> QED BY <1>0, <1>1, <1>13, <2>1, <2>2 DEF IInv, TypeOK
<1>15. Shapes'
  BY <1>0, <1>9 DEF IInv, Shapes
<1>16. Places'
  <2>1. ASSUME NEW c \in Readers, place'[c] # 0
        PROVE  Exists(c) /\ (place'[c] \in Readable(c) \/ place'[c] = Len(Database(c)) + 1)
    <3>1. CASE c = top
      BY <1>2, <1>3, <1>11, <3>1
    <3>2. CASE c # top
      BY <1>11, <2>1, <3>2 DEF IInv, Places
    <3> QED BY <3>1, <3>2
  <2>2. ASSUME NEW c \in Readers
        PROVE  c \in record_readers' <=> (place'[c] # 0 /\ place'[c] \in DOMAIN Database(c))
    <3>1. CASE c = top
      BY <1>3, <1>5, <1>11, <1>13, <3>1 DEF Valid
    <3>2. CASE c # top
      BY <1>11, <1>13, <3>2 DEF IInv, Places, Valid
    <3> QED BY <3>1, <3>2
  <2> QED BY <1>0, <1>12, <1>13, <2>1, <2>2 DEF Places, Exists, Valid
<1>17. \A i \in 1 .. L : /\ published[i].reader \in Readers /\ published[i].index \in Nat
                         /\ published[i].index < place[published[i].reader]
                         /\ published[i].index \in Readable(published[i].reader)
                         /\ published[i].record = Database(published[i].reader)[published[i].index]
                         /\ published[i].record \in Records
  BY <1>9, StateFacts DEF IInv, Turns
<1>18. Turns'
  <2>1. ASSUME NEW i \in 1 .. L + 1
        PROVE  /\ published'[i].index < place'[published'[i].reader]
               /\ published'[i].index \in Readable(published'[i].reader)
               /\ published'[i].record = Database(published'[i].reader)[published'[i].index]
    <3>1. CASE i = L + 1
      BY <1>2, <1>5, <1>8, <1>9, <1>11, <3>1
    <3>2. CASE i \in 1 .. L
      <4>1. published'[i] = published[i]
        BY <1>9, <3>2
      <4>2. place'[published[i].reader] \in Nat /\ published[i].index < place'[published[i].reader]
        BY <1>1, <1>2, <1>3, <1>5, <1>11, <1>17, <3>2
      <4> QED BY <1>17, <3>2, <4>1, <4>2
    <3> QED BY <1>10, <3>1, <3>2
  <2>2. ASSUME NEW i \in 1 .. L + 1, NEW j \in 1 .. L + 1, i < j, published'[i].reader = published'[j].reader
        PROVE  published'[i].index < published'[j].index
    <3>1. i \in 1 .. L
      BY <1>9, <2>2
    <3>2. CASE j \in 1 .. L
      BY <1>9, <2>2, <3>1, <3>2 DEF IInv, Turns
    <3>3. CASE j = L + 1
      BY <1>8, <1>9, <1>17, <2>2, <3>1, <3>3
    <3> QED BY <1>10, <3>2, <3>3
  <2>3. ASSUME NEW c \in Readers, place'[c] # 0, NEW k \in Readable(c), k < place'[c]
        PROVE  \E i \in 1 .. L + 1 : published'[i].reader = c /\ published'[i].index = k
    <3>1. ASSUME place[c] # 0, k < place[c]
          PROVE  \E i \in 1 .. L : published'[i].reader = c /\ published'[i].index = k
      BY <1>9, <3>1 DEF IInv, Turns
    <3>2. CASE c = top
      <4>1. k \in Nat
        BY <1>4, <3>2
      <4>2. k < place[top] + 1
        BY <1>2, <1>3, <1>11, <2>3, <3>2, <4>1
      <4>3. CASE k = place[top]
        BY <1>8, <1>9, <3>2, <4>3
      <4>4. CASE k # place[top]
        <5>1. k < place[c] /\ place[c] # 0
          BY <1>2, <3>2, <4>1, <4>2, <4>4, <1>4
        <5> QED BY <1>9, <3>1, <5>1
      <4> QED BY <4>3, <4>4
    <3>3. CASE c # top
      BY <1>9, <1>11, <2>3, <3>1, <3>3
    <3> QED BY <3>2, <3>3
  <2> QED BY <1>9, <1>12, <2>1, <2>2, <2>3 DEF Turns
<1>19. Leads' /\ Ended'
  BY <1>0 DEF Leads, Ended
<1>20. Pace'
  <2>1. start_record_timestamp = 0 => \A i \in 1 .. L + 1 : published'[i].record.time = 0
    <3>1. ASSUME start_record_timestamp = 0, NEW i \in 1 .. L + 1 PROVE published'[i].record.time = 0
      <4>1. CASE i = L + 1
        BY <1>0, <1>8, <1>9, <3>1, <4>1 DEF IInv, Pace
      <4>2. CASE i \in 1 .. L
        BY <1>9, <3>1, <4>2 DEF IInv, Pace
      <4> QED BY <1>10, <4>1, <4>2
    <3> QED BY <3>1
  <2> QED BY <1>0, <1>9, <2>1 DEF Pace
<1>21. OnPace'
  <2>1. \A x : Due(x)' = Due(x)
    BY <1>0 DEF Due, Expected
  <2>2. ASSUME NEW i \in 1 .. L + 1, published'[i].record.time > 0
        PROVE  published'[i].at + Threshold >= Due(published'[i].record.time)
    <3>1. CASE i = L + 1
      <4>1. start_record_timestamp # 0
        BY <1>0, <1>8, <1>9, <2>2, <3>1 DEF IInv, Pace
      <4>2. wakeTime + Threshold >= Due(Current(top).time)
        BY <1>0, <4>1 DEF IInv, Pace
      <4>3. Due(Current(top).time) \in Int
        <5>1. Expected(Current(top).time) = Rounded(Current(top).time - start_record_timestamp, speed)
          BY DEF Expected, Rounded
        <5>2. Current(top).time - start_record_timestamp \in Int
          BY <1>2 DEF IInv, Shapes, Records
        <5>3. Expected(Current(top).time) \in Int
          BY <5>1, <5>2, RoundedFacts DEF IInv, Shapes
        <5> QED BY <5>3 DEF IInv, Shapes, Due
      <4>4. clock + Threshold >= Due(Current(top).time)
        BY <1>0, <1>6, <4>2, <4>3
      <4> QED BY <1>8, <1>9, <3>1, <4>4
    <3>2. CASE i \in 1 .. L
      BY <1>9, <2>2, <3>2 DEF IInv, OnPace
    <3> QED BY <1>10, <3>1, <3>2
  <2>3. \A i \in 1 .. L + 1 :
          published'[i].record.time > 0 => published'[i].at + Threshold >= Due(published[i].record.time)'
    BY <1>0, <2>2 DEF Due, Expected
  <2> QED BY <1>0, <1>9, <2>3 DEF OnPace
<1>22. InKeyOrder'
  <2>1. \A i \in 1 .. L : ~KeyBefore(Current(top), published[i].record)
    BY <1>2, <1>9 DEF IInv, InKeyOrder
  <2>2. ASSUME NEW i \in 1 .. L + 1, NEW j \in 1 .. i - 1
        PROVE  ~KeyBefore(published'[i].record, published'[j].record)
    <3>1. j \in 1 .. L
      BY <1>9, <2>2
    <3>2. CASE i = L + 1
      BY <1>8, <1>9, <2>1, <3>1, <3>2
    <3>3. CASE i \in 1 .. L
      BY <1>9, <3>1, <3>3 DEF IInv, InKeyOrder
    <3> QED BY <1>10, <3>2, <3>3
  <2>3. ASSUME NEW c \in record_readers'
        PROVE  Database(c)[place'[c]] \in Records /\ ~KeyBefore(Database(c)[place'[c]], Current(top))
    <3>1. CASE c = top
      <4>1. n \in Readable(top) /\ place'[c] = n
        BY <1>11, <1>13, <2>3, <3>1
      <4>2. KeyBefore(Current(top), Database(top)[n])
        BY <1>2, <1>4, <1>5, <4>1
      <4>3. Database(top)[n] \in Records
        BY <1>4, <4>1
      <4> QED BY <1>2, <3>1, <4>1, <4>2, <4>3, KeyFacts
    <3>2. CASE c # top
      <4>1. c \in record_readers /\ place'[c] = place[c] /\ c \in Waiting
        BY <1>11, <1>13, <2>3, <3>2
      <4>2. Current(c) \in Records /\ Current(c) = Database(c)[place[c]]
        BY <4>1, StateFacts
      <4> QED BY <1>0, <4>1, <4>2 DEF IInv, Leads
    <3> QED BY <3>1, <3>2
  <2>4. ASSUME NEW i \in 1 .. L + 1, NEW c \in record_readers'
        PROVE  ~KeyBefore(Database(c)[place'[c]], published'[i].record)
    <3>1. CASE i = L + 1
      BY <1>8, <1>9, <2>3, <3>1
    <3>2. CASE i \in 1 .. L
      <4>1. published'[i] = published[i] /\ published[i].record \in Records /\ ~KeyBefore(Current(top), published[i].record)
        BY <1>9, <1>17, <2>1, <3>2
      <4> QED BY <1>2, <2>3, <4>1, KeyFacts
    <3> QED BY <1>10, <3>1, <3>2
  <2> QED BY <1>9, <1>12, <1>13, <2>2, <2>4 DEF InKeyOrder, Current
<1> QED BY <1>14, <1>15, <1>16, <1>18, <1>19, <1>20, <1>21, <1>22 DEF IInv

(* The invariant holds at the start.                                       *)
LEMMA InitInv == Init => IInv
<1> SUFFICES ASSUME Init
             PROVE  IInv
  OBVIOUS
<1>1. /\ place = [r \in Readers |-> 0] /\ record_readers = {} /\ top = Nothing /\ phase = "created"
      /\ published = <<>> /\ DOMAIN published = {} /\ Nothing \notin Readers
      /\ start_record_timestamp = 0 /\ start_local_timestamp = 0 /\ wakeTime = 0 /\ clock = 1
      /\ recording \in Recordings /\ speed \in Speeds /\ shutdown_flag = FALSE /\ is_finished = FALSE
  BY ReplayerAssumption DEF Init
<1>2. Waiting = {}
  BY <1>1 DEF Waiting
<1>3. TypeOK /\ Shapes
  <2>1. place \in [Readers -> Nat] /\ published \in Seq(Publications)
    BY <1>1
  <2>2. TypeOK
    BY <1>1, <2>1 DEF TypeOK
  <2> QED BY <1>1, <2>1, <2>2 DEF Shapes
<1>4. Places /\ Turns /\ Leads /\ Ended
  BY <1>1, <1>2 DEF Places, Turns, Leads, Ended
<1>5. Pace /\ InKeyOrder /\ OnPace
  BY <1>1 DEF Pace, InKeyOrder, OnPace
<1> QED BY <1>3, <1>4, <1>5 DEF IInv

-----------------------------------------------------------------------------
(* The inductive invariant: the iterators say what has been published, and *)
(* the reader that was popped has the least key.                           *)
THEOREM Invariance == Spec => []IInv
<1>1. IInv /\ [Next]_vars => IInv'
  <2> SUFFICES ASSUME IInv, [Next]_vars
               PROVE  IInv'
    OBVIOUS
  <2> USE DEF readerVars, startVars, threadVars
  <2>1. ASSUME NEW r \in Readers, RegisterChannel(r) PROVE IInv'
    BY <2>1, RegisterStep
  <2>2. ASSUME NEW r \in Readers, Take(r) PROVE IInv'
    BY <2>2, TakeStep
  <2>3. ASSUME PublishTop PROVE IInv'
    BY <2>3, PublishStep
  <2>4. ASSUME BeginMainLoop \/ EndReplay \/ SetFinished \/ EndMainLoop \/ StopMainLoop \/ Tick \/ UNCHANGED vars
        PROVE  IInv'
    <3>0. /\ UNCHANGED <<recording, speed, place, record_readers, startVars, top, wakeTime, published>>
          /\ clock' = clock \/ clock' = clock + 1
      BY <2>4 DEF BeginMainLoop, EndReplay, SetFinished, EndMainLoop, StopMainLoop, Tick, vars
    <3>1. /\ phase \in Phases /\ shutdown_flag \in BOOLEAN /\ Ended
          /\ is_finished <=> phase \in {"finished", "returned"}
      BY DEF IInv, TypeOK, Phases
    <3>2. /\ phase' \in Phases
          /\ phase' = "sleeping" <=> phase = "sleeping"
          /\ phase' = "created" => phase = "created"
      BY <2>4, <3>1 DEF BeginMainLoop, EndReplay, SetFinished, EndMainLoop, StopMainLoop, Tick, vars, Phases
    <3>3. shutdown_flag' \in BOOLEAN
      BY <2>4, <3>1 DEF BeginMainLoop, EndReplay, SetFinished, EndMainLoop, StopMainLoop, Tick, vars
    <3>4. is_finished' <=> phase' \in {"finished", "returned"}
      BY <2>4, <3>1 DEF BeginMainLoop, EndReplay, SetFinished, EndMainLoop, StopMainLoop, Tick, vars
    <3>5. Ended'
      BY <2>4, <3>1 DEF BeginMainLoop, EndReplay, SetFinished, EndMainLoop, StopMainLoop, Tick, vars, Ended, MayEnd
    <3> QED BY <3>0, <3>2, <3>3, <3>4, <3>5, QuietStep
  <2> QED BY <2>1, <2>2, <2>3, <2>4 DEF Next, MainThread
<1> QED BY <1>1, InitInv, PTL DEF Spec

(* Readers recorded apart are published in the one order of their keys.   *)
THEOREM KeyOrder == Spec => []InKeyOrder
<1>1. IInv => InKeyOrder
  BY DEF IInv
<1> QED BY <1>1, Invariance, PTL

(* No record is published before its time, and a sleep ends in time.       *)
THEOREM PaceIsKept == Spec => []OnPace
<1>1. IInv => OnPace
  BY DEF IInv
<1> QED BY <1>1, Invariance, PTL

(* Of each database a beginning is published, each record once and in its  *)
(* turn; all of it when the replay ends and nobody stopped it.             *)
THEOREM AllReplayed == Spec => []NothingSkipped
<1>1. IInv => NothingSkipped
  <2> SUFFICES ASSUME IInv, NEW r \in Readers, Exists(r)
               PROVE  /\ Replayed(r) \subseteq Readable(r)
                      /\ \A i \in Replayed(r), k \in Readable(r) : k < i => k \in Replayed(r)
                      /\ \A i, j \in DOMAIN published : (i < j /\ published[i].reader = r /\ published[j].reader = r) =>
                           published[i].index < published[j].index
                      /\ \A i \in DOMAIN published : published[i].reader = r =>
                           published[i].record = Database(r)[published[i].index]
                      /\ (is_finished /\ ~shutdown_flag /\ place[r] # 0) => Replayed(r) = Readable(r)
    BY DEF IInv, NothingSkipped
  <2>1. \A k : k \in Replayed(r) <=> \E i \in DOMAIN published : published[i].reader = r /\ published[i].index = k
    BY DEF Replayed
  <2>2. Readable(r) \subseteq 1 .. Len(Database(r)) /\ Database(r) \in Seq(Records)
    BY DatabaseFacts DEF IInv, Shapes
  <2>3. \A i \in DOMAIN published : published[i].reader = r =>
          published[i].index \in Readable(r) /\ published[i].index < place[r]
    BY DEF IInv, Turns
  <2>4. Replayed(r) \subseteq Readable(r)
    BY <2>1, <2>3
  <2>5. ASSUME place[r] # 0, NEW k \in Readable(r), k < place[r] PROVE k \in Replayed(r)
    BY <2>1, <2>5 DEF IInv, Turns
  <2>6. ASSUME NEW i \in Replayed(r), NEW k \in Readable(r), k < i PROVE k \in Replayed(r)
    <3>1. i \in Nat /\ i > 0 /\ i < place[r] /\ place[r] \in Nat /\ k \in Nat
      BY <2>1, <2>2, <2>3, <2>4, StateFacts
    <3> QED BY <2>5, <2>6, <3>1
  <2>7. ASSUME is_finished, ~shutdown_flag, place[r] # 0 PROVE Readable(r) \subseteq Replayed(r)
    <3>1. record_readers = {} /\ top = Nothing /\ Nothing \notin Readers
      BY <2>7, ReplayerAssumption DEF IInv, TypeOK, Ended
    <3>2. r \notin Waiting
      BY <3>1 DEF Waiting
    <3>3. place[r] \notin DOMAIN Database(r)
      BY <2>7, <3>2 DEF IInv, Places, Valid
    <3>4. place[r] = Len(Database(r)) + 1
      BY <2>2, <2>7, <3>3 DEF IInv, Places
    <3> QED BY <2>2, <2>5, <2>7, <3>4
  <2>8. \A i \in DOMAIN published : published[i].reader = r =>
          published[i].record = Database(r)[published[i].index]
    BY DEF IInv, Turns
  <2>9. \A i, j \in DOMAIN published : (i < j /\ published[i].reader = r /\ published[j].reader = r) =>
          published[i].index < published[j].index
    BY DEF IInv, Turns
  <2> QED BY <2>4, <2>6, <2>7, <2>8, <2>9
<1> QED BY <1>1, Invariance, PTL
=============================================================================
