----------------------------- MODULE TimerProofs -----------------------------
(***************************************************************************)
(* Theorems about Timer, for any threads, reports, sections and hits: each *)
(* hit is counted once, a report covers what was counted before it, and    *)
(* sections and indices belong together.                                   *)
(*                                                                         *)
(* A hit is in one place at every moment and steps move it from one place  *)
(* to the next (EachHitOnce); while a copy is only a copy, the mutex of    *)
(* what was copied is held and the two are equal (Locks, Copies).  What a  *)
(* report owes stays where its flush or its copy of the total will find it *)
(* (Owing).                                                                *)
(*                                                                         *)
(* The second half is about SignalHandler, for any threads and signals.    *)
(***************************************************************************)
EXTENDS Timer, SignalHandler, FiniteSetTheorems, TLAPS

Stages == {"new", "up", "missing", "numbered", "copied", "collected", "merged", "gone"}
Turns == {"idle", "flushing", "copied", "collected", "flushed", "reading", "done"}

\* The types of the records.
Shapes ==
  /\ thread \in [Threads -> [at : Stages, index : Nat, name : SUBSET Names, hits : 0 .. MaxHits, carried : Data]]
  /\ caller \in [Callers -> [at : Turns, clear : BOOLEAN, todo : SUBSET Threads, from : SUBSET Threads, carried : Data]]

Flushing(c) == caller[c].at \in {"flushing", "copied", "collected"}

\* Who is where holds which mutex, and what it has in hand.
CallerLocks(c) ==
  /\ Flushing(c) <=> listMtx = c
  /\ caller[c].at = "reading" <=> totalMtx = c
  /\ \A t \in caller[c].from : caller[c].from = {t} /\ t \in caller[c].todo
  /\ caller[c].at \in {"copied", "collected"} <=> caller[c].from # {}
  /\ caller[c].at = "copied" => \A t \in caller[c].from : mutex[t] = c
  /\ ~Flushing(c) => caller[c].todo = {}
  /\ caller[c].todo \subseteq collectors

Locks ==
  /\ \A t \in Threads : thread[t].at = "copied" => mutex[t] = t
  /\ \A c \in Callers : CallerLocks(c)
  /\ collectors = {t \in Threads : thread[t].at \notin {"new", "gone"}}

\* What the copies contain.
ThreadCopies(t) ==
  /\ thread[t].at = "copied" => thread[t].carried = entries[t]
  /\ thread[t].at \notin {"copied", "collected"} => thread[t].carried = NoData
  /\ thread[t].at \in {"new", "collected", "merged", "gone"} => entries[t] = NoData

CallerCopies(c) ==
  /\ caller[c].at = "copied" => \A t \in caller[c].from : caller[c].carried = entries[t]
  /\ caller[c].at = "reading" => caller[c].carried = total

Copies == (\A t \in Threads : ThreadCopies(t)) /\ (\A c \in Callers : CallerCopies(c))

\* The hits a thread has not made have not been counted.
Fresh == \A h \in Hits : accepted[h] # NoIndex => h[2] <= thread[h[1]].hits

\* The index of a section is taken from the count, and used for one name.
ThreadNumbers(t) ==
  /\ thread[t].at \in {"missing", "numbered"} => thread[t].name # {}
  /\ \A n \in thread[t].name : thread[t].name = {n}
  /\ thread[t].name = {} => thread[t].index = kMainIndex
  /\ thread[t].at = "numbered" =>
       /\ thread[t].index \in 2 .. nextIndex - 1
       /\ \A n \in Names : subsections[n] # thread[t].index \/ subsections[n] = NoIndex
       /\ \A u \in Threads : u # t /\ thread[u].at = "numbered" => thread[u].index # thread[t].index

Numbers ==
  /\ nextIndex >= 2
  /\ \A n \in Names : subsections[n] # NoIndex => subsections[n] \in 2 .. nextIndex - 1
  /\ \A t \in Threads : ThreadNumbers(t)

\* What is reported under the index of a section.
Known(i) == i \in {kEmptyCollectorIndex, kMainIndex} \/ \E n \in Names : i = subsections[n]
Indexed ==
  /\ \A t \in Threads : thread[t].at = "up" => Known(thread[t].index)
  /\ \A h \in Hits : accepted[h] # NoIndex => Known(accepted[h])

\* Where the hits are that a report has to contain.
OnItsWay(c, h) ==
  \/ total[h] > 0
  \/ caller[c].at = "collected" /\ caller[c].carried[h] > 0
  \/ \E t \in caller[c].todo : entries[t][h] > 0 /\ (caller[c].at = "collected" => t \notin caller[c].from)

Owes(c, h) ==
  /\ accepted[h] # NoIndex
  /\ caller[c].at # "idle"
  /\ \A t \in Threads : thread[t].carried[h] = 0
  /\ Flushing(c) => OnItsWay(c, h)
  /\ caller[c].at = "flushed" => total[h] > 0
  /\ caller[c].at \in {"reading", "done"} => caller[c].carried[h] > 0

Owing == \A c \in Callers : \A h \in owed[c] : Owes(c, h)

\* A thread that has not begun is in the main section.
Started == \A t \in Threads : thread[t].at = "new" => thread[t].index = kMainIndex /\ thread[t].name = {}

IInv ==
  /\ TypeOK /\ Shapes /\ Started /\ Locks /\ Copies /\ Fresh /\ Numbers /\ Indexed /\ Owing
  /\ EachHitOnce /\ OneSectionPerName

-----------------------------------------------------------------------------
(* The constants.                                                          *)
LEMMA Setting ==
  /\ Nobody \notin Threads /\ Nobody \notin Callers
  /\ \A t \in Threads : t \notin Callers
  /\ kMaxCapacity \in Nat /\ kMaxCapacity > 1 /\ MaxHits \in Nat /\ MaxIndex \in Nat
  /\ kEmptyCollectorIndex = 0 /\ kMainIndex = 1 /\ NoIndex = kMaxCapacity
BY TimerAssumption DEF kEmptyCollectorIndex, kMainIndex, NoIndex

(* Arrays of entries.                                                      *)
LEMMA DataFacts ==
  /\ NoData \in Data /\ \A h \in Hits : NoData[h] = 0
  /\ \A a, b \in Data : Merge(a, b) \in Data /\ \A h \in Hits : Merge(a, b)[h] = a[h] + b[h]
  /\ \A a \in Data : (\A h \in Hits : a[h] \in Nat) /\ Counted(a) \subseteq Hits
  /\ \A a \in Data : \A h \in Hits : h \in Counted(a) <=> a[h] > 0
  /\ \A a \in Data : \A h \in Hits : [a EXCEPT ![h] = a[h] + 1] \in Data
<1>1. NoData \in Data /\ \A h \in Hits : NoData[h] = 0
  BY DEF NoData, Data
<1>2. \A a, b \in Data : Merge(a, b) \in Data /\ \A h \in Hits : Merge(a, b)[h] = a[h] + b[h]
  BY DEF Merge, Data
<1>3. \A a \in Data : (\A h \in Hits : a[h] \in Nat) /\ Counted(a) \subseteq Hits
  BY DEF Data, Counted
<1>4. \A a \in Data : \A h \in Hits : h \in Counted(a) <=> a[h] > 0
  BY DEF Counted
<1>5. \A a \in Data : \A h \in Hits : [a EXCEPT ![h] = a[h] + 1] \in Data
  BY DEF Data
<1> QED BY <1>1, <1>2, <1>3, <1>4, <1>5

\* What a thread and a caller are.
ThreadType == [at : Stages, index : Nat, name : SUBSET Names, hits : 0 .. MaxHits, carried : Data]
CallerType == [at : Turns, clear : BOOLEAN, todo : SUBSET Threads, from : SUBSET Threads, carried : Data]

-----------------------------------------------------------------------------
(* Steps as changes of the record of a thread and of a caller.             *)
ThreadTo(t, at, index, name, hits, carried) ==
  thread' = [thread EXCEPT ![t] = [at |-> at, index |-> index, name |-> name, hits |-> hits, carried |-> carried]]

CallerTo(c, at, clear, todo, from, carried) ==
  caller' = [caller EXCEPT ![c] = [at |-> at, clear |-> clear, todo |-> todo, from |-> from, carried |-> carried]]

(* What the record of a thread becomes in its steps.                       *)
LEMMA ThreadEffects ==
  ASSUME Shapes, NEW t \in Threads
  PROVE  LET p == thread[t] IN
    /\ GetCollector(t) => ThreadTo(t, "up", p.index, p.name, p.hits, p.carried)
    /\ Report(t) => ThreadTo(t, p.at, p.index, p.name, p.hits + 1, p.carried)
    /\ TakeIndex(t) => ThreadTo(t, "numbered", nextIndex, p.name, p.hits, p.carried)
    /\ ExitCopy(t) => ThreadTo(t, "copied", kMainIndex, {}, p.hits, entries[t])
    /\ ExitClear(t) => ThreadTo(t, "collected", p.index, p.name, p.hits, p.carried)
    /\ ExitMerge(t) => ThreadTo(t, "merged", p.index, p.name, p.hits, NoData)
    /\ ExitErase(t) => ThreadTo(t, "gone", p.index, p.name, p.hits, p.carried)
<1> DEFINE p == thread[t]
<1>0. thread \in [Threads -> ThreadType] /\ p \in ThreadType
  BY DEF Shapes, ThreadType
<1>p. PICK a, i, m, h, d : /\ p = [at |-> a, index |-> i, name |-> m, hits |-> h, carried |-> d]
                           /\ p.at = a /\ p.index = i /\ p.name = m /\ p.hits = h /\ p.carried = d
  BY <1>0 DEF ThreadType
<1>1. ASSUME GetCollector(t) PROVE ThreadTo(t, "up", p.index, p.name, p.hits, p.carried)
  <2>2. thread' = [thread EXCEPT ![t].at = "up"]
    BY <1>1 DEF GetCollector
  <2>3. thread' = [thread EXCEPT ![t] = [@ EXCEPT !.at = "up"]]
    BY <1>0, <2>2 DEF ThreadType
  <2>4. PICK q : q = [[at |-> a, index |-> i, name |-> m, hits |-> h, carried |-> d] EXCEPT !.at = "up"]
    OBVIOUS
  <2>5. q = [at |-> "up", index |-> i, name |-> m, hits |-> h, carried |-> d]
    BY <2>4
  <2> QED BY <1>p, <2>3, <2>4, <2>5 DEF ThreadTo
<1>2. ASSUME Report(t) PROVE ThreadTo(t, p.at, p.index, p.name, p.hits + 1, p.carried)
  <2>1. PICK x : x = p.hits + 1
    OBVIOUS
  <2>2. thread' = [thread EXCEPT ![t].hits = x]
    BY <1>2, <2>1 DEF Report
  <2>3. thread' = [thread EXCEPT ![t] = [@ EXCEPT !.hits = x]]
    BY <1>0, <2>2 DEF ThreadType
  <2>4. PICK q : q = [[at |-> a, index |-> i, name |-> m, hits |-> h, carried |-> d] EXCEPT !.hits = x]
    OBVIOUS
  <2>5. q = [at |-> a, index |-> i, name |-> m, hits |-> x, carried |-> d]
    BY <2>4
  <2> QED BY <1>p, <2>1, <2>3, <2>4, <2>5 DEF ThreadTo
<1>3. ASSUME TakeIndex(t) PROVE ThreadTo(t, "numbered", nextIndex, p.name, p.hits, p.carried)
  <2>1. PICK x : x = nextIndex
    OBVIOUS
  <2>2. thread' = [thread EXCEPT ![t].at = "numbered", ![t].index = x]
    BY <1>3, <2>1 DEF TakeIndex
  <2>3. thread' = [thread EXCEPT ![t] = [@ EXCEPT !.at = "numbered", !.index = x]]
    BY <1>0, <2>2 DEF ThreadType
  <2>4. PICK q : q = [[at |-> a, index |-> i, name |-> m, hits |-> h, carried |-> d] EXCEPT !.at = "numbered", !.index = x]
    OBVIOUS
  <2>5. q = [at |-> "numbered", index |-> x, name |-> m, hits |-> h, carried |-> d]
    BY <2>4
  <2> QED BY <1>p, <2>1, <2>3, <2>4, <2>5 DEF ThreadTo
<1>4. ASSUME ExitCopy(t) PROVE ThreadTo(t, "copied", kMainIndex, {}, p.hits, entries[t])
  <2>1. PICK x, y : x = kMainIndex /\ y = entries[t]
    OBVIOUS
  <2>2. thread' = [thread EXCEPT ![t].at = "copied", ![t].carried = y, ![t].index = x, ![t].name = {}]
    BY <1>4, <2>1 DEF ExitCopy
  <2>3. thread' = [thread EXCEPT ![t] = [@ EXCEPT !.at = "copied", !.carried = y, !.index = x, !.name = {}]]
    BY <1>0, <2>2 DEF ThreadType
  <2>4. PICK q : q = [[at |-> a, index |-> i, name |-> m, hits |-> h, carried |-> d] EXCEPT !.at = "copied", !.carried = y, !.index = x, !.name = {}]
    OBVIOUS
  <2>5. q = [at |-> "copied", index |-> x, name |-> {}, hits |-> h, carried |-> y]
    BY <2>4
  <2> QED BY <1>p, <2>1, <2>3, <2>4, <2>5 DEF ThreadTo
<1>5. ASSUME ExitClear(t) PROVE ThreadTo(t, "collected", p.index, p.name, p.hits, p.carried)
  <2>2. thread' = [thread EXCEPT ![t].at = "collected"]
    BY <1>5 DEF ExitClear
  <2>3. thread' = [thread EXCEPT ![t] = [@ EXCEPT !.at = "collected"]]
    BY <1>0, <2>2 DEF ThreadType
  <2>4. PICK q : q = [[at |-> a, index |-> i, name |-> m, hits |-> h, carried |-> d] EXCEPT !.at = "collected"]
    OBVIOUS
  <2>5. q = [at |-> "collected", index |-> i, name |-> m, hits |-> h, carried |-> d]
    BY <2>4
  <2> QED BY <1>p, <2>3, <2>4, <2>5 DEF ThreadTo
<1>6. ASSUME ExitMerge(t) PROVE ThreadTo(t, "merged", p.index, p.name, p.hits, NoData)
  <2>1. PICK x : x = NoData
    OBVIOUS
  <2>2. thread' = [thread EXCEPT ![t].at = "merged", ![t].carried = x]
    BY <1>6, <2>1 DEF ExitMerge
  <2>3. thread' = [thread EXCEPT ![t] = [@ EXCEPT !.at = "merged", !.carried = x]]
    BY <1>0, <2>2 DEF ThreadType
  <2>4. PICK q : q = [[at |-> a, index |-> i, name |-> m, hits |-> h, carried |-> d] EXCEPT !.at = "merged", !.carried = x]
    OBVIOUS
  <2>5. q = [at |-> "merged", index |-> i, name |-> m, hits |-> h, carried |-> x]
    BY <2>4
  <2> QED BY <1>p, <2>1, <2>3, <2>4, <2>5 DEF ThreadTo
<1>7. ASSUME ExitErase(t) PROVE ThreadTo(t, "gone", p.index, p.name, p.hits, p.carried)
  <2>2. thread' = [thread EXCEPT ![t].at = "gone"]
    BY <1>7 DEF ExitErase
  <2>3. thread' = [thread EXCEPT ![t] = [@ EXCEPT !.at = "gone"]]
    BY <1>0, <2>2 DEF ThreadType
  <2>4. PICK q : q = [[at |-> a, index |-> i, name |-> m, hits |-> h, carried |-> d] EXCEPT !.at = "gone"]
    OBVIOUS
  <2>5. q = [at |-> "gone", index |-> i, name |-> m, hits |-> h, carried |-> d]
    BY <2>4
  <2> QED BY <1>p, <2>3, <2>4, <2>5 DEF ThreadTo
<1> QED BY <1>1, <1>2, <1>3, <1>4, <1>5, <1>6, <1>7

(* What the record of a caller becomes in its steps.                       *)
LEMMA CallerEffects ==
  ASSUME Shapes, NEW c \in Callers
  PROVE  LET p == caller[c] IN
    /\ \A clear \in BOOLEAN : BeginFlush(c, clear) => CallerTo(c, "flushing", clear, collectors, p.from, p.carried)
    /\ \A t \in Threads : FlushCopy(c, t) => CallerTo(c, "copied", p.clear, p.todo, {t}, entries[t])
    /\ FlushClear(c) => CallerTo(c, "collected", p.clear, p.todo, p.from, p.carried)
    /\ FlushMerge(c) => CallerTo(c, "flushing", p.clear, p.todo \ p.from, {}, NoData)
    /\ EndFlush(c) => CallerTo(c, "flushed", p.clear, p.todo, p.from, p.carried)
    /\ TotalCopy(c) => CallerTo(c, "reading", p.clear, p.todo, p.from, total)
    /\ TotalClear(c) => CallerTo(c, "done", p.clear, p.todo, p.from, p.carried)
    /\ Drop(c) => CallerTo(c, "idle", p.clear, p.todo, p.from, NoData)
<1> DEFINE p == caller[c]
<1>0. caller \in [Callers -> CallerType] /\ p \in CallerType
  BY DEF Shapes, CallerType
<1>p. PICK a, b, T, F, d : /\ p = [at |-> a, clear |-> b, todo |-> T, from |-> F, carried |-> d]
                           /\ p.at = a /\ p.clear = b /\ p.todo = T /\ p.from = F /\ p.carried = d
  BY <1>0 DEF CallerType
<1>1. ASSUME NEW clear \in BOOLEAN, BeginFlush(c, clear) PROVE CallerTo(c, "flushing", clear, collectors, p.from, p.carried)
  <2>1. PICK x : x = collectors
    OBVIOUS
  <2>2. caller' = [caller EXCEPT ![c].at = "flushing", ![c].clear = clear, ![c].todo = x]
    BY <1>1, <2>1 DEF BeginFlush
  <2>3. caller' = [caller EXCEPT ![c] = [@ EXCEPT !.at = "flushing", !.clear = clear, !.todo = x]]
    BY <1>0, <2>2 DEF CallerType
  <2>4. PICK q : q = [[at |-> a, clear |-> b, todo |-> T, from |-> F, carried |-> d] EXCEPT !.at = "flushing", !.clear = clear, !.todo = x]
    OBVIOUS
  <2>5. q = [at |-> "flushing", clear |-> clear, todo |-> x, from |-> F, carried |-> d]
    BY <2>4
  <2> QED BY <1>p, <2>1, <2>3, <2>4, <2>5 DEF CallerTo
<1>2. ASSUME NEW t \in Threads, FlushCopy(c, t) PROVE CallerTo(c, "copied", p.clear, p.todo, {t}, entries[t])
  <2>1. PICK x, y : x = {t} /\ y = entries[t]
    OBVIOUS
  <2>2. caller' = [caller EXCEPT ![c].at = "copied", ![c].from = x, ![c].carried = y]
    BY <1>2, <2>1 DEF FlushCopy
  <2>3. caller' = [caller EXCEPT ![c] = [@ EXCEPT !.at = "copied", !.from = x, !.carried = y]]
    BY <1>0, <2>2 DEF CallerType
  <2>4. PICK q : q = [[at |-> a, clear |-> b, todo |-> T, from |-> F, carried |-> d] EXCEPT !.at = "copied", !.from = x, !.carried = y]
    OBVIOUS
  <2>5. q = [at |-> "copied", clear |-> b, todo |-> T, from |-> x, carried |-> y]
    BY <2>4
  <2> QED BY <1>p, <2>1, <2>3, <2>4, <2>5 DEF CallerTo
<1>3. ASSUME FlushClear(c) PROVE CallerTo(c, "collected", p.clear, p.todo, p.from, p.carried)
  <2>2. caller' = [caller EXCEPT ![c].at = "collected"]
    BY <1>3 DEF FlushClear
  <2>3. caller' = [caller EXCEPT ![c] = [@ EXCEPT !.at = "collected"]]
    BY <1>0, <2>2 DEF CallerType
  <2>4. PICK q : q = [[at |-> a, clear |-> b, todo |-> T, from |-> F, carried |-> d] EXCEPT !.at = "collected"]
    OBVIOUS
  <2>5. q = [at |-> "collected", clear |-> b, todo |-> T, from |-> F, carried |-> d]
    BY <2>4
  <2> QED BY <1>p, <2>3, <2>4, <2>5 DEF CallerTo
<1>4. ASSUME FlushMerge(c) PROVE CallerTo(c, "flushing", p.clear, p.todo \ p.from, {}, NoData)
  <2>1. PICK x, y : x = p.todo \ p.from /\ y = NoData
    OBVIOUS
  <2>2. caller' = [caller EXCEPT ![c].at = "flushing", ![c].todo = x, ![c].from = {}, ![c].carried = y]
    BY <1>4, <2>1 DEF FlushMerge
  <2>3. caller' = [caller EXCEPT ![c] = [@ EXCEPT !.at = "flushing", !.todo = x, !.from = {}, !.carried = y]]
    BY <1>0, <2>2 DEF CallerType
  <2>4. PICK q : q = [[at |-> a, clear |-> b, todo |-> T, from |-> F, carried |-> d] EXCEPT !.at = "flushing", !.todo = x, !.from = {}, !.carried = y]
    OBVIOUS
  <2>5. q = [at |-> "flushing", clear |-> b, todo |-> x, from |-> {}, carried |-> y]
    BY <2>4
  <2> QED BY <1>p, <2>1, <2>3, <2>4, <2>5 DEF CallerTo
<1>5. ASSUME EndFlush(c) PROVE CallerTo(c, "flushed", p.clear, p.todo, p.from, p.carried)
  <2>2. caller' = [caller EXCEPT ![c].at = "flushed"]
    BY <1>5 DEF EndFlush
  <2>3. caller' = [caller EXCEPT ![c] = [@ EXCEPT !.at = "flushed"]]
    BY <1>0, <2>2 DEF CallerType
  <2>4. PICK q : q = [[at |-> a, clear |-> b, todo |-> T, from |-> F, carried |-> d] EXCEPT !.at = "flushed"]
    OBVIOUS
  <2>5. q = [at |-> "flushed", clear |-> b, todo |-> T, from |-> F, carried |-> d]
    BY <2>4
  <2> QED BY <1>p, <2>3, <2>4, <2>5 DEF CallerTo
<1>6. ASSUME TotalCopy(c) PROVE CallerTo(c, "reading", p.clear, p.todo, p.from, total)
  <2>1. PICK x : x = total
    OBVIOUS
  <2>2. caller' = [caller EXCEPT ![c].at = "reading", ![c].carried = x]
    BY <1>6, <2>1 DEF TotalCopy
  <2>3. caller' = [caller EXCEPT ![c] = [@ EXCEPT !.at = "reading", !.carried = x]]
    BY <1>0, <2>2 DEF CallerType
  <2>4. PICK q : q = [[at |-> a, clear |-> b, todo |-> T, from |-> F, carried |-> d] EXCEPT !.at = "reading", !.carried = x]
    OBVIOUS
  <2>5. q = [at |-> "reading", clear |-> b, todo |-> T, from |-> F, carried |-> x]
    BY <2>4
  <2> QED BY <1>p, <2>1, <2>3, <2>4, <2>5 DEF CallerTo
<1>7. ASSUME TotalClear(c) PROVE CallerTo(c, "done", p.clear, p.todo, p.from, p.carried)
  <2>2. caller' = [caller EXCEPT ![c].at = "done"]
    BY <1>7 DEF TotalClear
  <2>3. caller' = [caller EXCEPT ![c] = [@ EXCEPT !.at = "done"]]
    BY <1>0, <2>2 DEF CallerType
  <2>4. PICK q : q = [[at |-> a, clear |-> b, todo |-> T, from |-> F, carried |-> d] EXCEPT !.at = "done"]
    OBVIOUS
  <2>5. q = [at |-> "done", clear |-> b, todo |-> T, from |-> F, carried |-> d]
    BY <2>4
  <2> QED BY <1>p, <2>3, <2>4, <2>5 DEF CallerTo
<1>8. ASSUME Drop(c) PROVE CallerTo(c, "idle", p.clear, p.todo, p.from, NoData)
  <2>1. PICK x : x = NoData
    OBVIOUS
  <2>2. caller' = [caller EXCEPT ![c].at = "idle", ![c].carried = x]
    BY <1>8, <2>1 DEF Drop
  <2>3. caller' = [caller EXCEPT ![c] = [@ EXCEPT !.at = "idle", !.carried = x]]
    BY <1>0, <2>2 DEF CallerType
  <2>4. PICK q : q = [[at |-> a, clear |-> b, todo |-> T, from |-> F, carried |-> d] EXCEPT !.at = "idle", !.carried = x]
    OBVIOUS
  <2>5. q = [at |-> "idle", clear |-> b, todo |-> T, from |-> F, carried |-> x]
    BY <2>4
  <2> QED BY <1>p, <2>1, <2>3, <2>4, <2>5 DEF CallerTo
<1> QED BY <1>1, <1>2, <1>3, <1>4, <1>5, <1>6, <1>7, <1>8

(* The fields of the record that has changed.                              *)
LEMMA ThreadToFacts ==
  ASSUME Shapes, NEW t \in Threads, NEW s \in Stages, NEW i \in Nat, NEW N \in SUBSET Names,
         NEW n \in 0 .. MaxHits, NEW d \in Data, ThreadTo(t, s, i, N, n, d)
  PROVE  /\ thread' \in [Threads -> ThreadType]
         /\ \A u \in Threads : u # t => thread'[u] = thread[u]
         /\ thread'[t].at = s /\ thread'[t].index = i /\ thread'[t].name = N
         /\ thread'[t].hits = n /\ thread'[t].carried = d
<1>0. thread \in [Threads -> ThreadType]
  BY DEF Shapes, ThreadType
<1>1. PICK r : r = [at |-> s, index |-> i, name |-> N, hits |-> n, carried |-> d]
  OBVIOUS
<1>2. r \in ThreadType /\ r.at = s /\ r.index = i /\ r.name = N /\ r.hits = n /\ r.carried = d
  BY <1>1 DEF ThreadType
<1>3. thread' = [thread EXCEPT ![t] = r]
  BY <1>1 DEF ThreadTo
<1> QED BY <1>0, <1>2, <1>3

\* What CallerTo changes, and that it keeps the records' types.
LEMMA CallerToFacts ==
  ASSUME Shapes, NEW c \in Callers, NEW s \in Turns, NEW b \in BOOLEAN, NEW T \in SUBSET Threads,
         NEW F \in SUBSET Threads, NEW d \in Data, CallerTo(c, s, b, T, F, d)
  PROVE  /\ caller' \in [Callers -> CallerType]
         /\ \A e \in Callers : e # c => caller'[e] = caller[e]
         /\ caller'[c].at = s /\ caller'[c].clear = b /\ caller'[c].todo = T
         /\ caller'[c].from = F /\ caller'[c].carried = d
<1>0. caller \in [Callers -> CallerType]
  BY DEF Shapes, CallerType
<1>1. PICK r : r = [at |-> s, clear |-> b, todo |-> T, from |-> F, carried |-> d]
  OBVIOUS
<1>2. r \in CallerType /\ r.at = s /\ r.clear = b /\ r.todo = T /\ r.from = F /\ r.carried = d
  BY <1>1 DEF CallerType
<1>3. caller' = [caller EXCEPT ![c] = r]
  BY <1>1 DEF CallerTo
<1> QED BY <1>0, <1>2, <1>3

(* The steps that look up and make a section.                              *)
LEMMA SectionChange ==
  ASSUME Shapes, NEW t \in Threads, NEW x, NEW y
  PROVE  LET p == thread[t] IN
         /\ thread' = [thread EXCEPT ![t].at = x, ![t].index = y] => ThreadTo(t, x, y, p.name, p.hits, p.carried)
         /\ thread' = [thread EXCEPT ![t].at = x, ![t].name = y] => ThreadTo(t, x, p.index, y, p.hits, p.carried)
         /\ thread' = [thread EXCEPT ![t].index = x, ![t].name = y] => ThreadTo(t, p.at, x, y, p.hits, p.carried)
<1> DEFINE p == thread[t]
<1>0. thread \in [Threads -> ThreadType] /\ p \in ThreadType
  BY DEF Shapes, ThreadType
<1>p. PICK a, i, m, h, d : /\ p = [at |-> a, index |-> i, name |-> m, hits |-> h, carried |-> d]
                           /\ p.at = a /\ p.index = i /\ p.name = m /\ p.hits = h /\ p.carried = d
  BY <1>0 DEF ThreadType
<1>1. ASSUME thread' = [thread EXCEPT ![t].at = x, ![t].index = y]
      PROVE  ThreadTo(t, x, y, p.name, p.hits, p.carried)
  <2>1. thread' = [thread EXCEPT ![t] = [@ EXCEPT !.at = x, !.index = y]]
    BY <1>0, <1>1 DEF ThreadType
  <2>2. PICK q : q = [[at |-> a, index |-> i, name |-> m, hits |-> h, carried |-> d] EXCEPT !.at = x, !.index = y]
    OBVIOUS
  <2>3. q = [at |-> x, index |-> y, name |-> m, hits |-> h, carried |-> d]
    BY <2>2
  <2> QED BY <1>p, <2>1, <2>2, <2>3 DEF ThreadTo
<1>2. ASSUME thread' = [thread EXCEPT ![t].at = x, ![t].name = y]
      PROVE  ThreadTo(t, x, p.index, y, p.hits, p.carried)
  <2>1. thread' = [thread EXCEPT ![t] = [@ EXCEPT !.at = x, !.name = y]]
    BY <1>0, <1>2 DEF ThreadType
  <2>2. PICK q : q = [[at |-> a, index |-> i, name |-> m, hits |-> h, carried |-> d] EXCEPT !.at = x, !.name = y]
    OBVIOUS
  <2>3. q = [at |-> x, index |-> i, name |-> y, hits |-> h, carried |-> d]
    BY <2>2
  <2> QED BY <1>p, <2>1, <2>2, <2>3 DEF ThreadTo
<1>3. ASSUME thread' = [thread EXCEPT ![t].index = x, ![t].name = y]
      PROVE  ThreadTo(t, p.at, x, y, p.hits, p.carried)
  <2>1. thread' = [thread EXCEPT ![t] = [@ EXCEPT !.index = x, !.name = y]]
    BY <1>0, <1>3 DEF ThreadType
  <2>2. PICK q : q = [[at |-> a, index |-> i, name |-> m, hits |-> h, carried |-> d] EXCEPT !.index = x, !.name = y]
    OBVIOUS
  <2>3. q = [at |-> a, index |-> x, name |-> y, hits |-> h, carried |-> d]
    BY <2>2
  <2> QED BY <1>p, <2>1, <2>2, <2>3 DEF ThreadTo
<1> QED BY <1>1, <1>2, <1>3

\* The section was found, or has to be made.
Finds(t, n) ==
  LET p == thread[t] IN
  /\ p.at = "up" /\ subsections' = subsections /\ nextIndex' = nextIndex
  /\ \/ subsections[n] # NoIndex /\ ThreadTo(t, "up", subsections[n], {n}, p.hits, p.carried)
     \/ ThreadTo(t, "missing", p.index, {n}, p.hits, p.carried)

\* The timer is full, or the section is made, or another thread has made it.
Makes(t, n) ==
  LET p == thread[t] IN
  /\ p.at = "numbered" /\ p.name = {n} /\ nextIndex' = nextIndex
  /\ \/ /\ p.index >= kMaxCapacity /\ subsections' = subsections
        /\ ThreadTo(t, "up", kEmptyCollectorIndex, p.name, p.hits, p.carried)
     \/ /\ p.index < kMaxCapacity /\ subsections[n] = NoIndex
        /\ subsections' = [subsections EXCEPT ![n] = p.index]
        /\ ThreadTo(t, "up", p.index, p.name, p.hits, p.carried)
     \/ /\ p.index < kMaxCapacity /\ subsections[n] # NoIndex /\ subsections' = subsections
        /\ ThreadTo(t, "up", subsections[n], p.name, p.hits, p.carried)

\* The steps of SubSection are Finds and Makes, whose cases keep the branches apart.
LEMMA SectionEffects ==
  ASSUME TypeOK, Shapes, Numbers, NEW t \in Threads
  PROVE  /\ \A n \in Names : FindSection(t, n) => Finds(t, n)
         /\ MakeSection(t) => \E n \in Names : Makes(t, n)
<1>1. ASSUME NEW n \in Names, FindSection(t, n) PROVE Finds(t, n)
  <2>0. thread[t].at = "up" /\ subsections' = subsections /\ nextIndex' = nextIndex
    BY <1>1 DEF FindSection, sectionVars
  <2>1. CASE subsections[n] # NoIndex /\ thread' = [thread EXCEPT ![t].index = subsections[n], ![t].name = {n}]
    <3>1. PICK x, y : x = subsections[n] /\ y = {n}
      OBVIOUS
    <3>2. thread' = [thread EXCEPT ![t].index = x, ![t].name = y]
      BY <2>1, <3>1
    <3>3. ThreadTo(t, thread[t].at, x, y, thread[t].hits, thread[t].carried)
      BY <3>2, SectionChange
    <3> QED BY <2>0, <2>1, <3>1, <3>3 DEF Finds
  <2>2. CASE thread' = [thread EXCEPT ![t].at = "missing", ![t].name = {n}]
    <3>1. PICK x, y : x = "missing" /\ y = {n}
      OBVIOUS
    <3>2. thread' = [thread EXCEPT ![t].at = x, ![t].name = y]
      BY <2>2, <3>1
    <3>3. ThreadTo(t, x, thread[t].index, y, thread[t].hits, thread[t].carried)
      BY <3>2, SectionChange
    <3> QED BY <2>0, <3>1, <3>3 DEF Finds
  <2> QED BY <1>1, <2>1, <2>2 DEF FindSection
<1>2. ASSUME MakeSection(t) PROVE \E n \in Names : Makes(t, n)
  <2>0. thread[t].at = "numbered" /\ thread[t].index \in Nat /\ thread[t].name \subseteq Names /\ nextIndex' = nextIndex
    BY <1>2 DEF MakeSection, Shapes
  <2>1. PICK n \in thread[t].name :
          IF Full(thread[t].index)
            THEN /\ thread' = [thread EXCEPT ![t].at = "up", ![t].index = kEmptyCollectorIndex]
                 /\ UNCHANGED subsections
            ELSE /\ subsections' = Emplace(n, thread[t].index)
                 /\ thread' = [thread EXCEPT ![t].at = "up", ![t].index = subsections'[n]]
    BY <1>2 DEF MakeSection
  <2>2. n \in Names /\ thread[t].name = {n}
    BY <2>0, <2>1 DEF Numbers, ThreadNumbers
  <2>3. subsections \in [Names -> 0 .. NoIndex] /\ kMaxCapacity \in Nat
    BY Setting DEF TypeOK
  <2>4. ASSUME NEW i, thread' = [thread EXCEPT ![t].at = "up", ![t].index = i]
        PROVE  ThreadTo(t, "up", i, thread[t].name, thread[t].hits, thread[t].carried)
    <3>1. PICK x : x = "up"
      OBVIOUS
    <3>2. thread' = [thread EXCEPT ![t].at = x, ![t].index = i]
      BY <2>4, <3>1
    <3> QED BY <3>1, <3>2, SectionChange
  <2>5. CASE Full(thread[t].index)
    <3>1. thread[t].index >= kMaxCapacity
      BY <2>5 DEF Full
    <3> QED BY <2>0, <2>1, <2>2, <2>4, <2>5, <3>1 DEF Makes
  <2>6. CASE ~Full(thread[t].index)
    <3>1. thread[t].index < kMaxCapacity
      BY <2>0, <2>3, <2>6 DEF Full
    <3>2. PICK i : i = subsections'[n]
      OBVIOUS
    <3>3. ThreadTo(t, "up", i, thread[t].name, thread[t].hits, thread[t].carried)
      BY <2>1, <2>4, <2>6, <3>2
    <3>4. CASE subsections[n] = NoIndex
      <4>1. subsections' = [subsections EXCEPT ![n] = thread[t].index]
        BY <2>1, <2>6, <3>4 DEF Emplace
      <4>2. i = thread[t].index
        BY <2>2, <2>3, <3>2, <4>1
      <4> QED BY <2>0, <2>2, <3>1, <3>3, <3>4, <4>1, <4>2 DEF Makes
    <3>5. CASE subsections[n] # NoIndex
      <4>1. subsections' = subsections
        BY <2>1, <2>2, <2>3, <2>6, <3>5 DEF Emplace
      <4>2. i = subsections[n]
        BY <3>2, <4>1
      <4> QED BY <2>0, <2>2, <3>1, <3>3, <3>5, <4>1, <4>2 DEF Makes
    <3> QED BY <3>4, <3>5
  <2> QED BY <2>2, <2>5, <2>6
<1> QED BY <1>1, <1>2

-----------------------------------------------------------------------------
(* The same, field by field.                                               *)
ThreadIs(t, at, index, name, hits, carried) ==
  /\ thread' \in [Threads -> ThreadType]
  /\ \A u \in Threads : u # t => thread'[u] = thread[u]
  /\ thread'[t].at = at /\ thread'[t].index = index /\ thread'[t].name = name
  /\ thread'[t].hits = hits /\ thread'[t].carried = carried

CallerIs(c, at, clear, todo, from, carried) ==
  /\ caller' \in [Callers -> CallerType]
  /\ \A e \in Callers : e # c => caller'[e] = caller[e]
  /\ caller'[c].at = at /\ caller'[c].clear = clear /\ caller'[c].todo = todo
  /\ caller'[c].from = from /\ caller'[c].carried = carried

\* Where each step of a thread leaves it, and what it has in hand.
LEMMA ThreadSteps ==
  ASSUME TypeOK, Shapes, Numbers, NEW t \in Threads
  PROVE  LET p == thread[t] IN
    /\ GetCollector(t) => ThreadIs(t, "up", p.index, p.name, p.hits, p.carried)
    /\ Report(t) => ThreadIs(t, p.at, p.index, p.name, p.hits + 1, p.carried)
    /\ TakeIndex(t) => ThreadIs(t, "numbered", nextIndex, p.name, p.hits, p.carried)
    /\ ExitCopy(t) => ThreadIs(t, "copied", kMainIndex, {}, p.hits, entries[t])
    /\ ExitClear(t) => ThreadIs(t, "collected", p.index, p.name, p.hits, p.carried)
    /\ ExitMerge(t) => ThreadIs(t, "merged", p.index, p.name, p.hits, NoData)
    /\ ExitErase(t) => ThreadIs(t, "gone", p.index, p.name, p.hits, p.carried)
<1> DEFINE p == thread[t]
<1>0. /\ p.at \in Stages /\ p.index \in Nat /\ p.name \in SUBSET Names /\ p.hits \in 0 .. MaxHits /\ p.carried \in Data
      /\ nextIndex \in Nat /\ kMainIndex \in Nat /\ {} \in SUBSET Names /\ entries[t] \in Data /\ NoData \in Data
  BY DataFacts, Setting DEF TypeOK, Shapes
<1>1. {"up", "numbered", "copied", "collected", "merged", "gone"} \subseteq Stages
  BY DEF Stages
<1>2. Report(t) => p.hits + 1 \in 0 .. MaxHits
  BY <1>0, Setting DEF Report
<1>3. ASSUME NEW s \in Stages, NEW i \in Nat, NEW N \in SUBSET Names, NEW n \in 0 .. MaxHits, NEW d \in Data,
             ThreadTo(t, s, i, N, n, d)
      PROVE  ThreadIs(t, s, i, N, n, d)
  BY <1>3, ThreadToFacts DEF ThreadIs
<1>4. GetCollector(t) => ThreadIs(t, "up", p.index, p.name, p.hits, p.carried)
  BY <1>0, <1>1, <1>3, ThreadEffects
<1>5. Report(t) => ThreadIs(t, p.at, p.index, p.name, p.hits + 1, p.carried)
  BY <1>0, <1>2, <1>3, ThreadEffects
<1>6. TakeIndex(t) => ThreadIs(t, "numbered", nextIndex, p.name, p.hits, p.carried)
  BY <1>0, <1>1, <1>3, ThreadEffects
<1>7. ExitCopy(t) => ThreadIs(t, "copied", kMainIndex, {}, p.hits, entries[t])
  BY <1>0, <1>1, <1>3, ThreadEffects
<1>8. ExitClear(t) => ThreadIs(t, "collected", p.index, p.name, p.hits, p.carried)
  BY <1>0, <1>1, <1>3, ThreadEffects
<1>9. ExitMerge(t) => ThreadIs(t, "merged", p.index, p.name, p.hits, NoData)
  BY <1>0, <1>1, <1>3, ThreadEffects
<1>10. ExitErase(t) => ThreadIs(t, "gone", p.index, p.name, p.hits, p.carried)
  BY <1>0, <1>1, <1>3, ThreadEffects
<1> QED BY <1>4, <1>5, <1>6, <1>7, <1>8, <1>9, <1>10

\* Where each step of a report leaves its caller, and what it has in hand.
LEMMA CallerSteps ==
  ASSUME TypeOK, Shapes, NEW c \in Callers
  PROVE  LET p == caller[c] IN
    /\ \A clear \in BOOLEAN : BeginFlush(c, clear) => CallerIs(c, "flushing", clear, collectors, p.from, p.carried)
    /\ \A t \in Threads : FlushCopy(c, t) => CallerIs(c, "copied", p.clear, p.todo, {t}, entries[t])
    /\ FlushClear(c) => CallerIs(c, "collected", p.clear, p.todo, p.from, p.carried)
    /\ FlushMerge(c) => CallerIs(c, "flushing", p.clear, p.todo \ p.from, {}, NoData)
    /\ EndFlush(c) => CallerIs(c, "flushed", p.clear, p.todo, p.from, p.carried)
    /\ TotalCopy(c) => CallerIs(c, "reading", p.clear, p.todo, p.from, total)
    /\ TotalClear(c) => CallerIs(c, "done", p.clear, p.todo, p.from, p.carried)
    /\ Drop(c) => CallerIs(c, "idle", p.clear, p.todo, p.from, NoData)
<1> DEFINE p == caller[c]
<1>0. /\ p.at \in Turns /\ p.clear \in BOOLEAN /\ p.todo \in SUBSET Threads /\ p.from \in SUBSET Threads /\ p.carried \in Data
      /\ collectors \in SUBSET Threads /\ {} \in SUBSET Threads /\ p.todo \ p.from \in SUBSET Threads
      /\ total \in Data /\ NoData \in Data
      /\ \A t \in Threads : {t} \in SUBSET Threads /\ entries[t] \in Data
  BY DataFacts DEF TypeOK, Shapes
<1>1. {"flushing", "copied", "collected", "flushed", "reading", "done", "idle"} \subseteq Turns
  BY DEF Turns
<1>3. ASSUME NEW s \in Turns, NEW b \in BOOLEAN, NEW T \in SUBSET Threads, NEW F \in SUBSET Threads, NEW d \in Data,
             CallerTo(c, s, b, T, F, d)
      PROVE  CallerIs(c, s, b, T, F, d)
  BY <1>3, CallerToFacts DEF CallerIs
<1>4. ASSUME NEW clear \in BOOLEAN, BeginFlush(c, clear) PROVE CallerIs(c, "flushing", clear, collectors, p.from, p.carried)
  BY <1>0, <1>1, <1>3, <1>4, CallerEffects
<1>5. ASSUME NEW t \in Threads, FlushCopy(c, t) PROVE CallerIs(c, "copied", p.clear, p.todo, {t}, entries[t])
  BY <1>0, <1>1, <1>3, <1>5, CallerEffects
<1>6. FlushClear(c) => CallerIs(c, "collected", p.clear, p.todo, p.from, p.carried)
  BY <1>0, <1>1, <1>3, CallerEffects
<1>7. FlushMerge(c) => CallerIs(c, "flushing", p.clear, p.todo \ p.from, {}, NoData)
  BY <1>0, <1>1, <1>3, CallerEffects
<1>8. EndFlush(c) => CallerIs(c, "flushed", p.clear, p.todo, p.from, p.carried)
  BY <1>0, <1>1, <1>3, CallerEffects
<1>9. TotalCopy(c) => CallerIs(c, "reading", p.clear, p.todo, p.from, total)
  BY <1>0, <1>1, <1>3, CallerEffects
<1>10. TotalClear(c) => CallerIs(c, "done", p.clear, p.todo, p.from, p.carried)
  BY <1>0, <1>1, <1>3, CallerEffects
<1>11. Drop(c) => CallerIs(c, "idle", p.clear, p.todo, p.from, NoData)
  BY <1>0, <1>1, <1>3, CallerEffects
<1> QED BY <1>4, <1>5, <1>6, <1>7, <1>8, <1>9, <1>10, <1>11

\* A section of the timer is found or made, field by field.
SectionStep(t, n) ==
  LET p == thread[t] IN
  /\ nextIndex' = nextIndex
  /\ \/ /\ p.at = "up" /\ subsections' = subsections
        /\ \/ subsections[n] # NoIndex /\ ThreadIs(t, "up", subsections[n], {n}, p.hits, p.carried)
           \/ ThreadIs(t, "missing", p.index, {n}, p.hits, p.carried)
     \/ /\ p.at = "numbered" /\ p.name = {n}
        /\ \/ /\ p.index >= kMaxCapacity /\ subsections' = subsections
              /\ ThreadIs(t, "up", kEmptyCollectorIndex, p.name, p.hits, p.carried)
           \/ /\ p.index < kMaxCapacity /\ subsections[n] = NoIndex
              /\ subsections' = [subsections EXCEPT ![n] = p.index]
              /\ ThreadIs(t, "up", p.index, p.name, p.hits, p.carried)
           \/ /\ p.index < kMaxCapacity /\ subsections[n] # NoIndex /\ subsections' = subsections
              /\ ThreadIs(t, "up", subsections[n], p.name, p.hits, p.carried)

\* Finding and making a section are one kind of step, for the name that is asked for.
LEMMA SectionSteps ==
  ASSUME TypeOK, Shapes, Numbers, NEW t \in Threads
  PROVE  MakeSection(t) \/ (\E n \in Names : FindSection(t, n)) => \E n \in Names : SectionStep(t, n)
<1> DEFINE p == thread[t]
<1>0. /\ p.at \in Stages /\ p.index \in Nat /\ p.name \in SUBSET Names /\ p.hits \in 0 .. MaxHits /\ p.carried \in Data
      /\ kEmptyCollectorIndex \in Nat /\ {"up", "missing"} \subseteq Stages
      /\ \A n \in Names : {n} \in SUBSET Names /\ subsections[n] \in Nat
  BY Setting DEF TypeOK, Shapes, Stages
<1>1. ASSUME NEW s \in Stages, NEW i \in Nat, NEW N \in SUBSET Names, NEW n \in 0 .. MaxHits, NEW d \in Data,
             ThreadTo(t, s, i, N, n, d)
      PROVE  ThreadIs(t, s, i, N, n, d)
  BY <1>1, ThreadToFacts DEF ThreadIs
<1>2. ASSUME NEW n \in Names, Finds(t, n) PROVE SectionStep(t, n)
  BY <1>0, <1>1, <1>2 DEF Finds, SectionStep
<1>3. ASSUME NEW n \in Names, Makes(t, n) PROVE SectionStep(t, n)
  BY <1>0, <1>1, <1>3 DEF Makes, SectionStep
<1> QED BY <1>2, <1>3, SectionEffects

-----------------------------------------------------------------------------
(* A hit that is reported is counted in the collector of its thread, or    *)
(* dropped.                                                                *)
LEMMA ReportFacts ==
  ASSUME TypeOK, Shapes, NEW t \in Threads, Report(t)
  PROVE  \E h \in Hits :
           /\ h = <<t, thread[t].hits + 1>> /\ h[1] = t /\ h[2] = thread[t].hits + 1
           /\ thread[t].at = "up" /\ thread[t].index \in 0 .. kMaxCapacity - 1
           /\ \/ /\ mutex[t] = Nobody
                 /\ entries' = [entries EXCEPT ![t] = [entries[t] EXCEPT ![h] = entries[t][h] + 1]]
                 /\ accepted' = [accepted EXCEPT ![h] = thread[t].index]
              \/ entries' = entries /\ accepted' = accepted
           /\ entries' \in [Threads -> Data] /\ accepted' \in [Hits -> 0 .. NoIndex]
<1>1. /\ thread[t].hits \in 0 .. MaxHits /\ thread[t].hits < MaxHits /\ MaxHits \in Nat
      /\ thread[t].at = "up" /\ thread[t].index \in 0 .. kMaxCapacity - 1
      /\ entries \in [Threads -> Data] /\ accepted \in [Hits -> 0 .. NoIndex]
      /\ kMaxCapacity \in Nat /\ NoIndex = kMaxCapacity
  BY Setting DEF Report, Shapes, TypeOK
<1>2. <<t, thread[t].hits + 1>> \in Hits
  BY <1>1 DEF Hits
<1>3. PICK h \in Hits : h = <<t, thread[t].hits + 1>>
  BY <1>2
<1>4. h[1] = t /\ h[2] = thread[t].hits + 1
  BY <1>3
<1>5. PICK i \in 0 .. NoIndex : i = thread[t].index
  BY <1>1
<1>6. CASE mutex[t] = Nobody
  <2>1. /\ entries' = [entries EXCEPT ![t][h] = @ + 1]
        /\ accepted' = [accepted EXCEPT ![h] = i]
    BY <1>3, <1>5, <1>6 DEF Report, CanReport
  <2>2. entries' = [entries EXCEPT ![t] = [entries[t] EXCEPT ![h] = entries[t][h] + 1]]
    BY <1>1, <2>1 DEF Data
  <2>3. PICK d : d = [entries[t] EXCEPT ![h] = entries[t][h] + 1]
    OBVIOUS
  <2>4. d \in Data
    BY <1>1, <2>3, DataFacts
  <2>5. entries' \in [Threads -> Data]
    BY <1>1, <2>2, <2>3, <2>4
  <2>6. accepted' \in [Hits -> 0 .. NoIndex]
    BY <1>1, <2>1
  <2> QED BY <1>1, <1>3, <1>4, <1>5, <1>6, <2>1, <2>2, <2>5, <2>6
<1>7. CASE mutex[t] # Nobody
  <2>1. entries' = entries /\ accepted' = accepted
    BY <1>7 DEF Report, CanReport
  <2> QED BY <1>1, <1>3, <1>4, <2>1
<1> QED BY <1>6, <1>7

(* What a report that begins has to contain.                               *)
LEMMA PresentFacts ==
  ASSUME NEW h \in Present
  PROVE  /\ \/ h \in Counted(total)
            \/ \E t \in Threads : h \in Counted(entries[t])
            \/ \E c \in Callers : caller[c].at = "collected" /\ h \in Counted(caller[c].carried)
         /\ \A t \in Threads : h \notin Counted(thread[t].carried)
<1> DEFINE A == UNION {Counted(entries[t]) : t \in Threads}
           C == {d \in Callers : caller[d].at = "collected"}
           B == UNION {Counted(caller[c].carried) : c \in C}
           D == UNION {Counted(thread[t].carried) : t \in Threads}
<1>0. Present = (Counted(total) \union A \union B) \ D
  BY Zenon DEF Present
<1>1. h \in (Counted(total) \union A \union B) \ D
  <2> HIDE DEF A, B, D
  <2> QED BY <1>0
<1>2. h \in A => \E t \in Threads : h \in Counted(entries[t])
  OBVIOUS
<1>3. h \in B => \E c \in C : h \in Counted(caller[c].carried)
  OBVIOUS
<1>4. h \notin D => \A t \in Threads : h \notin Counted(thread[t].carried)
  OBVIOUS
<1>5. h \in Counted(total) \/ h \in A \/ h \in B
  BY <1>1
<1>6. h \notin D
  BY <1>1
<1>7. h \in B => \E c \in Callers : caller[c].at = "collected" /\ h \in Counted(caller[c].carried)
  BY <1>3
<1> HIDE DEF A, B, C, D
<1> QED BY <1>2, <1>4, <1>5, <1>6, <1>7

(* Every variable keeps its type.                                          *)
LEMMA TypeStep == IInv /\ [Next]_vars => TypeOK' /\ Shapes'
<1> SUFFICES ASSUME IInv, [Next]_vars
             PROVE  TypeOK' /\ Shapes'
  OBVIOUS
<1>0. /\ nextIndex \in Nat /\ subsections \in [Names -> 0 .. NoIndex]
      /\ collectors \subseteq Threads /\ listMtx \in Callers \union {Nobody}
      /\ entries \in [Threads -> Data]
      /\ mutex \in [Threads -> Threads \union Callers \union {Nobody}]
      /\ total \in Data /\ totalMtx \in Callers \union {Nobody}
      /\ thread \in [Threads -> ThreadType] /\ caller \in [Callers -> CallerType]
      /\ \A t \in Threads : thread[t].at = "up" => thread[t].index \in 0 .. kMaxCapacity - 1
      /\ accepted \in [Hits -> 0 .. NoIndex]
      /\ cleared \in Data /\ owed \in [Callers -> SUBSET Hits]
      /\ TypeOK /\ Shapes /\ Numbers
  BY DEF IInv, TypeOK, Shapes, ThreadType, CallerType
<1> DEFINE Rest == /\ nextIndex' \in Nat /\ subsections' \in [Names -> 0 .. NoIndex]
                   /\ collectors' \subseteq Threads /\ listMtx' \in Callers \union {Nobody}
                   /\ entries' \in [Threads -> Data]
                   /\ mutex' \in [Threads -> Threads \union Callers \union {Nobody}]
                   /\ total' \in Data /\ totalMtx' \in Callers \union {Nobody}
                   /\ accepted' \in [Hits -> 0 .. NoIndex]
                   /\ cleared' \in Data /\ owed' \in [Callers -> SUBSET Hits]
           TypeThread == /\ thread' \in [Threads -> ThreadType]
                         /\ \A t \in Threads : thread'[t].at = "up" => thread'[t].index \in 0 .. kMaxCapacity - 1
           TypeCaller == caller' \in [Callers -> CallerType]
           Goal == TypeOK' /\ Shapes'
<1>1. ASSUME Rest, TypeThread, TypeCaller PROVE Goal
  <2>1. \A t \in Threads : thread'[t].at \in Stages /\ thread'[t].carried \in Data
    BY <1>1 DEF ThreadType
  <2>2. \A c \in Callers : caller'[c].at \in Turns /\ caller'[c].todo \subseteq Threads /\ caller'[c].carried \in Data
    BY <1>1 DEF CallerType
  <2> QED BY <1>1, <2>1, <2>2 DEF TypeOK, Shapes, ThreadType, CallerType, Stages, Turns
<1> HIDE DEF Goal
<1> USE DEF sectionVars, listVars, entryVars, totalVars
<1>2. ASSUME thread' = thread PROVE TypeThread
  BY <1>0, <1>2
<1>3. ASSUME caller' = caller PROVE TypeCaller
  BY <1>0, <1>3
<1>4. ASSUME NEW t \in Threads, NEW s, NEW i, NEW N, NEW n, NEW d, ThreadIs(t, s, i, N, n, d),
             s = "up" => i \in 0 .. kMaxCapacity - 1
      PROVE  TypeThread
  BY <1>0, <1>4 DEF ThreadIs
<1>5. 0 \in 0 .. kMaxCapacity - 1 /\ 1 \in 0 .. kMaxCapacity - 1
  BY Setting
<1>6. ASSUME NEW t \in Threads, GetCollector(t) PROVE Goal
  <2>1. Rest
    BY <1>0, <1>6 DEF GetCollector
  <2>2. ThreadIs(t, "up", thread[t].index, thread[t].name, thread[t].hits, thread[t].carried)
    BY <1>0, <1>6, ThreadSteps
  <2>3. thread[t].index \in 0 .. kMaxCapacity - 1
    BY <1>5, <1>6, Setting DEF IInv, GetCollector, Started
  <2>4. TypeThread
    BY <1>4, <2>2, <2>3
  <2> QED BY <1>1, <1>3, <1>6, <2>1, <2>4 DEF GetCollector
<1>7. ASSUME NEW t \in Threads, Report(t) PROVE Goal
  <2>1. Rest
    BY <1>0, <1>7, ReportFacts DEF Report
  <2>2. ThreadIs(t, thread[t].at, thread[t].index, thread[t].name, thread[t].hits + 1, thread[t].carried)
    BY <1>0, <1>7, ThreadSteps
  <2>3. TypeThread
    BY <1>0, <1>4, <2>2
  <2> QED BY <1>1, <1>3, <1>7, <2>1, <2>3 DEF Report
<1>8. ASSUME NEW t \in Threads, (\E n \in Names : FindSection(t, n)) \/ MakeSection(t) PROVE Goal
  <2>1. PICK n \in Names : SectionStep(t, n)
    BY <1>0, <1>8, SectionSteps
  <2>2. /\ caller' = caller /\ UNCHANGED <<collectors, listMtx, entries, mutex, total, totalMtx, accepted, cleared, owed>>
    BY <1>8 DEF FindSection, MakeSection
  <2>3. subsections[n] \in 0 .. NoIndex /\ thread[t].index \in Nat
    BY <1>0 DEF ThreadType
  <2>4. subsections' \in [Names -> 0 .. NoIndex]
    <3>1. thread[t].index < kMaxCapacity => thread[t].index \in 0 .. NoIndex
      BY <2>3, Setting
    <3>2. subsections' = subsections \/ (subsections' = [subsections EXCEPT ![n] = thread[t].index] /\ thread[t].index < kMaxCapacity)
      BY <2>1 DEF SectionStep
    <3> QED BY <1>0, <3>1, <3>2
  <2>5. Rest
    BY <1>0, <2>1, <2>2, <2>4 DEF SectionStep
  <2>6. TypeThread
    <3>1. /\ subsections[n] # NoIndex => subsections[n] \in 0 .. kMaxCapacity - 1
          /\ thread[t].index < kMaxCapacity => thread[t].index \in 0 .. kMaxCapacity - 1
          /\ kEmptyCollectorIndex \in 0 .. kMaxCapacity - 1
      BY <2>3, Setting
    <3> QED BY <1>4, <2>1, <3>1 DEF SectionStep
  <2> QED BY <1>1, <1>3, <2>2, <2>5, <2>6
<1>9. ASSUME NEW t \in Threads, TakeIndex(t) PROVE Goal
  <2>1. Rest
    BY <1>0, <1>9 DEF TakeIndex
  <2>2. ThreadIs(t, "numbered", nextIndex, thread[t].name, thread[t].hits, thread[t].carried)
    BY <1>0, <1>9, ThreadSteps
  <2> QED BY <1>1, <1>3, <1>4, <1>9, <2>1, <2>2 DEF TakeIndex
<1>10. ASSUME NEW t \in Threads, ExitCopy(t) PROVE Goal
  <2>1. ThreadIs(t, "copied", kMainIndex, {}, thread[t].hits, entries[t])
    BY <1>0, <1>10, ThreadSteps
  <2>2. owed' \in [Callers -> SUBSET Hits]
    BY <1>0, <1>10 DEF ExitCopy, Release
  <2>3. mutex' \in [Threads -> Threads \union Callers \union {Nobody}]
    BY <1>0, <1>10 DEF ExitCopy, CopyOf
  <2>4. Rest
    BY <1>0, <1>10, <2>2, <2>3 DEF ExitCopy, CopyOf
  <2> QED BY <1>1, <1>3, <1>4, <1>10, <2>1, <2>4 DEF ExitCopy
<1>11. ASSUME NEW t \in Threads, ExitClear(t) PROVE Goal
  <2>1. ThreadIs(t, "collected", thread[t].index, thread[t].name, thread[t].hits, thread[t].carried)
    BY <1>0, <1>11, ThreadSteps
  <2>2. entries' \in [Threads -> Data] /\ mutex' \in [Threads -> Threads \union Callers \union {Nobody}]
    BY <1>0, <1>11, DataFacts DEF ExitClear, Clear
  <2>3. Rest
    BY <1>0, <1>11, <2>2 DEF ExitClear
  <2> QED BY <1>1, <1>3, <1>4, <1>11, <2>1, <2>3 DEF ExitClear
<1>12. ASSUME NEW t \in Threads, ExitMerge(t) PROVE Goal
  <2>1. ThreadIs(t, "merged", thread[t].index, thread[t].name, thread[t].hits, NoData)
    BY <1>0, <1>12, ThreadSteps
  <2>2. thread[t].carried \in Data
    BY <1>0 DEF ThreadType
  <2>3. Rest
    BY <1>0, <1>12, <2>2, DataFacts DEF ExitMerge, MergeToTotal
  <2> QED BY <1>1, <1>3, <1>4, <1>12, <2>1, <2>3 DEF ExitMerge
<1>13. ASSUME NEW t \in Threads, ExitErase(t) PROVE Goal
  <2>1. ThreadIs(t, "gone", thread[t].index, thread[t].name, thread[t].hits, thread[t].carried)
    BY <1>0, <1>13, ThreadSteps
  <2>2. Rest
    BY <1>0, <1>13 DEF ExitErase
  <2> QED BY <1>1, <1>3, <1>4, <1>13, <2>1, <2>2 DEF ExitErase
<1>14. ASSUME NEW c \in Callers, NEW clear \in BOOLEAN, BeginFlush(c, clear) PROVE Goal
  <2>1. TypeCaller
    BY <1>0, <1>14, CallerSteps DEF CallerIs
  <2>2. Present \subseteq Hits
    <3>1. Counted(total) \subseteq Hits /\ \A t \in Threads : Counted(entries[t]) \subseteq Hits
      BY <1>0, DataFacts
    <3>2. \A d \in Callers : Counted(caller[d].carried) \subseteq Hits
      BY DEF Counted
    <3> QED BY <3>1, <3>2, PresentFacts
  <2>3. Rest
    BY <1>0, <1>14, <2>2 DEF BeginFlush, LockList
  <2> QED BY <1>1, <1>2, <1>14, <2>1, <2>3 DEF BeginFlush
<1>15. ASSUME NEW c \in Callers, NEW t \in Threads, FlushCopy(c, t) PROVE Goal
  <2>1. TypeCaller
    BY <1>0, <1>15, CallerSteps DEF CallerIs
  <2>2. Rest
    BY <1>0, <1>15 DEF FlushCopy, CopyOf
  <2> QED BY <1>1, <1>2, <1>15, <2>1, <2>2 DEF FlushCopy
<1>16. ASSUME NEW c \in Callers, FlushClear(c) PROVE Goal
  <2>1. TypeCaller
    BY <1>0, <1>16, CallerSteps DEF CallerIs
  <2>2. PICK t \in caller[c].from : Clear(t)
    BY <1>16 DEF FlushClear
  <2>3. t \in Threads
    BY <1>0, <2>2 DEF CallerType
  <2>4. entries' \in [Threads -> Data] /\ mutex' \in [Threads -> Threads \union Callers \union {Nobody}]
    BY <1>0, <2>2, <2>3, DataFacts DEF Clear
  <2>5. Rest
    BY <1>0, <1>16, <2>4 DEF FlushClear
  <2> QED BY <1>1, <1>2, <1>16, <2>1, <2>5 DEF FlushClear
<1>17. ASSUME NEW c \in Callers, FlushMerge(c) PROVE Goal
  <2>1. TypeCaller
    BY <1>0, <1>17, CallerSteps DEF CallerIs
  <2>2. caller[c].carried \in Data
    BY <1>0 DEF CallerType
  <2>3. Rest
    BY <1>0, <1>17, <2>2, DataFacts DEF FlushMerge, MergeToTotal
  <2> QED BY <1>1, <1>2, <1>17, <2>1, <2>3 DEF FlushMerge
<1>18. ASSUME NEW c \in Callers, EndFlush(c) \/ TotalCopy(c) PROVE Goal
  <2>1. TypeCaller
    BY <1>0, <1>18, CallerSteps DEF CallerIs
  <2>2. Rest
    BY <1>0, <1>18 DEF EndFlush, TotalCopy
  <2> QED BY <1>1, <1>2, <1>18, <2>1, <2>2 DEF EndFlush, TotalCopy
<1>19. ASSUME NEW c \in Callers, TotalClear(c) PROVE Goal
  <2>1. TypeCaller
    BY <1>0, <1>19, CallerSteps DEF CallerIs
  <2>2. caller[c].carried \in Data
    BY <1>0 DEF CallerType
  <2>3. owed' \in [Callers -> SUBSET Hits] /\ total' \in Data /\ cleared' \in Data
    BY <1>0, <1>19, <2>2, DataFacts DEF TotalClear
  <2>4. Rest
    BY <1>0, <1>19, <2>3 DEF TotalClear
  <2> QED BY <1>1, <1>2, <1>19, <2>1, <2>4 DEF TotalClear
<1>20. ASSUME NEW c \in Callers, Drop(c) PROVE Goal
  <2>1. TypeCaller
    BY <1>0, <1>20, CallerSteps DEF CallerIs
  <2>2. Rest
    BY <1>0, <1>20 DEF Drop
  <2> QED BY <1>1, <1>2, <1>20, <2>1, <2>2 DEF Drop
<1>21. ASSUME UNCHANGED vars PROVE Goal
  <2>1. Rest /\ TypeThread /\ TypeCaller
    BY <1>0, <1>21 DEF vars
  <2> QED BY <1>1, <2>1
<1>22. Goal
  BY <1>6, <1>7, <1>8, <1>9, <1>10, <1>11, <1>12, <1>13, <1>14, <1>15, <1>16, <1>17, <1>18, <1>19, <1>20, <1>21
     DEF Next, ThreadNext, CallerNext
<1> QED BY <1>22 DEF Goal

-----------------------------------------------------------------------------
(* The mutexes.                                                            *)
LEMMA LocksStep == IInv /\ [Next]_vars => Locks'
<1> SUFFICES ASSUME IInv, [Next]_vars
             PROVE  Locks'
  OBVIOUS
<1>0. /\ TypeOK /\ Shapes /\ Numbers /\ Locks
      /\ collectors \subseteq Threads /\ listMtx \in Callers \union {Nobody}
      /\ mutex \in [Threads -> Threads \union Callers \union {Nobody}]
      /\ totalMtx \in Callers \union {Nobody}
      /\ \A c \in Callers : caller[c].todo \subseteq Threads /\ caller[c].from \subseteq Threads
  BY DEF IInv, TypeOK, Shapes
<1>s. Nobody \notin Threads /\ Nobody \notin Callers /\ \A t \in Threads : t \notin Callers
  BY Setting
<1> USE DEF sectionVars, listVars, entryVars, totalVars
<1>1. ASSUME NEW t \in Threads, NEW s, NEW i, NEW N, NEW n, NEW d, ThreadIs(t, s, i, N, n, d),
             UNCHANGED <<caller, collectors, listMtx, mutex, totalMtx>>,
             s \notin {"copied", "new", "gone"}, thread[t].at \notin {"new", "gone"}
      PROVE  Locks'
  <2>1. \A u \in Threads : thread'[u].at = "copied" => mutex'[u] = u
    BY <1>0, <1>1 DEF ThreadIs, Locks
  <2>2. ASSUME NEW c \in Callers PROVE CallerLocks(c)'
    BY <1>0, <1>1 DEF Locks, CallerLocks, Flushing
  <2>3. collectors' = {u \in Threads : thread'[u].at \notin {"new", "gone"}}
    BY <1>0, <1>1 DEF ThreadIs, Locks
  <2> QED BY <2>1, <2>2, <2>3 DEF Locks
<1>2. ASSUME NEW c \in Callers, NEW s, NEW b, NEW T, NEW F, NEW d, CallerIs(c, s, b, T, F, d),
             thread' = thread, collectors' = collectors,
             \A u \in Threads : mutex'[u] = mutex[u] \/ mutex[u] \in {c, Nobody},
             \A e \in Callers \ {c} : /\ listMtx' = e <=> listMtx = e
                                      /\ totalMtx' = e <=> totalMtx = e,
             CallerLocks(c)'
      PROVE  Locks'
  <2>1. \A u \in Threads : thread'[u].at = "copied" => mutex'[u] = u
    BY <1>0, <1>s, <1>2 DEF Locks
  <2>2. ASSUME NEW e \in Callers PROVE CallerLocks(e)'
    <3>1. CASE e = c
      BY <1>2, <3>1
    <3>2. CASE e # c
      <4>1. caller'[e] = caller[e] /\ CallerLocks(e)
        BY <1>0, <1>2, <3>2 DEF CallerIs, Locks
      <4>2. caller[e].at = "copied" => \A u \in caller[e].from : mutex'[u] = e
        BY <1>0, <1>s, <1>2, <3>2, <4>1 DEF CallerLocks
      <4> QED BY <1>0, <1>2, <3>2, <4>1, <4>2 DEF CallerLocks, Flushing
    <3> QED BY <3>1, <3>2
  <2>3. collectors' = {u \in Threads : thread'[u].at \notin {"new", "gone"}}
    BY <1>0, <1>2 DEF Locks
  <2> QED BY <2>1, <2>2, <2>3 DEF Locks
<1>3. ASSUME NEW t \in Threads, GetCollector(t) PROVE Locks'
  <2>1. ThreadIs(t, "up", thread[t].index, thread[t].name, thread[t].hits, thread[t].carried)
    BY <1>0, <1>3, ThreadSteps
  <2>2. collectors' = collectors \union {t} /\ UNCHANGED <<caller, listMtx, mutex, totalMtx>>
    BY <1>3 DEF GetCollector
  <2>3. \A u \in Threads : thread'[u].at = "copied" => mutex'[u] = u
    BY <1>0, <2>1, <2>2 DEF ThreadIs, Locks
  <2>4. ASSUME NEW c \in Callers PROVE CallerLocks(c)'
    BY <1>0, <2>2 DEF Locks, CallerLocks, Flushing
  <2>5. collectors' = {u \in Threads : thread'[u].at \notin {"new", "gone"}}
    BY <1>0, <2>1, <2>2 DEF ThreadIs, Locks
  <2> QED BY <2>3, <2>4, <2>5 DEF Locks
<1>4. ASSUME NEW t \in Threads, Report(t) PROVE Locks'
  <2>1. ThreadIs(t, thread[t].at, thread[t].index, thread[t].name, thread[t].hits + 1, thread[t].carried)
    BY <1>0, <1>4, ThreadSteps
  <2> QED BY <1>1, <1>4, <2>1 DEF Report
<1>5. ASSUME NEW t \in Threads, (\E n \in Names : FindSection(t, n)) \/ MakeSection(t) PROVE Locks'
  <2>1. PICK n \in Names : SectionStep(t, n)
    BY <1>0, <1>5, SectionSteps
  <2>2. UNCHANGED <<caller, collectors, listMtx, mutex, totalMtx>>
    BY <1>5 DEF FindSection, MakeSection
  <2> QED BY <1>1, <2>1, <2>2 DEF SectionStep
<1>6. ASSUME NEW t \in Threads, TakeIndex(t) PROVE Locks'
  <2>1. ThreadIs(t, "numbered", nextIndex, thread[t].name, thread[t].hits, thread[t].carried)
    BY <1>0, <1>6, ThreadSteps
  <2> QED BY <1>1, <1>6, <2>1 DEF TakeIndex
<1>7. ASSUME NEW t \in Threads, ExitCopy(t) PROVE Locks'
  <2>1. ThreadIs(t, "copied", kMainIndex, {}, thread[t].hits, entries[t])
    BY <1>0, <1>7, ThreadSteps
  <2>2. /\ thread[t].at = "up" /\ mutex[t] = Nobody /\ mutex' = [mutex EXCEPT ![t] = t]
        /\ UNCHANGED <<caller, collectors, listMtx, totalMtx>>
    BY <1>7 DEF ExitCopy, CopyOf
  <2>3. \A u \in Threads : thread'[u].at = "copied" => mutex'[u] = u
    BY <1>0, <2>1, <2>2 DEF ThreadIs, Locks
  <2>4. ASSUME NEW c \in Callers PROVE CallerLocks(c)'
    BY <1>0, <1>s, <2>2 DEF Locks, CallerLocks, Flushing
  <2>5. collectors' = {u \in Threads : thread'[u].at \notin {"new", "gone"}}
    BY <1>0, <2>1, <2>2 DEF ThreadIs, Locks
  <2> QED BY <2>3, <2>4, <2>5 DEF Locks
<1>8. ASSUME NEW t \in Threads, ExitClear(t) PROVE Locks'
  <2>1. ThreadIs(t, "collected", thread[t].index, thread[t].name, thread[t].hits, thread[t].carried)
    BY <1>0, <1>8, ThreadSteps
  <2>2. /\ thread[t].at = "copied" /\ mutex' = [mutex EXCEPT ![t] = Nobody]
        /\ UNCHANGED <<caller, collectors, listMtx, totalMtx>>
    BY <1>8 DEF ExitClear, Clear
  <2>3. \A u \in Threads : thread'[u].at = "copied" => mutex'[u] = u
    BY <1>0, <2>1, <2>2 DEF ThreadIs, Locks
  <2>4. ASSUME NEW c \in Callers PROVE CallerLocks(c)'
    <3>1. mutex[t] = t /\ t # c
      BY <1>0, <1>s, <2>2 DEF Locks
    <3> QED BY <1>0, <2>2, <3>1 DEF Locks, CallerLocks, Flushing
  <2>5. collectors' = {u \in Threads : thread'[u].at \notin {"new", "gone"}}
    BY <1>0, <2>1, <2>2 DEF ThreadIs, Locks
  <2> QED BY <2>3, <2>4, <2>5 DEF Locks
<1>9. ASSUME NEW t \in Threads, ExitMerge(t) PROVE Locks'
  <2>1. ThreadIs(t, "merged", thread[t].index, thread[t].name, thread[t].hits, NoData)
    BY <1>0, <1>9, ThreadSteps
  <2> QED BY <1>1, <1>9, <2>1 DEF ExitMerge, MergeToTotal
<1>10. ASSUME NEW t \in Threads, ExitErase(t) PROVE Locks'
  <2>1. ThreadIs(t, "gone", thread[t].index, thread[t].name, thread[t].hits, thread[t].carried)
    BY <1>0, <1>10, ThreadSteps
  <2>2. /\ thread[t].at = "merged" /\ listMtx = Nobody /\ collectors' = collectors \ {t}
        /\ UNCHANGED <<caller, mutex, listMtx, totalMtx>>
    BY <1>10 DEF ExitErase, CanErase
  <2>3. \A u \in Threads : thread'[u].at = "copied" => mutex'[u] = u
    BY <1>0, <2>1, <2>2 DEF ThreadIs, Locks
  <2>4. ASSUME NEW c \in Callers PROVE CallerLocks(c)'
    <3>1. ~Flushing(c)
      BY <1>0, <1>s, <2>2 DEF Locks, CallerLocks
    <3> QED BY <1>0, <2>2, <3>1 DEF Locks, CallerLocks, Flushing
  <2>5. collectors' = {u \in Threads : thread'[u].at \notin {"new", "gone"}}
    BY <1>0, <2>1, <2>2 DEF ThreadIs, Locks
  <2> QED BY <2>3, <2>4, <2>5 DEF Locks
<1>11. ASSUME NEW c \in Callers, NEW clear \in BOOLEAN, BeginFlush(c, clear) PROVE Locks'
  <2>1. CallerIs(c, "flushing", clear, collectors, caller[c].from, caller[c].carried)
    BY <1>0, <1>11, CallerSteps
  <2>2. /\ caller[c].at = "idle" /\ listMtx = Nobody /\ listMtx' = c
        /\ UNCHANGED <<collectors, mutex, totalMtx, thread>>
    BY <1>11 DEF BeginFlush, LockList
  <2>3. CallerLocks(c)'
    BY <1>0, <1>s, <2>1, <2>2 DEF Locks, CallerLocks, Flushing, CallerIs
  <2> QED BY <1>2, <1>s, <2>1, <2>2, <2>3
<1>12. ASSUME NEW c \in Callers, NEW t \in Threads, FlushCopy(c, t) PROVE Locks'
  <2>1. CallerIs(c, "copied", caller[c].clear, caller[c].todo, {t}, entries[t])
    BY <1>0, <1>12, CallerSteps
  <2>2. /\ caller[c].at = "flushing" /\ t \in caller[c].todo /\ mutex[t] = Nobody /\ mutex' = [mutex EXCEPT ![t] = c]
        /\ UNCHANGED <<collectors, listMtx, totalMtx, thread>>
    BY <1>12 DEF FlushCopy, CopyOf
  <2>3. CallerLocks(c)'
    BY <1>0, <1>s, <2>1, <2>2 DEF Locks, CallerLocks, Flushing, CallerIs
  <2>4. \A u \in Threads : mutex'[u] = mutex[u] \/ mutex[u] \in {c, Nobody}
    BY <1>0, <2>2
  <2> QED BY <1>2, <2>1, <2>2, <2>3, <2>4
<1>13. ASSUME NEW c \in Callers, FlushClear(c) PROVE Locks'
  <2>1. CallerIs(c, "collected", caller[c].clear, caller[c].todo, caller[c].from, caller[c].carried)
    BY <1>0, <1>13, CallerSteps
  <2>2. PICK t \in caller[c].from : mutex' = [mutex EXCEPT ![t] = Nobody]
    BY <1>13 DEF FlushClear, Clear
  <2>3. caller[c].at = "copied" /\ UNCHANGED <<collectors, listMtx, totalMtx, thread>>
    BY <1>13 DEF FlushClear
  <2>4. CallerLocks(c)'
    BY <1>0, <1>s, <2>1, <2>2, <2>3 DEF Locks, CallerLocks, Flushing, CallerIs
  <2>5. mutex[t] = c /\ t \in Threads
    BY <1>0, <2>2, <2>3 DEF Locks, CallerLocks
  <2>6. \A u \in Threads : mutex'[u] = mutex[u] \/ mutex[u] \in {c, Nobody}
    BY <1>0, <2>2, <2>5
  <2> QED BY <1>2, <2>1, <2>3, <2>4, <2>6
<1>14. ASSUME NEW c \in Callers, FlushMerge(c) PROVE Locks'
  <2>1. CallerIs(c, "flushing", caller[c].clear, caller[c].todo \ caller[c].from, {}, NoData)
    BY <1>0, <1>14, CallerSteps
  <2>2. caller[c].at = "collected" /\ UNCHANGED <<collectors, listMtx, mutex, totalMtx, thread>>
    BY <1>14 DEF FlushMerge, MergeToTotal
  <2>3. CallerLocks(c)'
    BY <1>0, <2>1, <2>2 DEF Locks, CallerLocks, Flushing, CallerIs
  <2> QED BY <1>2, <2>1, <2>2, <2>3
<1>15. ASSUME NEW c \in Callers, EndFlush(c) PROVE Locks'
  <2>1. CallerIs(c, "flushed", caller[c].clear, caller[c].todo, caller[c].from, caller[c].carried)
    BY <1>0, <1>15, CallerSteps
  <2>2. /\ caller[c].at = "flushing" /\ caller[c].todo = {} /\ listMtx' = Nobody
        /\ UNCHANGED <<collectors, mutex, totalMtx, thread>>
    BY <1>15 DEF EndFlush
  <2>3. CallerLocks(c)'
    BY <1>0, <1>s, <2>1, <2>2 DEF Locks, CallerLocks, Flushing, CallerIs
  <2>4. listMtx = c
    BY <1>0, <2>2 DEF Locks, CallerLocks, Flushing
  <2> QED BY <1>2, <1>s, <2>1, <2>2, <2>3, <2>4
<1>16. ASSUME NEW c \in Callers, TotalCopy(c) PROVE Locks'
  <2>1. CallerIs(c, "reading", caller[c].clear, caller[c].todo, caller[c].from, total)
    BY <1>0, <1>16, CallerSteps
  <2>2. /\ caller[c].at = "flushed" /\ totalMtx = Nobody /\ totalMtx' = c
        /\ UNCHANGED <<collectors, listMtx, mutex, thread>>
    BY <1>16 DEF TotalCopy
  <2>3. CallerLocks(c)'
    BY <1>0, <1>s, <2>1, <2>2 DEF Locks, CallerLocks, Flushing, CallerIs
  <2> QED BY <1>2, <1>s, <2>1, <2>2, <2>3
<1>17. ASSUME NEW c \in Callers, TotalClear(c) PROVE Locks'
  <2>1. CallerIs(c, "done", caller[c].clear, caller[c].todo, caller[c].from, caller[c].carried)
    BY <1>0, <1>17, CallerSteps
  <2>2. /\ caller[c].at = "reading" /\ totalMtx' = Nobody
        /\ UNCHANGED <<collectors, listMtx, mutex, thread>>
    BY <1>17 DEF TotalClear
  <2>3. CallerLocks(c)'
    BY <1>0, <1>s, <2>1, <2>2 DEF Locks, CallerLocks, Flushing, CallerIs
  <2>4. totalMtx = c
    BY <1>0, <2>2 DEF Locks, CallerLocks
  <2> QED BY <1>2, <1>s, <2>1, <2>2, <2>3, <2>4
<1>18. ASSUME NEW c \in Callers, Drop(c) PROVE Locks'
  <2>1. CallerIs(c, "idle", caller[c].clear, caller[c].todo, caller[c].from, NoData)
    BY <1>0, <1>18, CallerSteps
  <2>2. caller[c].at = "done" /\ UNCHANGED <<collectors, listMtx, totalMtx, mutex, thread>>
    BY <1>18 DEF Drop
  <2>3. CallerLocks(c)'
    BY <1>0, <2>1, <2>2 DEF Locks, CallerLocks, Flushing, CallerIs
  <2> QED BY <1>2, <2>1, <2>2, <2>3
<1>19. ASSUME UNCHANGED vars PROVE Locks'
  BY <1>0, <1>19 DEF vars, Locks, CallerLocks, Flushing
<1> QED BY <1>3, <1>4, <1>5, <1>6, <1>7, <1>8, <1>9, <1>10, <1>11, <1>12, <1>13, <1>14, <1>15, <1>16, <1>17, <1>18, <1>19
     DEF Next, ThreadNext, CallerNext

-----------------------------------------------------------------------------
(* The copies: while somebody has one, the mutex keeps the original.       *)
LEMMA CopiesStep == IInv /\ [Next]_vars => Copies'
<1> SUFFICES ASSUME IInv, [Next]_vars
             PROVE  Copies'
  OBVIOUS
<1>0. /\ TypeOK /\ Shapes /\ Numbers /\ Locks /\ Copies
      /\ entries \in [Threads -> Data]
      /\ \A c \in Callers : caller[c].todo \subseteq Threads /\ caller[c].from \subseteq Threads
  BY DEF IInv, TypeOK, Shapes
<1>s. Nobody \notin Threads /\ Nobody \notin Callers /\ \A t \in Threads : t \notin Callers
  BY Setting
<1> USE DEF sectionVars, listVars, entryVars, totalVars
<1>1. ASSUME NEW t \in Threads, NEW s, NEW i, NEW N, NEW n, NEW d, ThreadIs(t, s, i, N, n, d),
             caller' = caller, total' = total \/ totalMtx = Nobody,
             \A u \in Threads \ {t} : entries'[u] = entries[u],
             entries'[t] = entries[t] \/ mutex[t] = Nobody \/ mutex[t] = t,
             ThreadCopies(t)'
      PROVE  Copies'
  <2>1. ASSUME NEW u \in Threads PROVE ThreadCopies(u)'
    <3>1. CASE u = t
      BY <1>1, <3>1
    <3>2. CASE u # t
      BY <1>0, <1>1, <3>2 DEF ThreadIs, Copies, ThreadCopies
    <3> QED BY <3>1, <3>2
  <2>2. ASSUME NEW c \in Callers PROVE CallerCopies(c)'
    <3>1. CallerLocks(c) /\ CallerCopies(c)
      BY <1>0 DEF Locks, Copies
    <3>2. caller[c].at = "copied" => \A u \in caller[c].from : entries'[u] = entries[u]
      BY <1>0, <1>s, <1>1, <3>1 DEF CallerLocks
    <3>3. caller[c].at = "reading" => total' = total
      BY <1>s, <1>1, <3>1 DEF CallerLocks
    <3> QED BY <1>1, <3>1, <3>2, <3>3 DEF CallerCopies
  <2> QED BY <2>1, <2>2 DEF Copies
<1>2. ASSUME NEW c \in Callers, NEW s, NEW b, NEW T, NEW F, NEW d, CallerIs(c, s, b, T, F, d),
             thread' = thread, total' = total \/ totalMtx \in {c, Nobody},
             \A u \in Threads : entries'[u] = entries[u] \/ (mutex[u] = c /\ entries'[u] = NoData),
             CallerCopies(c)'
      PROVE  Copies'
  <2>1. ASSUME NEW t \in Threads PROVE ThreadCopies(t)'
    <3>1. (thread[t].at = "copied" => mutex[t] = t) /\ ThreadCopies(t)
      BY <1>0 DEF Locks, Copies
    <3> QED BY <1>s, <1>2, <3>1 DEF ThreadCopies
  <2>2. ASSUME NEW e \in Callers PROVE CallerCopies(e)'
    <3>1. CASE e = c
      BY <1>2, <3>1
    <3>2. CASE e # c
      <4>1. CallerLocks(e) /\ CallerCopies(e) /\ caller'[e] = caller[e]
        BY <1>0, <1>2, <3>2 DEF Locks, Copies, CallerIs
      <4>2. caller[e].at = "copied" => \A u \in caller[e].from : entries'[u] = entries[u]
        BY <1>0, <1>2, <3>2, <4>1 DEF CallerLocks
      <4>3. caller[e].at = "reading" => total' = total
        BY <1>s, <1>2, <3>2, <4>1 DEF CallerLocks
      <4> QED BY <4>1, <4>2, <4>3 DEF CallerCopies
    <3> QED BY <3>1, <3>2
  <2> QED BY <2>1, <2>2 DEF Copies
<1>3. ASSUME NEW t \in Threads, GetCollector(t) PROVE Copies'
  <2>1. ThreadIs(t, "up", thread[t].index, thread[t].name, thread[t].hits, thread[t].carried)
    BY <1>0, <1>3, ThreadSteps
  <2>2. thread[t].at = "new" /\ UNCHANGED <<caller, total, entries>>
    BY <1>3 DEF GetCollector
  <2>3. ThreadCopies(t)'
    BY <1>0, <2>1, <2>2 DEF ThreadIs, Copies, ThreadCopies
  <2> QED BY <1>1, <2>1, <2>2, <2>3
<1>4. ASSUME NEW t \in Threads, Report(t) PROVE Copies'
  <2>1. ThreadIs(t, thread[t].at, thread[t].index, thread[t].name, thread[t].hits + 1, thread[t].carried)
    BY <1>0, <1>4, ThreadSteps
  <2>0. PICK h \in Hits : \/ /\ mutex[t] = Nobody
                            /\ entries' = [entries EXCEPT ![t] = [entries[t] EXCEPT ![h] = entries[t][h] + 1]]
                         \/ entries' = entries
    BY <1>0, <1>4, ReportFacts
  <2>2. /\ thread[t].at = "up" /\ UNCHANGED <<caller, total>>
        /\ \A u \in Threads \ {t} : entries'[u] = entries[u]
        /\ entries' = entries \/ mutex[t] = Nobody
    BY <1>0, <1>4, <2>0 DEF Report
  <2>3. ThreadCopies(t)'
    BY <1>0, <2>1, <2>2 DEF ThreadIs, Copies, ThreadCopies
  <2> QED BY <1>1, <2>1, <2>2, <2>3
<1>5. ASSUME NEW t \in Threads, (\E n \in Names : FindSection(t, n)) \/ MakeSection(t) PROVE Copies'
  <2>1. PICK n \in Names : SectionStep(t, n)
    BY <1>0, <1>5, SectionSteps
  <2>2. UNCHANGED <<caller, total, entries>>
    BY <1>5 DEF FindSection, MakeSection
  <2>3. PICK s, i, N, k, d : ThreadIs(t, s, i, N, k, d) /\ d = thread[t].carried /\ s \in {"up", "missing"}
    BY <2>1 DEF SectionStep
  <2>4. thread[t].at \in {"up", "numbered"}
    BY <2>1 DEF SectionStep
  <2>5. ThreadCopies(t)'
    BY <1>0, <2>2, <2>3, <2>4 DEF ThreadIs, Copies, ThreadCopies
  <2> QED BY <1>1, <2>2, <2>3, <2>5
<1>6. ASSUME NEW t \in Threads, TakeIndex(t) PROVE Copies'
  <2>1. ThreadIs(t, "numbered", nextIndex, thread[t].name, thread[t].hits, thread[t].carried)
    BY <1>0, <1>6, ThreadSteps
  <2>2. thread[t].at = "missing" /\ UNCHANGED <<caller, total, entries>>
    BY <1>6 DEF TakeIndex
  <2>3. ThreadCopies(t)'
    BY <1>0, <2>1, <2>2 DEF ThreadIs, Copies, ThreadCopies
  <2> QED BY <1>1, <2>1, <2>2, <2>3
<1>7. ASSUME NEW t \in Threads, ExitCopy(t) PROVE Copies'
  <2>1. ThreadIs(t, "copied", kMainIndex, {}, thread[t].hits, entries[t])
    BY <1>0, <1>7, ThreadSteps
  <2>2. UNCHANGED <<caller, total, entries>>
    BY <1>7 DEF ExitCopy, CopyOf
  <2>3. ThreadCopies(t)'
    BY <2>1, <2>2 DEF ThreadIs, ThreadCopies
  <2> QED BY <1>1, <2>1, <2>2, <2>3
<1>8. ASSUME NEW t \in Threads, ExitClear(t) PROVE Copies'
  <2>1. ThreadIs(t, "collected", thread[t].index, thread[t].name, thread[t].hits, thread[t].carried)
    BY <1>0, <1>8, ThreadSteps
  <2>2. thread[t].at = "copied" /\ entries' = [entries EXCEPT ![t] = NoData] /\ UNCHANGED <<caller, total>>
    BY <1>8 DEF ExitClear, Clear
  <2>3. mutex[t] = t
    BY <1>0, <2>2 DEF Locks
  <2>4. ThreadCopies(t)'
    BY <1>0, <2>1, <2>2 DEF ThreadIs, ThreadCopies
  <2> QED BY <1>0, <1>1, <2>1, <2>2, <2>3, <2>4
<1>9. ASSUME NEW t \in Threads, ExitMerge(t) PROVE Copies'
  <2>1. ThreadIs(t, "merged", thread[t].index, thread[t].name, thread[t].hits, NoData)
    BY <1>0, <1>9, ThreadSteps
  <2>2. thread[t].at = "collected" /\ totalMtx = Nobody /\ UNCHANGED <<caller, entries>>
    BY <1>9 DEF ExitMerge, MergeToTotal
  <2>3. ThreadCopies(t)'
    BY <1>0, <2>1, <2>2 DEF ThreadIs, Copies, ThreadCopies
  <2> QED BY <1>1, <2>1, <2>2, <2>3
<1>10. ASSUME NEW t \in Threads, ExitErase(t) PROVE Copies'
  <2>1. ThreadIs(t, "gone", thread[t].index, thread[t].name, thread[t].hits, thread[t].carried)
    BY <1>0, <1>10, ThreadSteps
  <2>2. thread[t].at = "merged" /\ UNCHANGED <<caller, total, entries>>
    BY <1>10 DEF ExitErase
  <2>3. ThreadCopies(t)'
    BY <1>0, <2>1, <2>2 DEF ThreadIs, Copies, ThreadCopies
  <2> QED BY <1>1, <2>1, <2>2, <2>3
<1>11. ASSUME NEW c \in Callers, NEW clear \in BOOLEAN, BeginFlush(c, clear) PROVE Copies'
  <2>1. CallerIs(c, "flushing", clear, collectors, caller[c].from, caller[c].carried)
    BY <1>0, <1>11, CallerSteps
  <2> QED BY <1>2, <1>11, <2>1 DEF BeginFlush, CallerIs, CallerCopies
<1>12. ASSUME NEW c \in Callers, NEW t \in Threads, FlushCopy(c, t) PROVE Copies'
  <2>1. CallerIs(c, "copied", caller[c].clear, caller[c].todo, {t}, entries[t])
    BY <1>0, <1>12, CallerSteps
  <2>2. UNCHANGED <<entries, total, thread>>
    BY <1>12 DEF FlushCopy, CopyOf
  <2>3. CallerCopies(c)'
    BY <2>1, <2>2 DEF CallerIs, CallerCopies
  <2> QED BY <1>2, <2>1, <2>2, <2>3
<1>13. ASSUME NEW c \in Callers, FlushClear(c) PROVE Copies'
  <2>1. CallerIs(c, "collected", caller[c].clear, caller[c].todo, caller[c].from, caller[c].carried)
    BY <1>0, <1>13, CallerSteps
  <2>2. PICK t \in caller[c].from : entries' = [entries EXCEPT ![t] = NoData]
    BY <1>13 DEF FlushClear, Clear
  <2>3. caller[c].at = "copied" /\ UNCHANGED <<total, thread>>
    BY <1>13 DEF FlushClear
  <2>4. mutex[t] = c /\ t \in Threads
    BY <1>0, <2>2, <2>3 DEF Locks, CallerLocks
  <2>5. \A u \in Threads : entries'[u] = entries[u] \/ (mutex[u] = c /\ entries'[u] = NoData)
    BY <1>0, <2>2, <2>4
  <2>6. CallerCopies(c)'
    BY <2>1 DEF CallerIs, CallerCopies
  <2> QED BY <1>2, <2>1, <2>3, <2>5, <2>6
<1>14. ASSUME NEW c \in Callers, FlushMerge(c) PROVE Copies'
  <2>1. CallerIs(c, "flushing", caller[c].clear, caller[c].todo \ caller[c].from, {}, NoData)
    BY <1>0, <1>14, CallerSteps
  <2>2. totalMtx = Nobody /\ UNCHANGED <<entries, thread>>
    BY <1>14 DEF FlushMerge, MergeToTotal
  <2>3. CallerCopies(c)'
    BY <2>1 DEF CallerIs, CallerCopies
  <2> QED BY <1>2, <2>1, <2>2, <2>3
<1>15. ASSUME NEW c \in Callers, EndFlush(c) PROVE Copies'
  <2>1. CallerIs(c, "flushed", caller[c].clear, caller[c].todo, caller[c].from, caller[c].carried)
    BY <1>0, <1>15, CallerSteps
  <2>2. CallerCopies(c)'
    BY <2>1 DEF CallerIs, CallerCopies
  <2> QED BY <1>2, <1>15, <2>1, <2>2 DEF EndFlush
<1>16. ASSUME NEW c \in Callers, TotalCopy(c) PROVE Copies'
  <2>1. CallerIs(c, "reading", caller[c].clear, caller[c].todo, caller[c].from, total)
    BY <1>0, <1>16, CallerSteps
  <2>2. UNCHANGED <<entries, total, thread>>
    BY <1>16 DEF TotalCopy
  <2>3. CallerCopies(c)'
    BY <2>1, <2>2 DEF CallerIs, CallerCopies
  <2> QED BY <1>2, <2>1, <2>2, <2>3
<1>17. ASSUME NEW c \in Callers, TotalClear(c) PROVE Copies'
  <2>1. CallerIs(c, "done", caller[c].clear, caller[c].todo, caller[c].from, caller[c].carried)
    BY <1>0, <1>17, CallerSteps
  <2>2. caller[c].at = "reading" /\ UNCHANGED <<entries, thread>>
    BY <1>17 DEF TotalClear
  <2>3. totalMtx = c
    BY <1>0, <2>2 DEF Locks, CallerLocks
  <2>4. CallerCopies(c)'
    BY <2>1 DEF CallerIs, CallerCopies
  <2> QED BY <1>2, <2>1, <2>2, <2>3, <2>4
<1>18. ASSUME NEW c \in Callers, Drop(c) PROVE Copies'
  <2>1. CallerIs(c, "idle", caller[c].clear, caller[c].todo, caller[c].from, NoData)
    BY <1>0, <1>18, CallerSteps
  <2>2. CallerCopies(c)'
    BY <2>1 DEF CallerIs, CallerCopies
  <2> QED BY <1>2, <1>18, <2>1, <2>2 DEF Drop
<1>19. ASSUME UNCHANGED vars PROVE Copies'
  BY <1>0, <1>19 DEF vars, Copies, ThreadCopies, CallerCopies
<1> QED BY <1>3, <1>4, <1>5, <1>6, <1>7, <1>8, <1>9, <1>10, <1>11, <1>12, <1>13, <1>14, <1>15, <1>16, <1>17, <1>18, <1>19
     DEF Next, ThreadNext, CallerNext

-----------------------------------------------------------------------------
(* The sections and their indices.                                         *)

\* The index a thread was given for a name.
Handed(t) ==
  \A n \in Names : thread[t].at = "up" /\ thread[t].name = {n} =>
    \/ thread[t].index = subsections[n]
    \/ thread[t].index = kEmptyCollectorIndex /\ nextIndex > kMaxCapacity

NamesApart == \A m, n \in Names : subsections[m] = subsections[n] /\ subsections[m] # NoIndex => m = n

Sections == Started /\ Fresh /\ Numbers /\ Indexed /\ NamesApart /\ \A t \in Threads : Handed(t)

(* A step of the sections keeps what is said of them.                      *)
LEMMA SectionsKept ==
  ASSUME IInv, NEW t \in Threads, NEW n \in Names, SectionStep(t, n), accepted' = accepted
  PROVE  Sections'
<1>0. /\ nextIndex \in Nat /\ subsections \in [Names -> 0 .. NoIndex] /\ nextIndex' = nextIndex
      /\ accepted \in [Hits -> 0 .. NoIndex]
      /\ \A u \in Threads : thread[u].at = "up" => thread[u].index \in 0 .. kMaxCapacity - 1
      /\ \A u \in Threads : thread[u].index \in Nat
      /\ Started /\ Fresh /\ Numbers /\ Indexed /\ NamesApart /\ \A u \in Threads : Handed(u)
  BY DEF IInv, TypeOK, Shapes, OneSectionPerName, NamesApart, Handed, SectionStep
<1>s. kMaxCapacity \in Nat /\ kMaxCapacity > 1 /\ kEmptyCollectorIndex = 0 /\ kMainIndex = 1 /\ NoIndex = kMaxCapacity
  BY Setting
<1>1. PICK s, i, N, d : /\ ThreadIs(t, s, i, N, thread[t].hits, d) /\ s \in {"up", "missing"}
                        /\ N = {n} /\ i \in Nat
                        /\ s = "up" => \/ i = subsections'[n] /\ subsections'[n] # NoIndex
                                       \/ i = kEmptyCollectorIndex /\ nextIndex > kMaxCapacity
                        /\ s = "missing" => thread[t].at = "up" /\ i = thread[t].index
  <2>1. CASE thread[t].at = "up"
    <3>1. CASE subsections[n] # NoIndex /\ ThreadIs(t, "up", subsections[n], {n}, thread[t].hits, thread[t].carried)
      BY <1>0, <2>1, <3>1 DEF SectionStep
    <3>2. CASE ThreadIs(t, "missing", thread[t].index, {n}, thread[t].hits, thread[t].carried)
      BY <1>0, <2>1, <3>2 DEF SectionStep
    <3> QED BY <2>1, <3>1, <3>2 DEF SectionStep
  <2>2. CASE thread[t].at = "numbered"
    <3>1. thread[t].index \in 2 .. nextIndex - 1 /\ thread[t].name = {n}
      BY <1>0, <2>2 DEF Numbers, ThreadNumbers, SectionStep
    <3>2. CASE /\ thread[t].index >= kMaxCapacity /\ subsections' = subsections
               /\ ThreadIs(t, "up", kEmptyCollectorIndex, thread[t].name, thread[t].hits, thread[t].carried)
      <4>1. nextIndex > kMaxCapacity
        BY <1>0, <1>s, <3>1, <3>2
      <4> QED BY <1>s, <3>1, <3>2, <4>1
    <3>3. CASE /\ thread[t].index < kMaxCapacity /\ subsections[n] = NoIndex
               /\ subsections' = [subsections EXCEPT ![n] = thread[t].index]
               /\ ThreadIs(t, "up", thread[t].index, thread[t].name, thread[t].hits, thread[t].carried)
      <4>1. subsections'[n] = thread[t].index /\ subsections'[n] # NoIndex
        BY <1>0, <1>s, <3>3
      <4> QED BY <1>0, <3>1, <3>3, <4>1
    <3>4. CASE /\ thread[t].index < kMaxCapacity /\ subsections[n] # NoIndex /\ subsections' = subsections
               /\ ThreadIs(t, "up", subsections[n], thread[t].name, thread[t].hits, thread[t].carried)
      BY <1>0, <3>1, <3>4
    <3> QED BY <2>2, <3>2, <3>3, <3>4 DEF SectionStep
  <2> QED BY <2>1, <2>2 DEF SectionStep
<1>2. /\ \A u \in Threads : u # t => thread'[u] = thread[u]
      /\ thread'[t].at = s /\ thread'[t].index = i /\ thread'[t].name = {n} /\ thread'[t].hits = thread[t].hits
  BY <1>1 DEF ThreadIs
<1>3. \/ subsections' = subsections
      \/ /\ thread[t].at = "numbered" /\ thread[t].index < kMaxCapacity /\ subsections[n] = NoIndex
         /\ subsections' = [subsections EXCEPT ![n] = thread[t].index]
  BY DEF SectionStep
<1>4. \A m \in Names : \/ subsections'[m] = subsections[m]
                       \/ /\ m = n /\ subsections[n] = NoIndex /\ thread[t].at = "numbered"
                          /\ subsections'[n] = thread[t].index /\ thread[t].index < kMaxCapacity
  BY <1>0, <1>3
<1> DEFINE Later(k) == k \in {kEmptyCollectorIndex, kMainIndex} \/ \E m \in Names : k = subsections'[m]
<1>5. \A k : Known(k) /\ k # NoIndex => Later(k)
  BY <1>0, <1>4 DEF Known
<1>6. Started'
  BY <1>0, <1>1, <1>2 DEF Started
<1>7. Fresh'
  <2>1. \A u \in Threads : thread'[u].hits = thread[u].hits
    BY <1>2
  <2>2. \A h \in Hits : h[1] \in Threads
    BY DEF Hits
  <2> QED BY <1>0, <2>1, <2>2 DEF Fresh
<1>8. Numbers'
  <2>1. \A m \in Names : subsections'[m] # NoIndex => subsections'[m] \in 2 .. nextIndex - 1
    BY <1>0, <1>4 DEF Numbers, ThreadNumbers
  <2>2. ASSUME NEW u \in Threads PROVE ThreadNumbers(u)'
    <3>1. CASE u = t
      BY <1>1, <1>2, <3>1 DEF ThreadNumbers
    <3>2. CASE u # t
      <4>1. ThreadNumbers(u) /\ thread'[u] = thread[u]
        BY <1>0, <1>2, <3>2 DEF Numbers
      <4>2. ASSUME thread[u].at = "numbered" PROVE \A m \in Names : subsections'[m] # thread[u].index \/ subsections'[m] = NoIndex
        BY <1>4, <3>2, <4>1, <4>2 DEF ThreadNumbers
      <4>3. ASSUME thread[u].at = "numbered", NEW w \in Threads, w # u, thread'[w].at = "numbered"
            PROVE  thread'[w].index # thread[u].index
        BY <1>1, <1>2, <4>1, <4>3 DEF ThreadNumbers
      <4> QED BY <1>0, <4>1, <4>2, <4>3 DEF ThreadNumbers
    <3> QED BY <3>1, <3>2
  <2> QED BY <1>0, <2>1, <2>2 DEF Numbers
<1>9. Indexed'
  <2>1. ASSUME NEW u \in Threads, thread'[u].at = "up" PROVE Later(thread'[u].index)
    <3>1. CASE u = t
      BY <1>1, <1>2, <2>1, <3>1
    <3>2. CASE u # t
      <4>1. Known(thread[u].index) /\ thread'[u] = thread[u] /\ thread[u].index # NoIndex
        BY <1>0, <1>s, <1>2, <2>1, <3>2 DEF Indexed
      <4> QED BY <1>5, <4>1
    <3> QED BY <3>1, <3>2
  <2>2. ASSUME NEW h \in Hits, accepted[h] # NoIndex PROVE Later(accepted[h])
    BY <1>0, <1>5, <2>2 DEF Indexed
  <2> QED BY <2>1, <2>2 DEF Indexed, Known
<1>10. NamesApart'
  BY <1>0, <1>s, <1>4 DEF NamesApart, Numbers, ThreadNumbers
<1>11. ASSUME NEW u \in Threads PROVE Handed(u)'
  <2>1. CASE u = t
    BY <1>0, <1>1, <1>2, <2>1 DEF Handed
  <2>2. CASE u # t
    BY <1>0, <1>s, <1>2, <1>4, <2>2 DEF Handed
  <2> QED BY <2>1, <2>2
<1> QED BY <1>6, <1>7, <1>8, <1>9, <1>10, <1>11 DEF Sections

(* Every other step keeps it too.                                          *)
LEMMA SectionsStep == IInv /\ [Next]_vars => Sections'
<1> SUFFICES ASSUME IInv, [Next]_vars
             PROVE  Sections'
  OBVIOUS
<1>0. /\ nextIndex \in Nat /\ accepted \in [Hits -> 0 .. NoIndex]
      /\ \A u \in Threads : thread[u].at = "up" => thread[u].index \in 0 .. kMaxCapacity - 1
      /\ \A u \in Threads : thread[u].hits \in Nat
      /\ Started /\ Fresh /\ Numbers /\ Indexed /\ NamesApart /\ \A u \in Threads : Handed(u)
      /\ TypeOK /\ Shapes
      /\ \A h \in Hits : h[1] \in Threads
  BY Setting DEF IInv, TypeOK, Shapes, OneSectionPerName, NamesApart, Handed, Hits
<1>s. kMaxCapacity \in Nat /\ kMaxCapacity > 1 /\ kEmptyCollectorIndex = 0 /\ kMainIndex = 1 /\ NoIndex = kMaxCapacity
  BY Setting
<1> USE DEF sectionVars, listVars, entryVars, totalVars
<1>1. ASSUME UNCHANGED <<sectionVars, thread, accepted>> PROVE Sections'
  <2>1. Started' /\ Fresh'
    BY <1>0, <1>1 DEF Started, Fresh
  <2>2. Numbers'
    BY <1>0, <1>1 DEF Numbers, ThreadNumbers
  <2>3. Indexed'
    BY <1>0, <1>1 DEF Indexed, Known
  <2>4. NamesApart' /\ \A u \in Threads : Handed(u)'
    BY <1>0, <1>1 DEF NamesApart, Handed
  <2> QED BY <2>1, <2>2, <2>3, <2>4 DEF Sections
<1>2. ASSUME NEW t \in Threads, NEW s, NEW i, NEW N, NEW n \in Nat, NEW d, ThreadIs(t, s, i, N, n, d),
             UNCHANGED sectionVars, s \notin {"new", "missing", "numbered"}, n >= thread[t].hits,
             \/ i = thread[t].index /\ N = thread[t].name
             \/ i = kMainIndex /\ N = {} /\ s # "up",
             s = "up" => thread[t].at = "up" \/ (i = kMainIndex /\ N = {}),
             \A h \in Hits : \/ accepted'[h] = accepted[h]
                             \/ Known(accepted'[h]) /\ h[1] = t /\ h[2] = n
      PROVE  Sections'
  <2>1. /\ \A u \in Threads : u # t => thread'[u] = thread[u]
        /\ thread'[t].at = s /\ thread'[t].index = i /\ thread'[t].name = N /\ thread'[t].hits = n
    BY <1>2 DEF ThreadIs
  <2>2. Started'
    BY <1>0, <1>2, <2>1 DEF Started
  <2>3. Fresh'
    <3>1. \A u \in Threads : thread'[u].hits >= thread[u].hits
      BY <1>0, <1>2, <2>1
    <3>2. ASSUME NEW h \in Hits, accepted'[h] # NoIndex PROVE h[2] <= thread'[h[1]].hits
      <4>1. h[2] \in Nat
        BY Setting DEF Hits
      <4>2. CASE accepted'[h] = accepted[h]
        <5>1. h[2] <= thread[h[1]].hits /\ thread'[h[1]].hits \in Nat
          BY <1>0, <1>2, <2>1, <3>2, <4>2 DEF Fresh
        <5> QED BY <1>0, <3>1, <4>1, <5>1
      <4>3. CASE h[1] = t /\ h[2] = n
        BY <1>2, <2>1, <4>3
      <4> QED BY <1>2, <4>2, <4>3
    <3> QED BY <3>2 DEF Fresh
  <2>4. Numbers'
    <3>1. ASSUME NEW u \in Threads PROVE ThreadNumbers(u)'
      <4>1. CASE u = t
        <5>1. ThreadNumbers(t)
          BY <1>0 DEF Numbers
        <5> QED BY <1>2, <2>1, <4>1, <5>1 DEF ThreadNumbers
      <4>2. CASE u # t
        <5>1. ThreadNumbers(u) /\ thread'[u] = thread[u]
          BY <1>0, <2>1, <4>2 DEF Numbers
        <5> QED BY <1>2, <2>1, <5>1 DEF ThreadNumbers
      <4> QED BY <4>1, <4>2
    <3> QED BY <1>0, <1>2, <3>1 DEF Numbers
  <2>5. Indexed'
    <3>1. \A k : Known(k) => (k \in {kEmptyCollectorIndex, kMainIndex} \/ \E m \in Names : k = subsections'[m])
      BY <1>2 DEF Known
    <3>2. ASSUME NEW u \in Threads, thread'[u].at = "up" PROVE Known(thread'[u].index)
      BY <1>0, <1>2, <2>1, <3>2 DEF Indexed, Known
    <3>3. ASSUME NEW h \in Hits, accepted'[h] # NoIndex PROVE Known(accepted'[h])
      BY <1>0, <1>2, <3>3 DEF Indexed
    <3> QED BY <3>1, <3>2, <3>3 DEF Indexed, Known
  <2>6. NamesApart'
    BY <1>0, <1>2 DEF NamesApart
  <2>7. ASSUME NEW u \in Threads PROVE Handed(u)'
    <3>1. CASE u = t
      BY <1>0, <1>2, <2>1, <3>1 DEF Handed
    <3>2. CASE u # t
      BY <1>0, <1>2, <2>1, <3>2 DEF Handed
    <3> QED BY <3>1, <3>2
  <2> QED BY <2>2, <2>3, <2>4, <2>5, <2>6, <2>7 DEF Sections
<1>3. ASSUME NEW t \in Threads, GetCollector(t) PROVE Sections'
  <2>1. ThreadIs(t, "up", thread[t].index, thread[t].name, thread[t].hits, thread[t].carried)
    BY <1>0, <1>3, ThreadSteps
  <2>2. UNCHANGED <<sectionVars, accepted>> /\ thread[t].index = kMainIndex /\ thread[t].name = {}
    BY <1>0, <1>3 DEF GetCollector, Started
  <2>3. thread[t].hits \in Nat /\ \A h \in Hits : accepted'[h] = accepted[h]
    BY <1>0, <2>2
  <2>4. PICK n \in Nat : n = thread[t].hits
    BY <2>3
  <2>6. n >= thread[t].hits
    BY <2>4
  <2>7. ThreadIs(t, "up", kMainIndex, {}, n, thread[t].carried)
    BY <2>1, <2>2, <2>4
  <2>5. "up" \notin {"new", "missing", "numbered"}
    OBVIOUS
  <2> QED BY <1>2, <2>2, <2>3, <2>5, <2>6, <2>7
<1>4. ASSUME NEW t \in Threads, Report(t) PROVE Sections'
  <2>1. ThreadIs(t, "up", thread[t].index, thread[t].name, thread[t].hits + 1, thread[t].carried)
    BY <1>0, <1>4, ThreadSteps DEF Report
  <2>2. PICK h \in Hits : /\ h[1] = t /\ h[2] = thread[t].hits + 1
                          /\ \/ accepted' = [accepted EXCEPT ![h] = thread[t].index]
                             \/ accepted' = accepted
    BY <1>0, <1>4, ReportFacts
  <2>3. UNCHANGED sectionVars /\ thread[t].at = "up" /\ Known(thread[t].index)
    BY <1>0, <1>4 DEF Report, Indexed
  <2>4. \A g \in Hits : \/ accepted'[g] = accepted[g]
                        \/ Known(accepted'[g]) /\ g[1] = t /\ g[2] = thread[t].hits + 1
    <3>1. ASSUME NEW g \in Hits PROVE accepted'[g] = accepted[g] \/ (g = h /\ accepted'[g] = thread[t].index)
      BY <1>0, <2>2
    <3> QED BY <2>2, <2>3, <3>1
  <2>5. thread[t].hits + 1 \in Nat /\ thread[t].hits + 1 >= thread[t].hits
    BY <1>0
  <2> QED BY <1>2, <2>1, <2>3, <2>4, <2>5
<1>5. ASSUME NEW t \in Threads, (\E n \in Names : FindSection(t, n)) \/ MakeSection(t) PROVE Sections'
  <2>1. PICK n \in Names : SectionStep(t, n)
    BY <1>0, <1>5, SectionSteps
  <2>2. accepted' = accepted
    BY <1>5 DEF FindSection, MakeSection
  <2> QED BY <2>1, <2>2, SectionsKept
<1>6. ASSUME NEW t \in Threads, TakeIndex(t) PROVE Sections'
  <2>1. ThreadIs(t, "numbered", nextIndex, thread[t].name, thread[t].hits, thread[t].carried)
    BY <1>0, <1>6, ThreadSteps
  <2>2. thread[t].at = "missing" /\ nextIndex' = nextIndex + 1 /\ subsections' = subsections /\ accepted' = accepted
    BY <1>6 DEF TakeIndex
  <2>3. /\ \A u \in Threads : u # t => thread'[u] = thread[u]
        /\ thread'[t].at = "numbered" /\ thread'[t].index = nextIndex /\ thread'[t].name = thread[t].name
        /\ thread'[t].hits = thread[t].hits
    BY <2>1 DEF ThreadIs
  <2>4. Started'
    BY <1>0, <2>3 DEF Started
  <2>5. Fresh'
    <3>1. \A u \in Threads : thread'[u].hits = thread[u].hits
      BY <2>3
    <3> QED BY <1>0, <2>2, <3>1 DEF Fresh
  <2>6. Numbers'
    <3>1. nextIndex >= 2 /\ \A m \in Names : subsections[m] # NoIndex => subsections[m] \in 2 .. nextIndex - 1
      BY <1>0 DEF Numbers
    <3>2. ASSUME NEW u \in Threads PROVE ThreadNumbers(u)'
      <4>1. CASE u = t
        <5>1. ThreadNumbers(t)
          BY <1>0 DEF Numbers
        <5>2. ASSUME NEW w \in Threads, w # t, thread'[w].at = "numbered" PROVE thread'[w].index # nextIndex
          <6>1. ThreadNumbers(w) /\ thread'[w] = thread[w]
            BY <1>0, <2>3, <5>2 DEF Numbers
          <6> QED BY <1>0, <5>2, <6>1 DEF ThreadNumbers
        <5>3. \A m \in Names : subsections[m] # nextIndex \/ subsections[m] = NoIndex
          BY <1>0, <3>1
        <5>4. nextIndex \in 2 .. nextIndex' - 1
          BY <1>0, <2>2, <3>1
        <5> QED BY <2>2, <2>3, <4>1, <5>1, <5>2, <5>3, <5>4 DEF ThreadNumbers
      <4>2. CASE u # t
        <5>1. ThreadNumbers(u) /\ thread'[u] = thread[u]
          BY <1>0, <2>3, <4>2 DEF Numbers
        <5>2. thread[u].at = "numbered" => /\ thread[u].index \in 2 .. nextIndex - 1
                                          /\ thread[u].index \in 2 .. nextIndex' - 1 /\ thread[u].index # nextIndex
          BY <1>0, <2>2, <5>1 DEF ThreadNumbers
        <5>3. ASSUME thread[u].at = "numbered", NEW w \in Threads, w # u, thread'[w].at = "numbered"
              PROVE  thread'[w].index # thread[u].index
          BY <2>3, <5>1, <5>2, <5>3 DEF ThreadNumbers
        <5> QED BY <2>2, <5>1, <5>2, <5>3 DEF ThreadNumbers
      <4> QED BY <4>1, <4>2
    <3>3. nextIndex' >= 2 /\ \A m \in Names : subsections'[m] # NoIndex => subsections'[m] \in 2 .. nextIndex' - 1
      BY <1>0, <2>2, <3>1
    <3> QED BY <3>2, <3>3 DEF Numbers
  <2>7. Indexed'
    <3>1. \A u \in Threads : thread'[u].at = "up" => thread'[u] = thread[u]
      BY <2>3
    <3> QED BY <1>0, <2>2, <3>1 DEF Indexed, Known
  <2>8. NamesApart'
    BY <1>0, <2>2 DEF NamesApart
  <2>9. ASSUME NEW u \in Threads PROVE Handed(u)'
    <3>1. thread'[u].at = "up" => thread'[u] = thread[u]
      BY <2>3
    <3>2. nextIndex > kMaxCapacity => nextIndex' > kMaxCapacity
      BY <1>0, <1>s, <2>2
    <3> QED BY <1>0, <2>2, <3>1, <3>2 DEF Handed
  <2> QED BY <2>4, <2>5, <2>6, <2>7, <2>8, <2>9 DEF Sections
<1>7. ASSUME NEW t \in Threads, ExitCopy(t) PROVE Sections'
  <2>1. ThreadIs(t, "copied", kMainIndex, {}, thread[t].hits, entries[t])
    BY <1>0, <1>7, ThreadSteps
  <2>2. UNCHANGED <<sectionVars, accepted>> /\ thread[t].hits \in Nat
    BY <1>0, <1>7 DEF ExitCopy
  <2> QED BY <1>2, <2>1, <2>2
<1>8. ASSUME NEW t \in Threads, ExitClear(t) PROVE Sections'
  <2>1. ThreadIs(t, "collected", thread[t].index, thread[t].name, thread[t].hits, thread[t].carried)
    BY <1>0, <1>8, ThreadSteps
  <2>2. UNCHANGED <<sectionVars, accepted>> /\ thread[t].hits \in Nat
    BY <1>0, <1>8 DEF ExitClear
  <2> QED BY <1>2, <2>1, <2>2
<1>9. ASSUME NEW t \in Threads, ExitMerge(t) PROVE Sections'
  <2>1. ThreadIs(t, "merged", thread[t].index, thread[t].name, thread[t].hits, NoData)
    BY <1>0, <1>9, ThreadSteps
  <2>2. UNCHANGED <<sectionVars, accepted>> /\ thread[t].hits \in Nat
    BY <1>0, <1>9 DEF ExitMerge
  <2> QED BY <1>2, <2>1, <2>2
<1>10. ASSUME NEW t \in Threads, ExitErase(t) PROVE Sections'
  <2>1. ThreadIs(t, "gone", thread[t].index, thread[t].name, thread[t].hits, thread[t].carried)
    BY <1>0, <1>10, ThreadSteps
  <2>2. UNCHANGED <<sectionVars, accepted>> /\ thread[t].hits \in Nat
    BY <1>0, <1>10 DEF ExitErase
  <2> QED BY <1>2, <2>1, <2>2
<1>11. ASSUME NEW c \in Callers, CallerNext(c) PROVE Sections'
  <2>1. UNCHANGED <<sectionVars, thread, accepted>>
    BY <1>11 DEF CallerNext, BeginFlush, FlushCopy, FlushClear, FlushMerge, EndFlush, TotalCopy, TotalClear, Drop
  <2> QED BY <1>1, <2>1
<1>12. ASSUME UNCHANGED vars PROVE Sections'
  BY <1>1, <1>12 DEF vars
<1> QED BY <1>3, <1>4, <1>5, <1>6, <1>7, <1>8, <1>9, <1>10, <1>11, <1>12 DEF Next, ThreadNext

-----------------------------------------------------------------------------
(* Where a hit is counted.                                                 *)
Collector(t) == <<"collector", t>>
Exit(t) == <<"exit", t>>
InReport(c) == <<"report", c>>
InTotal == <<"total", Nobody>>
InCleared == <<"cleared", Nobody>>

(* The places a hit can be in.                                             *)
LEMMA PlacesFacts ==
  /\ \A t \in Threads : Collector(t) \in Places /\ Exit(t) \in Places
  /\ \A c \in Callers : InReport(c) \in Places
  /\ InTotal \in Places /\ InCleared \in Places
  /\ \A p \in Places : \/ \E t \in Threads : p = Collector(t) \/ p = Exit(t)
                       \/ \E c \in Callers : p = InReport(c)
                       \/ p = InTotal \/ p = InCleared
BY DEF Places, Collector, Exit, InReport, InTotal, InCleared

\* What somebody who has collected carries.
Carries(r, h) == IF r.at = "collected" THEN r.carried[h] ELSE 0

(* How often a hit is counted in each place.                               *)
LEMMA Counts ==
  ASSUME NEW h \in Hits
  PROVE  /\ TimesCounted(h) = [p \in Places |-> TimesCounted(h)[p]]
         /\ \A t \in Threads : TimesCounted(h)[Collector(t)] = entries[t][h]
         /\ \A t \in Threads : TimesCounted(h)[Exit(t)] = Carries(thread[t], h)
         /\ \A c \in Callers : TimesCounted(h)[InReport(c)] = Carries(caller[c], h)
         /\ TimesCounted(h)[InTotal] = total[h]
         /\ TimesCounted(h)[InCleared] = cleared[h]
<1>1. TimesCounted(h) = [p \in Places |-> TimesCounted(h)[p]]
  <2> DEFINE onTheWay(p) == IF p.at = "collected" THEN p.carried[h] ELSE 0
             F(p) == CASE p[1] = "collector" -> entries[p[2]][h]
                       [] p[1] = "exit"      -> onTheWay(thread[p[2]])
                       [] p[1] = "report"    -> onTheWay(caller[p[2]])
                       [] p[1] = "total"     -> total[h]
                       [] p[1] = "cleared"   -> cleared[h]
  <2>1. TimesCounted(h) = [p \in Places |-> F(p)]
    BY Zenon DEF TimesCounted
  <2> HIDE DEF F
  <2> QED BY <2>1
<1>2. ASSUME NEW t \in Threads PROVE TimesCounted(h)[Collector(t)] = entries[t][h]
  BY PlacesFacts DEF TimesCounted, Collector
<1>3. ASSUME NEW t \in Threads PROVE TimesCounted(h)[Exit(t)] = Carries(thread[t], h)
  BY PlacesFacts DEF TimesCounted, Exit, Carries
<1>4. ASSUME NEW c \in Callers PROVE TimesCounted(h)[InReport(c)] = Carries(caller[c], h)
  BY PlacesFacts DEF TimesCounted, InReport, Carries
<1>5. TimesCounted(h)[InTotal] = total[h]
  BY PlacesFacts DEF TimesCounted, InTotal
<1>6. TimesCounted(h)[InCleared] = cleared[h]
  BY PlacesFacts DEF TimesCounted, InCleared
<1> QED BY <1>1, <1>2, <1>3, <1>4, <1>5, <1>6

(* And how often after a step.                                             *)
LEMMA CountsNext ==
  ASSUME NEW h \in Hits
  PROVE  /\ TimesCounted(h)' = [p \in Places |-> TimesCounted(h)'[p]]
         /\ \A t \in Threads : TimesCounted(h)'[Collector(t)] = entries'[t][h]
         /\ \A t \in Threads : TimesCounted(h)'[Exit(t)] = Carries(thread'[t], h)
         /\ \A c \in Callers : TimesCounted(h)'[InReport(c)] = Carries(caller'[c], h)
         /\ TimesCounted(h)'[InTotal] = total'[h]
         /\ TimesCounted(h)'[InCleared] = cleared'[h]
<1>1. TimesCounted(h)' = [p \in Places |-> TimesCounted(h)'[p]]
  <2> DEFINE onTheWay(p) == IF p.at = "collected" THEN p.carried[h] ELSE 0
             F(p) == CASE p[1] = "collector" -> entries'[p[2]][h]
                       [] p[1] = "exit"      -> onTheWay(thread'[p[2]])
                       [] p[1] = "report"    -> onTheWay(caller'[p[2]])
                       [] p[1] = "total"     -> total'[h]
                       [] p[1] = "cleared"   -> cleared'[h]
  <2>1. TimesCounted(h)' = [p \in Places |-> F(p)]
    BY Zenon DEF TimesCounted
  <2> HIDE DEF F
  <2> QED BY <2>1
<1>2. ASSUME NEW t \in Threads PROVE TimesCounted(h)'[Collector(t)] = entries'[t][h]
  BY PlacesFacts DEF TimesCounted, Collector
<1>3. ASSUME NEW t \in Threads PROVE TimesCounted(h)'[Exit(t)] = Carries(thread'[t], h)
  BY PlacesFacts DEF TimesCounted, Exit, Carries
<1>4. ASSUME NEW c \in Callers PROVE TimesCounted(h)'[InReport(c)] = Carries(caller'[c], h)
  BY PlacesFacts DEF TimesCounted, InReport, Carries
<1>5. TimesCounted(h)'[InTotal] = total'[h]
  BY PlacesFacts DEF TimesCounted, InTotal
<1>6. TimesCounted(h)'[InCleared] = cleared'[h]
  BY PlacesFacts DEF TimesCounted, InCleared
<1> QED BY <1>1, <1>2, <1>3, <1>4, <1>5, <1>6

\* Of the functions f and g on places: what f has in p moves to q.
Moves(f, g, p, q) ==
  g[p] = 0 /\ g[q] = f[p] + f[q] /\ \A r \in Places \ {p, q} : g[r] = f[r]

(* A hit that is moved is still counted once, or never.                    *)
LEMMA MovedOnce ==
  ASSUME NEW f, NEW g, NEW p \in Places, NEW q \in Places, p # q, Moves(f, g, p, q),
         g = [r \in Places |-> g[r]]
  PROVE  /\ (\A r \in Places : f[r] = 0) => \A r \in Places : g[r] = 0
         /\ (\E r \in Places : f = OnceIn(r)) => \E r \in Places : g = OnceIn(r)
<1>1. (\A r \in Places : f[r] = 0) => \A r \in Places : g[r] = 0
  BY DEF Moves
<1>2. ASSUME NEW r \in Places, f = OnceIn(r) PROVE \E x \in Places : g = OnceIn(x)
  <2>1. \A x \in Places : f[x] = IF x = r THEN 1 ELSE 0
    BY <1>2 DEF OnceIn
  <2>2. CASE r \in {p, q}
    <3>1. \A x \in Places : g[x] = IF x = q THEN 1 ELSE 0
      BY <2>1, <2>2 DEF Moves
    <3> QED BY <3>1 DEF OnceIn
  <2>3. CASE r \notin {p, q}
    <3>1. \A x \in Places : g[x] = IF x = r THEN 1 ELSE 0
      BY <2>1, <2>3 DEF Moves
    <3> QED BY <3>1 DEF OnceIn
  <2> QED BY <2>2, <2>3
<1> QED BY <1>1, <1>2

(* A hit is counted as before in the places a step does not touch.         *)
LEMMA OtherPlaces ==
  ASSUME NEW h \in Hits, NEW P,
         \A t \in Threads : Collector(t) \in P \/ entries'[t][h] = entries[t][h],
         \A t \in Threads : Exit(t) \in P \/ Carries(thread'[t], h) = Carries(thread[t], h),
         \A c \in Callers : InReport(c) \in P \/ Carries(caller'[c], h) = Carries(caller[c], h),
         InTotal \in P \/ total'[h] = total[h],
         InCleared \in P \/ cleared'[h] = cleared[h]
  PROVE  \A r \in Places \ P : TimesCounted(h)'[r] = TimesCounted(h)[r]
<1> SUFFICES ASSUME NEW r \in Places, r \notin P
             PROVE  TimesCounted(h)'[r] = TimesCounted(h)[r]
  OBVIOUS
<1>1. ASSUME NEW t \in Threads, r = Collector(t) PROVE TimesCounted(h)'[r] = TimesCounted(h)[r]
  BY <1>1, Counts, CountsNext
<1>2. ASSUME NEW t \in Threads, r = Exit(t) PROVE TimesCounted(h)'[r] = TimesCounted(h)[r]
  BY <1>2, Counts, CountsNext
<1>3. ASSUME NEW c \in Callers, r = InReport(c) PROVE TimesCounted(h)'[r] = TimesCounted(h)[r]
  BY <1>3, Counts, CountsNext
<1>4. ASSUME r = InTotal \/ r = InCleared PROVE TimesCounted(h)'[r] = TimesCounted(h)[r]
  BY <1>4, Counts, CountsNext
<1> QED BY <1>1, <1>2, <1>3, <1>4, PlacesFacts

(* A step that moves no hit.                                               *)
LEMMA OnceKept ==
  ASSUME EachHitOnce, UNCHANGED <<entries, total, cleared, accepted>>,
         \A h \in Hits : \A t \in Threads : Carries(thread'[t], h) = Carries(thread[t], h),
         \A h \in Hits : \A c \in Callers : Carries(caller'[c], h) = Carries(caller[c], h)
  PROVE  EachHitOnce'
<1>1. ASSUME NEW h \in Hits PROVE TimesCounted(h)' = TimesCounted(h)
  <2>1. \A r \in Places \ {} : TimesCounted(h)'[r] = TimesCounted(h)[r]
    BY OtherPlaces
  <2> QED BY <2>1, Counts, CountsNext
<1>2. \A h \in Hits : accepted'[h] = accepted[h]
  OBVIOUS
<1> QED BY <1>1, <1>2 DEF EachHitOnce

(* A step that moves what is counted in one place to another.              *)
LEMMA OnceMoved ==
  ASSUME EachHitOnce, accepted' = accepted, NEW p \in Places, NEW q \in Places, p # q,
         \A h \in Hits : Moves(TimesCounted(h), TimesCounted(h)', p, q)
  PROVE  EachHitOnce'
<1>1. ASSUME NEW h \in Hits
      PROVE  IF accepted'[h] = NoIndex THEN \A r \in Places : TimesCounted(h)'[r] = 0
                                      ELSE \E r \in Places : TimesCounted(h)' = OnceIn(r)
  <2>1. PICK f, g : f = TimesCounted(h) /\ g = TimesCounted(h)'
    OBVIOUS
  <2>2. Moves(f, g, p, q) /\ g = [r \in Places |-> g[r]]
    BY <2>1, CountsNext
  <2>3. IF accepted[h] = NoIndex THEN \A r \in Places : f[r] = 0
                                ELSE \E r \in Places : f = OnceIn(r)
    BY <2>1 DEF EachHitOnce
  <2>4. /\ (\A r \in Places : f[r] = 0) => \A r \in Places : g[r] = 0
        /\ (\E r \in Places : f = OnceIn(r)) => \E r \in Places : g = OnceIn(r)
    BY <2>2, MovedOnce
  <2> QED BY <2>1, <2>3, <2>4
<1> QED BY <1>1 DEF EachHitOnce, OnceIn

(* A hit is counted once.                                                  *)
LEMMA OnceStep == IInv /\ [Next]_vars => EachHitOnce'
<1> SUFFICES ASSUME IInv, [Next]_vars
             PROVE  EachHitOnce'
  OBVIOUS
<1>0. /\ TypeOK /\ Shapes /\ Numbers /\ Locks /\ Copies /\ Fresh /\ EachHitOnce
      /\ entries \in [Threads -> Data] /\ total \in Data /\ cleared \in Data
      /\ accepted \in [Hits -> 0 .. NoIndex]
      /\ \A t \in Threads : thread[t].hits \in Nat /\ thread[t].carried \in Data
      /\ \A c \in Callers : caller[c].carried \in Data /\ caller[c].from \subseteq Threads
  BY Setting DEF IInv, TypeOK, Shapes
<1>d. /\ \A h \in Hits : NoData[h] = 0
      /\ \A a, b \in Data : \A h \in Hits : Merge(a, b)[h] = a[h] + b[h]
      /\ \A a \in Data : \A h \in Hits : a[h] \in Nat
  BY DataFacts
<1> USE DEF sectionVars, listVars, entryVars, totalVars
<1>1. ASSUME NEW t \in Threads, NEW s, NEW i, NEW N, NEW n, NEW d, ThreadIs(t, s, i, N, n, d),
             UNCHANGED <<entries, total, cleared, accepted, caller>>,
             s # "collected", thread[t].at # "collected"
      PROVE  EachHitOnce'
  <2>1. \A h \in Hits : \A u \in Threads : Carries(thread'[u], h) = Carries(thread[u], h)
    BY <1>1 DEF ThreadIs, Carries
  <2> QED BY <1>0, <1>1, <2>1, OnceKept
<1>2. ASSUME NEW c \in Callers, NEW s, NEW b, NEW T, NEW F, NEW d, CallerIs(c, s, b, T, F, d),
             UNCHANGED <<entries, total, cleared, accepted, thread>>,
             s # "collected", caller[c].at # "collected"
      PROVE  EachHitOnce'
  <2>1. \A h \in Hits : \A u \in Callers : Carries(caller'[u], h) = Carries(caller[u], h)
    BY <1>2 DEF CallerIs, Carries
  <2> QED BY <1>0, <1>2, <2>1, OnceKept
<1>3. ASSUME NEW t \in Threads, GetCollector(t) PROVE EachHitOnce'
  <2>1. ThreadIs(t, "up", thread[t].index, thread[t].name, thread[t].hits, thread[t].carried)
    BY <1>0, <1>3, ThreadSteps
  <2> QED BY <1>1, <1>3, <2>1 DEF GetCollector
<1>4. ASSUME NEW t \in Threads, Report(t) PROVE EachHitOnce'
  <2>1. ThreadIs(t, "up", thread[t].index, thread[t].name, thread[t].hits + 1, thread[t].carried)
    BY <1>0, <1>4, ThreadSteps DEF Report
  <2>2. thread[t].at = "up" /\ UNCHANGED <<total, cleared, caller>>
    BY <1>4 DEF Report
  <2>3. PICK h \in Hits :
          /\ h[1] = t /\ h[2] = thread[t].hits + 1 /\ thread[t].index \in 0 .. kMaxCapacity - 1
          /\ \/ /\ entries' = [entries EXCEPT ![t] = [entries[t] EXCEPT ![h] = entries[t][h] + 1]]
                /\ accepted' = [accepted EXCEPT ![h] = thread[t].index]
             \/ entries' = entries /\ accepted' = accepted
    BY <1>0, <1>4, ReportFacts
  <2>4. CASE entries' = entries /\ accepted' = accepted
    BY <1>1, <2>1, <2>2, <2>4
  <2>5. CASE /\ entries' = [entries EXCEPT ![t] = [entries[t] EXCEPT ![h] = entries[t][h] + 1]]
             /\ accepted' = [accepted EXCEPT ![h] = thread[t].index]
    <3>1. accepted[h] = NoIndex
      BY <1>0, <2>3 DEF Fresh
    <3>2. \A r \in Places : TimesCounted(h)[r] = 0
      BY <1>0, <3>1 DEF EachHitOnce
    <3>3. \A g \in Hits : /\ \A u \in Threads : Carries(thread'[u], g) = Carries(thread[u], g)
                          /\ \A u \in Callers : Carries(caller'[u], g) = Carries(caller[u], g)
                          /\ \A u \in Threads : entries'[u][g] = IF u = t /\ g = h THEN entries[t][h] + 1 ELSE entries[u][g]
      <4>1. \A g \in Hits : \A u \in Threads : Carries(thread'[u], g) = Carries(thread[u], g)
        BY <2>1, <2>2 DEF ThreadIs, Carries
      <4>2. \A g \in Hits : \A u \in Callers : Carries(caller'[u], g) = Carries(caller[u], g)
        BY <2>2
      <4>3. ASSUME NEW g \in Hits, NEW u \in Threads
            PROVE  entries'[u][g] = IF u = t /\ g = h THEN entries[t][h] + 1 ELSE entries[u][g]
        <5>1. entries[t] \in [Hits -> Nat]
          BY <1>0 DEF Data
        <5> QED BY <1>0, <2>5, <5>1
      <4> QED BY <4>1, <4>2, <4>3
    <3>4. \A g \in Hits \ {h} : TimesCounted(g)' = TimesCounted(g) /\ accepted'[g] = accepted[g]
      <4>1. ASSUME NEW g \in Hits, g # h PROVE TimesCounted(g)' = TimesCounted(g)
        <5>1. \A r \in Places \ {} : TimesCounted(g)'[r] = TimesCounted(g)[r]
          BY <2>2, <3>3, <4>1, OtherPlaces
        <5> QED BY <5>1, Counts, CountsNext
      <4> QED BY <1>0, <2>5, <4>1
    <3>5. TimesCounted(h)' = OnceIn(Collector(t))
      <4>1. \A r \in Places \ {Collector(t)} : TimesCounted(h)'[r] = 0
        <5>1. \A u \in Threads : Collector(u) \in {Collector(t)} \/ entries'[u][h] = entries[u][h]
          BY <3>3
        <5>2. \A r \in Places \ {Collector(t)} : TimesCounted(h)'[r] = TimesCounted(h)[r]
          BY <2>2, <3>3, <5>1, OtherPlaces
        <5> QED BY <3>2, <5>2
      <4>2. TimesCounted(h)'[Collector(t)] = 1
        <5>1. entries[t][h] = 0
          BY <3>2, Counts, PlacesFacts
        <5>2. entries'[t][h] = 1
          BY <3>3, <5>1
        <5> QED BY <5>2, CountsNext
      <4>3. PICK g : g = TimesCounted(h)'
        OBVIOUS
      <4>4. g = [r \in Places |-> g[r]]
        BY <4>3, CountsNext
      <4>5. \A r \in Places : g[r] = IF r = Collector(t) THEN 1 ELSE 0
        BY <4>1, <4>2, <4>3
      <4> QED BY <4>3, <4>4, <4>5 DEF OnceIn
    <3>6. accepted'[h] # NoIndex /\ Collector(t) \in Places
      BY <1>0, <2>3, <2>5, Setting, PlacesFacts
    <3>7. ASSUME NEW g \in Hits
          PROVE  IF accepted'[g] = NoIndex THEN \A p \in Places : TimesCounted(g)'[p] = 0
                                          ELSE \E p \in Places : TimesCounted(g)' = OnceIn(p)
      <4>1. CASE g = h
        BY <3>5, <3>6, <4>1
      <4>2. CASE g # h
        <5>1. TimesCounted(g)' = TimesCounted(g) /\ accepted'[g] = accepted[g]
          BY <3>4, <4>2
        <5> QED BY <1>0, <5>1 DEF EachHitOnce
      <4> QED BY <4>1, <4>2
    <3> QED BY <3>7 DEF EachHitOnce, OnceIn
  <2> QED BY <2>3, <2>4, <2>5
<1>5. ASSUME NEW t \in Threads, (\E n \in Names : FindSection(t, n)) \/ MakeSection(t) PROVE EachHitOnce'
  <2>1. PICK n \in Names : SectionStep(t, n)
    BY <1>0, <1>5, SectionSteps
  <2>2. UNCHANGED <<entries, total, cleared, accepted, caller>>
    BY <1>5 DEF FindSection, MakeSection
  <2>3. PICK s, i, N, k, d : ThreadIs(t, s, i, N, k, d) /\ s \in {"up", "missing"}
    BY <2>1 DEF SectionStep
  <2>4. thread[t].at \in {"up", "numbered"}
    BY <2>1 DEF SectionStep
  <2> QED BY <1>1, <2>2, <2>3, <2>4
<1>6. ASSUME NEW t \in Threads, TakeIndex(t) PROVE EachHitOnce'
  <2>1. ThreadIs(t, "numbered", nextIndex, thread[t].name, thread[t].hits, thread[t].carried)
    BY <1>0, <1>6, ThreadSteps
  <2> QED BY <1>1, <1>6, <2>1 DEF TakeIndex
<1>7. ASSUME NEW t \in Threads, ExitCopy(t) PROVE EachHitOnce'
  <2>1. ThreadIs(t, "copied", kMainIndex, {}, thread[t].hits, entries[t])
    BY <1>0, <1>7, ThreadSteps
  <2> QED BY <1>1, <1>7, <2>1 DEF ExitCopy, CopyOf
<1>8. ASSUME NEW t \in Threads, ExitClear(t) PROVE EachHitOnce'
  <2>1. ThreadIs(t, "collected", thread[t].index, thread[t].name, thread[t].hits, thread[t].carried)
    BY <1>0, <1>8, ThreadSteps
  <2>2. /\ thread[t].at = "copied" /\ entries' = [entries EXCEPT ![t] = NoData]
        /\ UNCHANGED <<total, cleared, accepted, caller>>
    BY <1>8 DEF ExitClear, Clear
  <2>3. ASSUME NEW h \in Hits PROVE Moves(TimesCounted(h), TimesCounted(h)', Collector(t), Exit(t))
    <3>1. /\ entries'[t][h] = 0 /\ Carries(thread[t], h) = 0 /\ Carries(thread'[t], h) = entries[t][h]
          /\ entries[t][h] \in Nat
      BY <1>0, <1>d, <2>1, <2>2 DEF ThreadIs, Carries, Copies, ThreadCopies
    <3>2. \A u \in Threads : u # t => entries'[u][h] = entries[u][h] /\ Carries(thread'[u], h) = Carries(thread[u], h)
      BY <1>0, <2>1, <2>2 DEF ThreadIs
    <3>3. \A r \in Places \ {Collector(t), Exit(t)} : TimesCounted(h)'[r] = TimesCounted(h)[r]
      BY <2>2, <3>2, OtherPlaces
    <3>4. /\ TimesCounted(h)'[Collector(t)] = 0
          /\ TimesCounted(h)'[Exit(t)] = TimesCounted(h)[Collector(t)] + TimesCounted(h)[Exit(t)]
      BY <3>1, Counts, CountsNext
    <3> QED BY <3>3, <3>4 DEF Moves
  <2>4. Collector(t) \in Places /\ Exit(t) \in Places /\ Collector(t) # Exit(t)
    BY PlacesFacts DEF Collector, Exit
  <2> QED BY <1>0, <2>2, <2>3, <2>4, OnceMoved
<1>9. ASSUME NEW t \in Threads, ExitMerge(t) PROVE EachHitOnce'
  <2>1. ThreadIs(t, "merged", thread[t].index, thread[t].name, thread[t].hits, NoData)
    BY <1>0, <1>9, ThreadSteps
  <2>2. /\ thread[t].at = "collected" /\ total' = Merge(total, thread[t].carried)
        /\ UNCHANGED <<entries, cleared, accepted, caller>>
    BY <1>9 DEF ExitMerge, MergeToTotal
  <2>3. ASSUME NEW h \in Hits PROVE Moves(TimesCounted(h), TimesCounted(h)', Exit(t), InTotal)
    <3>1. /\ Carries(thread'[t], h) = 0 /\ total'[h] = Carries(thread[t], h) + total[h]
      BY <1>0, <1>d, <2>1, <2>2 DEF ThreadIs, Carries
    <3>2. \A u \in Threads : u # t => Carries(thread'[u], h) = Carries(thread[u], h)
      BY <2>1 DEF ThreadIs
    <3>3. \A r \in Places \ {Exit(t), InTotal} : TimesCounted(h)'[r] = TimesCounted(h)[r]
      BY <2>2, <3>2, OtherPlaces
    <3>4. /\ TimesCounted(h)'[Exit(t)] = 0
          /\ TimesCounted(h)'[InTotal] = TimesCounted(h)[Exit(t)] + TimesCounted(h)[InTotal]
      BY <3>1, Counts, CountsNext
    <3> QED BY <3>3, <3>4 DEF Moves
  <2>4. InTotal \in Places /\ Exit(t) \in Places /\ InTotal # Exit(t)
    BY PlacesFacts DEF InTotal, Exit
  <2> QED BY <1>0, <2>2, <2>3, <2>4, OnceMoved
<1>10. ASSUME NEW t \in Threads, ExitErase(t) PROVE EachHitOnce'
  <2>1. ThreadIs(t, "gone", thread[t].index, thread[t].name, thread[t].hits, thread[t].carried)
    BY <1>0, <1>10, ThreadSteps
  <2> QED BY <1>1, <1>10, <2>1 DEF ExitErase
<1>11. ASSUME NEW c \in Callers, NEW clear \in BOOLEAN, BeginFlush(c, clear) PROVE EachHitOnce'
  <2>1. CallerIs(c, "flushing", clear, collectors, caller[c].from, caller[c].carried)
    BY <1>0, <1>11, CallerSteps
  <2> QED BY <1>2, <1>11, <2>1 DEF BeginFlush
<1>12. ASSUME NEW c \in Callers, NEW t \in Threads, FlushCopy(c, t) PROVE EachHitOnce'
  <2>1. CallerIs(c, "copied", caller[c].clear, caller[c].todo, {t}, entries[t])
    BY <1>0, <1>12, CallerSteps
  <2> QED BY <1>2, <1>12, <2>1 DEF FlushCopy, CopyOf
<1>13. ASSUME NEW c \in Callers, FlushClear(c) PROVE EachHitOnce'
  <2>1. CallerIs(c, "collected", caller[c].clear, caller[c].todo, caller[c].from, caller[c].carried)
    BY <1>0, <1>13, CallerSteps
  <2>2. PICK t \in caller[c].from : entries' = [entries EXCEPT ![t] = NoData]
    BY <1>13 DEF FlushClear, Clear
  <2>3. caller[c].at = "copied" /\ UNCHANGED <<total, cleared, accepted, thread>>
    BY <1>13 DEF FlushClear
  <2>4. t \in Threads /\ caller[c].carried = entries[t]
    BY <1>0, <2>2, <2>3 DEF Copies, CallerCopies
  <2>5. ASSUME NEW h \in Hits PROVE Moves(TimesCounted(h), TimesCounted(h)', Collector(t), InReport(c))
    <3>1. /\ entries'[t][h] = 0 /\ Carries(caller[c], h) = 0 /\ Carries(caller'[c], h) = entries[t][h]
          /\ entries[t][h] \in Nat
      BY <1>0, <1>d, <2>1, <2>2, <2>3, <2>4 DEF CallerIs, Carries
    <3>2. /\ \A u \in Threads : u # t => entries'[u][h] = entries[u][h]
          /\ \A e \in Callers : e # c => Carries(caller'[e], h) = Carries(caller[e], h)
      BY <1>0, <2>1, <2>2, <2>4 DEF CallerIs
    <3>3. \A r \in Places \ {Collector(t), InReport(c)} : TimesCounted(h)'[r] = TimesCounted(h)[r]
      BY <2>3, <3>2, OtherPlaces
    <3>4. /\ TimesCounted(h)'[Collector(t)] = 0
          /\ TimesCounted(h)'[InReport(c)] = TimesCounted(h)[Collector(t)] + TimesCounted(h)[InReport(c)]
      BY <2>4, <3>1, Counts, CountsNext
    <3> QED BY <3>3, <3>4 DEF Moves
  <2>6. Collector(t) \in Places /\ InReport(c) \in Places /\ Collector(t) # InReport(c)
    BY <2>4, PlacesFacts DEF Collector, InReport
  <2> QED BY <1>0, <2>3, <2>5, <2>6, OnceMoved
<1>14. ASSUME NEW c \in Callers, FlushMerge(c) PROVE EachHitOnce'
  <2>1. CallerIs(c, "flushing", caller[c].clear, caller[c].todo \ caller[c].from, {}, NoData)
    BY <1>0, <1>14, CallerSteps
  <2>2. /\ caller[c].at = "collected" /\ total' = Merge(total, caller[c].carried)
        /\ UNCHANGED <<entries, cleared, accepted, thread>>
    BY <1>14 DEF FlushMerge, MergeToTotal
  <2>3. ASSUME NEW h \in Hits PROVE Moves(TimesCounted(h), TimesCounted(h)', InReport(c), InTotal)
    <3>1. /\ Carries(caller'[c], h) = 0 /\ total'[h] = Carries(caller[c], h) + total[h]
      BY <1>0, <1>d, <2>1, <2>2 DEF CallerIs, Carries
    <3>2. \A e \in Callers : e # c => Carries(caller'[e], h) = Carries(caller[e], h)
      BY <2>1 DEF CallerIs
    <3>3. \A r \in Places \ {InReport(c), InTotal} : TimesCounted(h)'[r] = TimesCounted(h)[r]
      BY <2>2, <3>2, OtherPlaces
    <3>4. /\ TimesCounted(h)'[InReport(c)] = 0
          /\ TimesCounted(h)'[InTotal] = TimesCounted(h)[InReport(c)] + TimesCounted(h)[InTotal]
      BY <3>1, Counts, CountsNext
    <3> QED BY <3>3, <3>4 DEF Moves
  <2>4. InTotal \in Places /\ InReport(c) \in Places /\ InTotal # InReport(c)
    BY PlacesFacts DEF InTotal, InReport
  <2> QED BY <1>0, <2>2, <2>3, <2>4, OnceMoved
<1>15. ASSUME NEW c \in Callers, EndFlush(c) PROVE EachHitOnce'
  <2>1. CallerIs(c, "flushed", caller[c].clear, caller[c].todo, caller[c].from, caller[c].carried)
    BY <1>0, <1>15, CallerSteps
  <2> QED BY <1>2, <1>15, <2>1 DEF EndFlush
<1>16. ASSUME NEW c \in Callers, TotalCopy(c) PROVE EachHitOnce'
  <2>1. CallerIs(c, "reading", caller[c].clear, caller[c].todo, caller[c].from, total)
    BY <1>0, <1>16, CallerSteps
  <2> QED BY <1>2, <1>16, <2>1 DEF TotalCopy
<1>17. ASSUME NEW c \in Callers, TotalClear(c) PROVE EachHitOnce'
  <2>1. CallerIs(c, "done", caller[c].clear, caller[c].todo, caller[c].from, caller[c].carried)
    BY <1>0, <1>17, CallerSteps
  <2>2. caller[c].at = "reading" /\ UNCHANGED <<entries, accepted, thread>>
    BY <1>17 DEF TotalClear
  <2>3. CASE ~caller[c].clear
    <3>1. UNCHANGED <<total, cleared>>
      BY <1>17, <2>3 DEF TotalClear
    <3> QED BY <1>2, <2>1, <2>2, <3>1
  <2>4. CASE caller[c].clear
    <3>1. total' = NoData /\ cleared' = Merge(cleared, caller[c].carried)
      BY <1>17, <2>4 DEF TotalClear
    <3>2. caller[c].carried = total
      BY <1>0, <2>2 DEF Copies, CallerCopies
    <3>3. ASSUME NEW h \in Hits PROVE Moves(TimesCounted(h), TimesCounted(h)', InTotal, InCleared)
      <4>1. total'[h] = 0 /\ cleared'[h] = total[h] + cleared[h]
        BY <1>0, <1>d, <3>1, <3>2
      <4>2. \A e \in Callers : Carries(caller'[e], h) = Carries(caller[e], h)
        BY <2>1, <2>2 DEF CallerIs, Carries
      <4>3. \A r \in Places \ {InTotal, InCleared} : TimesCounted(h)'[r] = TimesCounted(h)[r]
        BY <2>2, <4>2, OtherPlaces
      <4>4. /\ TimesCounted(h)'[InTotal] = 0
            /\ TimesCounted(h)'[InCleared] = TimesCounted(h)[InTotal] + TimesCounted(h)[InCleared]
        BY <4>1, Counts, CountsNext
      <4> QED BY <4>3, <4>4 DEF Moves
    <3>4. InTotal \in Places /\ InCleared \in Places /\ InTotal # InCleared
      BY PlacesFacts DEF InTotal, InCleared
    <3> QED BY <1>0, <2>2, <3>3, <3>4, OnceMoved
  <2> QED BY <2>3, <2>4
<1>18. ASSUME NEW c \in Callers, Drop(c) PROVE EachHitOnce'
  <2>1. CallerIs(c, "idle", caller[c].clear, caller[c].todo, caller[c].from, NoData)
    BY <1>0, <1>18, CallerSteps
  <2> QED BY <1>2, <1>18, <2>1 DEF Drop
<1>19. ASSUME UNCHANGED vars PROVE EachHitOnce'
  <2>1. UNCHANGED <<entries, total, cleared, accepted, thread, caller>>
    BY <1>19 DEF vars
  <2> QED BY <1>0, <2>1, OnceKept
<1> QED BY <1>3, <1>4, <1>5, <1>6, <1>7, <1>8, <1>9, <1>10, <1>11, <1>12, <1>13, <1>14, <1>15, <1>16, <1>17, <1>18, <1>19
     DEF Next, ThreadNext, CallerNext

-----------------------------------------------------------------------------
(* What a report has to contain stays where it will be found.              *)
LEMMA OwingStep == IInv /\ [Next]_vars => Owing'
<1> SUFFICES ASSUME IInv, [Next]_vars
             PROVE  Owing'
  OBVIOUS
<1>0. /\ TypeOK /\ Shapes /\ Numbers /\ Locks /\ Copies /\ Fresh /\ EachHitOnce /\ Owing
      /\ entries \in [Threads -> Data] /\ total \in Data /\ cleared \in Data
      /\ accepted \in [Hits -> 0 .. NoIndex] /\ owed \in [Callers -> SUBSET Hits]
      /\ \A t \in Threads : thread[t].hits \in Nat /\ thread[t].carried \in Data
      /\ \A c \in Callers : caller[c].carried \in Data /\ caller[c].from \subseteq Threads /\ caller[c].todo \subseteq Threads
      /\ \A c \in Callers : owed[c] \subseteq Hits
  BY Setting DEF IInv, TypeOK, Shapes
<1>d. /\ \A h \in Hits : NoData[h] = 0
      /\ \A a, b \in Data : \A h \in Hits : Merge(a, b)[h] = a[h] + b[h]
      /\ \A a \in Data : \A h \in Hits : a[h] \in Nat
      /\ \A a \in Data : \A h \in Hits : h \in Counted(a) <=> a[h] > 0
  BY DataFacts
<1>s. Nobody \notin Callers
  BY Setting
<1>n. /\ \A h \in Hits : \A t \in Threads : entries[t][h] \in Nat /\ thread[t].carried[h] \in Nat
      /\ \A h \in Hits : \A c \in Callers : caller[c].carried[h] \in Nat
      /\ \A h \in Hits : total[h] \in Nat
  BY <1>0, <1>d
<1> USE DEF sectionVars, listVars, entryVars, totalVars
<1>1. ASSUME caller' = caller, \A c \in Callers : owed'[c] \subseteq owed[c],
             \A h \in Hits : accepted[h] # NoIndex => accepted'[h] # NoIndex,
             \A h \in Hits : total[h] > 0 => total'[h] > 0,
             \A c \in Callers : \A h \in owed'[c] : \A t \in Threads :
               /\ thread'[t].carried[h] = 0
               /\ entries[t][h] > 0 => entries'[t][h] > 0
      PROVE  Owing'
  <2>1. ASSUME NEW c \in Callers, NEW h \in owed'[c] PROVE Owes(c, h)'
    <3>1. Owes(c, h) /\ h \in Hits
      BY <1>0, <1>1, <2>1 DEF Owing
    <3>2. OnItsWay(c, h) => OnItsWay(c, h)'
      BY <1>0, <1>1, <2>1, <3>1 DEF OnItsWay
    <3> QED BY <1>1, <2>1, <3>1, <3>2 DEF Owes, Flushing
  <2> QED BY <2>1 DEF Owing
<1>2. ASSUME NEW c \in Callers, NEW s, NEW b, NEW T, NEW F, NEW d, CallerIs(c, s, b, T, F, d),
             UNCHANGED <<accepted, thread, entries>>,
             \A e \in Callers \ {c} : owed'[e] \subseteq owed[e],
             \A e \in Callers \ {c} : \A h \in owed'[e] : total[h] > 0 => total'[h] > 0,
             \A h \in owed'[c] : Owes(c, h)'
      PROVE  Owing'
  <2>1. ASSUME NEW e \in Callers, NEW h \in owed'[e] PROVE Owes(e, h)'
    <3>1. CASE e = c
      BY <1>2, <2>1, <3>1
    <3>2. CASE e # c
      <4>1. Owes(e, h) /\ caller'[e] = caller[e] /\ (total[h] > 0 => total'[h] > 0)
        BY <1>0, <1>2, <2>1, <3>2 DEF Owing, CallerIs
      <4>2. OnItsWay(e, h) => OnItsWay(e, h)'
        BY <1>2, <4>1 DEF OnItsWay
      <4> QED BY <1>2, <4>1, <4>2 DEF Owes, Flushing
    <3> QED BY <3>1, <3>2
  <2> QED BY <2>1 DEF Owing
<1>3. ASSUME NEW t \in Threads, NEW s, NEW i, NEW N, NEW n, NEW d, ThreadIs(t, s, i, N, n, d),
             d = thread[t].carried, UNCHANGED <<caller, owed, accepted, total, entries>>
      PROVE  Owing'
  <2>1. \A u \in Threads : thread'[u].carried = thread[u].carried
    BY <1>3 DEF ThreadIs
  <2>2. \A c \in Callers : \A h \in owed'[c] : \A u \in Threads : thread'[u].carried[h] = 0
    BY <1>0, <1>3, <2>1 DEF Owing, Owes
  <2> QED BY <1>1, <1>3, <2>2
<1>4. ASSUME NEW t \in Threads, GetCollector(t) PROVE Owing'
  <2>1. ThreadIs(t, "up", thread[t].index, thread[t].name, thread[t].hits, thread[t].carried)
    BY <1>0, <1>4, ThreadSteps
  <2> QED BY <1>3, <1>4, <2>1 DEF GetCollector
<1>5. ASSUME NEW t \in Threads, Report(t) PROVE Owing'
  <2>1. ThreadIs(t, "up", thread[t].index, thread[t].name, thread[t].hits + 1, thread[t].carried)
    BY <1>0, <1>5, ThreadSteps DEF Report
  <2>2. UNCHANGED <<total, caller, owed>>
    BY <1>5 DEF Report
  <2>3. PICK h \in Hits :
          /\ thread[t].index \in 0 .. kMaxCapacity - 1
          /\ \/ /\ entries' = [entries EXCEPT ![t] = [entries[t] EXCEPT ![h] = entries[t][h] + 1]]
                /\ accepted' = [accepted EXCEPT ![h] = thread[t].index]
             \/ entries' = entries /\ accepted' = accepted
    BY <1>0, <1>5, ReportFacts
  <2>4. CASE entries' = entries /\ accepted' = accepted
    BY <1>3, <2>1, <2>2, <2>4
  <2>5. CASE /\ entries' = [entries EXCEPT ![t] = [entries[t] EXCEPT ![h] = entries[t][h] + 1]]
             /\ accepted' = [accepted EXCEPT ![h] = thread[t].index]
    <3>1. \A g \in Hits : accepted[g] # NoIndex => accepted'[g] # NoIndex
      BY <1>0, <2>3, <2>5, Setting
    <3>2. \A u \in Threads : thread'[u].carried = thread[u].carried
      BY <2>1 DEF ThreadIs
    <3>3. \A c \in Callers : \A g \in owed'[c] : \A u \in Threads : thread'[u].carried[g] = 0
      BY <1>0, <2>2, <3>2 DEF Owing, Owes
    <3>4. ASSUME NEW g \in Hits, NEW u \in Threads, entries[u][g] > 0 PROVE entries'[u][g] > 0
      <4>1. entries[t] \in [Hits -> Nat] /\ entries[t][h] + 1 > 0
        BY <1>0, <1>n DEF Data
      <4> QED BY <1>0, <2>5, <3>4, <4>1
    <3> QED BY <1>0, <1>1, <2>2, <3>1, <3>3, <3>4
  <2> QED BY <2>3, <2>4, <2>5
<1>6. ASSUME NEW t \in Threads, (\E n \in Names : FindSection(t, n)) \/ MakeSection(t) PROVE Owing'
  <2>1. PICK n \in Names : SectionStep(t, n)
    BY <1>0, <1>6, SectionSteps
  <2>2. UNCHANGED <<caller, owed, accepted, total, entries>>
    BY <1>6 DEF FindSection, MakeSection
  <2>3. PICK s, i, N, k, d : ThreadIs(t, s, i, N, k, d) /\ d = thread[t].carried
    BY <2>1 DEF SectionStep
  <2> QED BY <1>3, <2>2, <2>3
<1>7. ASSUME NEW t \in Threads, TakeIndex(t) PROVE Owing'
  <2>1. ThreadIs(t, "numbered", nextIndex, thread[t].name, thread[t].hits, thread[t].carried)
    BY <1>0, <1>7, ThreadSteps
  <2> QED BY <1>3, <1>7, <2>1 DEF TakeIndex
<1>8. ASSUME NEW t \in Threads, ExitCopy(t) PROVE Owing'
  <2>1. ThreadIs(t, "copied", kMainIndex, {}, thread[t].hits, entries[t])
    BY <1>0, <1>8, ThreadSteps
  <2>2. /\ UNCHANGED <<caller, accepted, total, entries>>
        /\ \A c \in Callers : owed'[c] = owed[c] \ Counted(entries[t])
    BY <1>8 DEF ExitCopy, CopyOf, Release
  <2>3. ASSUME NEW c \in Callers, NEW h \in owed'[c], NEW u \in Threads PROVE thread'[u].carried[h] = 0
    <3>1. h \in owed[c] /\ h \in Hits /\ entries[t][h] = 0
      BY <1>0, <1>d, <1>n, <2>2
    <3> QED BY <1>0, <2>1, <3>1 DEF ThreadIs, Owing, Owes
  <2> QED BY <1>1, <2>2, <2>3
<1>9. ASSUME NEW t \in Threads, ExitClear(t) PROVE Owing'
  <2>1. ThreadIs(t, "collected", thread[t].index, thread[t].name, thread[t].hits, thread[t].carried)
    BY <1>0, <1>9, ThreadSteps
  <2>2. /\ thread[t].at = "copied" /\ entries' = [entries EXCEPT ![t] = NoData]
        /\ UNCHANGED <<caller, owed, accepted, total>>
    BY <1>9 DEF ExitClear, Clear
  <2>3. ASSUME NEW c \in Callers, NEW h \in owed'[c], NEW u \in Threads
        PROVE  thread'[u].carried[h] = 0 /\ (entries[u][h] > 0 => entries'[u][h] > 0)
    <3>1. Owes(c, h)
      BY <1>0, <2>2 DEF Owing
    <3>2. thread'[u].carried[h] = 0
      BY <2>1, <3>1 DEF ThreadIs, Owes
    <3>3. entries[t][h] = 0
      BY <1>0, <2>2, <3>1 DEF Copies, ThreadCopies, Owes
    <3> QED BY <1>0, <2>2, <3>2, <3>3
  <2> QED BY <1>1, <2>2, <2>3
<1>10. ASSUME NEW t \in Threads, ExitMerge(t) PROVE Owing'
  <2>1. ThreadIs(t, "merged", thread[t].index, thread[t].name, thread[t].hits, NoData)
    BY <1>0, <1>10, ThreadSteps
  <2>2. /\ total' = Merge(total, thread[t].carried) /\ UNCHANGED <<caller, owed, accepted, entries>>
    BY <1>10 DEF ExitMerge, MergeToTotal
  <2>3. \A h \in Hits : total[h] > 0 => total'[h] > 0
    BY <1>0, <1>d, <1>n, <2>2
  <2>4. ASSUME NEW c \in Callers, NEW h \in owed'[c], NEW u \in Threads PROVE thread'[u].carried[h] = 0
    <3>1. Owes(c, h) /\ h \in Hits
      BY <1>0, <2>2 DEF Owing
    <3> QED BY <1>d, <2>1, <3>1 DEF ThreadIs, Owes
  <2> QED BY <1>1, <2>2, <2>3, <2>4
<1>11. ASSUME NEW t \in Threads, ExitErase(t) PROVE Owing'
  <2>1. ThreadIs(t, "gone", thread[t].index, thread[t].name, thread[t].hits, thread[t].carried)
    BY <1>0, <1>11, ThreadSteps
  <2> QED BY <1>3, <1>11, <2>1 DEF ExitErase
<1>12. ASSUME NEW c \in Callers, NEW clear \in BOOLEAN, BeginFlush(c, clear) PROVE Owing'
  <2>1. CallerIs(c, "flushing", clear, collectors, caller[c].from, caller[c].carried)
    BY <1>0, <1>12, CallerSteps
  <2>2. listMtx = Nobody /\ UNCHANGED <<accepted, thread, entries, total>>
    BY <1>12 DEF BeginFlush, LockList
  <2>3. owed'[c] = Present /\ \A e \in Callers : e # c => owed'[e] = owed[e]
    BY <1>0, <1>12 DEF BeginFlush
  <2>4. \A e \in Callers : caller[e].at # "collected"
    BY <1>0, <1>s, <2>2 DEF Locks, CallerLocks, Flushing
  <2>5. ASSUME NEW h \in owed'[c] PROVE Owes(c, h)'
    <3>1. /\ h \in Counted(total) \/ \E t \in Threads : h \in Counted(entries[t])
          /\ \A t \in Threads : h \notin Counted(thread[t].carried)
      BY <2>3, <2>4, <2>5, PresentFacts
    <3>2. h \in Hits
      BY <3>1 DEF Counted
    <3>3. /\ total[h] > 0 \/ \E t \in Threads : entries[t][h] > 0
          /\ \A t \in Threads : thread[t].carried[h] = 0
      BY <1>0, <1>d, <1>n, <3>1, <3>2
    <3>4. accepted[h] # NoIndex
      <4>1. SUFFICES ASSUME accepted[h] = NoIndex PROVE FALSE
        OBVIOUS
      <4>2. \A p \in Places : TimesCounted(h)[p] = 0
        BY <1>0, <3>2, <4>1 DEF EachHitOnce
      <4>3. total[h] = 0 /\ \A t \in Threads : entries[t][h] = 0
        BY <3>2, <4>2, Counts, PlacesFacts
      <4> QED BY <3>3, <4>3
    <3>5. ASSUME NEW t \in Threads, entries[t][h] > 0 PROVE t \in collectors
      <4>1. thread[t].at \notin {"new", "gone"}
        BY <1>0, <1>d, <3>2, <3>5 DEF Copies, ThreadCopies
      <4> QED BY <1>0, <4>1 DEF Locks
    <3>6. OnItsWay(c, h)'
      BY <2>1, <2>2, <3>3, <3>5 DEF OnItsWay, CallerIs
    <3> QED BY <2>1, <2>2, <3>3, <3>4, <3>6 DEF Owes, CallerIs
  <2> QED BY <1>2, <2>1, <2>2, <2>3, <2>5
<1>13. ASSUME NEW c \in Callers, NEW t \in Threads, FlushCopy(c, t) PROVE Owing'
  <2>1. CallerIs(c, "copied", caller[c].clear, caller[c].todo, {t}, entries[t])
    BY <1>0, <1>13, CallerSteps
  <2>2. caller[c].at = "flushing" /\ UNCHANGED <<accepted, thread, entries, total, owed>>
    BY <1>13 DEF FlushCopy, CopyOf
  <2>3. ASSUME NEW h \in owed'[c] PROVE Owes(c, h)'
    <3>1. Owes(c, h) /\ OnItsWay(c, h)
      BY <1>0, <2>2, <2>3 DEF Owing, Owes, Flushing
    <3>2. OnItsWay(c, h)'
      BY <2>1, <2>2, <3>1 DEF OnItsWay, CallerIs
    <3> QED BY <2>1, <2>2, <3>1, <3>2 DEF Owes, CallerIs
  <2> QED BY <1>2, <2>1, <2>2, <2>3
<1>14. ASSUME NEW c \in Callers, FlushClear(c) PROVE Owing'
  <2>1. CallerIs(c, "collected", caller[c].clear, caller[c].todo, caller[c].from, caller[c].carried)
    BY <1>0, <1>14, CallerSteps
  <2>2. PICK t \in caller[c].from : entries' = [entries EXCEPT ![t] = NoData]
    BY <1>14 DEF FlushClear, Clear
  <2>3. caller[c].at = "copied" /\ UNCHANGED <<accepted, thread, total, owed>>
    BY <1>14 DEF FlushClear
  <2>4. /\ t \in Threads /\ caller[c].carried = entries[t] /\ caller[c].from = {t}
        /\ \A u \in Threads : u # t => entries'[u] = entries[u]
        /\ listMtx = c
    BY <1>0, <2>2, <2>3 DEF Copies, CallerCopies, Locks, CallerLocks, Flushing
  <2>5. ASSUME NEW e \in Callers, NEW h \in owed'[e] PROVE Owes(e, h)'
    <3>1. Owes(e, h)
      BY <1>0, <2>3 DEF Owing
    <3>2. CASE e = c
      <4>1. OnItsWay(c, h)
        BY <2>3, <3>1, <3>2 DEF Owes, Flushing
      <4>2. \/ total[h] > 0
            \/ \E u \in caller[c].todo : entries[u][h] > 0
        BY <2>3, <4>1 DEF OnItsWay
      <4>3. OnItsWay(c, h)'
        BY <1>0, <2>1, <2>3, <2>4, <4>2 DEF OnItsWay, CallerIs
      <4> QED BY <2>1, <2>3, <3>1, <3>2, <4>3 DEF Owes, CallerIs
    <3>3. CASE e # c
      <4>1. ~Flushing(e) /\ caller'[e] = caller[e]
        BY <1>0, <2>1, <2>4, <3>3 DEF Locks, CallerLocks, CallerIs
      <4> QED BY <2>3, <3>1, <4>1 DEF Owes, Flushing
    <3> QED BY <3>2, <3>3
  <2> QED BY <2>5 DEF Owing
<1>15. ASSUME NEW c \in Callers, FlushMerge(c) PROVE Owing'
  <2>1. CallerIs(c, "flushing", caller[c].clear, caller[c].todo \ caller[c].from, {}, NoData)
    BY <1>0, <1>15, CallerSteps
  <2>2. /\ caller[c].at = "collected" /\ total' = Merge(total, caller[c].carried)
        /\ UNCHANGED <<accepted, thread, entries, owed>>
    BY <1>15 DEF FlushMerge, MergeToTotal
  <2>3. \A h \in Hits : total[h] > 0 \/ caller[c].carried[h] > 0 => total'[h] > 0
    BY <1>0, <1>d, <1>n, <2>2
  <2>4. ASSUME NEW h \in owed'[c] PROVE Owes(c, h)'
    <3>1. Owes(c, h) /\ OnItsWay(c, h) /\ h \in Hits
      BY <1>0, <2>2, <2>4 DEF Owing, Owes, Flushing
    <3>2. total'[h] > 0 \/ \E u \in caller[c].todo \ caller[c].from : entries[u][h] > 0
      BY <2>2, <2>3, <3>1 DEF OnItsWay
    <3>3. OnItsWay(c, h)'
      BY <2>1, <2>2, <3>2 DEF OnItsWay, CallerIs
    <3> QED BY <2>1, <2>2, <3>1, <3>3 DEF Owes, CallerIs
  <2> QED BY <1>0, <1>2, <2>1, <2>2, <2>3, <2>4
<1>16. ASSUME NEW c \in Callers, EndFlush(c) PROVE Owing'
  <2>1. CallerIs(c, "flushed", caller[c].clear, caller[c].todo, caller[c].from, caller[c].carried)
    BY <1>0, <1>16, CallerSteps
  <2>2. /\ caller[c].at = "flushing" /\ caller[c].todo = {}
        /\ UNCHANGED <<accepted, thread, entries, total, owed>>
    BY <1>16 DEF EndFlush
  <2>3. ASSUME NEW h \in owed'[c] PROVE Owes(c, h)'
    <3>1. Owes(c, h) /\ OnItsWay(c, h)
      BY <1>0, <2>2, <2>3 DEF Owing, Owes, Flushing
    <3>2. total[h] > 0
      BY <2>2, <3>1 DEF OnItsWay
    <3> QED BY <2>1, <2>2, <3>1, <3>2 DEF Owes, CallerIs, Flushing
  <2> QED BY <1>2, <2>1, <2>2, <2>3
<1>17. ASSUME NEW c \in Callers, TotalCopy(c) PROVE Owing'
  <2>1. CallerIs(c, "reading", caller[c].clear, caller[c].todo, caller[c].from, total)
    BY <1>0, <1>17, CallerSteps
  <2>2. caller[c].at = "flushed" /\ UNCHANGED <<accepted, thread, entries, total, owed>>
    BY <1>17 DEF TotalCopy
  <2>3. ASSUME NEW h \in owed'[c] PROVE Owes(c, h)'
    <3>1. Owes(c, h)
      BY <1>0, <2>2, <2>3 DEF Owing
    <3> QED BY <2>1, <2>2, <3>1 DEF Owes, CallerIs, Flushing
  <2> QED BY <1>2, <2>1, <2>2, <2>3
<1>18. ASSUME NEW c \in Callers, TotalClear(c) PROVE Owing'
  <2>1. CallerIs(c, "done", caller[c].clear, caller[c].todo, caller[c].from, caller[c].carried)
    BY <1>0, <1>18, CallerSteps
  <2>2. caller[c].at = "reading" /\ UNCHANGED <<accepted, thread, entries>>
    BY <1>18 DEF TotalClear
  <2>3. /\ owed'[c] = owed[c]
        /\ \A e \in Callers \ {c} : owed'[e] \subseteq owed[e]
        /\ \A e \in Callers \ {c} : \A h \in owed'[e] : total[h] > 0 => total'[h] > 0
    <3>1. CASE ~caller[c].clear
      BY <1>18, <3>1 DEF TotalClear
    <3>2. CASE caller[c].clear
      <4>1. owed' = [e \in Callers |-> IF e = c THEN owed[c] ELSE owed[e] \ Counted(total)]
        BY <1>18, <3>2 DEF TotalClear
      <4>2. ASSUME NEW e \in Callers, e # c, NEW h \in owed'[e] PROVE ~(total[h] > 0)
        BY <1>0, <1>d, <4>1, <4>2
      <4> QED BY <4>1, <4>2
    <3> QED BY <3>1, <3>2
  <2>4. ASSUME NEW h \in owed'[c] PROVE Owes(c, h)'
    <3>1. Owes(c, h)
      BY <1>0, <2>3, <2>4 DEF Owing
    <3> QED BY <2>1, <2>2, <3>1 DEF Owes, CallerIs, Flushing
  <2> QED BY <1>2, <2>1, <2>2, <2>3, <2>4
<1>19. ASSUME NEW c \in Callers, Drop(c) PROVE Owing'
  <2>1. CallerIs(c, "idle", caller[c].clear, caller[c].todo, caller[c].from, NoData)
    BY <1>0, <1>19, CallerSteps
  <2>2. /\ UNCHANGED <<accepted, thread, entries, total>>
        /\ owed'[c] = {} /\ \A e \in Callers : e # c => owed'[e] = owed[e]
    BY <1>0, <1>19 DEF Drop
  <2> QED BY <1>2, <2>1, <2>2
<1>20. ASSUME UNCHANGED vars PROVE Owing'
  <2>1. UNCHANGED <<caller, owed, accepted, total, thread, entries>>
    BY <1>20 DEF vars
  <2>2. \A c \in Callers : \A h \in owed'[c] : \A t \in Threads : thread'[t].carried[h] = 0
    BY <1>0, <2>1 DEF Owing, Owes
  <2> QED BY <1>1, <2>1, <2>2
<1> QED BY <1>4, <1>5, <1>6, <1>7, <1>8, <1>9, <1>10, <1>11, <1>12, <1>13, <1>14, <1>15, <1>16, <1>17, <1>18, <1>19, <1>20
     DEF Next, ThreadNext, CallerNext

-----------------------------------------------------------------------------
(* The invariant holds at the start.                                       *)
LEMMA InitInv == Init => IInv
<1> SUFFICES ASSUME Init
             PROVE  IInv
  OBVIOUS
<1>0. /\ NoData \in Data /\ \A h \in Hits : NoData[h] = 0
      /\ NoIndex \in Nat /\ kMaxCapacity \in Nat /\ kMaxCapacity > 1 /\ NoIndex = kMaxCapacity
      /\ kMainIndex = 1 /\ kEmptyCollectorIndex = 0 /\ MaxHits \in Nat /\ Nobody \notin Callers
  BY DataFacts, Setting
<1>1. /\ nextIndex = 2 /\ subsections = [n \in Names |-> NoIndex] /\ collectors = {} /\ listMtx = Nobody
      /\ entries = [t \in Threads |-> NoData] /\ mutex = [t \in Threads |-> Nobody]
      /\ total = NoData /\ totalMtx = Nobody
      /\ thread = [t \in Threads |-> [at |-> "new", index |-> kMainIndex, name |-> {}, hits |-> 0, carried |-> NoData]]
      /\ caller = [c \in Callers |-> [at |-> "idle", clear |-> FALSE, todo |-> {}, from |-> {}, carried |-> NoData]]
      /\ accepted = [h \in Hits |-> NoIndex] /\ cleared = NoData /\ owed = [c \in Callers |-> {}]
  BY <1>0 DEF Init
<1>2. /\ \A t \in Threads : thread[t].at = "new" /\ thread[t].index = kMainIndex /\ thread[t].name = {}
                           /\ thread[t].hits = 0 /\ thread[t].carried = NoData /\ entries[t] = NoData
      /\ \A c \in Callers : caller[c].at = "idle" /\ caller[c].todo = {} /\ caller[c].from = {}
                           /\ caller[c].carried = NoData /\ owed[c] = {}
      /\ \A h \in Hits : accepted[h] = NoIndex
      /\ \A n \in Names : subsections[n] = NoIndex
  BY <1>1
<1>3. TypeOK
  <2>1. nextIndex \in Nat /\ subsections \in [Names -> 0 .. NoIndex] /\ accepted \in [Hits -> 0 .. NoIndex]
    BY <1>0, <1>1
  <2>2. /\ collectors \subseteq Threads /\ listMtx \in Callers \union {Nobody} /\ entries \in [Threads -> Data]
        /\ mutex \in [Threads -> Threads \union Callers \union {Nobody}]
        /\ total \in Data /\ totalMtx \in Callers \union {Nobody} /\ cleared \in Data
        /\ owed \in [Callers -> SUBSET Hits]
    BY <1>0, <1>1
  <2> QED BY <1>0, <1>2, <2>1, <2>2 DEF TypeOK
<1>4. Shapes
  BY <1>0, <1>1 DEF Shapes, Stages, Turns
<1>5. Started /\ Fresh
  BY <1>2 DEF Started, Fresh
<1>6. Locks
  <2>1. \A c \in Callers : CallerLocks(c)
    BY <1>0, <1>1, <1>2 DEF CallerLocks, Flushing
  <2> QED BY <1>1, <1>2, <2>1 DEF Locks
<1>7. Copies
  BY <1>2 DEF Copies, ThreadCopies, CallerCopies
<1>8. Numbers
  BY <1>1, <1>2 DEF Numbers, ThreadNumbers
<1>9. Indexed
  BY <1>2 DEF Indexed
<1>10. Owing
  BY <1>2 DEF Owing
<1>11. EachHitOnce
  <2>1. ASSUME NEW h \in Hits, NEW p \in Places PROVE TimesCounted(h)[p] = 0
    <3>1. /\ \A t \in Threads : Carries(thread[t], h) = 0 /\ entries[t][h] = 0
          /\ \A c \in Callers : Carries(caller[c], h) = 0
          /\ total[h] = 0 /\ cleared[h] = 0
      BY <1>0, <1>1, <1>2 DEF Carries
    <3> QED BY <3>1, Counts, PlacesFacts
  <2> QED BY <1>2, <2>1 DEF EachHitOnce
<1>12. OneSectionPerName
  BY <1>0, <1>2, <1>3 DEF OneSectionPerName
<1> QED BY <1>3, <1>4, <1>5, <1>6, <1>7, <1>8, <1>9, <1>10, <1>11, <1>12 DEF IInv

-----------------------------------------------------------------------------
(* The inductive invariant: the copies are what their mutexes guard, each  *)
(* hit is in one place, and what a report owes is where it will look.      *)
THEOREM Invariance == Spec => []IInv
<1>1. IInv /\ [Next]_vars => IInv'
  <2> SUFFICES ASSUME IInv, [Next]_vars
               PROVE  IInv'
    OBVIOUS
  <2>1. TypeOK' /\ Shapes'
    BY TypeStep
  <2>2. Locks' /\ Copies' /\ EachHitOnce' /\ Owing'
    BY LocksStep, CopiesStep, OnceStep, OwingStep
  <2>3. Sections'
    BY SectionsStep
  <2>4. Started' /\ Fresh' /\ Numbers' /\ Indexed' /\ NamesApart' /\ (\A t \in Threads : Handed(t))'
    BY <2>3 DEF Sections
  <2>5. OneSectionPerName'
    <3>1. \A n \in Names : subsections'[n] \notin {kEmptyCollectorIndex, kMainIndex}
      <4>1. ASSUME NEW n \in Names PROVE subsections'[n] \notin {kEmptyCollectorIndex, kMainIndex}
        <5>1. subsections'[n] = NoIndex \/ subsections'[n] \in 2 .. nextIndex' - 1
          BY <2>4 DEF Numbers
        <5> QED BY <5>1, Setting
      <4> QED BY <4>1
    <3> QED BY <2>1, <2>4, <3>1 DEF OneSectionPerName, NamesApart, Handed
  <2> QED BY <2>1, <2>2, <2>4, <2>5 DEF IInv
<1> QED BY <1>1, InitInv, PTL DEF Spec

(* Each hit that was not skipped is counted once, in the collector, on the *)
(* way, in the total or in a report that cleared.                          *)
THEOREM HitsCountedOnce == Spec => []EachHitOnce
<1>1. IInv => EachHitOnce
  BY DEF IInv
<1> QED BY <1>1, Invariance, PTL

(* A report covers what was counted before it.                             *)
THEOREM ReportsCover == Spec => []ReportCovers
<1>1. IInv => ReportCovers
  <2> SUFFICES ASSUME IInv, NEW c \in Callers
               PROVE  /\ caller[c].todo \union caller[c].from \subseteq collectors
                      /\ caller[c].at = "done" =>
                           {h \in owed[c] : accepted[h] # kEmptyCollectorIndex} \subseteq Reported(caller[c].carried)
    BY DEF ReportCovers
  <2>1. caller[c].todo \union caller[c].from \subseteq collectors
    BY DEF IInv, Locks, CallerLocks
  <2>2. ASSUME caller[c].at = "done", NEW h \in owed[c], accepted[h] # kEmptyCollectorIndex
        PROVE  h \in Reported(caller[c].carried)
    <3>1. h \in Hits
      BY DEF IInv, TypeOK
    <3>2. accepted[h] # NoIndex /\ caller[c].carried[h] > 0
      BY <2>2 DEF IInv, Owing, Owes
    <3>3. Known(accepted[h])
      BY <3>1, <3>2 DEF IInv, Indexed
    <3>4. h \in Counted(caller[c].carried)
      BY <3>1, <3>2 DEF Counted
    <3> QED BY <2>2, <3>3, <3>4 DEF Reported, Known
  <2> QED BY <2>1, <2>2
<1> QED BY <1>1, Invariance, PTL

(* One section to a name and one name to an index.                         *)
THEOREM SectionsApart == Spec => []OneSectionPerName
<1>1. IInv => OneSectionPerName
  BY DEF IInv
<1> QED BY <1>1, Invariance, PTL

-----------------------------------------------------------------------------
(***************************************************************************)
(* The signal handler: what it does while it dumps, and what it may have   *)
(* interrupted, are the scripts below, on the locks of the process.        *)
(*                                                                         *)
(* Who dumps is the thread that current_thread_in_handler names (Dumpers). *)
(* It does not return to what it has interrupted: its signal is raised     *)
(* again before (Raised), and no two handlers of a thread are of the same  *)
(* signal (Stacks), so that the signal is no longer blocked when one       *)
(* returns, and ends the process.  A shared lock is given back once by who *)
(* took it (Shared).                                                       *)
(***************************************************************************)

Steps == [do : {"lock", "try", "unlock", "share", "unshare"}, on : Mutexes]
Activations == [kind : {"program", "handler"}, signal : Signals \union {NoThread},
                at : {"running", "entered", "dumping", "nested", "sleeping", "returning"}, todo : Seq(Steps)]

\* A script shares a mutex once at most, and gives it back after that; not if it tries for one.
Paired(script) ==
  /\ \A i, j \in 1 .. Len(script) : script[i].do = "share" /\ script[j].do = "share" => i = j
  /\ \A i, j \in 1 .. Len(script) : script[i].do = "unshare" /\ script[j].do = "unshare" => i = j
  /\ \A i \in 1 .. Len(script) : script[i].do = "share" => \E j \in i + 1 .. Len(script) : script[j].do = "unshare"
  /\ \A i, j \in 1 .. Len(script) : script[i].do = "try" => script[j].do # "unshare"

\* What is left of a script gives back what the script has taken.
Gives(script) ==
  /\ \E i \in 1 .. Len(script) : script[i].do = "unshare"
  /\ \A i \in 1 .. Len(script) : script[i].do # "share"

\* A program at the bottom, above it a handler each for other signals.
Activation(t, i) ==
  LET a == stack[t][i]
  IN  /\ i = 1 => a.kind = "program" /\ a.at = "running"
      /\ i > 1 => a.kind = "handler" /\ a.at # "running" /\ a.signal \in Signals
      /\ Paired(a.todo)
      /\ a.at \notin {"running", "dumping"} => a.todo = <<>>

Stacks ==
  /\ stack \in [ProcessThreads -> Seq(Activations)]
  /\ \A t \in ProcessThreads :
       /\ Len(stack[t]) \in 1 .. sent + 1
       /\ \A i \in DOMAIN stack[t] : Activation(t, i)
       /\ \A i, j \in DOMAIN stack[t] : 1 < i /\ i < j => stack[t][i].signal # stack[t][j].signal

GivesBack(a) == Gives(a.todo)
Sharing(t) == {i \in DOMAIN stack[t] : GivesBack(stack[t][i])}

\* The shared lock is held by the activations that have it to give back.
Shared == \A t \in ProcessThreads : sharers[t] = Cardinality(Sharing(t))

Kernel ==
  /\ owner \in [Mutexes -> {NoThread} \union (ProcessThreads \X (1 .. MaxSent + 1))]
  /\ sharers \in [ProcessThreads -> Nat]
  /\ current_thread_in_handler \in ProcessThreads \union {NoThread}
  /\ disposition \in [Signals -> {"handle", "default"}]
  /\ sent \in 0 .. MaxSent /\ waiting \subseteq Signals /\ alive \in BOOLEAN

Dumpers == \A t \in ProcessThreads : \A i \in DOMAIN stack[t] :
    stack[t][i].at \in {"dumping", "nested", "returning"} => t = current_thread_in_handler

\* The process is about to end when a handler is about to return.
Raised == \A t \in ProcessThreads : \A i \in DOMAIN stack[t] :
    alive /\ stack[t][i].at = "returning" => stack[t][i].signal \in waiting

HInv == Kernel /\ Stacks /\ Shared /\ Dumpers /\ Raised /\ FrameIsThere
-----------------------------------------------------------------------------
(* What the programs and the report ask of the locks.                      *)

Locking(s) == s \in Seq(Steps) /\ \A k \in 1 .. Len(s) : s[k].do \in {"lock", "unlock"}

(* The steps a program is made of.                                         *)
LEMMA StepFacts ==
  ASSUME NEW m \in Mutexes
  PROVE  /\ Lock(m) \in Steps /\ Lock(m).do = "lock" /\ Lock(m).on = m
         /\ Try(m) \in Steps /\ Try(m).do = "try" /\ Try(m).on = m
         /\ Unlock(m) \in Steps /\ Unlock(m).do = "unlock" /\ Unlock(m).on = m
         /\ Share \in Steps /\ Share.do = "share" /\ Unshare \in Steps /\ Unshare.do = "unshare"
BY DEF Lock, Try, Unlock, Share, Unshare, Steps, Mutexes

(* Holding a mutex is locking it and unlocking it.                         *)
LEMMA HoldFacts ==
  ASSUME NEW m \in Mutexes
  PROVE  Locking(Hold(m)) /\ Len(Hold(m)) = 2
BY StepFacts DEF Locking, Hold

(* Locking sequences may be joined.                                        *)
LEMMA LockingConcat ==
  ASSUME NEW r, NEW s, Locking(r), Locking(s)
  PROVE  Locking(r \o s) /\ Len(r \o s) = Len(r) + Len(s)
<1>1. r \in Seq(Steps) /\ s \in Seq(Steps)
  BY DEF Locking
<1>2. r \o s \in Seq(Steps) /\ Len(r \o s) = Len(r) + Len(s)
  BY <1>1
<1>3. ASSUME NEW k \in 1 .. Len(r \o s) PROVE (r \o s)[k].do \in {"lock", "unlock"}
  <2>1. CASE k <= Len(r)
    <3>1. (r \o s)[k] = r[k] /\ k \in 1 .. Len(r)
      BY <1>1, <1>2, <2>1
    <3> QED BY <3>1 DEF Locking
  <2>2. CASE k > Len(r)
    <3>1. (r \o s)[k] = s[k - Len(r)] /\ k - Len(r) \in 1 .. Len(s)
      BY <1>1, <1>2, <2>2
    <3> QED BY <3>1 DEF Locking
  <2> QED BY <1>1, <2>1, <2>2
<1> QED BY <1>2, <1>3 DEF Locking

(* Memory taken or given back, and under a mutex.                          *)
LEMMA WithinFacts ==
  ASSUME NEW m \in Mutexes
  PROVE  /\ Locking(Allocate) /\ Len(Allocate) = 2
         /\ Locking(Within(m)) /\ Len(Within(m)) = 4
<1>1. Locking(Allocate) /\ Len(Allocate) = 2
  BY HoldFacts DEF Allocate, Mutexes
<1>2. PICK a, b, c : a = <<Lock(m)>> /\ b = Allocate /\ c = <<Unlock(m)>>
  OBVIOUS
<1>3. Locking(a) /\ Len(a) = 1 /\ Locking(c) /\ Len(c) = 1
  BY <1>2, StepFacts DEF Locking
<1>4. Locking(a \o b) /\ Len(a \o b) = 1 + 2
  BY <1>1, <1>2, <1>3, LockingConcat
<1>5. Locking((a \o b) \o c) /\ Len((a \o b) \o c) = (1 + 2) + 1
  BY <1>3, <1>4, LockingConcat
<1>6. Within(m) = (a \o b) \o c
  BY <1>2 DEF Within
<1> QED BY <1>1, <1>5, <1>6

(* The collectors are flushed in some order.                               *)
LEMMA OrderFacts ==
  /\ Cardinality(Collected) \in Nat
  /\ SetToSeq(Collected) \in [1 .. Cardinality(Collected) -> Collected]
<1> DEFINE n == Cardinality(Collected)
<1>0. IsFiniteSet(Collected)
  BY SignalAssumption, FS_Subset
<1>1. n \in Nat /\ \E f : ExistsBijection(1 .. n, Collected)
  BY <1>0, FS_CardinalityType
<1>2. \E f \in [1 .. n -> Collected] : IsInjective(f)
  BY <1>1 DEF ExistsBijection, Bijection, Injection, IsInjective
<1> QED BY <1>1, <1>2 DEF SetToSeq

(* A collector is collected under its lock and merged under the total's.   *)
LEMMA CollectFacts ==
  ASSUME NEW m \in Mutexes
  PROVE  Locking(CollectAndMerge(m)) /\ Len(CollectAndMerge(m)) = 6
<1>1. PICK a, b : a = Within(m) /\ b = Hold("total")
  OBVIOUS
<1>2. Locking(a) /\ Len(a) = 4 /\ Locking(b) /\ Len(b) = 2
  BY <1>1, HoldFacts, WithinFacts DEF Mutexes
<1>3. Locking(a \o b) /\ Len(a \o b) = 4 + 2
  BY <1>2, LockingConcat
<1>4. CollectAndMerge(m) = a \o b
  BY <1>1 DEF CollectAndMerge
<1> QED BY <1>3, <1>4

(* A flush locks and unlocks, whatever number of collectors there are.     *)
LEMMA FlushFacts == Locking(Flush)
<1> DEFINE n == Cardinality(Collected)
           order == SetToSeq(Collected)
           step(k) == CollectAndMerge(order[k \div 6])[1 + (k % 6)]
           middle == [k \in 1 .. 6 * n |-> step(k + 5)]
<1>1. n \in Nat /\ order \in [1 .. n -> Collected]
  BY OrderFacts
<1>2. ASSUME NEW k \in 1 .. 6 * n PROVE step(k + 5) \in Steps /\ step(k + 5).do \in {"lock", "unlock"}
  <2>1. (k + 5) \div 6 \in 1 .. n /\ 1 + ((k + 5) % 6) \in 1 .. 6
    BY <1>1
  <2>2. PICK i, j : i = (k + 5) \div 6 /\ j = 1 + ((k + 5) % 6)
    OBVIOUS
  <2>3. order[i] \in Mutexes /\ "total" \in Mutexes
    BY <1>1, <2>1, <2>2, SignalAssumption DEF Mutexes
  <2>4. Locking(CollectAndMerge(order[i])) /\ Len(CollectAndMerge(order[i])) = 6
    BY <2>3, CollectFacts
  <2>5. PICK c : c = CollectAndMerge(order[i])
    OBVIOUS
  <2>6. c \in Seq(Steps) /\ Len(c) = 6 /\ j \in 1 .. 6
    BY <2>1, <2>2, <2>4, <2>5 DEF Locking
  <2>7. c[j] \in Steps /\ c[j].do \in {"lock", "unlock"}
    BY <2>4, <2>5, <2>6 DEF Locking
  <2> QED BY <2>2, <2>5, <2>7
<1>3. middle \in Seq(Steps) /\ Len(middle) = 6 * n /\ \A k \in 1 .. 6 * n : middle[k] = step(k + 5)
  <2> HIDE DEF order, step
  <2>1. PICK N \in Nat : N = 6 * n
    BY <1>1
  <2>2. middle \in [1 .. N -> Steps] /\ \A k \in 1 .. N : middle[k] = step(k + 5)
    BY <1>2, <2>1
  <2>3. \A f \in [1 .. N -> Steps] : f \in Seq(Steps) /\ Len(f) = N
    OBVIOUS
  <2> HIDE DEF middle
  <2> QED BY <2>1, <2>2, <2>3
<1> HIDE DEF middle, step
<1>4. Locking(middle)
  BY <1>2, <1>3 DEF Locking
<1>5. "list" \in Mutexes
  BY DEF Mutexes
<1>6. Locking(<<Lock("list")>>) /\ Locking(<<Unlock("list")>>)
  BY <1>5, StepFacts DEF Locking
<1>7. Flush = (<<Lock("list")>> \o middle) \o <<Unlock("list")>>
  BY DEF Flush, middle, step
<1> QED BY <1>4, <1>6, <1>7, LockingConcat

\* A script that may begin: it gives nothing back that it has not taken.
Script(s) == s \in Seq(Steps) /\ Paired(s) /\ ~Gives(s)

(* Locks taken and given back before or after a script, d of them before,  *)
(* make no difference to what it shares.                                   *)
LEMMA Shifted ==
  ASSUME NEW r, NEW z \in Seq(Steps), NEW d \in Nat, Script(r), Len(r) + d <= Len(z),
         \A k \in 1 .. Len(r) : z[k + d] = r[k],
         \A k \in 1 .. Len(z) : k - d \in 1 .. Len(r) \/ z[k].do \in {"lock", "unlock"}
  PROVE  Script(z)
<1>1. r \in Seq(Steps) /\ Len(r) \in Nat /\ Len(z) \in Nat
  BY DEF Script
<1>2. ASSUME NEW k \in 1 .. Len(z), z[k].do \notin {"lock", "unlock"}
      PROVE  k - d \in 1 .. Len(r) /\ z[k] = r[k - d]
  <2>1. k - d \in 1 .. Len(r) /\ (k - d) + d = k
    BY <1>2
  <2> QED BY <2>1
<1>3. \A k \in 1 .. Len(r) : k + d \in 1 .. Len(z)
  BY <1>1
<1>4. \A i, j \in 1 .. Len(z) : z[i].do = "share" /\ z[j].do = "share" => i = j
  <2> TAKE i, j \in 1 .. Len(z)
  <2> HAVE z[i].do = "share" /\ z[j].do = "share"
  <2>1. i - d \in 1 .. Len(r) /\ j - d \in 1 .. Len(r) /\ r[i - d].do = "share" /\ r[j - d].do = "share"
    BY <1>2
  <2>2. i - d = j - d
    BY <2>1 DEF Script, Paired
  <2> QED BY <2>2
<1>5. \A i, j \in 1 .. Len(z) : z[i].do = "unshare" /\ z[j].do = "unshare" => i = j
  <2> TAKE i, j \in 1 .. Len(z)
  <2> HAVE z[i].do = "unshare" /\ z[j].do = "unshare"
  <2>1. i - d \in 1 .. Len(r) /\ j - d \in 1 .. Len(r) /\ r[i - d].do = "unshare" /\ r[j - d].do = "unshare"
    BY <1>2
  <2>2. i - d = j - d
    BY <2>1 DEF Script, Paired
  <2> QED BY <2>2
<1>6. \A i \in 1 .. Len(z) : z[i].do = "share" => \E j \in i + 1 .. Len(z) : z[j].do = "unshare"
  <2> TAKE i \in 1 .. Len(z)
  <2> HAVE z[i].do = "share"
  <2>1. i - d \in 1 .. Len(r) /\ r[i - d].do = "share"
    BY <1>2
  <2>2. PICK j \in (i - d) + 1 .. Len(r) : r[j].do = "unshare"
    BY <2>1 DEF Script, Paired
  <2>3. j \in Int /\ 1 <= j /\ j <= Len(r) /\ i + 1 <= j + d
    BY <1>1, <2>1, <2>2
  <2>4. j \in 1 .. Len(r) /\ j + d \in i + 1 .. Len(z)
    BY <1>1, <2>3
  <2> QED BY <2>2, <2>4
<1>7. \A i, j \in 1 .. Len(z) : z[i].do = "try" => z[j].do # "unshare"
  <2> TAKE i, j \in 1 .. Len(z)
  <2> SUFFICES ASSUME z[i].do = "try", z[j].do = "unshare" PROVE FALSE
    OBVIOUS
  <2>1. i - d \in 1 .. Len(r) /\ j - d \in 1 .. Len(r) /\ r[i - d].do = "try" /\ r[j - d].do = "unshare"
    BY <1>2
  <2> QED BY <2>1 DEF Script, Paired
<1>8. ~Gives(z)
  <2> SUFFICES ASSUME NEW i \in 1 .. Len(z), z[i].do = "unshare" PROVE \E k \in 1 .. Len(z) : z[k].do = "share"
    BY DEF Gives
  <2>1. i - d \in 1 .. Len(r) /\ r[i - d].do = "unshare"
    BY <1>2
  <2>2. PICK k \in 1 .. Len(r) : r[k].do = "share"
    BY <2>1 DEF Script, Gives
  <2>3. k + d \in 1 .. Len(z) /\ z[k + d].do = "share"
    BY <1>3, <2>2
  <2> QED BY <2>3
<1> QED BY <1>4, <1>5, <1>6, <1>7, <1>8 DEF Script, Paired

(* A script may be preceded by a locking sequence, and followed by one.    *)
LEMMA ScriptConcat ==
  ASSUME NEW r, NEW q, Script(r), Locking(q)
  PROVE  Script(r \o q) /\ Script(q \o r)
<1>1. r \in Seq(Steps) /\ q \in Seq(Steps) /\ Len(r) \in Nat /\ Len(q) \in Nat
  BY DEF Script, Locking
<1>2. Script(r \o q)
  <2>0. r \o q \in Seq(Steps)
    BY <1>1
  <2>1. PICK z \in Seq(Steps) : z = r \o q
    BY <2>0
  <2>2. /\ Len(z) = Len(r) + Len(q) /\ \A k \in 1 .. Len(r) : z[k] = r[k]
        /\ \A k \in 1 .. Len(z) : k \in 1 .. Len(r) \/ (k - Len(r) \in 1 .. Len(q) /\ z[k] = q[k - Len(r)])
    BY <1>1, <2>1
  <2>3. \A k \in 1 .. Len(z) : k - 0 \in 1 .. Len(r) \/ z[k].do \in {"lock", "unlock"}
    BY <1>1, <2>2 DEF Locking
  <2>4. \A k \in 1 .. Len(r) : z[k + 0] = r[k]
    BY <2>2
  <2>5. Len(r) + 0 <= Len(z)
    BY <1>1, <2>2
  <2> QED BY <2>1, <2>3, <2>4, <2>5, Shifted
<1>3. Script(q \o r)
  <2>0. q \o r \in Seq(Steps)
    BY <1>1
  <2>1. PICK z \in Seq(Steps) : z = q \o r
    BY <2>0
  <2>2. PICK d \in Nat : d = Len(q)
    BY <1>1
  <2>3. /\ Len(z) = d + Len(r) /\ \A k \in 1 .. d : z[k] = q[k]
        /\ \A k \in 1 .. Len(r) : z[k + d] = r[k]
    BY <1>1, <2>1, <2>2
  <2>4. ASSUME NEW k \in 1 .. Len(z) PROVE k - d \in 1 .. Len(r) \/ z[k].do \in {"lock", "unlock"}
    <3>1. k \in 1 .. d \/ k - d \in 1 .. Len(r)
      BY <1>1, <2>3
    <3>2. k \in 1 .. d => z[k].do \in {"lock", "unlock"}
      BY <2>2, <2>3 DEF Locking
    <3> QED BY <3>1, <3>2
  <2>5. Len(r) + d <= Len(z)
    BY <1>1, <2>3
  <2> QED BY <2>1, <2>3, <2>4, <2>5, Shifted
<1> QED BY <1>2, <1>3

(* What only locks shares nothing.                                         *)
LEMMA LockingScript ==
  ASSUME NEW s, Locking(s)
  PROVE  Script(s)
BY DEF Locking, Script, Paired, Gives

(* A walk over the sections, with or without taking memory, is a script.   *)
LEMMA WalkFacts == Script(Walk) /\ Script(<<Share, Unshare>>)
<1>1. "malloc" \in Mutexes
  BY DEF Mutexes
<1>2. PICK a, b, c, d : a = Share /\ b = Lock("malloc") /\ c = Unlock("malloc") /\ d = Unshare
  OBVIOUS
<1>3. /\ {a, b, c, d} \subseteq Steps
      /\ a.do = "share" /\ b.do = "lock" /\ c.do = "unlock" /\ d.do = "unshare"
  BY <1>1, <1>2, StepFacts
<1>4. Walk = <<a, b, c, d>>
  <2>1. Walk = <<a>> \o <<b, c>> \o <<d>>
    BY <1>2 DEF Walk, Allocate, Hold
  <2>2. PICK p, q : p = <<a>> \o <<b, c>> /\ q = p \o <<d>>
    OBVIOUS
  <2>3. p \in Seq(Steps) /\ Len(p) = 3 /\ p[1] = a /\ p[2] = b /\ p[3] = c
    BY <1>3, <2>2
  <2>4. q \in Seq(Steps) /\ Len(q) = 4 /\ q[1] = a /\ q[2] = b /\ q[3] = c /\ q[4] = d
    BY <1>3, <2>2, <2>3
  <2>5. <<a, b, c, d>> \in Seq(Steps) /\ Len(<<a, b, c, d>>) = 4
    BY <1>3
  <2>6. q = <<a, b, c, d>>
    BY <2>4, <2>5
  <2> QED BY <2>1, <2>2, <2>6
<1>5. Script(<<a, b, c, d>>)
  BY <1>3 DEF Script, Paired, Gives
<1>6. Script(<<a, d>>)
  BY <1>3 DEF Script, Paired, Gives
<1> QED BY <1>2, <1>4, <1>5, <1>6

(* What a program does with the locks is a script, and what a handler does *)
(* while it dumps.                                                         *)
LEMMA ScriptFacts ==
  /\ Script(<<>>)
  /\ \A s \in Signals : Script(Dump(s))
  /\ \A t \in ProcessThreads : \A s \in Programs(t) : Script(s)
<1>0. {"list", "total", "sections", "log"} \subseteq Mutexes
  BY DEF Mutexes
<1>1. Script(<<>>)
  BY DEF Script, Paired, Gives
<1>2. /\ Locking(Allocate) /\ Locking(Log) /\ Locking(Flush)
      /\ \A m \in Mutexes : Locking(Within(m)) /\ Locking(Hold(m))
  BY <1>0, HoldFacts, WithinFacts, FlushFacts DEF Log
<1>3. Script(SigintReport)
  <2>1. PICK f : f = (Flush \o Flush) \o Within("total")
    OBVIOUS
  <2>2. Locking(f)
    BY <1>0, <1>2, <2>1, LockingConcat
  <2>3. Script(f \o Walk)
    BY <2>2, WalkFacts, ScriptConcat
  <2>4. Script((f \o Walk) \o Log)
    BY <1>2, <2>3, ScriptConcat
  <2> QED BY <2>1, <2>4 DEF SigintReport
<1>4. ASSUME NEW s \in Signals PROVE Script(Dump(s))
  <2>1. Script(Allocate)
    BY <1>2, LockingScript
  <2> QED BY <1>2, <1>3, <2>1, ScriptConcat DEF Dump
<1>5. ASSUME NEW t \in ProcessThreads, NEW s \in Programs(t) PROVE Script(s)
  <2>0. t \in Mutexes
    BY DEF Mutexes
  <2>1. CASE s \in {Walk, <<Share, Unshare>>}
    BY <2>1, WalkFacts
  <2>2. CASE s = <<Try(t), Unlock(t)>>
    <3>1. Try(t) \in Steps /\ Unlock(t) \in Steps /\ Try(t).do = "try" /\ Unlock(t).do = "unlock"
      BY <2>0, StepFacts
    <3>2. s \in Seq(Steps) /\ Len(s) = 2 /\ s[1].do = "try" /\ s[2].do = "unlock"
      BY <2>2, <3>1
    <3> QED BY <3>2 DEF Script, Paired, Gives
  <2>3. CASE s \in {Allocate, Log, Flush, Within("total"), Within("sections"), Within("list"), Within(t), Hold("total")}
    BY <1>0, <1>2, <2>0, <2>3, LockingScript
  <2> QED BY <2>1, <2>2, <2>3 DEF Programs
<1> QED BY <1>1, <1>4, <1>5

-----------------------------------------------------------------------------
(* Steps of the activation that runs.                                      *)

(* The activation of a thread that runs.                                   *)
LEMMA TopFacts ==
  ASSUME Stacks, NEW t \in ProcessThreads
  PROVE  /\ stack[t] \in Seq(Activations) /\ Len(stack[t]) \in Nat \ {0}
         /\ Len(stack[t]) \in DOMAIN stack[t] /\ DOMAIN stack[t] = 1 .. Len(stack[t])
         /\ Top(t) = stack[t][Len(stack[t])] /\ Top(t) \in Activations
<1>1. stack[t] \in Seq(Activations) /\ Len(stack[t]) \in 1 .. sent + 1
  BY DEF Stacks
<1> QED BY <1>1 DEF Top, Last

\* The running activation of t becomes a, and goes on with what it was for.
TopBecomes(t, a) ==
  /\ stack' \in [ProcessThreads -> Seq(Activations)]
  /\ \A u \in ProcessThreads : u # t => stack'[u] = stack[u]
  /\ Len(stack'[t]) = Len(stack[t]) /\ stack'[t][Len(stack[t])] = a
  /\ \A i \in 1 .. Len(stack[t]) - 1 : stack'[t][i] = stack[t][i]

GoesOn(t, a) ==
  /\ TopBecomes(t, a)
  /\ a.kind = Top(t).kind /\ a.signal = Top(t).signal /\ (a.at = "running" <=> Top(t).at = "running")
  /\ Paired(a.todo) /\ (a.at \notin {"running", "dumping"} => a.todo = <<>>)

(* SetTop replaces it and leaves what is below.                            *)
LEMMA SetTopFacts ==
  ASSUME Stacks, NEW t \in ProcessThreads, NEW a \in Activations, SetTop(t, a)
  PROVE  TopBecomes(t, a)
<1>1. PICK s : s = stack[t]
  OBVIOUS
<1>2. s \in Seq(Activations) /\ Len(s) \in Nat \ {0}
  BY <1>1, TopFacts
<1>3. PICK r : r = Front(s) \o <<a>>
  OBVIOUS
<1>4. /\ Front(s) \in Seq(Activations) /\ Len(Front(s)) = Len(s) - 1
      /\ \A i \in 1 .. Len(s) - 1 : Front(s)[i] = s[i]
  <2>1. PICK m \in Nat : m = Len(s) - 1
    BY <1>2
  <2>2. /\ SubSeq(s, 1, m) \in Seq(Activations) /\ Len(SubSeq(s, 1, m)) = m
        /\ \A i \in 1 .. m : SubSeq(s, 1, m)[i] = s[i]
    <3>1. m \in 0 .. Len(s)
      BY <1>2, <2>1
    <3>2. SubSeq(s, 1, m) \in Seq(Activations)
      BY <1>2, <3>1
    <3>3. Len(SubSeq(s, 1, m)) = m
      BY <1>2, <3>1
    <3>4. ASSUME NEW i \in 1 .. m PROVE SubSeq(s, 1, m)[i] = s[i]
      BY <1>2, <3>1, <3>4
    <3> QED BY <3>2, <3>3, <3>4
  <2>3. Front(s) = SubSeq(s, 1, m)
    BY <2>1 DEF Front
  <2> QED BY <2>1, <2>2, <2>3
<1>5. /\ r \in Seq(Activations) /\ Len(r) = Len(s) /\ r[Len(s)] = a
      /\ \A i \in 1 .. Len(s) - 1 : r[i] = s[i]
  BY <1>2, <1>3, <1>4
<1>6. stack' = [stack EXCEPT ![t] = r] /\ stack \in [ProcessThreads -> Seq(Activations)]
  BY <1>1, <1>3 DEF SetTop, Stacks
<1> QED BY <1>1, <1>5, <1>6 DEF TopBecomes

(* The stacks are well formed after it has gone on.                        *)
LEMMA GoesOnFacts ==
  ASSUME Stacks, sent \in Nat, sent' = sent, NEW t \in ProcessThreads, NEW a, GoesOn(t, a)
  PROVE  /\ Stacks'
         /\ \A u \in ProcessThreads : DOMAIN stack'[u] = DOMAIN stack[u] /\ (Handlers(u))' = Handlers(u)
         /\ \A u \in ProcessThreads : u # t => Sharing(u)' = Sharing(u)
         /\ Sharing(t)' = IF GivesBack(a) THEN Sharing(t) \union {Len(stack[t])} ELSE Sharing(t) \ {Len(stack[t])}
<1> DEFINE n == Len(stack[t])
<1>1. /\ stack[t] \in Seq(Activations) /\ n \in Nat \ {0} /\ n \in 1 .. n /\ DOMAIN stack[t] = 1 .. n
      /\ Top(t) = stack[t][n]
  BY TopFacts
<1>2. /\ stack' \in [ProcessThreads -> Seq(Activations)]
      /\ \A u \in ProcessThreads : u # t => stack'[u] = stack[u]
      /\ DOMAIN stack'[t] = 1 .. n /\ Len(stack'[t]) = n /\ stack'[t][n] = a
      /\ \A i \in 1 .. n : i # n => stack'[t][i] = stack[t][i]
  BY <1>1 DEF GoesOn, TopBecomes
<1> HIDE DEF n
<1>3. \A i \in 1 .. n : stack'[t][i].signal = stack[t][i].signal /\ stack'[t][i].kind = stack[t][i].kind
  BY <1>1, <1>2 DEF GoesOn
<1>4. ASSUME NEW u \in ProcessThreads PROVE DOMAIN stack'[u] = DOMAIN stack[u] /\ (Handlers(u))' = Handlers(u)
  <2>1. CASE u = t
    <3>1. \A i \in 1 .. n : stack'[u][i].kind = stack[u][i].kind
      BY <1>3, <2>1
    <3> QED BY <1>1, <1>2, <2>1, <3>1 DEF Handlers
  <2>2. CASE u # t
    BY <1>2, <2>2 DEF Handlers
  <2> QED BY <2>1, <2>2
<1>5. ASSUME NEW u \in ProcessThreads, NEW i \in DOMAIN stack'[u] PROVE Activation(u, i)'
  <2>1. i \in DOMAIN stack[u] /\ Activation(u, i)
    BY <1>4 DEF Stacks
  <2>2. CASE u # t \/ i # n
    <3>1. stack'[u][i] = stack[u][i]
      BY <1>1, <1>2, <2>1, <2>2
    <3> QED BY <2>1, <3>1 DEF Activation
  <2>3. CASE u = t /\ i = n
    <3>1. stack'[u][i] = a /\ stack[u][i] = Top(t)
      BY <1>1, <1>2, <2>3
    <3> QED BY <2>1, <3>1 DEF Activation, GoesOn
  <2> QED BY <2>2, <2>3
<1>6. ASSUME NEW u \in ProcessThreads, NEW i \in DOMAIN stack'[u], NEW j \in DOMAIN stack'[u], 1 < i, i < j
      PROVE  stack'[u][i].signal # stack'[u][j].signal
  <2>1. stack[u][i].signal # stack[u][j].signal /\ i \in DOMAIN stack[u] /\ j \in DOMAIN stack[u]
    BY <1>4, <1>6 DEF Stacks
  <2> QED BY <1>1, <1>2, <1>3, <2>1
<1>7. ASSUME NEW u \in ProcessThreads PROVE Len(stack'[u]) \in 1 .. sent' + 1
  <2>1. Len(stack'[u]) = Len(stack[u])
    BY <1>2 DEF n
  <2> QED BY <2>1 DEF Stacks
<1>8. Stacks'
  BY <1>2, <1>5, <1>6, <1>7 DEF Stacks
<1>9. \A u \in ProcessThreads : u # t => Sharing(u)' = Sharing(u)
  BY <1>2 DEF Sharing
<1>10. Sharing(t)' = IF GivesBack(a) THEN Sharing(t) \union {n} ELSE Sharing(t) \ {n}
  BY <1>1, <1>2 DEF Sharing
<1> QED BY <1>4, <1>8, <1>9, <1>10 DEF n

(* The shared lock is counted right if it is taken by who will give it     *)
(* back.                                                                   *)
LEMMA SharedKept ==
  ASSUME HInv, sent' = sent, NEW t \in ProcessThreads, NEW a, GoesOn(t, a), sharers' \in [ProcessThreads -> Int],
         \A u \in ProcessThreads : u # t => sharers'[u] = sharers[u],
         \/ sharers'[t] = sharers[t] /\ (GivesBack(a) <=> GivesBack(Top(t)))
         \/ sharers'[t] = sharers[t] + 1 /\ GivesBack(a) /\ ~GivesBack(Top(t))
         \/ sharers'[t] = sharers[t] - 1 /\ ~GivesBack(a) /\ GivesBack(Top(t))
  PROVE  Shared' /\ sharers' \in [ProcessThreads -> Nat]
<1> DEFINE n == Len(stack[t])
<1>0. Stacks /\ sent \in Nat /\ Shared /\ sharers \in [ProcessThreads -> Nat]
  BY SignalAssumption DEF HInv, Kernel
<1>1. stack[t] \in Seq(Activations) /\ n \in Nat /\ n \in 1 .. n /\ DOMAIN stack[t] = 1 .. n /\ Top(t) = stack[t][n]
  BY <1>0, TopFacts
<1>2. \A u \in ProcessThreads : u # t => Sharing(u)' = Sharing(u)
  BY <1>0, GoesOnFacts
<1>3. Sharing(t)' = IF GivesBack(a) THEN Sharing(t) \union {n} ELSE Sharing(t) \ {n}
  BY <1>0, GoesOnFacts
<1>4. (n \in Sharing(t) <=> GivesBack(Top(t))) /\ Sharing(t) \subseteq 1 .. n
  BY <1>1 DEF Sharing
<1> HIDE DEF n
<1>5. IsFiniteSet(1 .. n)
  BY <1>1, FS_Interval
<1>6. IsFiniteSet(Sharing(t)) /\ Cardinality(Sharing(t)) \in Nat
  BY <1>4, <1>5, FS_Subset, FS_CardinalityType
<1>7. /\ Cardinality(Sharing(t) \union {n}) = IF n \in Sharing(t) THEN Cardinality(Sharing(t)) ELSE Cardinality(Sharing(t)) + 1
      /\ Cardinality(Sharing(t) \ {n}) = IF n \in Sharing(t) THEN Cardinality(Sharing(t)) - 1 ELSE Cardinality(Sharing(t))
      /\ Cardinality(Sharing(t) \union {n}) \in Nat /\ Cardinality(Sharing(t) \ {n}) \in Nat
  BY <1>6, FS_AddElement, FS_RemoveElement, FS_CardinalityType
<1>8. sharers[t] = Cardinality(Sharing(t))
  BY <1>0 DEF Shared
<1>9. sharers'[t] = Cardinality(Sharing(t)') /\ sharers'[t] \in Nat
  BY <1>3, <1>4, <1>6, <1>7, <1>8
<1>10. \A u \in ProcessThreads : u # t => sharers'[u] = Cardinality(Sharing(u)') /\ sharers'[u] \in Nat
  BY <1>0, <1>2 DEF Shared
<1> QED BY <1>9, <1>10 DEF Shared

(* A step of one activation that neither brings the process to life nor    *)
(* makes a second thread dump.                                             *)
LEMMA GoesOnKeeps ==
  ASSUME HInv, sent' = sent, NEW t \in ProcessThreads, NEW a, GoesOn(t, a), Kernel', Shared',
         current_thread_in_handler' = current_thread_in_handler
           \/ (current_thread_in_handler = NoThread /\ current_thread_in_handler' = t /\ Handlers(t) # {}),
         alive' => alive, waiting \subseteq waiting',
         a.at \in {"dumping", "nested", "returning"} => t = current_thread_in_handler',
         alive' /\ a.at = "returning" => a.signal \in waiting'
  PROVE  HInv'
<1>1. Stacks /\ sent \in Nat /\ Dumpers /\ Raised /\ FrameIsThere /\ NoThread \notin ProcessThreads
  BY SignalAssumption DEF HInv, Kernel
<1>2. Stacks' /\ \A u \in ProcessThreads : DOMAIN stack'[u] = DOMAIN stack[u] /\ (Handlers(u))' = Handlers(u)
  BY <1>1, GoesOnFacts
<1>3. ASSUME NEW u \in ProcessThreads, NEW i \in DOMAIN stack'[u]
      PROVE  i \in DOMAIN stack[u] /\ (stack'[u][i] = stack[u][i] \/ (u = t /\ stack'[u][i] = a))
  <2>1. DOMAIN stack[t] = 1 .. Len(stack[t]) /\ Len(stack[t]) \in Nat
    BY <1>1, TopFacts
  <2> QED BY <1>2, <1>3, <2>1 DEF GoesOn, TopBecomes
<1>4. Dumpers'
  BY <1>1, <1>3 DEF Dumpers
<1>5. Raised'
  BY <1>1, <1>3 DEF Raised
<1>6. FrameIsThere'
  <2> SUFFICES ASSUME alive', current_thread_in_handler' # NoThread
               PROVE  Handlers(current_thread_in_handler)' # {}
    BY DEF FrameIsThere
  <2>1. current_thread_in_handler' \in ProcessThreads
    BY DEF Kernel
  <2>2. Handlers(current_thread_in_handler)' = Handlers(current_thread_in_handler')
    BY <1>2, <2>1 DEF Handlers
  <2> QED BY <1>1, <2>2 DEF FrameIsThere
<1> QED BY <1>2, <1>4, <1>5, <1>6 DEF HInv

(* After its first step a script has to give back what it had, and what    *)
(* the step has taken.                                                     *)
LEMMA TailFacts ==
  ASSUME NEW s \in Seq(Steps), Paired(s), s # <<>>
  PROVE  /\ Head(s) \in Steps /\ Tail(s) \in Seq(Steps) /\ Paired(Tail(s))
         /\ Gives(s) <=> (Head(s).do = "unshare" \/ (Gives(Tail(s)) /\ Head(s).do # "share"))
         /\ Head(s).do = "share" => Gives(Tail(s))
         /\ Head(s).do \in {"unshare", "try"} => ~Gives(Tail(s))
<1>1. /\ Head(s) \in Steps /\ Tail(s) \in Seq(Steps) /\ Len(s) \in Nat \ {0} /\ Len(Tail(s)) = Len(s) - 1
      /\ Head(s) = s[1] /\ \A k \in 1 .. Len(s) - 1 : Tail(s)[k] = s[k + 1]
  OBVIOUS
<1>2. PICK r \in Seq(Steps) : r = Tail(s)
  BY <1>1
<1>3. PICK n \in Nat : n = Len(r)
  OBVIOUS
<1>4. /\ Len(s) = n + 1
      /\ \A k \in 1 .. n : r[k] = s[k + 1] /\ k + 1 \in 2 .. n + 1
      /\ \A k \in 1 .. n + 1 : k = 1 \/ (k - 1 \in 1 .. n /\ s[k] = r[k - 1])
  BY <1>1, <1>2, <1>3
<1>5. Paired(r)
  <2>1. \A i, j \in 1 .. n : r[i].do = "share" /\ r[j].do = "share" => i = j
    <3> TAKE i, j \in 1 .. n
    <3>1. r[i] = s[i + 1] /\ r[j] = s[j + 1] /\ i + 1 \in 1 .. n + 1 /\ j + 1 \in 1 .. n + 1
      BY <1>4
    <3>2. r[i].do = "share" /\ r[j].do = "share" => i + 1 = j + 1
      BY <1>4, <3>1 DEF Paired
    <3> QED BY <3>2
  <2>2. \A i, j \in 1 .. n : r[i].do = "unshare" /\ r[j].do = "unshare" => i = j
    <3> TAKE i, j \in 1 .. n
    <3>1. r[i] = s[i + 1] /\ r[j] = s[j + 1] /\ i + 1 \in 1 .. n + 1 /\ j + 1 \in 1 .. n + 1
      BY <1>4
    <3>2. r[i].do = "unshare" /\ r[j].do = "unshare" => i + 1 = j + 1
      BY <1>4, <3>1 DEF Paired
    <3> QED BY <3>2
  <2>3. \A i \in 1 .. n : r[i].do = "share" => \E j \in i + 1 .. n : r[j].do = "unshare"
    <3> TAKE i \in 1 .. n
    <3> HAVE r[i].do = "share"
    <3>1. PICK j \in (i + 1) + 1 .. n + 1 : s[j].do = "unshare"
      BY <1>4 DEF Paired
    <3>2. j - 1 \in i + 1 .. n /\ r[j - 1] = s[j]
      BY <1>4, <3>1
    <3> QED BY <3>1, <3>2
  <2>4. \A i, j \in 1 .. n : r[i].do = "try" => r[j].do # "unshare"
    BY <1>4 DEF Paired
  <2> QED BY <1>3, <2>1, <2>2, <2>3, <2>4 DEF Paired
<1>6. s[1].do = "share" => Gives(r)
  <2> HAVE s[1].do = "share"
  <2>1. PICK j \in 2 .. n + 1 : s[j].do = "unshare"
    BY <1>4 DEF Paired
  <2>2. j - 1 \in 1 .. n /\ r[j - 1].do = "unshare"
    BY <1>4, <2>1
  <2>3. \A k \in 1 .. n : r[k].do # "share"
    <3> TAKE k \in 1 .. n
    <3>1. r[k] = s[k + 1] /\ k + 1 # 1 /\ k + 1 \in 1 .. n + 1 /\ 1 \in 1 .. n + 1
      BY <1>4
    <3> QED BY <1>4, <3>1 DEF Paired
  <2> QED BY <1>3, <2>2, <2>3 DEF Gives
<1>7. s[1].do \in {"unshare", "try"} => ~Gives(r)
  <2> SUFFICES ASSUME s[1].do \in {"unshare", "try"}, NEW k \in 1 .. n, r[k].do = "unshare" PROVE FALSE
    BY <1>3 DEF Gives
  <2>1. s[k + 1].do = "unshare" /\ k + 1 # 1 /\ k + 1 \in 1 .. n + 1 /\ 1 \in 1 .. n + 1
    BY <1>4
  <2> QED BY <1>4, <2>1 DEF Paired
<1>8. s[1].do = "share" => ~Gives(s)
  BY <1>1 DEF Gives
<1>9. s[1].do = "unshare" => Gives(s)
  <2> SUFFICES ASSUME s[1].do = "unshare", NEW k \in 1 .. n + 1, s[k].do = "share" PROVE FALSE
    BY <1>1, <1>4 DEF Gives
  <2>1. PICK j \in k + 1 .. n + 1 : s[j].do = "unshare"
    BY <1>4 DEF Paired
  <2>2. j # 1 /\ j \in 1 .. n + 1 /\ 1 \in 1 .. n + 1
    BY <2>1
  <2> QED BY <1>4, <2>1, <2>2 DEF Paired
<1>10. s[1].do \notin {"share", "unshare"} => (Gives(s) <=> Gives(r))
  <2> HAVE s[1].do \notin {"share", "unshare"}
  <2>1. \A k \in 1 .. n : k + 1 \in 1 .. n + 1 /\ r[k] = s[k + 1]
    BY <1>4
  <2>2. Gives(s) => Gives(r)
    BY <1>3, <1>4, <2>1 DEF Gives
  <2>3. Gives(r) => Gives(s)
    BY <1>3, <1>4, <2>1 DEF Gives
  <2> QED BY <2>2, <2>3
<1> QED BY <1>1, <1>2, <1>5, <1>6, <1>7, <1>8, <1>9, <1>10

(* What runs is a program or a handler, and only who runs or dumps has a   *)
(* script.                                                                 *)
LEMMA TopIs ==
  ASSUME Stacks, NEW t \in ProcessThreads
  PROVE  /\ Top(t).todo \in Seq(Steps) /\ Paired(Top(t).todo)
         /\ Top(t).at \notin {"running", "dumping"} => Top(t).todo = <<>>
         /\ Top(t).kind = "program" <=> Top(t).at = "running"
         /\ Top(t).kind = "handler" => Top(t).signal \in Signals /\ Len(stack[t]) \in Handlers(t)
<1>1. /\ Len(stack[t]) \in Nat \ {0} /\ Len(stack[t]) \in DOMAIN stack[t]
      /\ Top(t) = stack[t][Len(stack[t])] /\ Top(t) \in Activations
  BY TopFacts
<1>2. Activation(t, Len(stack[t]))
  BY <1>1 DEF Stacks
<1>3. CASE Len(stack[t]) = 1
  BY <1>1, <1>2, <1>3 DEF Activation, Activations
<1>4. CASE Len(stack[t]) > 1
  <2>1. /\ Top(t).todo \in Seq(Steps) /\ Paired(Top(t).todo) /\ Top(t).kind = "handler" /\ Top(t).at # "running"
        /\ Top(t).signal \in Signals /\ (Top(t).at \notin {"running", "dumping"} => Top(t).todo = <<>>)
    BY <1>1, <1>2, <1>4 DEF Activation, Activations
  <2>2. Len(stack[t]) \in Handlers(t)
    BY <1>1, <2>1 DEF Handlers
  <2> QED BY <2>1, <2>2
<1>5. Len(stack[t]) = 1 \/ Len(stack[t]) > 1
  <2>1. PICK n \in Nat \ {0} : n = Len(stack[t])
    BY <1>1
  <2>2. n = 1 \/ n > 1
    OBVIOUS
  <2> QED BY <2>1, <2>2
<1> QED BY <1>3, <1>4, <1>5

(* A program begins an operation.                                          *)
LEMMA BeginStep ==
  ASSUME HInv, NEW t \in ProcessThreads, BeginOperation(t)
  PROVE  HInv'
<1>1. /\ Stacks /\ sent \in Nat /\ Kernel /\ Top(t) \in Activations /\ Top(t).kind = "program" /\ Top(t).todo = <<>>
      /\ Top(t).at = "running"
  BY TopFacts, TopIs, SignalAssumption DEF HInv, Kernel, BeginOperation
<1>2. PICK s \in Programs(t) : SetTop(t, [Top(t) EXCEPT !.todo = s])
  BY DEF BeginOperation
<1>3. PICK a : a = [Top(t) EXCEPT !.todo = s]
  OBVIOUS
<1>4. Script(s)
  BY ScriptFacts
<1>5. a \in Activations /\ a.todo = s /\ a.kind = Top(t).kind /\ a.signal = Top(t).signal /\ a.at = Top(t).at
  BY <1>1, <1>3, <1>4 DEF Activations, Script
<1>6. GoesOn(t, a)
  BY <1>1, <1>2, <1>3, <1>4, <1>5, SetTopFacts DEF GoesOn, Script
<1>7. UNCHANGED <<lockVars, current_thread_in_handler, signalVars>>
  BY DEF BeginOperation
<1>8. sent' = sent /\ Kernel'
  BY <1>1, <1>7 DEF signalVars, lockVars, Kernel
<1>9. ~GivesBack(a) /\ ~GivesBack(Top(t))
  BY <1>1, <1>4, <1>5, ScriptFacts DEF GivesBack, Script
<1>10. Shared'
  <2>1. sharers' = sharers /\ sharers \in [ProcessThreads -> Int]
    BY <1>1, <1>7 DEF lockVars, Kernel
  <2> QED BY <1>6, <1>8, <1>9, <2>1, SharedKept
<1>11. UNCHANGED <<current_thread_in_handler, alive, waiting>>
  BY <1>7 DEF signalVars
<1> QED BY <1>1, <1>5, <1>6, <1>8, <1>10, <1>11, GoesOnKeeps

(* A step on a lock.                                                       *)
LEMMA LockSteps ==
  ASSUME HInv, NEW t \in ProcessThreads, LockStep(t)
  PROVE  HInv'
<1> DEFINE step == Head(Top(t).todo)
           rest == [Top(t) EXCEPT !.todo = Tail(@)]
           given == [rest EXCEPT !.todo = <<>>]
<1>1. /\ Stacks /\ sent \in Nat /\ Kernel /\ Top(t) \in Activations /\ Top(t).todo # <<>>
      /\ Top(t).todo \in Seq(Steps) /\ Paired(Top(t).todo) /\ Top(t).at \in {"running", "dumping"}
      /\ Len(stack[t]) \in 1 .. sent + 1
  <2>1. Stacks /\ Kernel /\ sent \in Nat /\ Top(t).todo # <<>>
    BY SignalAssumption DEF HInv, Kernel, LockStep
  <2>2. /\ Top(t) \in Activations /\ Top(t).todo \in Seq(Steps) /\ Paired(Top(t).todo)
        /\ Top(t).at \in {"running", "dumping"}
    BY <2>1, TopFacts, TopIs
  <2>3. Len(stack[t]) \in 1 .. sent + 1
    BY <2>1 DEF Stacks
  <2> QED BY <2>1, <2>2, <2>3
<1>2. /\ step \in Steps /\ Tail(Top(t).todo) \in Seq(Steps) /\ Paired(Tail(Top(t).todo))
      /\ Gives(Top(t).todo) <=> (step.do = "unshare" \/ (Gives(Tail(Top(t).todo)) /\ step.do # "share"))
      /\ step.do = "share" => Gives(Tail(Top(t).todo))
      /\ step.do \in {"unshare", "try"} => ~Gives(Tail(Top(t).todo))
  BY <1>1, TailFacts
<1>3. /\ rest \in Activations /\ rest.todo = Tail(Top(t).todo) /\ given \in Activations /\ given.todo = <<>>
      /\ rest.kind = Top(t).kind /\ rest.signal = Top(t).signal /\ rest.at = Top(t).at
      /\ given.kind = Top(t).kind /\ given.signal = Top(t).signal /\ given.at = Top(t).at
  <2>1. PICK q \in Seq(Steps) : q = Tail(Top(t).todo)
    BY <1>2
  <2>2. PICK top \in Activations : top = Top(t)
    BY <1>1
  <2>3. rest = [top EXCEPT !.todo = q] /\ given = [rest EXCEPT !.todo = <<>>]
    BY <2>1, <2>2
  <2>4. /\ rest \in Activations /\ rest.todo = q /\ rest.kind = top.kind /\ rest.signal = top.signal
        /\ rest.at = top.at
    BY <2>3 DEF Activations
  <2>5. <<>> \in Seq(Steps)
    OBVIOUS
  <2>6. given = [top EXCEPT !.todo = <<>>]
    BY <2>3 DEF Activations
  <2>7. /\ given \in Activations /\ given.todo = <<>> /\ given.kind = top.kind /\ given.signal = top.signal
        /\ given.at = top.at
    BY <2>5, <2>6 DEF Activations
  <2> QED BY <2>1, <2>2, <2>4, <2>7
<1>4. step.on \in Mutexes /\ step.do \in {"lock", "try", "unlock", "share", "unshare"}
  BY <1>2 DEF Steps
<1>5. /\ GivesBack(Top(t)) <=> (step.do = "unshare" \/ (GivesBack(rest) /\ step.do # "share"))
      /\ step.do = "share" => GivesBack(rest)
      /\ step.do \in {"unshare", "try"} => ~GivesBack(rest)
      /\ ~GivesBack(given)
  BY <1>2, <1>3, ScriptFacts DEF GivesBack, Script
<1>6. /\ UNCHANGED <<current_thread_in_handler, disposition, sent, waiting, alive>>
      /\ sharers \in [ProcessThreads -> Nat] /\ owner \in [Mutexes -> {NoThread} \union (ProcessThreads \X (1 .. MaxSent + 1))]
  BY <1>1 DEF LockStep, signalVars, Kernel
<1>7. \/ /\ SetTop(t, rest) /\ step.do \in {"lock", "try", "unlock"} /\ UNCHANGED sharers
         /\ \/ owner' = [owner EXCEPT ![step.on] = <<t, Len(stack[t])>>]
            \/ owner' = [owner EXCEPT ![step.on] = NoThread]
      \/ SetTop(t, given) /\ step.do = "try" /\ UNCHANGED <<owner, sharers>>
      \/ /\ SetTop(t, rest) /\ step.do \in {"share", "unshare"} /\ UNCHANGED owner
         /\ sharers' = [sharers EXCEPT ![t] = IF step.do = "share" THEN @ + 1 ELSE @ - 1]
  BY DEF LockStep, lockVars
<1>8. owner' \in [Mutexes -> {NoThread} \union (ProcessThreads \X (1 .. MaxSent + 1))]
  <2>1. <<t, Len(stack[t])>> \in ProcessThreads \X (1 .. MaxSent + 1)
    BY <1>1, SignalAssumption DEF Kernel
  <2> HIDE DEF step, rest, given
  <2> QED BY <1>4, <1>6, <1>7, <2>1
<1>9. PICK a : /\ a \in {rest, given} /\ SetTop(t, a) /\ sharers' \in [ProcessThreads -> Int]
               /\ \A u \in ProcessThreads : u # t => sharers'[u] = sharers[u]
               /\ \/ sharers'[t] = sharers[t] /\ (GivesBack(a) <=> GivesBack(Top(t)))
                  \/ sharers'[t] = sharers[t] + 1 /\ GivesBack(a) /\ ~GivesBack(Top(t))
                  \/ sharers'[t] = sharers[t] - 1 /\ ~GivesBack(a) /\ GivesBack(Top(t))
  <2> HIDE DEF step, rest, given
  <2>1. CASE SetTop(t, rest) /\ step.do \in {"lock", "try", "unlock"} /\ UNCHANGED sharers
    BY <1>5, <1>6, <2>1
  <2>2. CASE SetTop(t, given) /\ step.do = "try" /\ UNCHANGED sharers
    BY <1>5, <1>6, <2>2
  <2>3. CASE /\ SetTop(t, rest) /\ step.do \in {"share", "unshare"}
             /\ sharers' = [sharers EXCEPT ![t] = IF step.do = "share" THEN @ + 1 ELSE @ - 1]
    <3>1. sharers' \in [ProcessThreads -> Int] /\ \A u \in ProcessThreads : u # t => sharers'[u] = sharers[u]
      BY <1>6, <2>3
    <3>2. CASE step.do = "share"
      BY <1>5, <1>6, <2>3, <3>1, <3>2
    <3>3. CASE step.do = "unshare"
      BY <1>5, <1>6, <2>3, <3>1, <3>3
    <3> QED BY <2>3, <3>2, <3>3
  <2> QED BY <1>7, <2>1, <2>2, <2>3
<1>10. /\ a \in Activations /\ a.at = Top(t).at /\ a.signal = Top(t).signal /\ a.kind = Top(t).kind
       /\ a.todo \in {Tail(Top(t).todo), <<>>}
  BY <1>3, <1>9
<1>11. GoesOn(t, a)
  <2>1. Paired(a.todo)
    BY <1>2, <1>10, ScriptFacts DEF Script
  <2>2. TopBecomes(t, a)
    BY <1>1, <1>9, <1>10, SetTopFacts
  <2> QED BY <1>1, <1>10, <2>1, <2>2 DEF GoesOn
<1>12. Shared' /\ sharers' \in [ProcessThreads -> Nat]
  <2>1. sent' = sent
    BY <1>6
  <2> HIDE DEF step, rest, given
  <2>2. /\ sharers' \in [ProcessThreads -> Int]
        /\ \A u \in ProcessThreads : u # t => sharers'[u] = sharers[u]
    BY <1>9
  <2>3. \/ sharers'[t] = sharers[t] /\ (GivesBack(a) <=> GivesBack(Top(t)))
        \/ sharers'[t] = sharers[t] + 1 /\ GivesBack(a) /\ ~GivesBack(Top(t))
        \/ sharers'[t] = sharers[t] - 1 /\ ~GivesBack(a) /\ GivesBack(Top(t))
    BY <1>9
  <2> QED BY <1>11, <2>1, <2>2, <2>3, SharedKept
<1>13. Kernel'
  BY <1>1, <1>6, <1>8, <1>12 DEF Kernel
<1>14. a.at = "dumping" => t = current_thread_in_handler
  <2>1. a.at = stack[t][Len(stack[t])].at /\ Len(stack[t]) \in DOMAIN stack[t]
    BY <1>1, <1>10, TopFacts
  <2> QED BY <2>1 DEF HInv, Dumpers
<1> HIDE DEF step, rest, given
<1> QED BY <1>1, <1>6, <1>10, <1>11, <1>12, <1>13, <1>14, GoesOnKeeps

(* A handler becomes the one that dumps, waits for it, or has interrupted  *)
(* it.                                                                     *)
LEMMA EnterStep ==
  ASSUME HInv, NEW t \in ProcessThreads, Enter(t)
  PROVE  HInv'
<1> DEFINE dumps == Dumping(t)
           waits == [Top(t) EXCEPT !.at = Second(t)]
<1>1. /\ Stacks /\ sent \in Nat /\ Kernel /\ Dumpers /\ Top(t) \in Activations /\ Top(t).todo = <<>> /\ Top(t).kind = "handler"
      /\ Top(t).at = "entered" /\ Handlers(t) # {} /\ Top(t).signal \in Signals
  <2>1. Stacks /\ Kernel /\ Dumpers /\ sent \in Nat /\ Top(t).at = "entered"
    BY SignalAssumption DEF HInv, Kernel, Enter
  <2>2. Top(t) \in Activations /\ Top(t).todo = <<>> /\ Top(t).kind # "program"
    BY <2>1, TopFacts, TopIs
  <2>3. Top(t).kind = "handler"
    BY <2>2 DEF Activations
  <2>4. Handlers(t) # {} /\ Top(t).signal \in Signals
    BY <2>1, <2>3, TopIs
  <2> QED BY <2>1, <2>2, <2>3, <2>4
<1>2. Script(<<>>) /\ Script(Dump(Top(t).signal))
  BY <1>1, ScriptFacts
<1>3. /\ dumps \in Activations /\ dumps.at = "dumping" /\ Script(dumps.todo)
      /\ dumps.kind = Top(t).kind /\ dumps.signal = Top(t).signal
  BY <1>1, <1>2 DEF Activations, Script, Dumping
<1>4. /\ waits \in Activations /\ waits.at = Second(t) /\ waits.todo = <<>> /\ Second(t) \in {"nested", "sleeping"}
      /\ waits.kind = Top(t).kind /\ waits.signal = Top(t).signal
  BY <1>1 DEF Activations, Second
<1>5. /\ UNCHANGED <<owner, sharers, disposition, sent, waiting, alive>> /\ sharers \in [ProcessThreads -> Int]
      /\ \/ current_thread_in_handler = NoThread /\ current_thread_in_handler' = t /\ SetTop(t, dumps)
         \/ SetTop(t, waits) /\ UNCHANGED current_thread_in_handler
  BY <1>1 DEF Enter, signalVars, lockVars, Kernel, First
<1> HIDE DEF dumps, waits
<1>6. PICK a \in {dumps, waits} :
        /\ SetTop(t, a) /\ a \in Activations /\ Script(a.todo) /\ (a.at # "dumping" => a.todo = <<>>)
        /\ a.kind = Top(t).kind /\ a.signal = Top(t).signal /\ a.at \in {"dumping", "nested", "sleeping"}
        /\ \/ current_thread_in_handler = NoThread /\ current_thread_in_handler' = t
           \/ UNCHANGED current_thread_in_handler /\ a.at = Second(t)
  BY <1>2, <1>3, <1>4, <1>5
<1>7. GoesOn(t, a)
  BY <1>1, <1>6, SetTopFacts DEF GoesOn, Script
<1>8. Kernel' /\ sent' = sent
  BY <1>1, <1>5, <1>6 DEF Kernel
<1>9. Shared'
  <2>1. ~GivesBack(a) /\ ~GivesBack(Top(t)) /\ sharers' = sharers
    BY <1>1, <1>2, <1>5, <1>6 DEF GivesBack, Script
  <2> QED BY <1>5, <1>7, <1>8, <2>1, SharedKept
<1>10. a.at \in {"dumping", "nested", "returning"} => t = current_thread_in_handler'
  BY <1>6 DEF Second
<1>11. UNCHANGED <<alive, waiting>>
  BY <1>5
<1> QED BY <1>1, <1>6, <1>7, <1>8, <1>9, <1>10, <1>11, GoesOnKeeps

(* The default action is back, and the signal is raised again.             *)
LEMMA InvokeStep ==
  ASSUME HInv, NEW t \in ProcessThreads, InvokeDefault(t)
  PROVE  HInv'
<1> DEFINE dumps == Dumping(t)
           done == [Top(t) EXCEPT !.at = "returning"]
           s == Top(t).signal
<1>1. /\ Stacks /\ sent \in Nat /\ Kernel /\ Dumpers /\ Top(t) \in Activations /\ Top(t).todo = <<>> /\ s \in Signals
      /\ Top(t).at \in {"nested", "dumping"} /\ Top(t) = stack[t][Len(stack[t])] /\ Len(stack[t]) \in DOMAIN stack[t]
  BY TopFacts, TopIs, SignalAssumption DEF HInv, Kernel, InvokeDefault, Activations
<1>2. Script(<<>>) /\ Script(Dump(s))
  BY <1>1, ScriptFacts
<1>3. /\ dumps \in Activations /\ dumps.at = "dumping" /\ Script(dumps.todo)
      /\ dumps.kind = Top(t).kind /\ dumps.signal = s
  BY <1>1, <1>2 DEF Activations, Script, Dumping
<1>4. /\ done \in Activations /\ done.at = "returning" /\ done.todo = <<>>
      /\ done.kind = Top(t).kind /\ done.signal = s
  BY <1>1 DEF Activations
<1>5. /\ UNCHANGED <<owner, sharers, current_thread_in_handler, sent>> /\ sharers \in [ProcessThreads -> Int]
      /\ disposition' = [disposition EXCEPT ![s] = "default"]
      /\ alive /\ alive' \in BOOLEAN /\ waiting' = waiting \union {s} /\ alive' = alive
  BY <1>1 DEF InvokeDefault, lockVars, Raise, Kernel
<1>6. SetTop(t, dumps) \/ SetTop(t, done)
  BY DEF InvokeDefault
<1> HIDE DEF dumps, done
<1>7. PICK a \in {dumps, done} :
        /\ SetTop(t, a) /\ a \in Activations /\ Script(a.todo) /\ (a.at # "dumping" => a.todo = <<>>)
        /\ a.kind = Top(t).kind /\ a.signal = s /\ a.at \in {"dumping", "returning"}
  BY <1>2, <1>3, <1>4, <1>6
<1>8. GoesOn(t, a)
  BY <1>1, <1>7, SetTopFacts DEF GoesOn, Script
<1>9. Kernel' /\ sent' = sent
  BY <1>1, <1>5 DEF Kernel
<1>10. Shared'
  <2>1. ~GivesBack(a) /\ ~GivesBack(Top(t)) /\ sharers' = sharers
    BY <1>1, <1>2, <1>5, <1>7 DEF GivesBack, Script
  <2> QED BY <1>5, <1>8, <1>9, <2>1, SharedKept
<1>11. t = current_thread_in_handler
  <2>1. CASE Top(t).at = "nested"
    BY <1>1, <2>1 DEF Dumpers
  <2>2. CASE Top(t).at = "dumping"
    BY <1>1, <2>2 DEF Dumpers
  <2> QED BY <1>1, <2>1, <2>2
<1> HIDE DEF s
<1> QED BY <1>5, <1>7, <1>8, <1>9, <1>10, <1>11, GoesOnKeeps

(* When the process ends there is nothing left to go wrong.                *)
LEMMA EndStep ==
  ASSUME HInv, End
  PROVE  HInv'
<1>1. Script(<<>>) /\ <<>> \in Seq(Steps)
  BY ScriptFacts
<1>2. Program \in Activations /\ Program.kind = "program" /\ Program.at = "running" /\ Program.todo = <<>>
  BY <1>1 DEF Program, Activations
<1>3. \A t \in ProcessThreads : /\ stack'[t] = <<Program>> /\ Len(stack'[t]) = 1 /\ DOMAIN stack'[t] = {1}
                               /\ stack'[t][1] = Program
  BY DEF End
<1>4. stack' \in [ProcessThreads -> Seq(Activations)] /\ sent' \in Nat
  BY <1>2, SignalAssumption DEF End, HInv, Kernel
<1>5. Stacks'
  <2>1. \A t \in ProcessThreads : Len(stack'[t]) \in 1 .. sent' + 1
    BY <1>3, <1>4
  <2>2. \A t \in ProcessThreads : \A i \in DOMAIN stack'[t] : i = 1 /\ Activation(t, i)'
    BY <1>1, <1>2, <1>3 DEF Activation, Script
  <2> QED BY <1>4, <2>1, <2>2 DEF Stacks
<1>6. Kernel'
  BY SignalAssumption DEF HInv, End, Kernel
<1>7. Shared'
  <2>1. \A t \in ProcessThreads : Sharing(t)' = {}
    BY <1>1, <1>2, <1>3 DEF Sharing, GivesBack, Script
  <2>2. Cardinality({}) = 0
    BY FS_EmptySet
  <2> QED BY <2>1, <2>2 DEF Shared, End
<1>8. Dumpers' /\ Raised'
  BY <1>2, <1>3 DEF Dumpers, Raised
<1>9. FrameIsThere'
  BY DEF FrameIsThere, End
<1> QED BY <1>5, <1>6, <1>7, <1>8, <1>9 DEF HInv

(* The process ends when a handler returns: its signal waits, and nothing  *)
(* else blocks it.                                                         *)
LEMMA ReturnEnds ==
  ASSUME HInv, NEW t \in ProcessThreads, Return(t)
  PROVE  End
<1> DEFINE n == Len(stack[t])
<1>1. /\ Stacks /\ Raised /\ alive /\ Top(t).at = "returning" /\ Top(t) = stack[t][n] /\ n \in Nat \ {0}
      /\ n \in DOMAIN stack[t] /\ DOMAIN stack[t] = 1 .. n
  BY TopFacts DEF HInv, Return
<1>2. Top(t).signal \in waiting
  BY <1>1 DEF Raised
<1>3. \A i \in Handlers(t) \ {n} : stack[t][i].signal # Top(t).signal
  <2> TAKE i \in Handlers(t) \ {n}
  <2>1. i \in 1 .. n /\ i # n /\ stack[t][i].kind = "handler" /\ Activation(t, i)
    BY <1>1 DEF Handlers, Stacks
  <2>2. 1 < i /\ i < n
    <3>1. i # 1
      BY <2>1 DEF Activation
    <3> QED BY <1>1, <2>1, <3>1
  <2> QED BY <1>1, <2>1, <2>2 DEF Stacks
<1> QED BY <1>2, <1>3 DEF Return

(* A signal is sent: it interrupts a thread, or waits.                     *)
LEMMA SendStep ==
  ASSUME HInv, NEW s \in Signals, Send(s)
  PROVE  HInv'
<1>1. /\ Stacks /\ Kernel /\ Shared /\ Dumpers /\ Raised /\ FrameIsThere /\ sent \in Nat /\ sent' = sent + 1 /\ alive
      /\ sent < MaxSent /\ MaxSent \in Nat
      /\ UNCHANGED <<owner, sharers, current_thread_in_handler, disposition>>
  BY SignalAssumption DEF HInv, Kernel, Send, lockVars
<1>2. CASE UNCHANGED <<stack, alive>> /\ waiting' = waiting \union {s}
  <2>1. Kernel'
    BY <1>1, <1>2 DEF Kernel
  <2>2. \A t \in ProcessThreads : Len(stack[t]) \in 1 .. sent + 1 => Len(stack[t]) \in 1 .. sent' + 1
    BY <1>1
  <2>3. Stacks'
    BY <1>1, <1>2, <2>2 DEF Stacks, Activation
  <2>4. Shared' /\ Dumpers'
    BY <1>1, <1>2 DEF Shared, Sharing, Dumpers
  <2>5. Raised' /\ FrameIsThere'
    BY <1>1, <1>2 DEF Raised, FrameIsThere, Handlers
  <2> QED BY <2>1, <2>3, <2>4, <2>5 DEF HInv
<1>3. ASSUME NEW t \in ProcessThreads, s \notin Blocked(t), stack' = [stack EXCEPT ![t] = Append(@, Handler(s))],
             UNCHANGED <<alive, waiting>>
      PROVE  HInv'
  <2>1. PICK q \in Seq(Activations) : q = stack[t]
    BY <1>1 DEF Stacks
  <2>2. PICK n \in Nat \ {0} : n = Len(q) /\ n <= sent + 1 /\ DOMAIN q = 1 .. n
    BY <1>1, <2>1 DEF Stacks
  <2>3. PICK a \in Activations : a = Handler(s) /\ a.kind = "handler" /\ a.signal = s /\ a.at = "entered" /\ a.todo = <<>>
    <3>1. <<>> \in Seq(Steps)
      OBVIOUS
    <3>2. Handler(s) = [kind |-> "handler", signal |-> s, at |-> "entered", todo |-> <<>>]
      BY DEF Handler
    <3>3. Handler(s) \in Activations
      BY <3>1, <3>2 DEF Activations
    <3> QED BY <3>2, <3>3
  <2>4. PICK r : r = Append(q, a)
    OBVIOUS
  <2>5. /\ r \in Seq(Activations) /\ Len(r) = n + 1 /\ DOMAIN r = 1 .. n + 1 /\ r[n + 1] = a
        /\ \A i \in 1 .. n : r[i] = q[i]
    BY <2>2, <2>4
  <2>6. /\ stack' \in [ProcessThreads -> Seq(Activations)] /\ stack'[t] = r
        /\ \A u \in ProcessThreads : u # t => stack'[u] = stack[u]
    <3>1. stack' = [stack EXCEPT ![t] = r]
      BY <1>3, <2>1, <2>3, <2>4
    <3> QED BY <1>1, <2>5, <3>1 DEF Stacks
  <2>7. \A i \in 1 .. n + 1 : i \in 1 .. n \/ i = n + 1
    BY <2>2
  <2>8. ASSUME NEW u \in ProcessThreads, NEW i \in DOMAIN stack'[u]
        PROVE  \/ i \in DOMAIN stack[u] /\ stack'[u][i] = stack[u][i]
               \/ u = t /\ i = n + 1 /\ stack'[u][i] = a
    BY <2>1, <2>2, <2>5, <2>6, <2>7
  <2>9. Kernel'
    <3>1. sent' \in 0 .. MaxSent
      BY <1>1
    <3> QED BY <1>1, <1>3, <3>1 DEF Kernel
  <2>10. Stacks'
    <3>1. ASSUME NEW u \in ProcessThreads PROVE Len(stack'[u]) \in 1 .. sent' + 1
      <4>1. CASE u = t
        BY <1>1, <2>2, <2>5, <2>6, <4>1
      <4>2. CASE u # t
        <5>1. Len(stack[u]) \in 1 .. sent + 1 /\ stack'[u] = stack[u]
          BY <1>1, <2>6, <4>2 DEF Stacks
        <5> QED BY <1>1, <5>1
      <4> QED BY <4>1, <4>2
    <3>2. ASSUME NEW u \in ProcessThreads, NEW i \in DOMAIN stack'[u] PROVE Activation(u, i)'
      <4>1. CASE i \in DOMAIN stack[u] /\ stack'[u][i] = stack[u][i]
        <5>1. Activation(u, i)
          BY <1>1, <4>1 DEF Stacks
        <5> QED BY <4>1, <5>1 DEF Activation
      <4>2. CASE i = n + 1 /\ stack'[u][i] = a
        <5>1. i # 1 /\ Paired(<<>>)
          BY <2>2, <4>2, ScriptFacts DEF Script
        <5> QED BY <2>3, <4>2, <5>1 DEF Activation
      <4> QED BY <2>8, <4>1, <4>2
    <3>3. ASSUME NEW u \in ProcessThreads, NEW i \in DOMAIN stack'[u], NEW j \in DOMAIN stack'[u], 1 < i, i < j
          PROVE  stack'[u][i].signal # stack'[u][j].signal
      <4>1. CASE u # t
        BY <1>1, <2>6, <3>3, <4>1 DEF Stacks
      <4>2. CASE u = t /\ j \in 1 .. n
        <5>1. i \in 1 .. n
          BY <2>2, <2>5, <2>6, <3>3, <4>2
        <5>2. q[i].signal # q[j].signal
          BY <1>1, <2>1, <2>2, <3>3, <4>2, <5>1 DEF Stacks
        <5> QED BY <2>5, <2>6, <4>2, <5>1, <5>2
      <4>3. CASE u = t /\ j = n + 1
        <5>1. i \in 1 .. n
          BY <2>2, <2>5, <2>6, <3>3, <4>3
        <5>2. Activation(t, i)
          BY <1>1, <2>1, <2>2, <5>1 DEF Stacks
        <5>3. i \in Handlers(t)
          BY <2>1, <2>2, <3>3, <5>1, <5>2 DEF Handlers, Activation
        <5>4. q[i].signal # s
          BY <1>3, <2>1, <5>3 DEF Blocked
        <5> QED BY <2>3, <2>5, <2>6, <4>3, <5>1, <5>4
      <4> QED BY <2>5, <2>6, <2>7, <4>1, <4>2, <4>3
    <3> QED BY <2>6, <3>1, <3>2, <3>3 DEF Stacks
  <2>11. Shared'
    <3>1. Sharing(t)' = Sharing(t)
      <4>1. ~GivesBack(a)
        BY <2>3, ScriptFacts DEF GivesBack, Script
      <4> QED BY <2>1, <2>2, <2>5, <2>6, <2>7, <4>1 DEF Sharing
    <3>2. \A u \in ProcessThreads : u # t => Sharing(u)' = Sharing(u)
      BY <2>6 DEF Sharing
    <3> QED BY <1>1, <3>1, <3>2 DEF Shared
  <2>12. Dumpers'
    BY <1>1, <2>3, <2>8 DEF Dumpers
  <2>13. Raised'
    BY <1>1, <1>3, <2>3, <2>8 DEF Raised
  <2>14. FrameIsThere'
    <3> SUFFICES ASSUME current_thread_in_handler # NoThread PROVE Handlers(current_thread_in_handler)' # {}
      BY <1>1 DEF FrameIsThere, Handlers
    <3>1. current_thread_in_handler \in ProcessThreads
      BY <1>1 DEF Kernel
    <3>2. PICK i \in DOMAIN stack[current_thread_in_handler] : stack[current_thread_in_handler][i].kind = "handler"
      BY <1>1 DEF FrameIsThere, Handlers
    <3>3. i \in DOMAIN stack'[current_thread_in_handler] /\ stack'[current_thread_in_handler][i] = stack[current_thread_in_handler][i]
      <4>1. CASE current_thread_in_handler = t
        <5>1. i \in 1 .. n /\ i \in 1 .. n + 1
          BY <2>1, <2>2, <3>2, <4>1
        <5> QED BY <2>1, <2>5, <2>6, <4>1, <5>1
      <4>2. CASE current_thread_in_handler # t
        BY <2>6, <3>1, <3>2, <4>2
      <4> QED BY <4>1, <4>2
    <3> QED BY <1>1, <3>2, <3>3 DEF Handlers
  <2> QED BY <2>9, <2>10, <2>11, <2>12, <2>13, <2>14 DEF HInv
<1> QED BY <1>2, <1>3 DEF Send, Interrupt, Wait

(* The invariant holds at first.                                           *)
LEMMA HandlerInit == SHInit => HInv
<1> SUFFICES ASSUME SHInit PROVE HInv
  OBVIOUS
<1>1. Script(<<>>) /\ <<>> \in Seq(Steps)
  BY ScriptFacts
<1>2. Program \in Activations /\ Program.kind = "program" /\ Program.at = "running" /\ Program.todo = <<>>
  BY <1>1 DEF Program, Activations
<1>3. \A t \in ProcessThreads : stack[t] = <<Program>> /\ Len(stack[t]) = 1 /\ DOMAIN stack[t] = {1} /\ stack[t][1] = Program
  BY DEF SHInit
<1>4. stack \in [ProcessThreads -> Seq(Activations)] /\ sent = 0
  BY <1>2 DEF SHInit
<1>5. Stacks
  BY <1>1, <1>2, <1>3, <1>4 DEF Stacks, Activation, Script
<1>6. Kernel
  BY SignalAssumption DEF SHInit, Kernel
<1>7. Shared
  <2>1. \A t \in ProcessThreads : Sharing(t) = {}
    BY <1>1, <1>2, <1>3 DEF Sharing, GivesBack, Script
  <2>2. Cardinality({}) = 0
    BY FS_EmptySet
  <2> QED BY <2>1, <2>2 DEF Shared, SHInit
<1>8. Dumpers /\ Raised
  BY <1>2, <1>3 DEF Dumpers, Raised
<1>9. FrameIsThere
  BY DEF FrameIsThere, SHInit
<1> QED BY <1>5, <1>6, <1>7, <1>8, <1>9 DEF HInv

(* The inductive invariant of the handler.                                 *)
THEOREM HandlerInvariance == SHSpec => []HInv
<1>1. HInv /\ [SHNext]_signalHandlerVars => HInv'
  <2> SUFFICES ASSUME HInv, [SHNext]_signalHandlerVars PROVE HInv'
    OBVIOUS
  <2>1. ASSUME NEW t \in ProcessThreads, BeginOperation(t) \/ SHThreadStep(t) PROVE HInv'
    BY <2>1, BeginStep, LockSteps, EnterStep, InvokeStep, ReturnEnds, EndStep DEF SHThreadStep
  <2>2. CASE UNCHANGED signalHandlerVars
    BY <2>2 DEF signalHandlerVars, lockVars, signalVars, HInv, Kernel, Stacks, Activation, Shared, Sharing,
                Dumpers, Raised, FrameIsThere, Handlers
  <2>3. ASSUME NEW s \in Signals, Send(s) \/ Take(s) PROVE HInv'
    BY <2>3, SendStep, EndStep DEF Take
  <2> QED BY <2>1, <2>2, <2>3 DEF SHNext
<1> QED BY <1>1, HandlerInit, PTL DEF SHSpec

(* All above the program of a thread are handlers.                         *)
LEMMA HandlersAbove ==
  ASSUME Stacks, NEW t \in ProcessThreads
  PROVE  Len(stack[t]) > 0 /\ Cardinality(Handlers(t)) = Len(stack[t]) - 1
<1>1. PICK n \in Nat \ {0} : n = Len(stack[t]) /\ DOMAIN stack[t] = 1 .. n
  BY TopFacts
<1>2. ASSUME NEW i \in 1 .. n PROVE stack[t][i].kind = "handler" <=> i > 1
  <2>1. Activation(t, i) /\ (i = 1 \/ i > 1)
    BY <1>1 DEF Stacks
  <2> QED BY <2>1 DEF Activation
<1>3. Handlers(t) = 2 .. n
  BY <1>1, <1>2 DEF Handlers
<1>4. Cardinality(2 .. n) = n - 1
  <2>1. Cardinality(2 .. n) = IF 2 > n THEN 0 ELSE n - 2 + 1
    BY FS_Interval
  <2> QED BY <2>1
<1> QED BY <1>1, <1>3, <1>4

(* The types of SignalHandler, and handlers only above a program.          *)
THEOREM HandlerTypes == SHSpec => []SHTypeOK
<1>1. HInv => SHTypeOK
  BY HandlersAbove DEF HInv, Kernel, SHTypeOK
<1> QED BY <1>1, HandlerInvariance, PTL

(* One thread dumps, whatever number of signals reaches however many       *)
(* threads.                                                                *)
THEOREM OneDumps == SHSpec => []OneDumper
<1>1. HInv => OneDumper
  BY HandlersAbove DEF HInv, Kernel, SHTypeOK, OneDumper, Dumpers, Handlers
<1> QED BY <1>1, HandlerInvariance, PTL

(* The handler whose frame later signals read has not returned while the   *)
(* process lives.                                                          *)
THEOREM FrameStays == SHSpec => []FrameIsThere
<1>1. HInv => FrameIsThere
  BY DEF HInv
<1> QED BY <1>1, HandlerInvariance, PTL

\* What a handler has interrupted does not run again.
NeverResumed == [][\A t \in ProcessThreads : Len(stack'[t]) < Len(stack[t]) => ~alive']_signalHandlerVars

(* A step of the activation that runs changes no depth.                    *)
LEMMA SetTopLength ==
  ASSUME Stacks, NEW t \in ProcessThreads, NEW a, SetTop(t, a), NEW u \in ProcessThreads
  PROVE  Len(stack'[u]) = Len(stack[u])
<1>1. PICK s : s = stack[t]
  OBVIOUS
<1>2. s \in Seq(Activations) /\ Len(s) \in Nat \ {0}
  BY <1>1, TopFacts
<1>3. PICK m \in Nat : m = Len(s) - 1 /\ m + 1 = Len(s)
  <2>1. PICK n \in Nat \ {0} : n = Len(s)
    BY <1>2
  <2>2. n - 1 \in Nat /\ (n - 1) + 1 = n
    OBVIOUS
  <2> QED BY <2>1, <2>2
<1>4. PICK f : f = SubSeq(s, 1, m)
  OBVIOUS
<1>5. f \in Seq(Activations \union {a}) /\ Len(f) = m
  BY <1>2, <1>3, <1>4
<1>6. Len(f \o <<a>>) = m + 1
  BY <1>5
<1>7. stack' = [stack EXCEPT ![t] = f \o <<a>>]
  BY <1>1, <1>3, <1>4 DEF SetTop, Front
<1>8. DOMAIN stack = ProcessThreads
  BY DEF Stacks
<1> QED BY <1>1, <1>3, <1>6, <1>7, <1>8

(* A handler that returns ends the process: what a signal has interrupted  *)
(* is never resumed.                                                       *)
THEOREM InterruptedIsOver == SHSpec => NeverResumed
<1>1. ASSUME HInv, [SHNext]_signalHandlerVars, NEW u \in ProcessThreads
      PROVE  Len(stack'[u]) < Len(stack[u]) => ~alive'
  <2>1. Stacks /\ Len(stack[u]) \in Nat
    BY <1>1, TopFacts DEF HInv
  <2>2. CASE Len(stack'[u]) = Len(stack[u])
    BY <2>1, <2>2
  <2>3. ASSUME NEW t \in ProcessThreads, BeginOperation(t) \/ LockStep(t) \/ Enter(t) \/ InvokeDefault(t)
        PROVE  Len(stack'[u]) = Len(stack[u])
    <3>1. \E a : SetTop(t, a)
      BY <2>3 DEF BeginOperation, LockStep, Enter, InvokeDefault
    <3> QED BY <2>1, <3>1, SetTopLength
  <2>4. ASSUME NEW t \in ProcessThreads, Return(t) PROVE ~alive'
    BY <1>1, <2>4, ReturnEnds DEF End
  <2>5. ASSUME NEW s \in Signals, Send(s) PROVE Len(stack'[u]) = Len(stack[u]) \/ Len(stack'[u]) = Len(stack[u]) + 1
    <3>1. CASE UNCHANGED stack
      BY <3>1
    <3>2. ASSUME NEW t \in ProcessThreads, stack' = [stack EXCEPT ![t] = Append(@, Handler(s))]
          PROVE  Len(stack'[u]) = Len(stack[u]) \/ Len(stack'[u]) = Len(stack[u]) + 1
      <4>1. stack[t] \in Seq(Activations \union {Handler(s)}) /\ stack \in [ProcessThreads -> Seq(Activations)]
        BY <2>1 DEF Stacks
      <4>2. Len(Append(stack[t], Handler(s))) = Len(stack[t]) + 1
        BY <4>1
      <4>3. stack'[u] = IF u = t THEN Append(stack[t], Handler(s)) ELSE stack[u]
        BY <3>2, <4>1
      <4> QED BY <4>2, <4>3
    <3> QED BY <2>5, <3>1, <3>2 DEF Send, Interrupt, Wait
  <2>6. CASE UNCHANGED signalHandlerVars
    BY <2>2, <2>6 DEF signalHandlerVars
  <2>7. ASSUME NEW s \in Signals, Send(s) PROVE ~(Len(stack'[u]) < Len(stack[u]))
    <3>1. PICK n \in Nat : n = Len(stack[u])
      BY <2>1
    <3> QED BY <2>5, <2>7, <3>1
  <2>8. ASSUME NEW s \in Signals, Take(s) PROVE ~alive'
    BY <2>8 DEF Take, End
  <2> QED BY <1>1, <2>2, <2>3, <2>4, <2>6, <2>7, <2>8 DEF SHNext, SHThreadStep
<1>2. HInv /\ [SHNext]_signalHandlerVars =>
        [\A t \in ProcessThreads : Len(stack'[t]) < Len(stack[t]) => ~alive']_signalHandlerVars
  BY <1>1
<1> QED BY <1>2, HandlerInvariance, PTL DEF SHSpec, NeverResumed
=============================================================================
