-------------------------------- MODULE Timer --------------------------------
(***************************************************************************)
(* The profiling timer of src/timer/timer_enable.cc: sections with an      *)
(* index each, one collector of hits per thread, a list of the collectors  *)
(* and the total they are merged into when somebody asks for a report.     *)
(*                                                                         *)
(* Four kinds of mutex guard them: one for the list, one in every          *)
(* collector, one in the total and the shared one of the sections.  The    *)
(* hits under way between two of these are what the properties are about.  *)
(***************************************************************************)
EXTENDS Naturals

CONSTANTS
  Threads,       \* the threads that report durations
  Callers,       \* the threads that ask for reports
  Names,         \* the names of subsections of the main section
  Nobody,        \* the owner of a mutex that is not locked
  kMaxCapacity,  \* of TimerSection: the indices are 0 .. kMaxCapacity - 1
  MaxHits,       \* bound: durations a thread reports
  MaxIndex       \* bound: no section is made when the next index is beyond it

ASSUME TimerAssumption ==
  /\ Nobody \notin Threads \union Callers
  /\ Threads \intersect Callers = {}
  /\ kMaxCapacity \in Nat \ {0, 1} /\ MaxHits \in Nat /\ MaxIndex \in Nat

VARIABLES
  nextIndex,    \* collector_index_count
  subsections,  \* subsections_ of the main section: the index of each, or NoIndex
  collectors,   \* the threads whose collectors are in the list
  listMtx,      \* mtx_ of the list: its owner
  entries,      \* collector_entries_ of each thread's collector
  mutex,        \* mutex_ of each thread's collector
  total,        \* collector_entries_ of the total
  totalMtx,     \* mutex_ of the total
  thread,       \* of a thread: where it is, its section, the name it looks up ...
  caller,       \* of a caller: where it is, whether it clears, what it carries ...
  accepted,     \* history: the hits that were counted, with the index of each
  cleared,      \* history: the hits taken by reports that clear
  owed          \* history: of a caller, the hits its report has to contain

sectionVars == <<nextIndex, subsections>>
listVars == <<collectors, listMtx>>
entryVars == <<entries, mutex>>
totalVars == <<total, totalMtx>>
vars == <<sectionVars, listVars, entryVars, totalVars, thread, caller, accepted, cleared, owed>>

(***************************************************************************)
(* An entry counts the hits of an index.  Here each hit has a name, and an *)
(* array of entries says how often each hit is counted in it: hits_ of an  *)
(* index is the sum over the hits of that index.  Durations are left out.  *)
(***************************************************************************)
Hits == Threads \X (1 .. MaxHits)
Data == [Hits -> Nat]
NoData == [h \in Hits |-> 0]

Merge(a, b) == [h \in Hits |-> a[h] + b[h]]
Counted(d) == {h \in Hits : d[h] > 0}

kEmptyCollectorIndex == 0
kMainIndex == 1
NoIndex == kMaxCapacity

Init ==
  /\ nextIndex = kMainIndex + 1
  /\ subsections = [n \in Names |-> NoIndex]
  /\ collectors = {} /\ listMtx = Nobody
  /\ entries = [t \in Threads |-> NoData]
  /\ mutex = [t \in Threads |-> Nobody]
  /\ total = NoData /\ totalMtx = Nobody
  /\ thread = [t \in Threads |->
       [at |-> "new", index |-> kMainIndex, name |-> {}, hits |-> 0, carried |-> NoData]]
  /\ caller = [c \in Callers |->
       [at |-> "idle", clear |-> FALSE, todo |-> {}, from |-> {}, carried |-> NoData]]
  /\ accepted = [h \in Hits |-> NoIndex]
  /\ cleared = NoData
  /\ owed = [c \in Callers |-> {}]

-----------------------------------------------------------------------------
(* A thread that reports.                                                  *)

\* GetCollector, the first time: a collector is made and put into the list.
GetCollector(t) ==
  /\ thread[t].at = "new"
  /\ listMtx = Nobody
  /\ collectors' = collectors \union {t}
  /\ thread' = [thread EXCEPT ![t].at = "up"]
  /\ UNCHANGED <<sectionVars, listMtx, entryVars, totalVars, caller, accepted, cleared, owed>>

\* Mutation: the mutex of the collector is not looked at.
CanReport_Anyway(t) == mutex[t] = mutex[t]

\* try_lock: a duration is dropped while somebody collects.
CanReport(t) == mutex[t] = Nobody

\* The end of a session, or ReportDuration: EndSession, GetCollector().Report.
Report(t) ==
  /\ thread[t].at = "up"
  /\ thread[t].hits < MaxHits
  /\ LET h == <<t, thread[t].hits + 1>>
     IN  /\ thread' = [thread EXCEPT ![t].hits = @ + 1]
         /\ IF CanReport(t)
              THEN /\ entries' = [entries EXCEPT ![t][h] = @ + 1]
                   /\ accepted' = [accepted EXCEPT ![h] = thread[t].index]
              ELSE UNCHANGED <<entries, accepted>>
  /\ UNCHANGED <<sectionVars, listVars, mutex, totalVars, caller, cleared, owed>>

\* SubSection finds the name under the shared lock, or goes on to make the section.
FindSection(t, n) ==
  /\ thread[t].at = "up" /\ thread[t].hits < MaxHits
  /\ \/ /\ subsections[n] # NoIndex
        /\ thread' = [thread EXCEPT ![t].index = subsections[n], ![t].name = {n}]
     \/ /\ subsections[n] = NoIndex /\ nextIndex <= MaxIndex
        /\ thread' = [thread EXCEPT ![t].at = "missing", ![t].name = {n}]
  /\ UNCHANGED <<sectionVars, listVars, entryVars, totalVars, caller, accepted, cleared, owed>>

\* collector_index_count.fetch_add, outside the lock: an index is used up whether or
\* not a section will be made with it.
TakeIndex(t) ==
  /\ thread[t].at = "missing"
  /\ thread' = [thread EXCEPT ![t].at = "numbered", ![t].index = nextIndex]
  /\ nextIndex' = nextIndex + 1
  /\ UNCHANGED <<subsections, listVars, entryVars, totalVars, caller, accepted, cleared, owed>>

\* Mutation: insert_or_assign in place of emplace.
Emplace_Assign(n, i) == [subsections EXCEPT ![n] = i]

\* std::map::emplace: a section that another thread has made meanwhile stays.
Emplace(n, i) == [subsections EXCEPT ![n] = IF @ = NoIndex THEN i ELSE @]

Full(i) == i >= kMaxCapacity

\* The second half of SubSection, under the exclusive lock.
MakeSection(t) ==
  /\ thread[t].at = "numbered"
  /\ \E n \in thread[t].name :
       IF Full(thread[t].index)
         THEN /\ thread' = [thread EXCEPT ![t].at = "up", ![t].index = kEmptyCollectorIndex]
              /\ UNCHANGED subsections
         ELSE /\ subsections' = Emplace(n, thread[t].index)
              /\ thread' = [thread EXCEPT ![t].at = "up", ![t].index = subsections'[n]]
  /\ UNCHANGED <<nextIndex, listVars, entryVars, totalVars, caller, accepted, cleared, owed>>

-----------------------------------------------------------------------------
(* Collect and Merge, for a caller that flushes and for a thread that ends. *)

\* Collect locks the collector and copies its entries ...
CopyOf(t, who) ==
  /\ mutex[t] = Nobody
  /\ mutex' = [mutex EXCEPT ![t] = who]
  /\ UNCHANGED entries

\* ... and clears them before it unlocks.
Clear(t) ==
  /\ mutex' = [mutex EXCEPT ![t] = Nobody]
  /\ entries' = [entries EXCEPT ![t] = NoData]

\* total.Merge(data): scoped_lock of the total, and of a local object nobody else has.
MergeToTotal(data) ==
  /\ totalMtx = Nobody
  /\ total' = Merge(total, data)
  /\ UNCHANGED totalMtx

-----------------------------------------------------------------------------
(* The end of a thread: the deleter of its thread_local collector.         *)

\* What a report must contain does not include what a thread that ends, or another
\* report that clears, takes away before it is ready.
Release(taken) == owed' = [c \in Callers |-> owed[c] \ taken]

ExitCopy(t) ==
  /\ thread[t].at = "up"
  /\ CopyOf(t, t)
  /\ thread' = [thread EXCEPT ![t].at = "copied", ![t].carried = entries[t],
                              ![t].index = kMainIndex, ![t].name = {}]
  /\ Release(Counted(entries[t]))
  /\ UNCHANGED <<sectionVars, listVars, totalVars, caller, accepted, cleared>>

ExitClear(t) ==
  /\ thread[t].at = "copied"
  /\ Clear(t)
  /\ thread' = [thread EXCEPT ![t].at = "collected"]
  /\ UNCHANGED <<sectionVars, listVars, totalVars, caller, accepted, cleared, owed>>

ExitMerge(t) ==
  /\ thread[t].at = "collected"
  /\ MergeToTotal(thread[t].carried)
  /\ thread' = [thread EXCEPT ![t].at = "merged", ![t].carried = NoData]
  /\ UNCHANGED <<sectionVars, listVars, entryVars, caller, accepted, cleared, owed>>

CanErase == listMtx = Nobody

\* The collector leaves the list and is freed.
ExitErase(t) ==
  /\ thread[t].at = "merged"
  /\ CanErase
  /\ collectors' = collectors \ {t}
  /\ thread' = [thread EXCEPT ![t].at = "gone"]
  /\ UNCHANGED <<sectionVars, listMtx, entryVars, totalVars, caller, accepted, cleared, owed>>

-----------------------------------------------------------------------------
(* GetReport and GetAllReports.                                            *)

\* The hits counted so far and not yet cleared, but for those that a thread that ends
\* has in its hands.
Present ==
  (Counted(total) \union (UNION {Counted(entries[t]) : t \in Threads})
     \union (UNION {Counted(caller[c].carried) : c \in {d \in Callers : caller[d].at = "collected"}}))
  \ UNION {Counted(thread[t].carried) : t \in Threads}

\* Mutation: the list stays unlocked while its collectors are flushed.
LockList_Not(c) == caller[c].at = "idle" /\ UNCHANGED listMtx

LockList(c) == listMtx = Nobody /\ listMtx' = c

\* FlushCollectedStats locks the list, on behalf of GetReport, which does not clear the
\* total, or of GetAllReports, which may.
BeginFlush(c, clear) ==
  /\ caller[c].at = "idle"
  /\ LockList(c)
  /\ caller' = [caller EXCEPT ![c].at = "flushing", ![c].clear = clear, ![c].todo = collectors]
  /\ owed' = [owed EXCEPT ![c] = Present]
  /\ UNCHANGED <<sectionVars, collectors, entryVars, totalVars, thread, accepted, cleared>>

FlushCopy(c, t) ==
  /\ caller[c].at = "flushing"
  /\ t \in caller[c].todo
  /\ CopyOf(t, c)
  /\ caller' = [caller EXCEPT ![c].at = "copied", ![c].from = {t}, ![c].carried = entries[t]]
  /\ UNCHANGED <<sectionVars, listVars, totalVars, thread, accepted, cleared, owed>>

FlushClear(c) ==
  /\ caller[c].at = "copied"
  /\ \E t \in caller[c].from : Clear(t)
  /\ caller' = [caller EXCEPT ![c].at = "collected"]
  /\ UNCHANGED <<sectionVars, listVars, totalVars, thread, accepted, cleared, owed>>

FlushMerge(c) ==
  /\ caller[c].at = "collected"
  /\ MergeToTotal(caller[c].carried)
  /\ caller' = [caller EXCEPT ![c].at = "flushing", ![c].todo = @ \ caller[c].from,
                              ![c].from = {}, ![c].carried = NoData]
  /\ UNCHANGED <<sectionVars, listVars, entryVars, thread, accepted, cleared, owed>>

EndFlush(c) ==
  /\ caller[c].at = "flushing" /\ caller[c].todo = {}
  /\ listMtx' = Nobody
  /\ caller' = [caller EXCEPT ![c].at = "flushed"]
  /\ UNCHANGED <<sectionVars, collectors, entryVars, totalVars, thread, accepted, cleared, owed>>

\* GetTotalStats().Collect(clear): lock and copy ...
TotalCopy(c) ==
  /\ caller[c].at = "flushed"
  /\ totalMtx = Nobody /\ totalMtx' = c
  /\ caller' = [caller EXCEPT ![c].at = "reading", ![c].carried = total]
  /\ UNCHANGED <<sectionVars, listVars, entryVars, total, thread, accepted, cleared, owed>>

\* ... clear, if so asked, and unlock: from here on the report is the copy.
TotalClear(c) ==
  /\ caller[c].at = "reading"
  /\ totalMtx' = Nobody
  /\ IF caller[c].clear
       THEN /\ total' = NoData
            /\ cleared' = Merge(cleared, caller[c].carried)
            /\ owed' = [d \in Callers |-> IF d = c THEN owed[c] ELSE owed[d] \ Counted(total)]
       ELSE UNCHANGED <<total, cleared, owed>>
  /\ caller' = [caller EXCEPT ![c].at = "done"]
  /\ UNCHANGED <<sectionVars, listVars, entryVars, thread, accepted>>

\* TimerStatCollector::GetReport of the main section, recursively, from the copy the
\* caller has: the hits under the index of a section that is there now.
Reported(data) ==
  {h \in Counted(data) : accepted[h] = kMainIndex \/ \E n \in Names : accepted[h] = subsections[n]}

\* The caller is through with the report.
Drop(c) ==
  /\ caller[c].at = "done"
  /\ caller' = [caller EXCEPT ![c].at = "idle", ![c].carried = NoData]
  /\ owed' = [owed EXCEPT ![c] = {}]
  /\ UNCHANGED <<sectionVars, listVars, entryVars, totalVars, thread, accepted, cleared>>

-----------------------------------------------------------------------------
ThreadNext(t) ==
  \/ GetCollector(t) \/ Report(t)
  \/ \E n \in Names : FindSection(t, n)
  \/ TakeIndex(t) \/ MakeSection(t)
  \/ ExitCopy(t) \/ ExitClear(t) \/ ExitMerge(t) \/ ExitErase(t)

CallerNext(c) ==
  \/ \E clear \in BOOLEAN : BeginFlush(c, clear)
  \/ \E t \in Threads : FlushCopy(c, t)
  \/ FlushClear(c) \/ FlushMerge(c) \/ EndFlush(c)
  \/ TotalCopy(c) \/ TotalClear(c) \/ Drop(c)

Next == (\E t \in Threads : ThreadNext(t)) \/ (\E c \in Callers : CallerNext(c))

Spec == Init /\ [][Next]_vars

-----------------------------------------------------------------------------
(* Properties.                                                             *)

\* Every variable has its type; a section that is handed out indexes the entries of
\* every collector (collector_entries_->at(index) throws otherwise).
TypeOK ==
  /\ nextIndex \in Nat
  /\ subsections \in [Names -> 0 .. NoIndex]
  /\ collectors \subseteq Threads /\ listMtx \in Callers \union {Nobody}
  /\ entries \in [Threads -> Data]
  /\ mutex \in [Threads -> Threads \union Callers \union {Nobody}]
  /\ total \in Data /\ totalMtx \in Callers \union {Nobody}
  /\ \A t \in Threads :
       /\ thread[t].at \in {"new", "up", "missing", "numbered", "copied", "collected", "merged", "gone"}
       /\ thread[t].carried \in Data
       /\ thread[t].at = "up" => thread[t].index \in 0 .. kMaxCapacity - 1
  /\ \A c \in Callers :
       /\ caller[c].at \in {"idle", "flushing", "copied", "collected", "flushed", "reading", "done"}
       /\ caller[c].todo \subseteq Threads /\ caller[c].carried \in Data
  /\ accepted \in [Hits -> 0 .. NoIndex]
  /\ cleared \in Data
  /\ owed \in [Callers -> SUBSET Hits]

\* Where a hit can be counted: in a collector, on the way to the total with a thread that
\* ends or with a report, in the total, in the reports that cleared.  Until the collector
\* is cleared the copy is just a copy.
Places == ({"collector", "exit"} \X Threads) \union ({"report"} \X Callers) \union ({"total", "cleared"} \X {Nobody})

TimesCounted(h) ==
  LET onTheWay(p) == IF p.at = "collected" THEN p.carried[h] ELSE 0
  IN  [p \in Places |-> CASE p[1] = "collector" -> entries[p[2]][h]
                          [] p[1] = "exit"      -> onTheWay(thread[p[2]])
                          [] p[1] = "report"    -> onTheWay(caller[p[2]])
                          [] p[1] = "total"     -> total[h]
                          [] p[1] = "cleared"   -> cleared[h]]

\* Once in the place p and nowhere else.
OnceIn(p) == [q \in Places |-> IF q = p THEN 1 ELSE 0]

\* A hit that was not skipped is counted once, whoever flushes, clears, reports or ends
\* at the time, and in one report that clears at most (timer_enable.cc:193-200, 235-244).
EachHitOnce ==
  \A h \in Hits : IF accepted[h] = NoIndex THEN \A p \in Places : TimesCounted(h)[p] = 0
                                          ELSE \E p \in Places : TimesCounted(h) = OnceIn(p)

\* A report contains every hit that was counted before its flush began, save those of
\* a section that found the timer full, those of a thread that has begun to end and
\* those another report has cleared: no hit hides in another caller's hands.  Nor does
\* the flush touch the collector of a thread that is gone.
ReportCovers ==
  \A c \in Callers :
    /\ caller[c].todo \union caller[c].from \subseteq collectors
    /\ caller[c].at = "done" =>
         {h \in owed[c] : accepted[h] # kEmptyCollectorIndex} \subseteq Reported(caller[c].carried)

\* One section to a name and one name to an index, also for threads that make the same
\* section at the same time; the dummy is handed out only when the indices are used up.
OneSectionPerName ==
  /\ TypeOK
  /\ \A n \in Names : subsections[n] \notin {kEmptyCollectorIndex, kMainIndex}
  /\ \A m, n \in Names : subsections[m] = subsections[n] /\ subsections[m] # NoIndex => m = n
  /\ \A t \in Threads, n \in Names : thread[t].at = "up" /\ thread[t].name = {n} =>
       \/ thread[t].index = subsections[n]
       \/ thread[t].index = kEmptyCollectorIndex /\ nextIndex > kMaxCapacity
=============================================================================
