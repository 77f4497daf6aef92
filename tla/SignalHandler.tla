---------------------------- MODULE SignalHandler ----------------------------
(***************************************************************************)
(* The handler of failure signals, src/signal/cr_signal.cc, and the locks  *)
(* a dump takes: those of the allocator and of the log, and those of the   *)
(* timer for the report that SIGINT asks for (src/timer/timer_enable.cc).  *)
(*                                                                         *)
(* A thread is a stack of activations: its program at the bottom, and a    *)
(* handler for each signal that interrupted what is below it.  Only the    *)
(* topmost activation of a thread moves, so what it interrupts keeps the   *)
(* locks it holds; the other threads go on.                                *)
(***************************************************************************)
EXTENDS Naturals, Sequences, FiniteSets, SequencesExt

CONSTANTS
  ProcessThreads, \* the threads of the process, any of which a signal may interrupt
  Collected,     \* the threads that have a collector
  Signals,       \* kFailureSignals
  SIGINT,
  NoThread,      \* no thread
  MaxOperations, \* bound: operations in each thread's program
  MaxSent        \* bound: signals sent to the process

ASSUME SignalAssumption ==
  /\ SIGINT \in Signals /\ NoThread \notin ProcessThreads /\ MaxOperations \in Nat /\ MaxSent \in Nat
  /\ IsFiniteSet(ProcessThreads) /\ Collected \subseteq ProcessThreads

\* The mutexes of the timer: of the list of collectors, of every thread's collector, of the total, and
\* the shared one of the sections; the log's, and the allocator's, which is one for the process here.
Mutexes == {"list", "total", "sections", "log", "malloc"} \union ProcessThreads

VARIABLES
  stack,         \* of each thread: its activations
  owner,         \* of each mutex: a thread, and the activation that locked it
  sharers,       \* how often each thread owns the mutex of the sections shared
  current_thread_in_handler,
  disposition,   \* what the process does on a signal: "handle" or "default"
  sent,          \* how many signals the environment has sent
  waiting,       \* signals sent while every thread blocked them
  alive,         \* the process
  ran            \* operations of the timer begun by each thread's program

lockVars == <<owner, sharers>>
signalVars == <<disposition, sent, waiting, alive>>
signalHandlerVars == <<stack, lockVars, current_thread_in_handler, signalVars, ran>>

-----------------------------------------------------------------------------
(* What an activation has left to do with the locks.                       *)

Lock(m) == [do |-> "lock", on |-> m]
Try(m) == [do |-> "try", on |-> m]
Unlock(m) == [do |-> "unlock", on |-> m]
Share == [do |-> "share", on |-> "sections"]
Unshare == [do |-> "unshare", on |-> "sections"]

Hold(m) == <<Lock(m), Unlock(m)>>
Allocate == Hold("malloc")

\* Memory is taken or given back under m.
Within(m) == <<Lock(m)>> \o Allocate \o <<Unlock(m)>>

\* LOG: a line is written under the lock of the log.
Log == Within("log")

\* FlushCollectedStats: under the lock of the list every collector is copied, and merged into the total.
CollectAndMerge(t) == Within(t) \o Hold("total")

Flush ==
  LET order == SetToSeq(Collected)
      step(k) == CollectAndMerge(order[k \div 6])[1 + (k % 6)]
  IN  <<Lock("list")>> \o [k \in 1 .. 6 * Cardinality(Collected) |-> step(k + 5)] \o <<Unlock("list")>>

\* The report is made while the sections are walked over.
Walk == <<Share>> \o Allocate \o <<Unshare>>

\* GetMainSection()->GetReport()->PrintToLog(): both flush; then the total is copied.
SigintReport == Flush \o Flush \o Within("total") \o Walk \o Log

\* What the program of thread t does under locks, in any order; between two of them it owns none.  It
\* takes memory, writes to the log, flushes (GetMainSection, GetReport, GetAllReports), copies the total
\* and walks over the sections for a report, finds a section or makes it (SubSection), enters its
\* collector into the list or takes it out; and with a collector, ends a session, or copies it at the
\* end of the thread and merges it.
Programs(t) ==
  {Allocate, Log, Flush, Within("total"), Walk, <<Share, Unshare>>, Within("sections"), Within("list")} \union
  IF t \in Collected THEN {<<Try(t), Unlock(t)>>, Within(t), Hold("total")} ELSE {}

Program == [kind |-> "program", signal |-> NoThread, at |-> "running", todo |-> <<>>]
Handler(s) == [kind |-> "handler", signal |-> s, at |-> "entered", todo |-> <<>>]

SHInit ==
  /\ stack = [t \in ProcessThreads |-> <<Program>>]
  /\ owner = [m \in Mutexes |-> NoThread]
  /\ sharers = [t \in ProcessThreads |-> 0]
  /\ current_thread_in_handler = NoThread
  /\ disposition = [s \in Signals |-> "handle"]
  /\ sent = 0 /\ waiting = {} /\ alive = TRUE
  /\ ran = [t \in ProcessThreads |-> 0]

Top(t) == Last(stack[t])
SetTop(t, a) == stack' = [stack EXCEPT ![t] = Front(@) \o <<a>>]
Handlers(t) == {i \in DOMAIN stack[t] : stack[t][i].kind = "handler"}

\* A signal is blocked in the thread that runs its handler (sa_mask is empty, SA_NODEFER is not set).
Blocked(t) == {stack[t][i].signal : i \in Handlers(t)}

-----------------------------------------------------------------------------
(* Programs and reports: one step on one lock.                             *)

BeginOperation(t) ==
  /\ alive /\ Top(t).kind = "program" /\ Top(t).todo = <<>> /\ ran[t] < MaxOperations
  /\ \E script \in Programs(t) : SetTop(t, [Top(t) EXCEPT !.todo = script])
  /\ ran' = [ran EXCEPT ![t] = @ + 1]
  /\ UNCHANGED <<lockVars, current_thread_in_handler, signalVars>>

CanTake(step) ==
  /\ step.do \in {"lock", "try", "share"} => owner[step.on] = NoThread
  /\ step.do = "lock" /\ step.on = "sections" => \A t \in ProcessThreads : sharers[t] = 0

\* A mutex that is locked again by its owner is never acquired.  A try_lock that fails ends the operation.
LockStep(t) ==
  /\ alive /\ Top(t).todo # <<>>
  /\ LET step == Head(Top(t).todo)
         rest == [Top(t) EXCEPT !.todo = Tail(@)]
     IN  \/ /\ step.do \in {"lock", "try"} /\ CanTake(step)
            /\ owner' = [owner EXCEPT ![step.on] = <<t, Len(stack[t])>>]
            /\ SetTop(t, rest) /\ UNCHANGED sharers
         \/ /\ step.do = "try" /\ ~CanTake(step)
            /\ SetTop(t, [rest EXCEPT !.todo = <<>>]) /\ UNCHANGED lockVars
         \/ /\ step.do = "unlock"
            /\ owner' = [owner EXCEPT ![step.on] = NoThread]
            /\ SetTop(t, rest) /\ UNCHANGED sharers
         \/ /\ step.do \in {"share", "unshare"} /\ CanTake(step)
            /\ sharers' = [sharers EXCEPT ![t] = IF step.do = "share" THEN @ + 1 ELSE @ - 1]
            /\ SetTop(t, rest) /\ UNCHANGED owner
  /\ UNCHANGED <<current_thread_in_handler, signalVars, ran>>

-----------------------------------------------------------------------------
(* Signals, as the kernel delivers them (sigaction, kill).                 *)

\* The process ends, and with it what its threads were at and what they owned.
End ==
  /\ stack' = [t \in ProcessThreads |-> <<Program>>]
  /\ owner' = [m \in Mutexes |-> NoThread] /\ sharers' = [t \in ProcessThreads |-> 0]
  /\ alive' = FALSE
  /\ UNCHANGED <<current_thread_in_handler, disposition, sent, waiting, ran>>

\* A thread that does not block the signal runs its handler.
Interrupt(s) ==
  /\ disposition[s] = "handle"
  /\ \E t \in ProcessThreads : s \notin Blocked(t) /\ stack' = [stack EXCEPT ![t] = Append(@, Handler(s))]
  /\ UNCHANGED waiting

\* If no thread can be interrupted, the signal waits.
Wait(s) ==
  /\ disposition[s] = "default" \/ \A t \in ProcessThreads : s \in Blocked(t)
  /\ waiting' = waiting \union {s} /\ UNCHANGED stack

Send(s) ==
  /\ alive /\ sent < MaxSent
  /\ sent' = sent + 1
  /\ Interrupt(s) \/ Wait(s)
  /\ UNCHANGED <<lockVars, current_thread_in_handler, disposition, alive, ran>>

\* A thread that does not block a signal takes it, with the default action in place.
Take(s) ==
  /\ alive /\ s \in waiting /\ disposition[s] = "default" /\ \E t \in ProcessThreads : s \notin Blocked(t)
  /\ End

-----------------------------------------------------------------------------
(* SignalHandler.                                                          *)

\* Mutation: the exchange is a store.
First_Store == TRUE

\* compare_exchange_strong: succeeds for the first thread only.
First == current_thread_in_handler = NoThread

\* DumpSignalInfo, which writes into a stringstream; then the report of SIGINT, or DumpStacktrace, which
\* does, too.
Dump(s) == Allocate \o IF s = SIGINT THEN SigintReport ELSE Allocate
Dumping(t) == [Top(t) EXCEPT !.at = "dumping", !.todo = Dump(Top(t).signal)]

\* Mutation: whoever is not the first sleeps, in the thread of the dump, too.
Second_Sleeps(t) == "sleeping"

\* pthread_equal: a dump this thread was in is not waited for.
Second(t) == IF current_thread_in_handler = t THEN "nested" ELSE "sleeping"

Enter(t) ==
  /\ alive /\ Top(t).at = "entered"
  /\ IF First
       THEN current_thread_in_handler' = t /\ SetTop(t, Dumping(t))
       ELSE SetTop(t, [Top(t) EXCEPT !.at = Second(t)]) /\ UNCHANGED current_thread_in_handler
  /\ UNCHANGED <<lockVars, signalVars, ran>>

\* Mutation: the signal is not raised again.
Raise_Not(s) == UNCHANGED <<waiting, alive>>

\* kill(getpid(), s) from a handler, where s is blocked: it waits for a thread to take it.
Raise(s) == waiting' = waiting \union {s} /\ UNCHANGED alive

\* InvokeDefaultSignalHandler: at the end of the handler, and at its beginning when it has interrupted
\* a handler of the same thread; if the process lives on, that one goes on with a dump of its own.
InvokeDefault(t) ==
  /\ alive
  /\ \/ Top(t).at = "nested" /\ SetTop(t, Dumping(t))
     \/ Top(t).at = "dumping" /\ Top(t).todo = <<>> /\ SetTop(t, [Top(t) EXCEPT !.at = "returning"])
  /\ disposition' = [disposition EXCEPT ![Top(t).signal] = "default"]
  /\ Raise(Top(t).signal)
  /\ UNCHANGED <<lockVars, current_thread_in_handler, sent, ran>>

\* The handler returns, and its signal is no longer blocked: one that waits is taken at once.
Return(t) ==
  /\ alive /\ Top(t).at = "returning"
  /\ IF Top(t).signal \in waiting /\ \A i \in Handlers(t) \ {Len(stack[t])} : stack[t][i].signal # Top(t).signal
       THEN End
       ELSE /\ stack' = [stack EXCEPT ![t] = Front(@)]
            /\ UNCHANGED <<lockVars, current_thread_in_handler, signalVars, ran>>

-----------------------------------------------------------------------------
SHThreadStep(t) == LockStep(t) \/ Enter(t) \/ InvokeDefault(t) \/ Return(t)

SHNext ==
  \/ \E t \in ProcessThreads : BeginOperation(t) \/ SHThreadStep(t)
  \/ \E s \in Signals : Send(s) \/ Take(s)

SHSpec == SHInit /\ [][SHNext]_signalHandlerVars

\* A thread that can move is run, and a signal that can be taken is taken; nobody has to begin an
\* operation, or to send signals.
SHFairSpec ==
  /\ SHSpec
  /\ \A t \in ProcessThreads : WF_signalHandlerVars(SHThreadStep(t))
  /\ \A s \in Signals : WF_signalHandlerVars(Take(s))

-----------------------------------------------------------------------------
(* Properties.                                                             *)

\* Every variable has its type; above the program of a thread are handlers.
SHTypeOK ==
  /\ \A t \in ProcessThreads : Len(stack[t]) > 0 /\ Cardinality(Handlers(t)) = Len(stack[t]) - 1
  /\ owner \in [Mutexes -> {NoThread} \union (ProcessThreads \X (1 .. MaxSent + 1))]
  /\ sharers \in [ProcessThreads -> Nat]
  /\ current_thread_in_handler \in ProcessThreads \union {NoThread}
  /\ disposition \in [Signals -> {"handle", "default"}]
  /\ sent \in 0 .. MaxSent /\ waiting \subseteq Signals /\ alive \in BOOLEAN

\* One thread dumps, whatever number of signals reaches however many threads; the others wait for the
\* process to be killed.
OneDumper ==
  SHTypeOK /\ \A t \in ProcessThreads : \A i \in Handlers(t) :
    stack[t][i].at \in {"dumping", "nested", "returning"} => t = current_thread_in_handler

\* current_thread_in_handler points into the frame of a handler, which is read by every later signal:
\* that handler has not returned.
FrameIsThere ==
  (alive /\ current_thread_in_handler # NoThread) => Handlers(current_thread_in_handler) # {}

\* Thread t asks for a mutex that the i-th activation of u owns.
Awaits(t, u, i) ==
  /\ Top(t).todo # <<>>
  /\ Head(Top(t).todo).do \in {"lock", "share"} /\ owner[Head(Top(t).todo).on] = <<u, i>>

\* Every thread of T waits for a mutex that a thread of T owns, or is not the one of the dump and sleeps
\* until the process is killed: none of them ever moves again, but for another signal.
Stand(T) == \A t \in T :
  \/ \E u \in T : \E i \in DOMAIN stack[u] : Awaits(t, u, i)
  \/ Top(t).at = "sleeping" /\ t # current_thread_in_handler

\* The thread of the dump stands, because of what signals have interrupted: there is no circle of
\* threads that wait for what the others have locked last.
Deadlocked ==
  \E T \in SUBSET ProcessThreads :
    /\ current_thread_in_handler \in T /\ Stand(T)
    /\ \A U \in SUBSET T \ {{}} : \E t \in U : \A u \in U : ~Awaits(t, u, Len(stack[u]))

\* "Another thread is dumping. Waiting until the process is killed": a signal that is caught kills the
\* process in the end, however many others it meets and whichever thread takes it; the one way out is
\* a deadlock for good, of the dump with what has been interrupted.
CaughtIsDeadly == (\E t \in ProcessThreads : Handlers(t) # {}) ~> (~alive \/ []Deadlocked)
=============================================================================
