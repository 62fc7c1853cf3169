------------------------------- MODULE Waits --------------------------------
(***************************************************************************)
(* Threads, processes and the objects they wait on: kernel/thread.cpp,     *)
(* event.cpp, semaphore.cpp, mutant.cpp, the watcher lists of object.cpp   *)
(* and the termination code of process.cpp.                                *)
(*                                                                         *)
(* Fibers are co-operative, so a system call is atomic up to the point     *)
(* where it blocks: there is one action per system call and one, Resumed,  *)
(* for the rest of a call that blocked.  Which runnable fiber goes next    *)
(* (module Fibers) is left open: any fiber in `linked' may be the current  *)
(* one when its action is taken.                                           *)
(***************************************************************************)
EXTENDS Integers, Sequences, FiniteSets

CONSTANTS Threads, Procs,
          AutoEvents, ManualEvents, Semaphores, Mutants,
          NONE,
          ThreadsOf,     \* process_t::threads, in the order of creation
          MaxCount,      \* semaphore_t::max_count
          ULONG_SIZE,    \* 2^32 in the program
          WaitArgs,      \* the arguments that calls may wait with
          ReleaseCounts, \* the ReleaseCount arguments of NtReleaseSemaphore
          MaxApcs,       \* bound on an apc_list
          MaxHeld        \* bound on a mutant's count

Events  == AutoEvents \cup ManualEvents
Objects == Events \cup Semaphores
Waitable == Objects \cup Mutants \cup Threads \cup Procs

ProcThreads(p) == {ThreadsOf[p][i] : i \in 1 .. Len(ThreadsOf[p])}
ProcOf(t) == CHOOSE p \in Procs : t \in ProcThreads(p)

ASSUME WaitsAssumption ==
  /\ ThreadsOf \in [Procs -> Seq(Threads)]
  /\ \A t \in Threads : \E p \in Procs : t \in ProcThreads(p)
  /\ \A p, q \in Procs : p # q => ProcThreads(p) \cap ProcThreads(q) = {}
  /\ ULONG_SIZE \in Nat \ {0, 1}
  /\ MaxCount \in [Semaphores -> 0 .. ULONG_SIZE - 1]
  /\ WaitArgs \subseteq [objs: Seq(Waitable), all: BOOLEAN, alertable: BOOLEAN, timed: BOOLEAN]
  /\ \A w \in WaitArgs : w.objs = <<>> => w.timed /\ ~w.all
  /\ ReleaseCounts \subseteq 1 .. ULONG_SIZE - 1
  /\ MaxApcs \in Nat /\ MaxHeld \in Nat
  /\ NONE \notin Threads
  /\ Threads \cap Procs = {} /\ Objects \cap (Threads \cup Procs \cup Mutants) = {}
  /\ Mutants \cap (Threads \cup Procs) = {}
  /\ AutoEvents \cap ManualEvents = {} /\ Events \cap Semaphores = {}

VARIABLES state,    \* ThreadState
          susp,     \* SuspendCount
          linked,   \* the threads whose fiber is in the run list
          runlist,  \* runlist_entry_t::running_threads
          inWait,   \* in_wait
          wait,     \* wait_list, WaitType, Alertable and the timeout argument
          timer,    \* the thread's own timeout_t
          alerted,  \* alerted
          apcs,     \* the length of apc_list
          vm,       \* process_t::vm is not null
          sig,      \* event_impl_t::state, semaphore_t::count
          owner,    \* mutant_t::owner
          held,     \* mutant_t::count
          loop      \* NtTerminateProcess, part way through its loop

thrvars == <<state, susp, linked, runlist, inWait, wait, timer, alerted, apcs>>
vars == <<thrvars, vm, sig, owner, held, loop>>

States == {"Initialized", "Wait", "Running", "Terminated"}

(* wait_on_handles takes the objects of the handles it is passed, the wait *)
(* type, the alertable flag and whether there is a timeout.  NtDelay-      *)
(* Execution passes no handles and a timeout.  NoWait: not in a wait.      *)
NoWait == [objs |-> <<>>, all |-> FALSE, alertable |-> FALSE, timed |-> FALSE]

(* Initially one thread runs; the others have been created suspended.      *)
Init == /\ \E boot \in Threads :
             /\ state = [t \in Threads |-> IF t = boot THEN "Running" ELSE "Initialized"]
             /\ susp = [t \in Threads |-> IF t = boot THEN 0 ELSE 1]
             /\ linked = {boot}
             /\ runlist = {boot}
        /\ inWait = [t \in Threads |-> FALSE]
        /\ wait = [t \in Threads |-> NoWait]
        /\ timer = [t \in Threads |-> "none"]
        /\ alerted = [t \in Threads |-> FALSE]
        /\ apcs = [t \in Threads |-> 0]
        /\ vm = [p \in Procs |-> TRUE]
        /\ sig = [o \in Objects |-> 0]
        /\ owner = [m \in Mutants |-> NONE]
        /\ held = [m \in Mutants |-> 0]
        /\ loop = NONE

-----------------------------------------------------------------------------
(* The objects.                                                            *)

(* sync_object_t::is_signalled of each kind of object.  A mutant is always *)
(* signalled: it only asks whether there is a current thread.              *)
IsSignalled(o) ==
  CASE o \in Objects -> sig[o] > 0
    [] o \in Mutants -> TRUE
    [] o \in Threads -> state[o] = "Terminated"
    [] o \in Procs   -> \A t \in ProcThreads(o) : state[t] = "Terminated"

Watches(t, o) == \E i \in 1 .. Len(wait[t].objs) : wait[t].objs[i] = o

(* The threads with an entry in o's list of watchers.                      *)
Watchers(o) == {t \in Threads : Watches(t, o)}

Occurrences(objs, o) == Cardinality({i \in 1 .. Len(objs) : objs[i] = o})

(* satisfy() of each object in objs, by thread t: an auto event is reset,  *)
(* a semaphore counted down, a mutant taken if no other thread has it.     *)
SignalsAfter(objs) ==
  [o \in Objects |-> IF o \in AutoEvents /\ Occurrences(objs, o) > 0 THEN 0
                     ELSE IF o \in Semaphores THEN (sig[o] - Occurrences(objs, o)) % ULONG_SIZE
                     ELSE sig[o]]

(* Mutant: satisfy() hands a mutant over without asking who owns it.       *)
Satisfy_steals(t, objs) ==
  /\ sig' = SignalsAfter(objs)
  /\ owner' = [m \in Mutants |-> IF Occurrences(objs, m) > 0 THEN t ELSE owner[m]]
  /\ held' = [m \in Mutants |-> held[m] + Occurrences(objs, m)]

Satisfy(t, objs) ==
  /\ sig' = SignalsAfter(objs)
  /\ owner' = [m \in Mutants |->
       IF Occurrences(objs, m) > 0 /\ owner[m] = NONE THEN t ELSE owner[m]]
  /\ held' = [m \in Mutants |->
       IF owner[m] \in {NONE, t} THEN held[m] + Occurrences(objs, m) ELSE held[m]]

objvars == <<sig, owner, held>>

-----------------------------------------------------------------------------
(* Mutant: notify forgets to clear in_wait.                                *)
Notify_keeps_in_wait(W) ==
  /\ inWait' = inWait
  /\ linked' = linked \cup {t \in W : inWait[t] /\ state[t] # "Terminated"}

(* Mutant: notify clears in_wait but starts only a thread that is running. *)
Notify_without_start(W) ==
  /\ inWait' = [t \in Threads |-> inWait[t] /\ t \notin W]
  /\ linked' = linked \cup {t \in W : inWait[t] /\ state[t] = "Running"}

(* thread_impl_t::notify of each thread in W: in_wait is cleared, and a    *)
(* thread that is not terminated is started.                               *)
Notify(W) ==
  /\ inWait' = [t \in Threads |-> inWait[t] /\ t \notin W]
  /\ linked' = linked \cup {t \in W : inWait[t] /\ state[t] # "Terminated"}

(* The current thread, in user code, about to make a system call.          *)
Running(t) == loop = NONE /\ t \in linked /\ state[t] = "Running" /\ wait[t] = NoWait

(* Mutant: the thread that ends is counted as a live one.                  *)
LastThread_counts_itself(u) == \A v \in ProcThreads(ProcOf(u)) : state[v] = "Terminated"

(* u is the last live thread of its process.                               *)
LastThread(u) == \A v \in ProcThreads(ProcOf(u)) : v = u \/ state[v] = "Terminated"

(* Mutant: those who wait for the process are not told.                    *)
ExitWatchers_of_thread(u) == Watchers(u)

(* Those that the end of u wakes.                                          *)
ExitWatchers(u) == Watchers(u) \cup (IF LastThread(u) THEN Watchers(ProcOf(u)) ELSE {})

(* terminate() of u, called by thread t: the state change wakes those who  *)
(* wait for u; the last thread takes the process with it, waking those who *)
(* wait for the process; a thread that terminates itself stops for good.   *)
Terminate(t, u) ==
  LET woken == {v \in ExitWatchers(u) : inWait[v] /\ v # u /\ state[v] # "Terminated"}
  IN /\ state' = [state EXCEPT ![u] = "Terminated"]
     /\ runlist' = runlist \ {u}
     /\ inWait' = [v \in Threads |-> inWait[v] /\ v \notin ExitWatchers(u)]
     /\ linked' = (linked \cup woken) \ (IF u = t THEN {t} ELSE {})
     /\ vm' = [q \in Procs |-> vm[q] /\ ~(q = ProcOf(u) /\ LastThread(u))]

-----------------------------------------------------------------------------
(* wait_on_handles.  The operators below are the exits of its loop, for    *)
(* thread t with arguments w and the timeout in state tm.                  *)

(* check_wait_all, check_wait_any *)
Satisfiable(w) ==
  IF w.all THEN \A i \in 1 .. Len(w.objs) : IsSignalled(w.objs[i])
           ELSE \E i \in 1 .. Len(w.objs) : IsSignalled(w.objs[i])

(* A WaitAny takes the first signalled object of its list.                 *)
FirstSignalled(w, i) == /\ IsSignalled(w.objs[i])
                        /\ \A j \in 1 .. i - 1 : ~IsSignalled(w.objs[j])

ApcDue(t, w) == w.alertable /\ apcs[t] > 0

(* Mutant: the timeout is left set after the wait.                         *)
ReturnToUser_timer_set(t) ==
  /\ wait' = [wait EXCEPT ![t] = NoWait]
  /\ state' = [state EXCEPT ![t] = IF @ = "Terminated" THEN @ ELSE "Running"]
  /\ runlist' = IF state[t] = "Terminated" THEN runlist ELSE runlist \cup {t}
  /\ UNCHANGED <<susp, linked, inWait, vm, loop, timer>>

(* Mutant: the thread is not put back in running_threads.                  *)
ReturnToUser_uncounted(t) ==
  /\ wait' = [wait EXCEPT ![t] = NoWait]
  /\ timer' = [timer EXCEPT ![t] = "none"]
  /\ state' = [state EXCEPT ![t] = IF @ = "Terminated" THEN @ ELSE "Running"]
  /\ UNCHANGED <<susp, linked, inWait, vm, loop, runlist>>

(* end_wait and set_timeout(0), on the way back to user code; the state    *)
(* was set to running when wait() returned.                                *)
ReturnToUser(t) ==
  /\ wait' = [wait EXCEPT ![t] = NoWait]
  /\ timer' = [timer EXCEPT ![t] = "none"]
  /\ state' = [state EXCEPT ![t] = IF @ = "Terminated" THEN @ ELSE "Running"]
  /\ runlist' = IF state[t] = "Terminated" THEN runlist ELSE runlist \cup {t}
  /\ UNCHANGED <<susp, linked, inWait, vm, loop>>

WaitSatisfied(t, w) ==
  /\ Satisfiable(w)
  /\ \/ w.all /\ Satisfy(t, w.objs)
     \/ ~w.all /\ \E i \in 1 .. Len(w.objs) : FirstSignalled(w, i) /\ Satisfy(t, <<w.objs[i]>>)
  /\ ReturnToUser(t)
  /\ UNCHANGED <<apcs, alerted>>

(* deliver_apc; it fails, and terminates the thread inside the wait, when  *)
(* the user stack cannot be written.                                       *)
WaitApc(t, w, tm) ==
  /\ ~Satisfiable(w)
  /\ ApcDue(t, w)
  /\ apcs' = [apcs EXCEPT ![t] = @ - 1]
  /\ \/ ReturnToUser(t)
     \/ /\ state[t] # "Terminated"
        /\ Terminate(t, t)
        /\ wait' = [wait EXCEPT ![t] = w]
        /\ timer' = [timer EXCEPT ![t] = tm]
        /\ UNCHANGED <<susp, loop>>
  /\ UNCHANGED <<alerted, objvars>>

WaitAlerted(t, w) ==
  /\ ~Satisfiable(w) /\ ~ApcDue(t, w)
  /\ alerted[t]
  /\ alerted' = [alerted EXCEPT ![t] = FALSE]
  /\ ReturnToUser(t)
  /\ UNCHANGED <<apcs, objvars>>

WaitTimedOut(t, w, tm) ==
  /\ ~Satisfiable(w) /\ ~ApcDue(t, w) /\ ~alerted[t]
  /\ w.timed /\ tm # "armed"
  /\ ReturnToUser(t)
  /\ UNCHANGED <<apcs, alerted, objvars>>

(* in_wait is set and wait() leaves the run list.                          *)
WaitBlocks(t, w, tm) ==
  /\ ~Satisfiable(w) /\ ~ApcDue(t, w) /\ ~alerted[t]
  /\ ~(w.timed /\ tm # "armed")
  /\ wait' = [wait EXCEPT ![t] = w]
  /\ timer' = [timer EXCEPT ![t] = tm]
  /\ inWait' = [inWait EXCEPT ![t] = TRUE]
  /\ state' = [state EXCEPT ![t] = IF @ = "Terminated" THEN @ ELSE "Wait"]
  /\ runlist' = runlist \ {t}
  /\ linked' = linked \ {t}
  /\ UNCHANGED <<susp, apcs, alerted, vm, objvars, loop>>

WaitLoop(t, w, tm) == \/ WaitSatisfied(t, w)
                      \/ WaitApc(t, w, tm)
                      \/ WaitAlerted(t, w)
                      \/ WaitTimedOut(t, w, tm)
                      \/ WaitBlocks(t, w, tm)

(* NtWaitForSingleObject, NtWaitForMultipleObjects, NtDelayExecution       *)
WaitOnHandles(t, w) ==
  /\ Running(t)
  /\ \A m \in Mutants : Occurrences(w.objs, m) + held[m] <= MaxHeld
  /\ WaitLoop(t, w, IF w.timed THEN "armed" ELSE "none")

(* wait() returns in a thread that has been started again.                 *)
Resumed(t) ==
  /\ loop = NONE /\ t \in linked /\ wait[t] # NoWait
  /\ WaitLoop(t, wait[t], timer[t])

(* Mutant: the expired timeout does not start the thread.                  *)
Timeout_unnoticed(u) ==
  /\ loop = NONE
  /\ timer[u] = "armed"
  /\ timer' = [timer EXCEPT ![u] = "expired"]
  /\ UNCHANGED <<state, susp, runlist, wait, alerted, apcs, vm, objvars, loop, linked, inWait>>

(* The main fiber finds that the timeout of thread u has expired.          *)
Timeout(u) ==
  /\ loop = NONE
  /\ timer[u] = "armed"
  /\ timer' = [timer EXCEPT ![u] = "expired"]
  /\ Notify({u})
  /\ UNCHANGED <<state, susp, runlist, wait, alerted, apcs, vm, objvars, loop>>

-----------------------------------------------------------------------------
(* The system calls that do not block.                                     *)

othervars == <<state, susp, runlist, wait, timer, vm, loop>>

NtSetEvent(t, e) ==
  /\ Running(t)
  /\ sig' = [sig EXCEPT ![e] = 1]
  /\ Notify(Watchers(e))
  /\ UNCHANGED <<othervars, alerted, apcs, owner, held>>

NtResetEvent(t, e) ==
  /\ Running(t)
  /\ sig' = [sig EXCEPT ![e] = 0]
  /\ UNCHANGED <<othervars, linked, inWait, alerted, apcs, owner, held>>

(* pulse() is set() followed by reset(), with no switch between them.      *)
NtPulseEvent(t, e) ==
  /\ Running(t)
  /\ sig' = [sig EXCEPT ![e] = 0]
  /\ Notify(Watchers(e))
  /\ UNCHANGED <<othervars, alerted, apcs, owner, held>>

(* Mutant: the limit is off by one.                                        *)
NtReleaseSemaphore_one_more(t, s, n) ==
  /\ Running(t)
  /\ (sig[s] + n) % ULONG_SIZE <= MaxCount[s] + 1
  /\ sig' = [sig EXCEPT ![s] = (@ + n) % ULONG_SIZE]
  /\ Notify(IF sig[s] = 0 THEN Watchers(s) ELSE {})
  /\ UNCHANGED <<othervars, alerted, apcs, owner, held>>

(* Mutant: the old count is looked at after it has been raised.            *)
NtReleaseSemaphore_late_test(t, s, n) ==
  /\ Running(t)
  /\ (sig[s] + n) % ULONG_SIZE <= MaxCount[s]
  /\ sig' = [sig EXCEPT ![s] = (@ + n) % ULONG_SIZE]
  /\ Notify(IF sig'[s] = 0 THEN Watchers(s) ELSE {})
  /\ UNCHANGED <<othervars, alerted, apcs, owner, held>>

(* The limit is compared with a 32-bit sum; the watchers are notified only *)
(* when the count was zero, before it is raised.                           *)
NtReleaseSemaphore(t, s, n) ==
  /\ Running(t)
  /\ (sig[s] + n) % ULONG_SIZE <= MaxCount[s]
  /\ sig' = [sig EXCEPT ![s] = (@ + n) % ULONG_SIZE]
  /\ Notify(IF sig[s] = 0 THEN Watchers(s) ELSE {})
  /\ UNCHANGED <<othervars, alerted, apcs, owner, held>>

(* Mutant: the last release leaves the owner in place.                     *)
NtReleaseMutant_keeps_owner(t, m) ==
  /\ Running(t)
  /\ owner[m] = t
  /\ held' = [held EXCEPT ![m] = @ - 1]
  /\ UNCHANGED <<thrvars, vm, sig, loop, owner>>

NtReleaseMutant(t, m) ==
  /\ Running(t)
  /\ owner[m] = t
  /\ held' = [held EXCEPT ![m] = @ - 1]
  /\ owner' = [owner EXCEPT ![m] = IF held[m] = 1 THEN NONE ELSE @]
  /\ UNCHANGED <<thrvars, vm, sig, loop>>

NtAlertThread(t, u) ==
  /\ Running(t)
  /\ alerted' = [alerted EXCEPT ![u] = TRUE]
  /\ Notify({u})
  /\ UNCHANGED <<othervars, apcs, objvars>>

(* Mutant: an APC is queued and nobody is told.                            *)
NtQueueApcThread_silent(t, u) ==
  /\ Running(t)
  /\ state[u] # "Terminated"
  /\ apcs[u] < MaxApcs
  /\ apcs' = [apcs EXCEPT ![u] = @ + 1]
  /\ UNCHANGED <<othervars, alerted, objvars, linked, inWait>>

NtQueueApcThread(t, u) ==
  /\ Running(t)
  /\ state[u] # "Terminated"
  /\ apcs[u] < MaxApcs
  /\ apcs' = [apcs EXCEPT ![u] = @ + 1]
  /\ Notify({u})
  /\ UNCHANGED <<othervars, alerted, objvars>>

(* An alert is taken first; otherwise an APC is delivered, or fails to be. *)
NtTestAlert(t) ==
  /\ Running(t)
  /\ \/ /\ alerted[t]
        /\ alerted' = [alerted EXCEPT ![t] = FALSE]
        /\ UNCHANGED <<othervars, linked, inWait, apcs, objvars>>
     \/ /\ ~alerted[t] /\ apcs[t] > 0
        /\ apcs' = [apcs EXCEPT ![t] = @ - 1]
        /\ \/ UNCHANGED <<othervars, linked, inWait, alerted, objvars>>
           \/ /\ Terminate(t, t)
              /\ UNCHANGED <<susp, wait, timer, alerted, objvars, loop>>

(* Mutant: a thread is resumed although its suspend count is zero.         *)
NtResumeThread_unchecked(t, u) ==
  /\ Running(t)
  /\ state[u] # "Terminated"
  /\ susp' = [susp EXCEPT ![u] = @ - 1]
  /\ state' = [state EXCEPT ![u] = "Running"]
  /\ runlist' = runlist \cup {u}
  /\ linked' = linked \cup {u}
  /\ UNCHANGED <<inWait, wait, timer, alerted, apcs, vm, objvars, loop>>

NtResumeThread(t, u) ==
  /\ Running(t)
  /\ susp[u] = 1
  /\ susp' = [susp EXCEPT ![u] = 0]
  /\ IF state[u] = "Terminated"
       THEN UNCHANGED <<state, runlist, linked>>
       ELSE /\ state' = [state EXCEPT ![u] = "Running"]
            /\ runlist' = runlist \cup {u}
            /\ linked' = linked \cup {u}
  /\ UNCHANGED <<inWait, wait, timer, alerted, apcs, vm, objvars, loop>>

NtTerminateThread(t, u) ==
  /\ Running(t)
  /\ state[u] # "Terminated"
  /\ Terminate(t, u)
  /\ UNCHANGED <<susp, wait, timer, alerted, apcs, objvars, loop>>

(* NtTerminateProcess walks the list of threads; it ends early when it     *)
(* comes to the calling thread, which stops inside terminate().            *)
NtTerminateProcess(t, p) ==
  /\ Running(t)
  /\ loop' = [thread |-> t, proc |-> p, at |-> 1]
  /\ UNCHANGED <<thrvars, vm, objvars>>

TerminateNext ==
  /\ loop # NONE
  /\ LET t == loop.thread
         i == loop.at
         list == ThreadsOf[loop.proc]
     IN IF i > Len(list)
          THEN loop' = NONE /\ UNCHANGED <<thrvars, vm, objvars>>
          ELSE /\ loop' = IF list[i] = t THEN NONE ELSE [loop EXCEPT !.at = i + 1]
               /\ IF state[list[i]] = "Terminated"
                    THEN UNCHANGED <<thrvars, vm, objvars>>
                    ELSE /\ Terminate(t, list[i])
                         /\ UNCHANGED <<susp, wait, timer, alerted, apcs, objvars>>

(* A thread that was terminated while its fiber was in the run list leaves *)
(* the run loop, and fiber_exit stops it.                                  *)
FiberExit(t) ==
  /\ loop = NONE /\ t \in linked /\ wait[t] = NoWait
  /\ state[t] = "Terminated"
  /\ linked' = linked \ {t}
  /\ UNCHANGED <<state, susp, runlist, inWait, wait, timer, alerted, apcs, vm, objvars, loop>>

-----------------------------------------------------------------------------
Syscall(t) ==
  \/ \E w \in WaitArgs : WaitOnHandles(t, w)
  \/ \E e \in Events : NtSetEvent(t, e) \/ NtResetEvent(t, e) \/ NtPulseEvent(t, e)
  \/ \E s \in Semaphores, n \in ReleaseCounts : NtReleaseSemaphore(t, s, n)
  \/ \E m \in Mutants : NtReleaseMutant(t, m)
  \/ NtTestAlert(t)
  \/ \E u \in Threads : \/ NtAlertThread(t, u) \/ NtQueueApcThread(t, u)
                        \/ NtResumeThread(t, u) \/ NtTerminateThread(t, u)
  \/ \E p \in Procs : NtTerminateProcess(t, p)

Next == \/ \E t \in Threads : Syscall(t) \/ Resumed(t) \/ FiberExit(t) \/ Timeout(t)
        \/ TerminateNext

(* Every fiber in the run list runs again and again (module Fibers), the   *)
(* main fiber, which expires the timers, among them.                       *)
Fairness == /\ \A t \in Threads : SF_vars(Resumed(t)) /\ SF_vars(Timeout(t))
            /\ WF_vars(TerminateNext)

Spec == Init /\ [][Next]_vars /\ Fairness

-----------------------------------------------------------------------------
(* Every variable holds a value of its C++ type.                           *)
TypeOK ==
  /\ state \in [Threads -> States]
  /\ susp \in [Threads -> 0 .. 1]
  /\ linked \subseteq Threads
  /\ runlist \subseteq Threads
  /\ inWait \in [Threads -> BOOLEAN]
  /\ wait \in [Threads -> WaitArgs \cup {NoWait}]
  /\ timer \in [Threads -> {"none", "armed", "expired"}]
  /\ alerted \in [Threads -> BOOLEAN]
  /\ apcs \in [Threads -> Nat]
  /\ vm \in [Procs -> BOOLEAN]
  /\ sig \in [Objects -> 0 .. ULONG_SIZE - 1]
  /\ owner \in [Mutants -> Threads \cup {NONE}]
  /\ held \in [Mutants -> Int]
  /\ loop \in [thread: Threads, proc: Procs, at: Nat \ {0}] \cup {NONE}

(* How the fields of a thread go together: a thread runs with no wait and  *)
(* no timeout of its own left over from an earlier call, and one that has  *)
(* never been resumed is in no wait.                                       *)
ThreadShape ==
  \A t \in Threads :
    /\ susp[t] = 1 => /\ state[t] \in {"Initialized", "Terminated"}
                      /\ wait[t] = NoWait /\ ~inWait[t]
    /\ state[t] = "Initialized" => susp[t] = 1
    /\ state[t] = "Running" => wait[t] = NoWait /\ ~inWait[t]
    /\ state[t] = "Wait" => wait[t] # NoWait
    /\ timer[t] # "none" => wait[t].timed

(* fiber_t::start asserts that its fiber is not in the run list            *)
(* (fiber.cpp:134), and wait_on_handles that in_wait was cleared when      *)
(* wait() returns (thread.cpp:1252).  Whatever wakes a thread - an object, *)
(* an alert, an APC, a timeout, a resume - finds it out of the list.       *)
NoDoubleStart == \A t \in Threads : /\ inWait[t] => t \notin linked
                                    /\ susp[t] = 1 => t \notin linked

(* running_threads, whose length decides when I/O completions are handed   *)
(* out (thread.cpp:268), holds exactly the threads in state Running.       *)
RunlistExact == runlist = {t \in Threads : state[t] = "Running"}

(* No wake-up is lost: when a thread sleeps in a wait, nothing that would  *)
(* end the wait has happened already.  Every change that can satisfy a     *)
(* wait must therefore notify, also for a thread that is between being     *)
(* woken and running again.                                                *)
NoLostWakeup ==
  \A t \in Threads : state[t] = "Wait" /\ inWait[t] =>
    /\ ~Satisfiable(wait[t])
    /\ ~ApcDue(t, wait[t])
    /\ ~alerted[t]
    /\ timer[t] # "expired"

(* A thread that waits is asleep or in the run list: there is no third     *)
(* place from which nobody would ever wake it.                             *)
WaiterReachable ==
  \A t \in Threads : state[t] \in {"Wait", "Running"} => inWait[t] \/ t \in linked

(* process_t::terminate deletes the address space exactly when no thread   *)
(* of the process is left: no thread runs in a process without one.        *)
VmOutlivesThreads ==
  \A p \in Procs : ThreadsOf[p] # <<>> =>
    (vm[p] <=> \E t \in ProcThreads(p) : state[t] # "Terminated")

(* A wait with a timeout ends, however often the thread is woken for       *)
(* nothing: by APCs it does not want, or by events another thread takes.   *)
TimedWaitEnds ==
  \A t \in Threads : (wait[t] # NoWait /\ wait[t].timed)
                       ~> (wait[t] = NoWait \/ state[t] = "Terminated")

(* Whoever waits for a thread or a process that has ended gets to run.     *)
JoinReturns ==
  \A t \in Threads, o \in Threads \cup Procs :
    (wait[t] # NoWait /\ ~wait[t].all /\ Watches(t, o) /\ IsSignalled(o))
      ~> (wait[t] = NoWait \/ state[t] = "Terminated")

(* A semaphore never counts above its maximum (sema.c:80).  It is false    *)
(* when a WaitAll may name the semaphore twice: see OnlyRepeatsExceed.     *)
SemaphoreWithinLimit == \A s \in Semaphores : sig[s] <= MaxCount[s]

(* Thread t ends a wait for all of w.objs, which names s more often than s *)
(* counts: is_satisfied asks every entry of the list separately, and       *)
(* satisfy() then counts s below zero.                                     *)
Overdraws(t, w, s) ==
  /\ WaitOnHandles(t, w) \/ (Resumed(t) /\ wait[t] = w)
  /\ w.all /\ Occurrences(w.objs, s) > sig[s]

(* A semaphore is never brought above its maximum (sema.c:80) by a         *)
(* release, of whatever count, nor by a wait in whatever combination,      *)
(* except by a wait that overdraws it: and then by that alone.             *)
OnlyRepeatsExceed ==
  [][\A s \in Semaphores : sig[s] <= MaxCount[s] /\ ~(sig'[s] <= MaxCount[s])
       => \E t \in Threads, w \in WaitArgs : Overdraws(t, w, s)]_vars

(* NtReleaseSemaphore refuses a count that would exceed the maximum        *)
(* (sema.c:43), however large it is.                                       *)
ReleaseRespectsLimit ==
  [][\A t \in Threads, s \in Semaphores, n \in ReleaseCounts :
       NtReleaseSemaphore(t, s, n) => sig[s] + n <= MaxCount[s]]_vars

(* A mutant has an owner exactly as long as its count says it is held,     *)
(* however waits and releases by several threads are mixed.                *)
MutantBalanced ==
  \A m \in Mutants : IF owner[m] = NONE THEN held[m] = 0 ELSE held[m] > 0

(* A mutant passes from one thread to another only by being released in    *)
(* between: satisfy() of a wait that owns nothing leaves the owner alone.  *)
MutantHandover ==
  [][\A m \in Mutants : owner[m] # NONE => owner'[m] \in {owner[m], NONE}]_vars

(* After a successful wait for a mutant the thread can release it          *)
(* (mutant.c:54-61): a mutant is signalled to a thread that runs only when *)
(* that thread would become, or is, the owner.                             *)
WaitMakesOwner ==
  \A t \in Threads, m \in Mutants :
    Running(t) /\ IsSignalled(m) => owner[m] \in {NONE, t}

(* A terminated thread does not run (thread.cpp:1069): in particular its   *)
(* wait never uses up a signal that a live thread is waiting for.          *)
DeadThreadsTakeNothing ==
  [][\A t \in Threads : Resumed(t) /\ state[t] = "Terminated" => UNCHANGED sig]_vars

(* NtTerminateProcess ends the process: when its loop is over, no thread   *)
(* of the process is left.                                                 *)
TerminateProcessKillsAll ==
  [][loop # NONE /\ loop' = NONE
       => \A u \in ProcThreads(loop.proc) : state'[u] = "Terminated"]_vars
=============================================================================
