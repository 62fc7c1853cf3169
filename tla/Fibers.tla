------------------------------- MODULE Fibers -------------------------------
(***************************************************************************)
(* The co-operative scheduler: kernel/fiber.cpp, the run loop of           *)
(* kernel/thread.cpp and schedule() of kernel/main.cpp.                    *)
(*                                                                         *)
(* The whole kernel is one OS thread.  Runnable fibers form a circular     *)
(* doubly linked list (next, prev); current_fiber is the one that          *)
(* executes.  Nothing else runs until it calls yield() or stop().  A       *)
(* fiber is in the list exactly when its prev pointer is not null.         *)
(*                                                                         *)
(* What a fiber does between two switches is abstracted to the calls it    *)
(* makes on the list: a system call start()s any number of fibers, then    *)
(* returns to the run loop or stop()s its own fiber until another one      *)
(* start()s it again.                                                      *)
(***************************************************************************)
EXTENDS Naturals, FiniteSets, Sequences

CONSTANTS Main,      \* the fiber made by fibers_init, which runs schedule()
          Users,     \* the fibers of user threads
          Kernels,   \* the fibers of the kernel threads (kthread.cpp)
          NULL,      \* the null pointer
          Slices     \* the 10 of "i<=10" in thread_impl_t::run

ASSUME FiberAssumption == /\ Users \cap Kernels = {}
                          /\ Main \notin Users \cup Kernels
                          /\ NULL \notin Users \cup Kernels \cup {Main}
                          /\ Slices \in Nat

Threads == Users \cup Kernels
Fiber == Threads \cup {Main}

VARIABLES next, prev,  \* the links of every fiber
          current,     \* current_fiber
          slice,       \* the local i of each user thread's run loop
          mode         \* where each thread's code is (see Modes)

vars == <<next, prev, current, slice, mode>>

(***************************************************************************)
(* new:     created, never started                                         *)
(* run:     started, and not inside a system call that has blocked         *)
(* blocked: inside stop(); when it is current again, stop() returns        *)
(* dead:    run() has returned and fiber_exit has stopped the fiber        *)
(***************************************************************************)
Modes == {"new", "run", "blocked", "dead"}

Linked(f) == prev[f] # NULL

(* Mutant: one fiber too many counts as the last.                          *)
last_fiber_of_two == next[next[current]] = current

(* fiber_t::last_fiber *)
last_fiber == next[current] = current

Init == /\ next = [f \in Fiber |-> IF f = Main THEN Main ELSE NULL]
        /\ prev = [f \in Fiber |-> IF f = Main THEN Main ELSE NULL]
        /\ current = Main
        /\ slice = [t \in Users |-> 0]
        /\ mode = [t \in Threads |-> "new"]

-----------------------------------------------------------------------------
(* fiber_t::yield: a switch to next, unless there is nothing to switch to. *)
yield == current' = IF next[current] = NULL THEN current ELSE next[current]

(* remove_from_runlist unlinks current_fiber and leaves its next pointer,  *)
(* which yield then follows.                                               *)
stop ==
  /\ prev' = [f \in Fiber |-> IF f = current THEN NULL
                              ELSE IF f = next[current] THEN prev[current]
                              ELSE prev[f]]
  /\ next' = [f \in Fiber |-> IF f = prev[current] THEN next[current] ELSE next[f]]
  /\ yield

(* Mutant: the old successor's prev is not set.                            *)
start_one_way(g) ==
  /\ prev' = [f \in Fiber |-> IF f = g THEN current ELSE prev[f]]
  /\ next' = [f \in Fiber |-> IF f = current THEN g
                              ELSE IF f = g THEN next[current] ELSE next[f]]

(* Mutant: current's next is overwritten before g has copied it.           *)
start_swapped(g) ==
  /\ prev' = [f \in Fiber |-> IF f = g THEN current ELSE prev[f]]
  /\ next' = [f \in Fiber |-> IF f \in {current, g} THEN g ELSE next[f]]

(* Mutant: g goes to the end of the queue.                                 *)
start_last(g) ==
  /\ prev' = [f \in Fiber |-> IF f = current THEN g
                              ELSE IF f = g THEN prev[current] ELSE prev[f]]
  /\ next' = [f \in Fiber |-> IF f = prev[current] THEN g
                              ELSE IF f = g THEN current ELSE next[f]]

(* fiber_t::start inserts g just after the current fiber.                  *)
start(g) ==
  /\ prev' = [f \in Fiber |-> IF f = next[current] THEN g
                              ELSE IF f = g THEN current ELSE prev[f]]
  /\ next' = [f \in Fiber |-> IF f = current THEN g
                              ELSE IF f = g THEN next[current] ELSE next[f]]

(* The asserts of remove_from_runlist.                                     *)
LinksIntact == /\ next[current] # NULL
               /\ prev[current] # NULL
               /\ next[prev[current]] = current
               /\ prev[next[current]] = current

-----------------------------------------------------------------------------
(* A system call of the current thread, or a timer that the main fiber     *)
(* expires, start()s f.  A call of a user thread that has blocked and been *)
(* resumed goes back to the run loop before it starts anybody; a kernel    *)
(* thread is a loop of its own that answers user threads.                  *)
Start(f) ==
  /\ prev[f] = NULL
  /\ mode[f] \in {"new", "blocked"}
  /\ current \in Users => mode[current] = "run"
  /\ current \in Kernels => f \in Users
  /\ start(f)
  /\ mode' = [mode EXCEPT ![f] = IF @ = "new" THEN "run" ELSE @]
  /\ UNCHANGED <<current, slice>>

(* The current thread blocks; or, resumed, finds its wait unfinished and   *)
(* blocks again.                                                           *)
Block == /\ current \in Threads
         /\ stop
         /\ mode' = [mode EXCEPT ![current] = "blocked"]
         /\ UNCHANGED slice

(* Mutant: the loop never gives up the processor.                          *)
Slice_never_yields ==
  /\ current \in Users
  /\ slice' = [slice EXCEPT ![current] = (@ + 1) % (Slices + 1)]
  /\ mode' = [mode EXCEPT ![current] = "run"]
  /\ UNCHANGED <<current, next, prev>>

(* Mutant: the slices are not given back after a yield.                    *)
Slice_no_reset ==
  /\ current \in Users
  /\ slice' = [slice EXCEPT ![current] = @ + 1]
  /\ IF slice[current] <= Slices THEN UNCHANGED current ELSE yield
  /\ mode' = [mode EXCEPT ![current] = "run"]
  /\ UNCHANGED <<next, prev>>

(* One turn of the run loop of thread_impl_t::run: vm->run comes back      *)
(* after a system call or after 10ms of user code.  The thread carries on  *)
(* until its slices are used up, then yields.                              *)
Slice ==
  /\ current \in Users
  /\ IF slice[current] <= Slices
       THEN /\ slice' = [slice EXCEPT ![current] = @ + 1]
            /\ UNCHANGED current
       ELSE /\ slice' = [slice EXCEPT ![current] = 0]
            /\ yield
  /\ mode' = [mode EXCEPT ![current] = "run"]
  /\ UNCHANGED <<next, prev>>

(* NtYieldExecution calls yield() sixteen times; each call is one step.    *)
YieldExecution == /\ current \in Users /\ mode[current] = "run"
                  /\ yield
                  /\ UNCHANGED <<next, prev, slice, mode>>

(* A terminated thread's run() returns and fiber_exit calls stop().     *)
Exit == /\ current \in Threads
        /\ stop
        /\ mode' = [mode EXCEPT ![current] = "dead"]
        /\ UNCHANGED slice

(* schedule(): the main fiber yields when it is not the last one.          *)
Schedule == /\ current = Main
            /\ ~last_fiber
            /\ yield
            /\ UNCHANGED <<next, prev, slice, mode>>

Progress == Block \/ Slice \/ YieldExecution \/ Exit \/ Schedule

Next == \/ \E f \in Threads : Start(f)
        \/ Progress

(* A fiber that executes reaches its next switch: system calls terminate   *)
(* and an interval timer ends user code after 10ms.                        *)
Spec == Init /\ [][Next]_vars /\ WF_vars(Progress)
-----------------------------------------------------------------------------
(* Every variable holds a value of its C++ type.                           *)
TypeOK == /\ next \in [Fiber -> Fiber \cup {NULL}]
          /\ prev \in [Fiber -> Fiber \cup {NULL}]
          /\ current \in Fiber
          /\ slice \in [Users -> 0 .. Slices + 1]
          /\ mode \in [Threads -> Modes]

(* The links of the fibers in the run list are inverse to each other, the  *)
(* run list is closed under them, and the main and the current fiber are   *)
(* in it.  start() and remove_from_runlist() only ever patch one place of  *)
(* the list and rely on this holding everywhere else.                      *)
RingLinked == /\ Linked(Main)
              /\ Linked(current)
              /\ \A f \in Fiber : Linked(f) =>
                   /\ next[f] \in Fiber /\ Linked(next[f])
                   /\ prev[f] \in Fiber /\ Linked(prev[f])
                   /\ prev[next[f]] = f
                   /\ next[prev[f]] = f

(* The run list is a single cycle: a set of runnable fibers that next does *)
(* not lead out of contains the main fiber.                                *)
OneCycle == \A S \in SUBSET {f \in Fiber : Linked(f)} :
              (S # {} /\ \A f \in S : next[f] \in S) => Main \in S

(* A fiber that waits to be started, or that has ended, is not in the run  *)
(* list, and one that runs is.                                             *)
ModeLinked == \A t \in Threads : /\ mode[t] = "run" => Linked(t)
                                 /\ mode[t] \in {"new", "dead"} => ~Linked(t)

(* The four asserts of remove_from_runlist (fiber.cpp:117) hold whenever   *)
(* a thread can reach them.                                                *)
StopAssertsHold == current \in Threads => LinksIntact

(* When last_fiber() tells schedule() that the main fiber is alone, no     *)
(* thread is in the run list.  (Module Timers has what schedule() does     *)
(* with that answer.)                                                      *)
LastFiberAlone == current = Main /\ last_fiber => \A t \in Threads : ~Linked(t)

(* Every fiber in the run list is eventually switched to, although start() *)
(* puts a woken fiber in front of all that were already waiting: the slice *)
(* counter of the run loop survives blocking, so two threads that wake     *)
(* each other for ever still have to yield to the rest of the list.        *)
EveryLinkedFiberRuns == \A f \in Fiber : Linked(f) ~> current = f

(* The first n fibers met by following the links nx from c.                *)
Walk(nx, c, n) == LET hop[i \in 1 .. n] == IF i = 1 THEN c ELSE nx[hop[i - 1]] IN hop

Runnable == {f \in Fiber : Linked(f)}

(* The run list as a queue, with the current fiber at its head.            *)
RingOfLinks == Walk(next, current, Cardinality(Runnable))

Queue == INSTANCE FiberRing WITH ring <- RingOfLinks

(* The pointer surgery of fiber.cpp implements the queue: the list is one  *)
(* cycle through all runnable fibers, and each operation changes it only   *)
(* as FiberRing says.                                                      *)
ImplementsQueue == Queue!Spec
=============================================================================
