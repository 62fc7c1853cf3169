----------------------------- MODULE Completion -----------------------------
(***************************************************************************)
(* I/O completion ports: kernel/completion.cpp, with the part of           *)
(* thread_impl_t::set_state that hands out packets when no thread is left  *)
(* running.                                                                *)
(*                                                                         *)
(* As in module Waits, a system call is one action up to the point where   *)
(* it blocks, and Resumed is the rest of it.  A wait for anything else     *)
(* than a completion port is Sleep, and its end Wake.  An assertion that   *)
(* fails stops the kernel: failed names it, and nothing happens after.     *)
(***************************************************************************)
EXTENDS Naturals, Sequences, FiniteSets, Lists

CONSTANTS Threads, Ports, Packets, NONE,
          Limit,     \* num_threads of each port
          Killable   \* the threads that others may terminate

ASSUME CompletionAssumption == /\ Limit \in [Ports -> Nat \ {0}]
                               /\ Killable \subseteq Threads
                               /\ NONE \notin Ports \cup Packets
                               /\ IsFiniteSet(Threads)

VARIABLES state,     \* ThreadState
          linked,    \* the threads whose fiber is in the run list
          waitsOn,   \* the port in whose remove() a thread is blocked, or NONE
          got,       \* the packet of the thread's completion_waiter_t, or NONE
          queue,     \* the packets of each port
          waiters,   \* the waiter_list of each port
          idle,      \* waiting_thread_ports
          open,      \* the ports that have not been deleted
          sent,      \* the packets that are allocated
          failed     \* the assertion that has stopped the kernel, or "none"

vars == <<state, linked, waitsOn, got, queue, waiters, idle, open, sent, failed>>

(* The types of the lists in completion.cpp.  Of the four assertions three *)
(* can fail; the one of check_waiters, "waiter", is not among them.        *)
TypeOK == /\ state \in [Threads -> {"Running", "Wait", "Terminated"}]
          /\ linked \in SUBSET Threads
          /\ waitsOn \in [Threads -> Ports \cup {NONE}]
          /\ got \in [Threads -> Packets \cup {NONE}]
          /\ queue \in [Ports -> Seq(Packets)]
          /\ waiters \in [Ports -> Seq(Threads)]
          /\ idle \in Seq(Ports)
          /\ open \in SUBSET Ports
          /\ sent \in SUBSET Packets
          /\ failed \in {"none", "packet", "queue", "linked"}

Init == /\ state = [t \in Threads |-> "Running"]
        /\ linked = Threads
        /\ waitsOn = [t \in Threads |-> NONE]
        /\ got = [t \in Threads |-> NONE]
        /\ queue = [p \in Ports |-> <<>>]
        /\ waiters = [p \in Ports |-> <<>>]
        /\ idle = <<>>
        /\ open = Ports
        /\ sent = {}
        /\ failed = "none"

-----------------------------------------------------------------------------
(* num_active_threads counts these; a woken thread is one once it has run. *)
Active == {t \in Threads : state[t] = "Running"}

Free(p) == p \notin Elems(idle)

(* Mutant: a port is listed again for each thread that finds it busy.      *)
Listed_again(p) == Append(idle, p)

(* port_wait_idle *)
Listed(p) == IF p \in Elems(idle) THEN idle ELSE Append(idle, p)

(* Mutant: the port stays listed although it has no waiter.                *)
Unlisted_never(p, left, ids) == ids

Unlisted(p, left, ids) == IF left = <<>> THEN Without(ids, p) ELSE ids

(* Mutant: the packet stays in the queue.                                  *)
start_waiter_keeps(p, qs, ws, ids, run) ==
  IF qs[p] = <<>>
  THEN /\ failed' = "packet"
       /\ queue' = qs /\ waiters' = ws /\ idle' = ids /\ linked' = run
       /\ UNCHANGED got
  ELSE LET t == Head(ws[p])
       IN /\ queue' = qs
          /\ got' = [got EXCEPT ![t] = Head(qs[p])]
          /\ waiters' = [ws EXCEPT ![p] = Tail(@)]
          /\ idle' = Unlisted(p, Tail(ws[p]), ids)
          /\ linked' = run \cup {t}
          /\ failed' = "none"

(* Mutant: the waiter stays in the list.                                   *)
start_waiter_stays(p, qs, ws, ids, run) ==
  IF qs[p] = <<>>
  THEN /\ failed' = "packet"
       /\ queue' = qs /\ waiters' = ws /\ idle' = ids /\ linked' = run
       /\ UNCHANGED got
  ELSE LET t == Head(ws[p])
       IN /\ queue' = [qs EXCEPT ![p] = Tail(@)]
          /\ got' = [got EXCEPT ![t] = Head(qs[p])]
          /\ waiters' = ws
          /\ idle' = Unlisted(p, Tail(ws[p]), ids)
          /\ linked' = run \cup {t}
          /\ failed' = "none"

(* start_waiter of port p, when the queues are qs, the waiter lists ws,    *)
(* the waiting ports ids and the fibers in the run list run: the first     *)
(* packet goes to the first waiter.  completion_waiter_t::start calls      *)
(* fiber_t::start, which is not virtual, so a terminated waiter is started *)
(* too: it finishes remove() and ends (FiberExit).                         *)
start_waiter(p, qs, ws, ids, run) ==
  IF qs[p] = <<>>
  THEN /\ failed' = "packet"
       /\ queue' = qs /\ waiters' = ws /\ idle' = ids /\ linked' = run
       /\ UNCHANGED got
  ELSE LET t == Head(ws[p])
       IN /\ queue' = [qs EXCEPT ![p] = Tail(@)]
          /\ got' = [got EXCEPT ![t] = Head(qs[p])]
          /\ waiters' = [ws EXCEPT ![p] = Tail(@)]
          /\ idle' = Unlisted(p, Tail(ws[p]), ids)
          /\ linked' = run \cup {t}
          /\ failed' = "none"

(* Mutant: no packet is handed out when the last running thread blocks.    *)
set_state_no_check(t, ws, ids) ==
  /\ queue' = queue /\ waiters' = ws /\ idle' = ids
  /\ linked' = linked \ {t}
  /\ UNCHANGED <<got, failed>>

(* set_state when thread t stops running, and the stop() that follows: if  *)
(* it was the last, check_completions serves the first waiting port.       *)
set_state(t, ws, ids) ==
  IF Active # {t} \/ ids = <<>>
  THEN /\ queue' = queue /\ waiters' = ws /\ idle' = ids
       /\ linked' = linked \ {t}
       /\ UNCHANGED <<got, failed>>
  ELSE IF ws[Head(ids)] = <<>>
  THEN /\ failed' = "waiter"
       /\ queue' = queue /\ waiters' = ws /\ idle' = ids
       /\ linked' = linked \ {t}
       /\ UNCHANGED got
  ELSE start_waiter(Head(ids), queue, ws, ids, linked \ {t})

Runs(t) == t \in linked /\ state[t] = "Running" /\ failed = "none"

-----------------------------------------------------------------------------
(* NtSetIoCompletion *)
set(t, p, k) ==
  LET qs == [queue EXCEPT ![p] = Append(@, k)]
  IN /\ Runs(t)
     /\ p \in open
     /\ k \notin sent
     /\ sent' = sent \cup {k}
     /\ \/ /\ waiters[p] = <<>> \/ Cardinality(Active) >= Limit[p]
           /\ queue' = qs
           /\ idle' = IF waiters[p] = <<>> THEN idle ELSE Listed(p)
           /\ UNCHANGED <<linked, got, waiters, failed>>
        \/ /\ waiters[p] # <<>> /\ Cardinality(Active) < Limit[p]
           /\ queue[p] = <<>>
           /\ start_waiter(p, qs, waiters, idle, linked)
        \/ /\ waiters[p] # <<>> /\ Cardinality(Active) < Limit[p]
           /\ queue[p] # <<>>      \* assert( queue.empty() ) fails
           /\ failed' = "queue"
           /\ queue' = qs
           /\ UNCHANGED <<linked, got, waiters, idle>>
     /\ UNCHANGED <<state, waitsOn, open>>

(* The thread appends itself to the waiters and blocks in wait().          *)
Block(t, p, ids) ==
  /\ state' = [state EXCEPT ![t] = "Wait"]
  /\ waitsOn' = [waitsOn EXCEPT ![t] = p]
  /\ set_state(t, [waiters EXCEPT ![p] = Append(@, t)], ids)
  /\ UNCHANGED <<open, sent>>

(* Mutant: a thread that finds the system busy does not list the port.     *)
remove_unlisted(t, p) ==
  /\ Runs(t)
  /\ p \in open
  /\ \/ /\ queue[p] = <<>> \/ Cardinality(Active) > Limit[p]
        /\ Block(t, p, idle)
     \/ /\ queue[p] # <<>> /\ Cardinality(Active) <= Limit[p]
        /\ queue' = [queue EXCEPT ![p] = Tail(@)]
        /\ sent' = sent \ {Head(queue[p])}
        /\ UNCHANGED <<state, linked, waitsOn, got, waiters, idle, open, failed>>

(* NtRemoveIoCompletion, up to the wait if there is one.                   *)
remove(t, p) ==
  /\ Runs(t)
  /\ p \in open
  /\ \/ /\ queue[p] = <<>>
        /\ Block(t, p, idle)
     \/ /\ queue[p] # <<>> /\ Cardinality(Active) > Limit[p]
        /\ Block(t, p, Listed(p))
     \/ /\ queue[p] # <<>> /\ Cardinality(Active) <= Limit[p]
        /\ queue' = [queue EXCEPT ![p] = Tail(@)]
        /\ sent' = sent \ {Head(queue[p])}
        /\ UNCHANGED <<state, linked, waitsOn, got, waiters, idle, open, failed>>

(* A wait for an object or a timeout: thread_impl_t::wait up to stop().    *)
Sleep(t) ==
  /\ Runs(t)
  /\ state' = [state EXCEPT ![t] = "Wait"]
  /\ set_state(t, waiters, idle)
  /\ UNCHANGED <<waitsOn, open, sent>>

(* An object or a timeout starts a thread that waits for it.               *)
Wake(t) ==
  /\ failed = "none"
  /\ state[t] = "Wait" /\ waitsOn[t] = NONE /\ t \notin linked
  /\ linked' = linked \cup {t}
  /\ UNCHANGED <<state, waitsOn, got, queue, waiters, idle, open, sent, failed>>

(* The fiber of a woken thread runs: the end of wait(), and of remove().   *)
Resumed(t) ==
  /\ failed = "none"
  /\ t \in linked /\ state[t] = "Wait"
  /\ state' = [state EXCEPT ![t] = "Running"]
  /\ waitsOn' = [waitsOn EXCEPT ![t] = NONE]
  /\ got' = [got EXCEPT ![t] = NONE]
  /\ sent' = sent \ {got[t]}
  /\ UNCHANGED <<linked, queue, waiters, idle, open, failed>>

(* NtTerminateThread of the calling thread.                                *)
ExitThread(t) ==
  /\ Runs(t)
  /\ state' = [state EXCEPT ![t] = "Terminated"]
  /\ set_state(t, waiters, idle)
  /\ UNCHANGED <<waitsOn, open, sent>>

(* NtTerminateThread of another thread: it is not taken off the waiters.   *)
Kill(t, u) ==
  /\ Runs(t)
  /\ u \in Killable \ {t} /\ state[u] # "Terminated"
  /\ state' = [state EXCEPT ![u] = "Terminated"]
  /\ UNCHANGED <<linked, waitsOn, got, queue, waiters, idle, open, sent, failed>>

(* A terminated thread that is in the run list finishes its call at its    *)
(* next turn and ends.  The packet it was given is deleted, and what it    *)
(* said is lost: copy_to_user refuses a terminated thread.                 *)
FiberExit(t) ==
  /\ failed = "none"
  /\ t \in linked /\ state[t] = "Terminated"
  /\ linked' = linked \ {t}
  /\ waitsOn' = [waitsOn EXCEPT ![t] = NONE]
  /\ got' = [got EXCEPT ![t] = NONE]
  /\ sent' = sent \ {got[t]}
  /\ UNCHANGED <<state, queue, waiters, idle, open, failed>>

(* The last handle is closed: ~completion_port_impl_t.  Waiters are left   *)
(* blocked.                                                                *)
Close(t, p) ==
  /\ Runs(t)
  /\ p \in open
  /\ open' = open \ {p}
  /\ failed' = IF Free(p) THEN "none" ELSE "linked"
  /\ UNCHANGED <<state, linked, waitsOn, got, queue, waiters, idle, sent>>

Next == \E t \in Threads :
          \/ \E p \in Ports : \/ remove(t, p) \/ Close(t, p)
                              \/ \E k \in Packets : set(t, p, k)
          \/ \E u \in Threads : Kill(t, u)
          \/ Sleep(t) \/ Wake(t) \/ Resumed(t) \/ ExitThread(t) \/ FiberExit(t)

(* Fibers in the run list take turns (module Fibers), so a woken thread    *)
(* runs.                                                                   *)
Spec == Init /\ [][Next]_vars /\ \A t \in Threads : WF_vars(Resumed(t))

-----------------------------------------------------------------------------
(* A packet is in exactly one place from its allocation in set to its      *)
(* deletion in remove: once in the queue of one port, or in the hand of    *)
(* one thread.  start_waiter moves it, and nothing else does.              *)
PacketInOnePlace ==
  /\ \A p \in Ports : \A i, j \in DOMAIN queue[p] : queue[p][i] = queue[p][j] => i = j
  /\ \A p, q \in Ports : p # q => Elems(queue[p]) \cap Elems(queue[q]) = {}
  /\ \A p \in Ports, t \in Threads : got[t] \notin Elems(queue[p])
  /\ \A t, u \in Threads : got[t] = got[u] /\ t # u => got[t] = NONE
  /\ \A k \in Packets : k \in sent <=> \/ \E p \in Ports : k \in Elems(queue[p])
                                       \/ \E t \in Threads : got[t] = k

(* A thread is in a waiter list exactly while remove() has it blocked      *)
(* without a packet; it is in one list, once, and its fiber is stopped.    *)
(* So thread->start() finds the fiber stopped, set_packet finds no packet, *)
(* ~completion_waiter_t finds the waiter unlinked, and remove() never      *)
(* sees the null packet that it would report as STATUS_TIMEOUT.            *)
WaiterIsBlocked ==
  /\ \A p \in Ports, t \in Threads :
       t \in Elems(waiters[p]) <=> waitsOn[t] = p /\ got[t] = NONE
  /\ \A p \in Ports : \A i, j \in DOMAIN waiters[p] : waiters[p][i] = waiters[p][j] => i = j
  /\ \A t \in Threads :
       /\ waitsOn[t] # NONE => state[t] # "Running"
       /\ waitsOn[t] # NONE /\ t \in linked => got[t] # NONE
       /\ waitsOn[t] = NONE => got[t] = NONE

(* A port in waiting_thread_ports is there once and has a waiter, so       *)
(* assert( waiter ) of check_waiters holds.                                *)
ListedPortHasWaiter ==
  /\ \A i, j \in DOMAIN idle : idle[i] = idle[j] => i = j
  /\ \A p \in Elems(idle) : waiters[p] # <<>>

(* A port that has both a packet and a waiter is in waiting_thread_ports,  *)
(* whichever of set and remove came first and however busy the system was. *)
WorkIsListed ==
  \A p \in open : queue[p] # <<>> /\ waiters[p] # <<>> => p \in Elems(idle)

(* When nothing runs and nothing is about to, no port has a packet and a   *)
(* waiter: set_state has handed a packet to a thread that will run.  (A    *)
(* terminated waiter breaks this: Killable is empty where it is checked.)  *)
NoIdleWithWork ==
  Active = {} /\ linked = {} /\ failed = "none" =>
    \A p \in open : queue[p] = <<>> \/ waiters[p] = <<>>

(* If the system keeps falling idle, a thread waiting on a port that has   *)
(* packets gets one, unless running threads take them all, the port is     *)
(* deleted or a thread was terminated by another: check_completions is run *)
(* at every such moment, and serves the waiters in their order.  (It may   *)
(* choose a terminated waiter, whose end is not such a moment: set_state   *)
(* returns at once for a terminated thread.)                               *)
WaiterServed ==
  []<>(Active = {}) =>
    \A p \in Ports, t \in Threads :
      (t \in Elems(waiters[p]) /\ queue[p] # <<>>)
        ~> (\/ t \notin Elems(waiters[p]) \/ queue[p] = <<>> \/ p \notin open \/ failed # "none"
            \/ \E u \in Killable : state[u] = "Terminated")

-----------------------------------------------------------------------------
(* start_waiter's assert( packet ).                                        *)
PacketForWaiter == failed # "packet"

(* set: "there should only be one packet in the queue here".               *)
OnePacketInQueue == failed # "queue"

(* ~completion_port_impl_t's assert( !is_linked() ).                       *)
DeletedUnlisted == failed # "linked"

(* tests/completion.c: NtRemoveIoCompletion "will block here ... if there  *)
(* are already N other threads running".                                   *)
ReturnsWithinLimit ==
  [][\A t \in Threads : Resumed(t) /\ waitsOn[t] # NONE =>
        Cardinality(Active) < Limit[waitsOn[t]]]_vars

(* TODO:7, "make all waits safe for terminate": no packet ends up with a   *)
(* thread that has been terminated.                                        *)
DeadTakeNoPacket == \A t \in Threads : state[t] = "Terminated" => got[t] = NONE
=============================================================================
