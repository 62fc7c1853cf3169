------------------------------- MODULE Timers -------------------------------
(***************************************************************************)
(* Timeouts: kernel/timer.cpp, the timed waits of kernel/thread.cpp, and   *)
(* the main fiber of kernel/main.cpp, which expires timeouts and sleeps.   *)
(*                                                                         *)
(* Time is kept relative: rem[x] is what is left until x expires, 0 once   *)
(* it has, and Tick takes one unit off everything.  Two timeouts that have *)
(* both expired are not told apart; check_timers fires them together.      *)
(* The APC routine of a timer is left out (module Waits has APCs).         *)
(***************************************************************************)
EXTENDS Naturals, Sequences, Lists

CONSTANTS Threads, Notify, Sync,   \* threads; notification and sync timers
          NONE,
          Delays,    \* the times a caller may give
          Forever,   \* 0x7fffffffffffffff: beyond any time that passes
          Period,    \* the period of a periodic timer
          MinWait,   \* the 10ms that every timed wait is raised to
          MsTicks,   \* clock units in the millisecond that poll counts in
          IntMax     \* the longest sleep of poll, in milliseconds

NtTimers == Notify \cup Sync

ASSUME TimerAssumption ==
  /\ Delays \subseteq 0 .. Forever
  /\ {Forever, Period, MinWait, MsTicks, IntMax} \subseteq Nat \ {0}
  /\ Period < Forever /\ MinWait < Forever
  /\ Notify \cap Sync = {} /\ Threads \cap NtTimers = {}
  /\ NONE \notin Threads \cup NtTimers

VARIABLES list,      \* g_timeouts
          rem,       \* what is left until each timeout expires
          expired,   \* nttimer_t::expired
          interval,  \* nttimer_t::interval
          linked,    \* the threads whose fiber is in the run list
          inWait,    \* thread_impl_t::in_wait
          wait,      \* what a thread inside wait_on_handles waits for
          main,      \* where the main fiber is, see TypeOK
          until,     \* what is left of the sleep in poll
          failed     \* an assertion has stopped the kernel

timervars == <<list, rem, expired, interval>>
mainvars == <<main, until>>
vars == <<timervars, linked, inWait, wait, mainvars, failed>>

NoWait == [on |-> NONE, timed |-> FALSE]

(* Every variable has its type.  The main fiber is "yielded" at the top of *)
(* schedule's loop, "alone" before check_events(true), in "poll", or has   *)
(* "quit" the loop.                                                        *)
TypeOK == /\ list \in Seq(Threads \cup NtTimers)
          /\ rem \in [Threads \cup NtTimers -> 0 .. Forever]
          /\ expired \in [NtTimers -> BOOLEAN]
          /\ interval \in [NtTimers -> {0, Period}]
          /\ linked \in SUBSET Threads
          /\ inWait \in [Threads -> BOOLEAN]
          /\ wait \in [Threads -> [on : NtTimers \cup {NONE}, timed : BOOLEAN]]
          /\ main \in {"yielded", "alone", "poll", "quit"}
          /\ until \in 0 .. IntMax * MsTicks
          /\ failed \in BOOLEAN

Init == /\ list = <<>>
        /\ rem = [x \in Threads \cup NtTimers |-> 0]
        /\ expired = [x \in NtTimers |-> FALSE]
        /\ interval = [x \in NtTimers |-> 0]
        /\ linked = Threads
        /\ inWait = [t \in Threads |-> FALSE]
        /\ wait = [t \in Threads |-> NoWait]
        /\ main = "yielded" /\ until = 0
        /\ failed = FALSE

(* One unit of time passes.                                                *)
Tick ==
  /\ rem' = [x \in DOMAIN rem |-> IF rem[x] \in {0, Forever} THEN rem[x] ELSE rem[x] - 1]
  /\ until' = IF until = 0 THEN 0 ELSE until - 1
  /\ UNCHANGED <<list, expired, interval, linked, inWait, wait, main, failed>>

-----------------------------------------------------------------------------
(* Mutant: a timeout goes after those that expire later.                   *)
add_last(l, x, d) == Append(l, x)

(* Where the first timeout of the list l is that expires later than d, or  *)
(* the end of the list.                                                    *)
FirstAfter(l, d) == First({i \in DOMAIN l : rem[l[i]] > d} \cup {Len(l) + 1})

(* timeout_t::add to the list l: in front of the first that expires later. *)
add(l, x, d) == insert(l, FirstAfter(l, d), x)

(* timeout_t::remove *)
remove(x) == Without(list, x)

(* Mutant: a timer wakes nobody when it expires.                           *)
Woken_by_own_timeout(F) == {t \in Threads : inWait[t] /\ t \in F}

(* Mutant: a thread's own timeout does not wake it.                        *)
Woken_by_timer(F) == {t \in Threads : inWait[t] /\ wait[t].on \in F}

(* The threads that signal_timeout of the timeouts in F notifies.          *)
Woken(F) == {t \in Threads : inWait[t] /\ (t \in F \/ wait[t].on \in F)}

(* The timeouts that check_timers expires: from the head, up to the first  *)
(* that is not due.                                                        *)
Due == {list[i] : i \in 1 .. (FirstAfter(list, 0) - 1)}

(* timeout_t::check_timers: do_timeout for each of them.                   *)
check_timers ==
  /\ list' = SubSeq(list, FirstAfter(list, 0), Len(list))
  /\ expired' = [x \in NtTimers |-> expired[x] \/ x \in Due]
  /\ linked' = linked \cup Woken(Due)
  /\ inWait' = [t \in Threads |-> inWait[t] /\ t \notin Woken(Due)]

(* Mutant: the sleep is cut to whole milliseconds.                         *)
get_int_timeout_down(d) == IF d \div MsTicks < IntMax THEN d \div MsTicks ELSE IntMax

(* Mutant: the result is not limited to an int.                            *)
get_int_timeout_long(d) == (d + MsTicks - 1) \div MsTicks

(* sleeper_t::get_int_timeout: milliseconds, rounded up.                   *)
get_int_timeout(d) ==
  LET ms == (d + MsTicks - 1) \div MsTicks IN IF ms < IntMax THEN ms ELSE IntMax

-----------------------------------------------------------------------------
Runs(t) == ~failed /\ main = "yielded" /\ t \in linked

(* Whether x is in the list when set_timeout adds it: insert_before and    *)
(* append assert that it is not.                                           *)
AddFails(x) == x \in Elems(list)

(* NtSetTimer with the due time d: relative, or an absolute time that is d *)
(* from now.  A relative 0 signals the timer at once and leaves the list   *)
(* alone.                                                                  *)
NtSetTimer(t, x, relative, d, period) ==
  /\ Runs(t) /\ wait[t] = NoWait
  /\ interval' = [interval EXCEPT ![x] = period]
  /\ IF relative /\ d = 0
     THEN /\ expired' = [expired EXCEPT ![x] = TRUE]
          /\ UNCHANGED <<list, rem, failed>>
     ELSE /\ expired' = [expired EXCEPT ![x] = FALSE]
          /\ failed' = AddFails(x)
          /\ list' = IF AddFails(x) THEN list ELSE add(list, x, d)
          /\ rem' = IF AddFails(x) THEN rem ELSE [rem EXCEPT ![x] = d]
  /\ UNCHANGED <<linked, inWait, wait, mainvars>>

(* NtCancelTimer *)
NtCancelTimer(t, x) ==
  /\ Runs(t) /\ wait[t] = NoWait
  /\ expired' = [expired EXCEPT ![x] = FALSE]
  /\ list' = remove(x)
  /\ rem' = [rem EXCEPT ![x] = 0]
  /\ UNCHANGED <<interval, linked, inWait, wait, mainvars, failed>>

(* satisfy of timer x, and the set_timeout(0) of thread t that follows: a  *)
(* sync timer is reset, a periodic one starts again.                       *)
Satisfy(t, x) ==
  LET restarts == interval[x] # 0
  IN /\ expired' = [expired EXCEPT ![x] = x \notin Sync]
     /\ failed' = (restarts /\ AddFails(x))
     /\ list' = IF restarts /\ ~AddFails(x) THEN add(remove(t), x, interval[x]) ELSE remove(t)
     /\ rem' = [y \in DOMAIN rem |-> IF y = t THEN 0
                                     ELSE IF y = x /\ restarts /\ ~AddFails(x) THEN interval[x]
                                     ELSE rem[y]]
     /\ UNCHANGED interval

Signalled(x) == x # NONE /\ expired[x]

(* The least time a timed wait lasts.                                      *)
AtLeast(relative, d) == IF relative /\ d < MinWait THEN MinWait ELSE d

(* NtWaitForSingleObject of a timer, or NtDelayExecution (x = NONE), up to *)
(* the wait.                                                               *)
WaitOn(t, x, timed, relative, d) ==
  /\ Runs(t) /\ wait[t] = NoWait
  /\ x = NONE => timed
  /\ IF Signalled(x)
     THEN Satisfy(t, x) /\ UNCHANGED <<linked, inWait, wait>>
     ELSE /\ wait' = [wait EXCEPT ![t] = [on |-> x, timed |-> timed]]
          /\ list' = IF timed THEN add(list, t, AtLeast(relative, d)) ELSE list
          /\ rem' = IF timed THEN [rem EXCEPT ![t] = AtLeast(relative, d)] ELSE rem
          /\ inWait' = [inWait EXCEPT ![t] = TRUE]
          /\ linked' = linked \ {t}
          /\ UNCHANGED <<expired, interval, failed>>
  /\ UNCHANGED mainvars

(* The rest of the loop of wait_on_handles when the thread runs again.     *)
Resumed(t) ==
  /\ Runs(t) /\ wait[t] # NoWait
  /\ \/ /\ Signalled(wait[t].on)
        /\ Satisfy(t, wait[t].on)
        /\ wait' = [wait EXCEPT ![t] = NoWait]
        /\ UNCHANGED <<linked, inWait>>
     \/ /\ ~Signalled(wait[t].on) /\ wait[t].timed /\ t \notin Elems(list)
        /\ wait' = [wait EXCEPT ![t] = NoWait]
        /\ UNCHANGED <<timervars, linked, inWait, failed>>
     \/ /\ ~Signalled(wait[t].on) /\ ~(wait[t].timed /\ t \notin Elems(list))
        /\ inWait' = [inWait EXCEPT ![t] = TRUE]
        /\ linked' = linked \ {t}
        /\ UNCHANGED <<timervars, wait, failed>>
  /\ UNCHANGED mainvars

-----------------------------------------------------------------------------
(* schedule(): check_events(false), then yield() or, alone, go on.         *)
MainCheck ==
  /\ ~failed /\ main = "yielded"
  /\ check_timers
  /\ main' = IF linked' = {} THEN "alone" ELSE "yielded"
  /\ UNCHANGED <<rem, interval, wait, until, failed>>

(* Mutant: the test for a deadlock looks at what is left in the list.      *)
MainSleep_quits_early ==
  /\ main = "alone"
  /\ check_timers
  /\ main' = IF list' = <<>> THEN "quit" ELSE "poll"
  /\ until' = IF list' = <<>> THEN 0 ELSE get_int_timeout(rem[Head(list')]) * MsTicks
  /\ UNCHANGED <<rem, interval, wait, failed>>

(* check_events(true): quit when there was no timeout, else poll.          *)
MainSleep ==
  /\ main = "alone"
  /\ check_timers
  /\ main' = IF list = <<>> THEN "quit" ELSE "poll"
  /\ until' = IF list' = <<>> THEN 0 ELSE get_int_timeout(rem[Head(list')]) * MsTicks
  /\ UNCHANGED <<rem, interval, wait, failed>>

(* poll returns: its time is over, or a signal interrupts it (EINTR).      *)
PollEnd == /\ main = "poll" /\ until = 0
           /\ main' = "yielded"
           /\ UNCHANGED <<timervars, linked, inWait, wait, until, failed>>

PollInterrupted == /\ main = "poll" /\ until > 0
                   /\ main' = "yielded" /\ until' = 0
                   /\ UNCHANGED <<timervars, linked, inWait, wait, failed>>

Next == \/ Tick \/ MainCheck \/ MainSleep \/ PollEnd \/ PollInterrupted
        \/ \E t \in Threads :
             \/ Resumed(t)
             \/ \E x \in NtTimers, relative \in BOOLEAN, d \in Delays, period \in {0, Period} :
                  NtSetTimer(t, x, relative, d, period)
             \/ \E x \in NtTimers : NtCancelTimer(t, x)
             \/ \E x \in NtTimers \cup {NONE}, timed, relative \in BOOLEAN, d \in Delays :
                  WaitOn(t, x, timed, relative, d)

(* Time passes, poll ends when its time is over, the main fiber gets its   *)
(* turn and does what it does, and so does a woken thread.                 *)
Fairness == /\ WF_vars(Tick) /\ WF_vars(MainCheck) /\ WF_vars(MainSleep) /\ WF_vars(PollEnd)
            /\ \A t \in Threads : WF_vars(Resumed(t))

Spec == Init /\ [][Next]_vars /\ Fairness

-----------------------------------------------------------------------------
(* The list is in order of expiry and holds no timeout twice: assert(      *)
(* queue_is_valid() ) of set_timeout.  check_timers stops at the first     *)
(* timeout that is not due, and relies on it.                              *)
QueueIsValid ==
  \A i, j \in DOMAIN list : i < j => rem[list[i]] <= rem[list[j]] /\ list[i] # list[j]

(* A thread asleep with a timeout is in the list, and a thread that sleeps *)
(* is not in the run list, which start() asserts when it is notified.      *)
SleeperWillWake ==
  \A t \in Threads : inWait[t] => /\ t \notin linked
                                  /\ wait[t].timed => t \in Elems(list)

(* No thread sleeps on a timer that is signalled.  (NtSetTimer with a      *)
(* relative due time of 0 signals without notifying: Delays has no 0 where *)
(* this is checked.)                                                       *)
SignalSeen == \A t \in Threads : inWait[t] => ~Signalled(wait[t].on)

(* poll does not sleep until a timeout is late: it is back less than a     *)
(* millisecond after the first one is due.                                 *)
SleepInTime ==
  main = "poll" /\ until > 0 /\ list # <<>> => until < rem[Head(list)] + MsTicks

(* And it does not return before that, to spin in the main loop, unless    *)
(* the timeout is further away than poll can sleep.                        *)
SleepsLongEnough ==
  [][main = "alone" /\ main' = "poll" /\ list' # <<>> =>
       rem[Head(list')] <= until' \/ until' = IntMax * MsTicks]_vars

(* The kernel gives up only when nothing is left that could ever run: no   *)
(* fiber and no timeout.                                                   *)
QuitsOnlyStuck == main = "quit" => linked = {} /\ list = <<>>

(* A timed wait ends, whatever happens to the timer it also waits for.     *)
TimedWaitReturns ==
  \A t \in Threads :
    (wait[t].timed /\ rem[t] # Forever) ~> (wait[t] = NoWait \/ failed)

(* main.cpp: "there's still processes but no active threads ... sleep".    *)
SleepsWithoutActive == main = "poll" /\ until > 0 => linked = {}

(* list.h: assert(!elem->entry[X].is_linked()) of insert_before and append.*)
AddedOnce == ~failed
=============================================================================
