---------------------------- MODULE MessageQueue ----------------------------
(***************************************************************************)
(* The message queue of one thread (queue.cpp): posted messages, the       *)
(* pending quit, paint messages, window timers, and the thread that waits  *)
(* in NtUserGetMessage.  Only the owner of the queue reads it; messages,   *)
(* timers and invalid rectangles come from any thread at any time.         *)
(***************************************************************************)
EXTENDS Integers, Sequences, SequencesExt

CONSTANTS Wins,       \* windows, none a child of another
          TimerIds,   \* identifiers of window timers
          Periods,    \* timer periods, in ticks of the clock
          MaxPost,    \* bound: messages posted
          MaxTime,    \* bound: time
          NoWin       \* NULL: no window, no filter

VARIABLES qstate,     \* the owner: "run", "wait", "ready" (started), "dead",
                      \* "ending" (terminated, and started to finish its call)
          qfilter,    \* the Window a waiting GetMessage was called with
          qwaiter,    \* waiter_list holds the owner's waiter
          qmsg,       \* the MSG of the call in progress
          msg_list,   \* posted messages, by number
          quit_message,
          invalid,    \* windows whose invalid region is not empty
          timer_list, \* sequence of [hwnd, id, period, expiry]
          qtimeout,   \* when the queue's timeout expires; -1 when not armed
          now,        \* the clock
          nposted,    \* messages posted so far: 1, 2, ... in this order
          got         \* posted messages the owner received, in order

qvars == <<qstate, qfilter, qwaiter, qmsg, msg_list, quit_message, invalid,
           timer_list, qtimeout, now, nposted, got>>

\* MSG: memset to 0 reads as WM_NULL; n is the number of a posted message.
Null == [type |-> "null", n |-> 0]
Posted(n) == [type |-> "posted", n |-> n]
NotArmed == -1

QInit ==
  /\ qstate = "run" /\ qfilter = NoWin /\ qwaiter = FALSE /\ qmsg = Null
  /\ msg_list = <<>> /\ quit_message = FALSE /\ invalid = {}
  /\ timer_list = <<>> /\ qtimeout = NotArmed /\ now = 1
  /\ nposted = 0 /\ got = <<>>

----------------------------------------------------------------------------
(* Window timers *)

TimerIndex(hwnd, id) ==
  {i \in DOMAIN timer_list : timer_list[i].hwnd = hwnd /\ timer_list[i].id = id}

\* timer_add: before the first timer that does not expire earlier; when every
\* timer expires earlier, before the last one looked at, which is the last.
timer_add(list, t) ==
  LET later == {i \in DOMAIN list : list[i].expiry >= t.expiry}
      at == IF list = <<>> THEN 1
            ELSE IF later = {} THEN Len(list)
            ELSE CHOOSE i \in later : \A j \in later : i <= j
  IN InsertAt(list, at, t)

\* set_timer keeps the expiry of a timer that exists; a new one has expiry 0,
\* so it is due at once.
SetTimer(hwnd, id, period) ==
  LET found == TimerIndex(hwnd, id)
      i == CHOOSE i \in found : TRUE
      t == IF found = {} THEN [hwnd |-> hwnd, id |-> id, period |-> period, expiry |-> 0]
           ELSE [timer_list[i] EXCEPT !.period = period]
      rest == IF found = {} THEN timer_list ELSE RemoveAt(timer_list, i)
  IN /\ timer_list' = timer_add(rest, t)
     /\ UNCHANGED <<qstate, qfilter, qwaiter, qmsg, msg_list, quit_message, invalid,
                    qtimeout, now, nposted, got>>

KillTimer(hwnd, id) ==
  \E i \in TimerIndex(hwnd, id) :
     /\ timer_list' = RemoveAt(timer_list, i)
     /\ UNCHANGED <<qstate, qfilter, qwaiter, qmsg, msg_list, quit_message, invalid,
                    qtimeout, now, nposted, got>>

\* get_timer_message: the position of the timer that is taken, 0 for none.  The
\* search stops at a timer that has not expired; when it runs off the end, the
\* last timer is taken, whatever its window.
DueTimer(filter) ==
  LET stops == {i \in DOMAIN timer_list : \/ timer_list[i].expiry > now
                                          \/ filter \in {NoWin, timer_list[i].hwnd}}
      i == IF stops = {} THEN Len(timer_list)
           ELSE CHOOSE i \in stops : \A j \in stops : i <= j
  IN IF timer_list = <<>> \/ (stops # {} /\ timer_list[i].expiry > now) THEN 0 ELSE i

\* The timer is reset and goes back into the list.
TakeTimer(i) ==
  LET t == timer_list[i]
  IN timer_add(RemoveAt(timer_list, i), [t EXCEPT !.expiry = now + t.period])

\* get_message_timeout: the first timer of the window, or the first of all.
NextTimeout(filter) ==
  LET own == {i \in DOMAIN timer_list : filter \in {NoWin, timer_list[i].hwnd}}
  IN IF own = {} THEN NotArmed
     ELSE LET e == timer_list[CHOOSE i \in own : \A j \in own : i <= j].expiry
          IN IF e <= 0 THEN now ELSE e     \* set_timeout: not positive is relative

----------------------------------------------------------------------------
(* Reading the queue *)

\* find_window_to_repaint: the first invalid window, or the filter window.
PaintWindow(filter) ==
  IF filter = NoWin THEN invalid # {} ELSE filter \in invalid

\* get_message_no_wait finds something: posted, quit, paint, timer, in order.
Ready(filter) ==
  \/ msg_list # <<>> \/ quit_message \/ PaintWindow(filter) \/ DueTimer(filter) # 0

\* What it takes.  A paint message leaves the window invalid.
Take(filter) ==
  IF msg_list # <<>>
  THEN /\ msg_list' = Tail(msg_list)
       /\ got' = Append(got, Head(msg_list))
       /\ UNCHANGED <<quit_message, timer_list>>
  ELSE /\ UNCHANGED <<msg_list, got>>
       /\ IF quit_message
          THEN quit_message' = FALSE /\ UNCHANGED timer_list
          ELSE /\ UNCHANGED quit_message
               /\ timer_list' = IF PaintWindow(filter) THEN timer_list
                                ELSE TakeTimer(DueTimer(filter))

\* NtUserGetMessage with something there, and NtUserPeekMessage, whose Remove
\* argument is not looked at.
GetMessage(filter) ==
  /\ qstate = "run"
  /\ Ready(filter)
  /\ Take(filter)
  /\ UNCHANGED <<qstate, qfilter, qwaiter, qmsg, invalid, qtimeout, now, nposted>>

\* NtUserGetMessage with nothing there: arm the timeout, append the waiter, stop.
WaitMessage(filter) ==
  /\ qstate = "run"
  /\ ~Ready(filter)
  /\ qtimeout' = IF NextTimeout(filter) = NotArmed THEN qtimeout ELSE NextTimeout(filter)
  /\ qwaiter' = TRUE /\ qmsg' = Null
  /\ qstate' = "wait" /\ qfilter' = filter
  /\ UNCHANGED <<msg_list, quit_message, invalid, timer_list, now, nposted, got>>

\* The owner runs again, and get_message returns what its MSG holds.
ResumeOwner ==
  /\ qstate = "ready"
  /\ qstate' = "run" /\ qfilter' = NoWin /\ qmsg' = Null
  /\ got' = IF qmsg.type = "posted" THEN Append(got, qmsg.n) ELSE got
  /\ UNCHANGED <<qwaiter, msg_list, quit_message, invalid, timer_list, qtimeout, now, nposted>>

----------------------------------------------------------------------------
(* What others do *)

\* fiber_t::start of the waiter's thread: not virtual, so a terminated thread
\* is started too.
Started == IF qstate = "dead" THEN "ending" ELSE "ready"

\* Mutant of PostMessage: the message is stored, the waiter is not looked at.
PostMessage_store ==
  /\ nposted < MaxPost
  /\ nposted' = nposted + 1
  /\ msg_list' = Append(msg_list, nposted + 1)
  /\ UNCHANGED <<qstate, qfilter, qwaiter, qmsg, quit_message, invalid, timer_list,
                 qtimeout, now, got>>

\* Mutant of PostMessage: a stored message goes to the front of the list.
PostMessage_front ==
  /\ nposted < MaxPost
  /\ nposted' = nposted + 1
  /\ IF qwaiter
     THEN /\ qmsg' = Posted(nposted + 1)
          /\ qwaiter' = FALSE /\ qtimeout' = NotArmed /\ qstate' = Started
          /\ UNCHANGED msg_list
     ELSE /\ msg_list' = <<nposted + 1>> \o msg_list
          /\ UNCHANGED <<qmsg, qwaiter, qtimeout, qstate>>
  /\ UNCHANGED <<qfilter, quit_message, invalid, timer_list, now, got>>

\* post_message: into the MSG of a waiter, which is unlinked and started, or
\* to the end of the list.
PostMessage ==
  /\ nposted < MaxPost
  /\ nposted' = nposted + 1
  /\ IF qwaiter
     THEN /\ qmsg' = Posted(nposted + 1)
          /\ qwaiter' = FALSE /\ qtimeout' = NotArmed /\ qstate' = Started
          /\ UNCHANGED msg_list
     ELSE /\ msg_list' = Append(msg_list, nposted + 1)
          /\ UNCHANGED <<qmsg, qwaiter, qtimeout, qstate>>
  /\ UNCHANGED <<qfilter, quit_message, invalid, timer_list, now, got>>

\* Mutant of SignalTimeout: the queue does not act on its timeout.
SignalTimeout_ignored ==
  /\ qtimeout # NotArmed /\ qtimeout <= now
  /\ qtimeout' = NotArmed
  /\ UNCHANGED <<qstate, qwaiter, qfilter, qmsg, msg_list, quit_message, invalid,
                 timer_list, now, nposted, got>>

\* signal_timeout: the waiter is started with nothing in its MSG.
SignalTimeout ==
  /\ qtimeout # NotArmed /\ qtimeout <= now
  /\ qtimeout' = NotArmed
  /\ qstate' = IF qwaiter THEN Started ELSE qstate
  /\ qwaiter' = FALSE
  /\ UNCHANGED <<qfilter, qmsg, msg_list, quit_message, invalid, timer_list, now, nposted, got>>

\* NtPostQuitMessage, by the owner itself.
PostQuit ==
  /\ qstate = "run" /\ quit_message' = TRUE
  /\ UNCHANGED <<qstate, qfilter, qwaiter, qmsg, msg_list, invalid, timer_list, qtimeout,
                 now, nposted, got>>

\* NtUserInvalidateRect and NtUserRedrawWindow of a visible window: the owner is
\* not started.  NtUserBeginPaint empties the region.
Invalidate(w) ==
  /\ invalid' = invalid \cup {w}
  /\ UNCHANGED <<qstate, qfilter, qwaiter, qmsg, msg_list, quit_message, timer_list,
                 qtimeout, now, nposted, got>>

BeginPaint(w) ==
  /\ qstate = "run" /\ invalid' = invalid \ {w}
  /\ UNCHANGED <<qstate, qfilter, qwaiter, qmsg, msg_list, quit_message, timer_list,
                 qtimeout, now, nposted, got>>

\* The owner is terminated; a waiter of its stays in the list, and an owner that
\* was started finishes its call.
TerminateOwner ==
  /\ qstate \in {"run", "wait", "ready"}
  /\ qstate' = IF qstate = "ready" THEN "ending" ELSE "dead"
  /\ UNCHANGED <<qfilter, qwaiter, qmsg, msg_list, quit_message, invalid, timer_list,
                 qtimeout, now, nposted, got>>

\* A terminated owner runs: copy_to_user refuses it, and what its MSG holds is
\* lost with it.
EndOwner ==
  /\ qstate = "ending" /\ qstate' = "dead"
  /\ UNCHANGED <<qfilter, qwaiter, qmsg, msg_list, quit_message, invalid, timer_list,
                 qtimeout, now, nposted, got>>

TimePasses ==
  /\ now < MaxTime /\ now' = now + 1
  /\ UNCHANGED <<qstate, qfilter, qwaiter, qmsg, msg_list, quit_message, invalid, timer_list,
                 qtimeout, nposted, got>>

Filters == Wins \cup {NoWin}
QNext ==
  \/ \E f \in Filters : GetMessage(f) \/ WaitMessage(f)
  \/ ResumeOwner \/ PostMessage \/ SignalTimeout \/ PostQuit \/ TerminateOwner \/ EndOwner \/ TimePasses
  \/ \E w \in Wins : Invalidate(w) \/ BeginPaint(w)
  \/ \E w \in Wins, id \in TimerIds : KillTimer(w, id) \/ \E p \in Periods : SetTimer(w, id, p)

QSpec == QInit /\ [][QNext]_qvars

\* Time passes, and the main fiber's check_timers fires the timeouts that are due.
QFair == WF_qvars(TimePasses) /\ WF_qvars(SignalTimeout)

----------------------------------------------------------------------------
(* Properties *)

\* Every posted message is received once and in the order of posting, whether
\* it was handed to a waiter or went through the list (post_message,
\* get_posted_message); only a terminated owner loses one, the one in its MSG.
PostedInOrder ==
  LET held == IF qmsg.type = "posted" THEN <<qmsg.n>> ELSE <<>>
  IN got \o held \o msg_list = [i \in 1..nposted |-> i]

\* The owner never sleeps while a posted or a quit message waits for it, and
\* it sleeps exactly while its waiter is in the list, so that the next post
\* starts it (get_message against post_message and signal_timeout).
NoSleepWithMail ==
  /\ qstate = "wait" => msg_list = <<>> /\ ~quit_message
  /\ qstate \in {"run", "wait", "ready"} => (qwaiter <=> qstate = "wait")
  /\ qstate = "ending" => ~qwaiter
  /\ qtimeout # NotArmed => qwaiter

\* A wait entered with a window timer for it ends by the time the timer is
\* due, whatever is set, killed or posted meanwhile (get_message_timeout,
\* signal_timeout).
TimedGetReturns == (qstate = "wait" /\ qtimeout \in 0..MaxTime) ~> qstate # "wait"

\* "maintain list in order of expiry time" (queue.cpp:210): the timer that is
\* due first is in front, where get_timer_message finds it.
TimersSorted ==
  \A i, j \in DOMAIN timer_list : i < j => timer_list[i].expiry <= timer_list[j].expiry
=============================================================================
