------------------------------- MODULE Input -------------------------------
(***************************************************************************)
(* Keyboard, mouse and timer events under SDL: the scheduler's loop         *)
(* (main.cpp), sdl_sleeper_t::check_events (sdl.cpp) and send_input          *)
(* (ntgdi.cpp).  One thread owns the active window and the only timer.      *)
(***************************************************************************)
EXTENDS Integers, Sequences, SequencesExt

CONSTANTS Keys,       \* keys of the keyboard
          MaxEvents   \* bound: events that the user causes

InputAssumption == MaxEvents \in Nat

VARIABLES events,        \* SDL's event queue
          made,          \* number of events caused so far
          active_window, \* whether there is one
          runnable,      \* the thread's fiber is running
          queue,         \* messages posted to the thread
          received,      \* messages the thread has taken, in order
          handled,       \* input events handled while a window was active
          key_state,     \* key -> pressed
          timer,         \* "none", "armed" or "due"
          sdl_timer,     \* an SDL timer is pending
          pc             \* where the scheduler is

ivars == <<events, made, active_window, runnable, queue, received, handled,
           key_state, timer, sdl_timer, pc>>

Strokes == [key : Keys, down : BOOLEAN]
Inputs == Strokes \cup {[key |-> "mouse", down |-> b] : b \in BOOLEAN}
Quit == [key |-> "quit", down |-> FALSE]
User == [key |-> "timer", down |-> FALSE]

IInit ==
  /\ events = <<>> /\ made = 0 /\ active_window = FALSE /\ runnable = TRUE
  /\ queue = <<>> /\ received = <<>> /\ handled = <<>>
  /\ key_state = [k \in Keys |-> FALSE]
  /\ timer = "none" /\ sdl_timer = FALSE /\ pc = "first"

\* The user presses a key, moves the mouse or closes the window.
Cause(e) ==
  /\ made < MaxEvents /\ pc # "ended"
  /\ made' = made + 1 /\ events' = Append(events, e)
  /\ UNCHANGED <<active_window, runnable, queue, received, handled, key_state, timer, sdl_timer, pc>>

\* Time passes; the SDL timer pushes its event (timeout_callback).
TimerDue ==
  /\ timer = "armed" /\ timer' = "due"
  /\ UNCHANGED <<events, made, active_window, runnable, queue, received, handled, key_state, sdl_timer, pc>>
timeout_callback ==
  /\ sdl_timer /\ timer = "due"
  /\ sdl_timer' = FALSE /\ events' = Append(events, User)
  /\ UNCHANGED <<made, active_window, runnable, queue, received, handled, key_state, timer, pc>>

\* timeout_t::check_timers: a timer that is due runs the thread.
TimersLeft == timer = "armed"
Checked == IF timer = "due" THEN "none" ELSE timer
Woken == runnable \/ timer = "due"

\* Mutant of send_input: a message is put before those that wait already.
send_input_first(e, awake) ==
  /\ key_state' = IF e.key \in Keys THEN [key_state EXCEPT ![e.key] = e.down] ELSE key_state
  /\ queue' = IF active_window THEN <<e>> \o queue ELSE queue
  /\ handled' = IF active_window THEN Append(handled, e) ELSE handled
  /\ runnable' = (awake \/ active_window)

\* send_input: the state of the key, and a message for the active window's
\* thread, which is woken.
send_input(e, awake) ==
  /\ key_state' = IF e.key \in Keys THEN [key_state EXCEPT ![e.key] = e.down] ELSE key_state
  /\ queue' = IF active_window THEN Append(queue, e) ELSE queue
  /\ handled' = IF active_window THEN Append(handled, e) ELSE handled
  /\ runnable' = (awake \/ active_window)

\* handle_sdl_event; SDL_QUIT makes check_events return true.
handle_sdl_event(e, awake) ==
  IF e \in {Quit, User} THEN runnable' = awake /\ UNCHANGED <<key_state, queue, handled>>
  ELSE send_input(e, awake)

\* check_events( false ), whose result schedule() does not look at.
FirstCheck ==
  /\ pc = "first" /\ pc' = "fibers"
  /\ timer' = Checked
  /\ events' = IF events = <<>> THEN events ELSE Tail(events)
  /\ IF events = <<>> THEN runnable' = Woken /\ UNCHANGED <<key_state, queue, handled>>
     ELSE handle_sdl_event(Head(events), Woken)
  /\ UNCHANGED <<made, active_window, received, sdl_timer>>

\* The fibers: the thread takes its messages, perhaps shows or hides its window,
\* sets a timer, and goes on or waits; without messages and timers it may end.
Yield ==
  /\ pc = "fibers" /\ runnable
  /\ received' = received \o queue /\ queue' = <<>>
  /\ active_window' \in BOOLEAN
  /\ runnable' \in BOOLEAN
  /\ timer' \in IF timer = "none" THEN {"none", "armed"} ELSE {timer}
  /\ pc' = "first"
  /\ UNCHANGED <<events, made, handled, key_state, sdl_timer>>

NoFibers ==
  /\ pc = "fibers" /\ ~runnable /\ pc' = "second"
  /\ UNCHANGED <<events, made, active_window, runnable, queue, received, handled, key_state, timer, sdl_timer>>

\* Mutant of SecondCheck: no SDL timer is set before waiting.
SecondCheck_notimer ==
  /\ pc = "second"
  /\ timer' = Checked
  /\ events' = IF events = <<>> THEN events ELSE Tail(events)
  /\ IF events = <<>> THEN runnable' = Woken /\ UNCHANGED <<key_state, queue, handled>>
     ELSE handle_sdl_event(Head(events), Woken)
  /\ pc' = "asleep" /\ sdl_timer' = FALSE
  /\ UNCHANGED <<made, active_window, received>>

\* check_events( true ), up to SDL_WaitEvent: a quit and a deadlock end the
\* loop; otherwise an SDL timer is set when there are timers left.
SecondCheck ==
  /\ pc = "second"
  /\ timer' = Checked
  /\ events' = IF events = <<>> THEN events ELSE Tail(events)
  /\ IF events = <<>> THEN runnable' = Woken /\ UNCHANGED <<key_state, queue, handled>>
     ELSE handle_sdl_event(Head(events), Woken)
  /\ IF \/ events # <<>> /\ Head(events) = Quit
        \/ ~TimersLeft /\ ~active_window /\ ~runnable'
     THEN pc' = "ended" /\ UNCHANGED sdl_timer
     ELSE pc' = "asleep" /\ sdl_timer' = TimersLeft
  /\ UNCHANGED <<made, active_window, received>>

\* SDL_WaitEvent returns; SDL_RemoveTimer, and the loop begins again.
WaitEvent ==
  /\ pc = "asleep" /\ events # <<>>
  /\ events' = Tail(events) /\ sdl_timer' = FALSE
  /\ handle_sdl_event(Head(events), runnable)
  /\ pc' = IF Head(events) = Quit THEN "ended" ELSE "first"
  /\ UNCHANGED <<made, active_window, received, timer>>

Loop == FirstCheck \/ Yield \/ NoFibers \/ SecondCheck \/ WaitEvent

INext == Loop \/ TimerDue \/ timeout_callback \/ \E e \in Inputs \cup {Quit} : Cause(e)

\* The loop runs, time passes and SDL's timer thread works; the user need not act.
IFair == WF_ivars(Loop) /\ WF_ivars(TimerDue) /\ WF_ivars(timeout_callback)

ISpec == IInit /\ [][INext]_ivars /\ IFair

----------------------------------------------------------------------------
\* Input reaches the thread that owns the window in the order in which it was
\* made, nothing lost or repeated (send_input, post_message), whether it came in
\* through SDL_PollEvent or through SDL_WaitEvent.
InputInOrder == received \o queue = handled

\* A timer that is due is served though the kernel sleeps in SDL_WaitEvent and
\* the user does nothing (SDL_AddTimer, timeout_callback), unless the loop ends.
TimerServed == (timer = "due") ~> (timer # "due" \/ pc = "ended")

\* "quit if we got an SDL_QUIT": closing the window ends the kernel.
QuitEnds == (Contains(events, Quit)) ~> (pc = "ended")
=============================================================================
