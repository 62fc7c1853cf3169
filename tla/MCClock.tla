------------------------------- MODULE MCClock --------------------------------
(***************************************************************************)
(* What time drives: the timeouts and the main fiber (Timers), the         *)
(* messages of a window's thread (MessageQueue), the events of the display *)
(* (Input), and the time slices of traced processes (Tracer).  A behaviour *)
(* is one of one of the four.                                              *)
(***************************************************************************)
EXTENDS Timers

VARIABLES which,   \* the part that this behaviour is one of
          qstate, qfilter, qwaiter, qmsg, msg_list, quit_message, invalid,
          timer_list, qtimeout, now, nposted, got, events, made,
          active_window, runnable, queue, received, handled, key_state,
          sdl_time, sdl_timer, pc, kid, block, cpu, armed, sig_target

(* At once or past, one unit, a few, and a time that never comes.          *)
AllDelays == {0, 1, 3, Forever}

Mq == INSTANCE MessageQueue WITH Wins <- {"w1", "w2"}, NoWin <- "none", TimerIds <- {1},
                                 Periods <- {1}, MaxPost <- 2, MaxTime <- 3
In == INSTANCE Input WITH Keys <- {"a"}, MaxEvents <- 2, timer <- sdl_time
Tr == INSTANCE Tracer WITH Spaces <- {1, 2}, TracePages <- {1}, KernelPid <- 0

ASSUME In!InputAssumption /\ Tr!TracerAssumption

MCInit ==
  /\ which \in {"timers", "messages", "input", "tracer"}
  /\ Init
  /\ Mq!QInit
  /\ In!IInit
  /\ Tr!TInit

timersvars == <<list, rem, expired, interval, linked, inWait, wait, main,
                 until, failed>>
messagesvars == <<qstate, qfilter, qwaiter, qmsg, msg_list, quit_message,
                   invalid, timer_list, qtimeout, now, nposted, got>>
inputvars == <<events, made, active_window, runnable, queue, received,
                handled, key_state, sdl_time, sdl_timer, pc>>
tracervars == <<kid, block, cpu, armed, sig_target>>
mcvars == <<which, timersvars, messagesvars, inputvars, tracervars>>

MCNext ==
  \/ which = "timers" /\ Next /\ UNCHANGED <<which, messagesvars, inputvars, tracervars>>
  \/ which = "messages" /\ Mq!QNext /\ UNCHANGED <<which, timersvars, inputvars, tracervars>>
  \/ which = "input" /\ In!INext /\ UNCHANGED <<which, timersvars, messagesvars, tracervars>>
  \/ which = "tracer" /\ Tr!TNext /\ UNCHANGED <<which, timersvars, messagesvars, inputvars>>

(* Time passes and the main fiber fires what is due; the loop that polls   *)
(* the display runs, and the timer thread of SDL works; the interval timer *)
(* expires while it is armed, and a pending signal is delivered.           *)
MCFair == /\ Fairness
          /\ WF_messagesvars(which = "messages" /\ Mq!TimePasses)
          /\ WF_messagesvars(which = "messages" /\ Mq!SignalTimeout)
          /\ WF_inputvars(which = "input" /\ In!Loop)
          /\ WF_inputvars(which = "input" /\ In!TimerDue)
          /\ WF_inputvars(which = "input" /\ In!timeout_callback)
          /\ WF_tracervars(which = "tracer" /\ Tr!Resume)
          /\ WF_tracervars(which = "tracer" /\ Tr!WaitForSignal)
          /\ WF_tracervars(which = "tracer" /\ Tr!EndRun)
          /\ WF_tracervars(which = "tracer" /\ Tr!NextOp)
          /\ WF_tracervars(which = "tracer" /\ Tr!TimerFires)
          /\ \A a \in {1, 2} : /\ WF_tracervars(which = "tracer" /\ Tr!AlarmStops(a))
                               /\ WF_tracervars(which = "tracer" /\ Tr!StubAnswers(a))

MCSpec == MCInit /\ [][MCNext]_mcvars /\ MCFair

-------------------------------------------------------------------------------
(* Messages arrive in order, each once, and nobody sleeps on them: what is *)
(* posted to a thread, and a thread in get_message (MessageQueue:          *)
(* post_message, get_message); the keys and the mouse at the active window *)
(* (Input: sdl_sleeper_t, send_input).                                     *)
MessagesDelivered == Mq!PostedInOrder /\ Mq!NoSleepWithMail /\ In!InputInOrder

(* Whenever the kernel lets a traced child run, its pages are mapped as    *)
(* the kernel's blocks say (Tracer: run, wait_for_signal, remote_mmap).    *)
KidMatchesBlocks == Tr!KidMatchesBlocks

(* What waits with a time limit ends: a timed wait of a thread, a wait for *)
(* messages while a window timer runs (get_message_timeout), and a timeout *)
(* that falls due while the kernel sleeps in SDL_WaitEvent; and a child    *)
(* that runs for ever is taken back at the end of its time slice.          *)
TimedWaitsEnd == TimedWaitReturns /\ Mq!TimedGetReturns /\ In!TimerServed /\ Tr!RunReturns
===============================================================================
