---------------------------- MODULE UserContext -----------------------------
(***************************************************************************)
(* What the kernel does to the registers of a user thread                  *)
(* (src/kernel/thread.cpp): system calls, exceptions, asynchronous         *)
(* procedure calls (APCs) and callbacks into user code.  Exceptions and    *)
(* APCs save the interrupted context on the user stack, for NtContinue;    *)
(* a callback saves it in a frame of the kernel's, for NtCallbackReturn.   *)
(* All may nest in each other, and other threads queue APCs, alert the     *)
(* thread, write its context and terminate it at any time.                 *)
(*                                                                         *)
(* A context is which activation of user code it belongs to, its stack     *)
(* pointer and its return value register.  The stack is a set of saved     *)
(* contexts; writing one destroys those it overlaps.                       *)
(***************************************************************************)
EXTENDS Naturals, Sequences

CONSTANTS StackTop,     \* size of the user stack
          MaxDepth,     \* activations of user code at a time
          MaxApcs       \* APCs queued in a behaviour

ContextAssumption == {StackTop, MaxDepth, MaxApcs} \subseteq Nat

VARIABLES ctx,              \* the thread's registers
          context_changed,  \* Eax is not to be set when the system call returns
          callback_frame,   \* the kernel's callback frames, the last one first
          stack,            \* the contexts saved on the user stack
          state,            \* "user", "kernel", "wait", "alertable" or "dead"
          apc_list,         \* the APCs queued, by number
          alerted,
          views,            \* what each activation of user code last saw
          ran               \* the APCs that were started, in order

cvars == <<ctx, context_changed, callback_frame, stack, state, apc_list,
           alerted, views, ran>>

CtxSize == 2    \* a CONTEXT on the user stack
ArgSize == 1    \* the words a dispatcher is given

Queued == Len(ran) + Len(apc_list)

Act == Len(views)

UInit == /\ ctx = [pc |-> 1, sp |-> StackTop, eax |-> "start"]
         /\ context_changed = TRUE
         /\ callback_frame = <<>>
         /\ stack = {}
         /\ state = "user"
         /\ apc_list = <<>>
         /\ alerted = FALSE
         /\ views = <<[kind |-> "main", frame |-> 0, sp |-> StackTop, eax |-> "start"]>>
         /\ ran = <<>>

\* Save context c at address at, over what was there.
Saved(at, c) ==
    {f \in stack : f.at + CtxSize <= at \/ f.at >= at + CtxSize}
       \cup {[at |-> at, ctx |-> c]}

\* A new activation of user code starts with the context c.
Enter(kind, frame, c) ==
    /\ ctx' = c
    /\ views' = Append(views, [kind |-> kind, frame |-> frame, sp |-> c.sp, eax |-> c.eax])

\* The thread's view of its own registers after a system call that gave it r.
Sees(r) == views' = [views EXCEPT ![Act].eax = r]

Terminate ==
    /\ state # "dead"
    /\ state' = "dead"
    /\ UNCHANGED <<ctx, context_changed, callback_frame, stack, apc_list, alerted,
                   views, ran>>

(***************************************************************************)
(* Dispatchers.                                                            *)
(***************************************************************************)
\* start_exception_handler() with no exception port: push the context, give
\* the dispatcher its arguments, or end the thread if the stack has no room.
\* The context is the thread's own at a fault, and the one a program passed to
\* NtRaiseException.
start_exception_handler(c) ==
    LET sp == c.sp - CtxSize - ArgSize
    IN  IF c.sp < CtxSize + ArgSize
        THEN Terminate
        ELSE /\ stack' = Saved(sp + ArgSize, c)
             /\ Enter("exception", sp + ArgSize,
                      [pc |-> Act + 1, sp |-> sp, eax |-> c.eax])
             /\ context_changed' = TRUE
             /\ state' = "user"
             /\ UNCHANGED <<callback_frame, apc_list, alerted, ran>>

\* deliver_apc() saving the context as it was before the call.
Saves_old(c, thread_return) == c

\* deliver_apc() saves the context with the value the call returns in Eax.
Saves(c, thread_return) == [c EXCEPT !.eax = thread_return]

\* deliver_apc(): take the first APC, push the context for NtContinue and
\* start the APC's dispatcher.
deliver_apc(thread_return) ==
    LET c  == Saves(ctx, thread_return)
        sp == c.sp - CtxSize - ArgSize
    IN  /\ apc_list # <<>>
        /\ apc_list' = Tail(apc_list)
        /\ IF c.sp < CtxSize + ArgSize
           THEN /\ state' = "dead"
                /\ UNCHANGED <<ctx, context_changed, stack, views, ran>>
           ELSE /\ stack' = Saved(sp + ArgSize, c)
                /\ ctx' = [pc |-> Act + 1, sp |-> sp, eax |-> thread_return]
                /\ views' = Append([views EXCEPT ![Act].eax = thread_return],
                                   [kind |-> "apc", frame |-> sp + ArgSize,
                                    sp |-> sp, eax |-> thread_return])
                /\ ran' = Append(ran, Head(apc_list))
                /\ context_changed' = TRUE
                /\ state' = "user"
        /\ UNCHANGED callback_frame

\* do_user_callback() up to run(): save the context in a new frame and start
\* the callback dispatcher below it.
do_user_callback ==
    /\ state \in {"user", "kernel"} /\ Act < MaxDepth
    /\ IF ctx.sp < ArgSize
       THEN Terminate
       ELSE /\ callback_frame' = <<[ctx |-> ctx, act |-> Act]>> \o callback_frame
            /\ Enter("callback", 0, [pc |-> Act + 1, sp |-> ctx.sp - ArgSize,
                                     eax |-> ctx.eax])
            /\ context_changed' = TRUE
            /\ state' = "user"
            /\ UNCHANGED <<stack, apc_list, alerted, ran>>

(***************************************************************************)
(* System calls of the thread.                                             *)
(***************************************************************************)
\* The end of software_interrupt(): Eax is the status of the call unless the
\* call replaced the context.
SetEax(c, changed, r) == IF changed THEN c ELSE [c EXCEPT !.eax = r]

\* A call that neither blocks nor calls back.
Call(r) ==
    /\ state = "user"
    /\ context_changed' = FALSE
    /\ ctx' = SetEax(ctx, FALSE, r)
    /\ Sees(r)
    /\ UNCHANGED <<callback_frame, stack, state, apc_list, alerted, ran>>

\* A fault, or a breakpoint, in user code (handle_user_segv).
Fault == state = "user" /\ Act < MaxDepth /\ start_exception_handler(ctx)

\* NtRaiseException with the caller's own context; without a search of the
\* frames the thread ends.
RaiseException ==
    /\ state = "user" /\ Act < MaxDepth
    /\ start_exception_handler(ctx) \/ Terminate

\* set_context() with Eax overwritten on return.
Override_lost == FALSE

\* set_context() by default leaves Eax as the new context has it.
Override == TRUE

\* NtContinue with context c.
set_context(c) ==
    /\ context_changed' = Override
    /\ ctx' = SetEax(c, Override, "success")

\* An exception handler or an APC continues the context it interrupted.
NtContinue ==
    /\ state = "user" /\ views[Act].kind \in {"exception", "apc"}
    /\ \E f \in stack :
          /\ f.at = views[Act].frame
          /\ set_context(f.ctx)
          /\ stack' = stack \ {f}
    /\ views' = SubSeq(views, 1, Act - 1)
    /\ UNCHANGED <<callback_frame, state, apc_list, alerted, ran>>

\* NtCallbackReturn, from the callback itself or from a handler in it, then
\* run() pops the frame: the context of the call is back, Eax is to be set.
\* What handlers left below its stack pointer is dead.
NtCallbackReturn ==
    /\ state = "user" /\ callback_frame # <<>>
    /\ ctx' = Head(callback_frame).ctx
    /\ context_changed' = FALSE
    /\ callback_frame' = Tail(callback_frame)
    /\ views' = SubSeq(views, 1, Head(callback_frame).act)
    /\ state' = "kernel"
    /\ stack' = {f \in stack : f.at >= ctx'.sp}
    /\ UNCHANGED <<apc_list, alerted, ran>>

\* The call that made the callback returns.
FinishCall(r) ==
    /\ state = "kernel"
    /\ ctx' = SetEax(ctx, context_changed, r)
    /\ Sees(r)
    /\ state' = "user"
    /\ UNCHANGED <<context_changed, callback_frame, stack, apc_list, alerted, ran>>

\* NtTestAlert.
test_alert ==
    /\ state = "user"
    /\ IF alerted
       THEN /\ alerted' = FALSE
            /\ context_changed' = FALSE
            /\ ctx' = SetEax(ctx, FALSE, "alerted")
            /\ Sees("alerted")
            /\ UNCHANGED <<callback_frame, stack, state, apc_list, ran>>
       ELSE \/ /\ Act < MaxDepth
               /\ deliver_apc("success")
               /\ UNCHANGED alerted
            \/ /\ apc_list = <<>>
               /\ Call("success")

\* NtWaitForSingleObject and the like, up to the wait.
StartWait(alertable) ==
    /\ state = "user"
    /\ context_changed' = FALSE
    /\ state' = IF alertable THEN "alertable" ELSE "wait"
    /\ UNCHANGED <<ctx, callback_frame, stack, apc_list, alerted, views, ran>>

\* The loop of wait_on_handles(): the wait is over when the object is
\* signalled, an APC can be delivered, the thread was alerted, or in time.
EndWait(r) ==
    /\ ctx' = SetEax(ctx, context_changed, r)
    /\ IF context_changed THEN UNCHANGED views ELSE Sees(r)
    /\ state' = "user"
    /\ UNCHANGED <<context_changed, callback_frame, stack, apc_list, ran>>

Wakes ==
    /\ state \in {"wait", "alertable"}
    /\ \/ EndWait("success") /\ UNCHANGED alerted
       \/ /\ state = "alertable" /\ Act < MaxDepth
          /\ deliver_apc("user_apc")
          /\ UNCHANGED alerted
       \/ /\ state = "wait" \/ apc_list = <<>>
          /\ \/ alerted /\ EndWait("alerted") /\ alerted' = FALSE
             \/ ~alerted /\ EndWait("timeout") /\ UNCHANGED alerted

(***************************************************************************)
(* Other threads.                                                          *)
(***************************************************************************)
queue_apc_thread == apc_list' = Append(apc_list, Queued + 1)

QueueApc ==
    /\ state # "dead" /\ Queued < MaxApcs
    /\ queue_apc_thread
    /\ UNCHANGED <<ctx, context_changed, callback_frame, stack, state, alerted,
                   views, ran>>

Alert ==
    /\ alerted' = TRUE
    /\ UNCHANGED <<ctx, context_changed, callback_frame, stack, state, apc_list,
                   views, ran>>

\* NtSetContextThread: here a debugger changes Eax and leaves the rest as
\* NtGetContextThread gave it.  (In an alertable wait an APC delivered later
\* would replace that Eax; such waits are left out.)
SetContextThread ==
    /\ state \in {"user", "wait"}
    /\ ctx' = [ctx EXCEPT !.eax = "set"]
    /\ context_changed' = TRUE
    /\ Sees("set")
    /\ UNCHANGED <<callback_frame, stack, state, apc_list, alerted, ran>>

UNext == \/ Call("success") \/ Call("failure") \/ Fault \/ RaiseException
         \/ NtContinue \/ do_user_callback \/ NtCallbackReturn
         \/ FinishCall("success") \/ FinishCall("failure")
         \/ test_alert \/ StartWait(TRUE) \/ StartWait(FALSE) \/ Wakes
         \/ QueueApc \/ Alert \/ SetContextThread \/ Terminate

USpec == UInit /\ [][UNext]_cvars

(***************************************************************************)
(* Properties.                                                             *)
(***************************************************************************)
\* However system calls, exceptions, APCs and callbacks nest, user code that
\* is resumed finds the registers it had when it was interrupted, and in Eax
\* what its own system call returned (software_interrupt, NtContinue, pop).
\* A context saved for NtContinue is still on the stack when its handler wants
\* to continue it, and every APC starts once, in the order they were queued.
RegistersKept ==
    /\ state = "user" => /\ ctx.pc = Act
                         /\ ctx.sp = views[Act].sp
                         /\ ctx.eax = views[Act].eax
    /\ \A n \in 2..Act :
          (views[n].kind \in {"exception", "apc"} /\ state # "dead")
             => \E f \in stack : /\ f.at = views[n].frame
                                 /\ f.ctx.pc = n - 1 /\ f.ctx.sp = views[n - 1].sp
    /\ state # "dead" => ran \o apc_list = [i \in 1..Queued |-> i]
=============================================================================
