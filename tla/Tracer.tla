------------------------------- MODULE Tracer -------------------------------
(***************************************************************************)
(* How the kernel drives the host processes that user code runs in         *)
(* (src/kernel/tt.cpp, ptrace_base.cpp, client.c): every address space has *)
(* one traced child.  The kernel runs user code in it under an interval    *)
(* timer, and changes its mappings by restarting a stub in it, which reads *)
(* one request and answers with a breakpoint.  The timer's signal reaches  *)
(* the child whenever it fires, also when the child has already stopped.   *)
(*                                                                         *)
(* A traced block (block.cpp) is mapped without access.  An access to it   *)
(* faults, is reported, and is then repeated with the page open and the    *)
(* child single stepped (thread.cpp, run()).                               *)
(***************************************************************************)
EXTENDS Naturals, Sequences

CONSTANTS Spaces,      \* the address spaces
          TracePages,  \* their pages, positive numbers
          KernelPid    \* the kernel's process id, as an address (0: unaligned)

TracerAssumption == TracePages \subseteq Nat \ {0} /\ KernelPid \in Nat

VARIABLES kid,         \* the child of each address space
          block,       \* the kernel's block for each page
          cpu,         \* what the kernel is doing
          armed,       \* the interval timer is running
          sig_target   \* the address space the timer's signal is meant for

tvars == <<kid, block, cpu, armed, sig_target>>

Nobody == 0

\* A request of the stub: its type and the six words of the union in client.h.
\* A map request is pid, fd, addr, len, ofs, prot; an unmap one addr, len.
NoRequest == [type |-> "exit", words |-> [i \in 1..6 |-> 0]]

NoKid == [state |-> "none", signal |-> "none", alarm |-> FALSE, stub |-> FALSE,
          page |-> 0, req |-> NoRequest, map |-> [p \in TracePages |-> "free"]]

FreeBlock == [committed |-> FALSE, traced |-> FALSE]

\* The kernel is idle, about to resume user code (the timer is set), waiting
\* for the child in wait4, or waiting for an answer of the stub.
Resting == [pc |-> "idle", space |-> Nobody, step |-> FALSE, todo |-> <<>>]

TInit == /\ kid = [s \in Spaces |-> NoKid]
         /\ block = [s \in Spaces |-> [p \in TracePages |-> FreeBlock]]
         /\ cpu = Resting
         /\ armed = FALSE
         /\ sig_target = Nobody

\* What remote_remap() maps a block with.
Access(b) == IF b.traced THEN "na" ELSE "rw"

(***************************************************************************)
(* Requests of the stub.                                                   *)
(***************************************************************************)
\* The words a request pokes into the child; the others keep their values.
Poked(s, op) ==
    LET w == kid[s].req.words
    IN  IF op.type = "map"
        THEN [w EXCEPT ![1] = KernelPid, ![2] = 1, ![3] = op.page, ![4] = 1,
                       ![5] = 0, ![6] = IF op.access = "rw" THEN 1 ELSE 0]
        ELSE [w EXCEPT ![3] = op.page, ![4] = 1]

\* mmap() and munmap() up to the wait: poke the request, put the stub's
\* registers back and continue the child.
userside_req(s, op, rest) ==
    /\ kid' = [kid EXCEPT ![s].state = "running", ![s].stub = TRUE,
                          ![s].signal = "none", ![s].page = 0,
                          ![s].req = [type |-> op.type, words |-> Poked(s, op)]]
    /\ cpu' = [pc |-> "stub", space |-> s, step |-> FALSE, todo |-> rest]
    /\ UNCHANGED <<armed, sig_target>>

\* run() up to PTRACE_SYSEMU, with the timer left without a target.
StartRun_untargeted(s, step, rest) ==
    /\ cpu' = [pc |-> "arm", space |-> s, step |-> step, todo |-> rest]
    /\ armed' = TRUE
    /\ UNCHANGED <<kid, sig_target>>

\* run() up to PTRACE_SYSEMU, first half: set the target, then the timer.
StartRun(s, step, rest) ==
    /\ cpu' = [pc |-> "arm", space |-> s, step |-> step, todo |-> rest]
    /\ sig_target' = s
    /\ armed' = TRUE
    /\ UNCHANGED kid

\* The next thing on the kernel's list, or back to the scheduler.
Continue(s, todo) ==
    IF todo = <<>>
    THEN cpu' = Resting /\ UNCHANGED <<kid, armed, sig_target>>
    ELSE IF Head(todo).type = "step"
    THEN StartRun(s, TRUE, Tail(todo))
    ELSE userside_req(s, Head(todo), Tail(todo))

Map(p, a) == [type |-> "map", page |-> p, access |-> a]
Umap(p) == [type |-> "umap", page |-> p, access |-> "na"]
Step == [type |-> "step", page |-> 0, access |-> "na"]

(***************************************************************************)
(* The kernel between two runs of user code.                               *)
(***************************************************************************)
\* The constructor: fork, exec, and wait for the stub's first breakpoint.
CreateSpace(s) ==
    /\ cpu.pc = "idle" /\ kid[s].state = "none"
    /\ kid' = [kid EXCEPT ![s] = [NoKid EXCEPT !.state = "stopped", !.stub = TRUE]]
    /\ UNCHANGED <<block, cpu, armed, sig_target>>

\* The destructor frees the blocks and kills the child.
DestroySpace(s) ==
    /\ cpu.pc = "idle" /\ kid[s].state = "stopped"
    /\ kid' = [kid EXCEPT ![s] = NoKid]
    /\ block' = [block EXCEPT ![s] = [p \in TracePages |-> FreeBlock]]
    /\ UNCHANGED <<cpu, armed, sig_target>>

\* mblock::commit() of a free page, set_tracer(), and uncommit().
Commit(s, p) ==
    /\ cpu.pc = "idle" /\ kid[s].state = "stopped" /\ ~block[s][p].committed
    /\ block' = [block EXCEPT ![s][p] = [committed |-> TRUE, traced |-> FALSE]]
    /\ userside_req(s, Map(p, "rw"), <<>>)

SetTracer(s, p) ==
    /\ cpu.pc = "idle" /\ kid[s].state = "stopped"
    /\ block[s][p].committed /\ ~block[s][p].traced
    /\ block' = [block EXCEPT ![s][p].traced = TRUE]
    /\ userside_req(s, Map(p, "na"), <<>>)

Uncommit(s, p) ==
    /\ cpu.pc = "idle" /\ kid[s].state = "stopped" /\ block[s][p].committed
    /\ block' = [block EXCEPT ![s][p] = FreeBlock]
    /\ userside_req(s, Umap(p), <<>>)

\* A thread of the address space gets its time slice.
RunThread(s) ==
    /\ cpu.pc = "idle" /\ kid[s].state = "stopped"
    /\ StartRun(s, FALSE, <<>>)
    /\ UNCHANGED block

\* run(), second half: load the thread's registers and resume the child.
Resume ==
    /\ cpu.pc = "arm"
    /\ cpu' = [cpu EXCEPT !.pc = "wait"]
    /\ kid' = [kid EXCEPT ![cpu.space].state = "running", ![cpu.space].stub = FALSE,
                          ![cpu.space].signal = "none", ![cpu.space].page = 0]
    /\ UNCHANGED <<block, armed, sig_target>>

(***************************************************************************)
(* The host: the timer and the children.                                   *)
(***************************************************************************)
\* The interval timer expires and sigitimer_handler() signals the target.
TimerFires ==
    /\ armed
    /\ armed' = FALSE
    /\ kid' = IF sig_target = Nobody THEN kid
              ELSE [kid EXCEPT ![sig_target].alarm = TRUE]
    /\ UNCHANGED <<block, cpu, sig_target>>

Stopped(s, sig, p) ==
    [kid EXCEPT ![s].state = "stopped", ![s].signal = sig, ![s].page = p]

\* A pending alarm stops the running child before anything else does.
AlarmStops(s) ==
    /\ kid[s].state = "running" /\ kid[s].alarm
    /\ kid' = [Stopped(s, "alarm", 0) EXCEPT ![s].alarm = FALSE]
    /\ UNCHANGED <<block, cpu, armed, sig_target>>

\* do_mmap() and do_umap() of client.c.  The latter reads its address from the
\* first word of the union; the host refuses one that is not a page.
Answered(k) ==
    LET w == k.req.words
    IN  IF k.req.type = "map"
        THEN [k.map EXCEPT ![w[3]] = IF w[6] = 1 THEN "rw" ELSE "na"]
        ELSE IF w[1] \in TracePages THEN [k.map EXCEPT ![w[1]] = "free"]
        ELSE k.map

\* One round of client_main(): serve the request and stop at the breakpoint.
StubAnswers(s) ==
    /\ kid[s].state = "running" /\ ~kid[s].alarm /\ kid[s].stub
    /\ kid' = [Stopped(s, "trap", 0) EXCEPT ![s].map = Answered(kid[s]),
                                            ![s].req.type = "exit"]
    /\ UNCHANGED <<block, cpu, armed, sig_target>>

\* User code reads or writes a page.
UserAccess(s, p) ==
    /\ kid[s].state = "running" /\ ~kid[s].alarm /\ ~kid[s].stub
    /\ kid' = IF kid[s].map[p] # "rw" THEN Stopped(s, "segv", p)
              ELSE IF cpu.step THEN Stopped(s, "trap", 0)
              ELSE kid
    /\ UNCHANGED <<block, cpu, armed, sig_target>>

\* User code makes a system call (a fault at an int instruction) or executes
\* a breakpoint.
UserTrap(s, sig) ==
    /\ kid[s].state = "running" /\ ~kid[s].alarm /\ ~kid[s].stub /\ ~cpu.step
    /\ kid' = Stopped(s, sig, 0)
    /\ UNCHANGED <<block, cpu, armed, sig_target>>

(***************************************************************************)
(* The kernel's answers to a stopped child.                                *)
(***************************************************************************)
\* wait_for_signal() taking any stop for the answer.
WaitForSignal_any ==
    /\ cpu.pc = "stub" /\ kid[cpu.space].state = "stopped"
    /\ Continue(cpu.space, cpu.todo)
    /\ UNCHANGED block

\* wait_for_signal(): a stray signal is dropped and the stub continued.
WaitForSignal ==
    LET s == cpu.space
    IN  /\ cpu.pc = "stub" /\ kid[s].state = "stopped"
        /\ IF kid[s].signal = "trap"
           THEN Continue(s, cpu.todo)
           ELSE /\ kid' = [kid EXCEPT ![s].state = "running"]
                /\ UNCHANGED <<cpu, armed, sig_target>>
        /\ UNCHANGED block

\* Stepping over a traced access without closing the page.
TracedStep_open(p) == <<Map(p, "rw"), Step>>

\* thread_impl_t::run() after a traced access: open the page, single step,
\* close it again.
TracedStep(p) == <<Map(p, "rw"), Step, Map(p, "na")>>

\* ptrace_run() after wait4, and run()'s switch over the signal: the timer is
\* cancelled; a breakpoint is handled and user code resumed at once; a traced
\* access is stepped over, unless a step is under way; everything else ends
\* the time slice (a fault becomes an exception of the thread).
EndRun ==
    LET s == cpu.space
        k == kid[s]
    IN  /\ cpu.pc = "wait" /\ k.state = "stopped"
        /\ \/ /\ k.signal = "trap" /\ ~cpu.step
              /\ cpu' = [cpu EXCEPT !.pc = "arm"]
              /\ sig_target' = s /\ armed' = TRUE
              /\ UNCHANGED kid
           \/ /\ k.signal # "trap" \/ cpu.step
              /\ armed' = FALSE
              /\ sig_target' = Nobody
              /\ cpu' = [pc |-> "next", space |-> s, step |-> FALSE,
                         todo |-> IF /\ k.signal = "segv" /\ ~cpu.step
                                     /\ k.page # 0 /\ block[s][k.page].traced
                                  THEN TracedStep(k.page)
                                  ELSE cpu.todo]
              /\ UNCHANGED kid
        /\ UNCHANGED block

\* run() returned: go on with what is left to do.
NextOp ==
    /\ cpu.pc = "next"
    /\ Continue(cpu.space, cpu.todo)
    /\ UNCHANGED block

TNext == \/ \E s \in Spaces : \/ CreateSpace(s) \/ DestroySpace(s) \/ RunThread(s)
                              \/ AlarmStops(s) \/ StubAnswers(s)
                              \/ UserTrap(s, "trap") \/ UserTrap(s, "segv")
         \/ \E s \in Spaces, p \in TracePages :
               Commit(s, p) \/ SetTracer(s, p) \/ Uncommit(s, p) \/ UserAccess(s, p)
         \/ Resume \/ TimerFires \/ WaitForSignal \/ EndRun \/ NextOp

\* The kernel and the host go on, the timer expires while it is armed and a
\* pending signal is delivered.  User code may run for ever.
TFair == /\ WF_tvars(Resume) /\ WF_tvars(WaitForSignal) /\ WF_tvars(EndRun)
         /\ WF_tvars(NextOp) /\ WF_tvars(TimerFires)
         /\ \A s \in Spaces : WF_tvars(AlarmStops(s)) /\ WF_tvars(StubAnswers(s))

TSpec == TInit /\ [][TNext]_tvars /\ TFair

(***************************************************************************)
(* Properties.                                                             *)
(***************************************************************************)
\* Whenever user code runs, or is about to, every committed page of the child
\* is mapped as the kernel's block says; a traced page is open only while the
\* child is being single stepped.  A stray timer signal never makes the kernel
\* go on before the stub has done what it was asked (wait_for_signal, run).
KidMatchesBlocks ==
    \A s \in Spaces, p \in TracePages :
       (cpu.space = s /\ cpu.pc \in {"arm", "wait"} /\ block[s][p].committed)
          => \/ kid[s].map[p] = Access(block[s][p])
             \/ cpu.step /\ cpu.todo = <<Map(p, "na")>> /\ kid[s].map[p] = "rw"

\* A child that runs user code for ever is taken back: the timer always has a
\* target, so run() returns (sig_target is set before setitimer).
RunReturns == (cpu.pc = "wait") ~> (cpu.pc # "wait")
=============================================================================
