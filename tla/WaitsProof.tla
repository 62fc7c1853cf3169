----------------------------- MODULE WaitsProof -----------------------------
(***************************************************************************)
(* The wait machinery, for any threads, objects and wait lists: no wake-up *)
(* is lost, no fiber is started twice, the count of running threads is     *)
(* exact, a mutant's owner and count agree, and the address space outlives *)
(* the threads.  First the inductive invariant and what the operators of   *)
(* module Waits do to it, then wait_on_handles, then the other steps.      *)
(***************************************************************************)
EXTENDS Waits, FiniteSetTheorems, TLAPS

(* The inductive invariant.                                                *)
WaitsInv == /\ TypeOK
            /\ ThreadShape
            /\ NoDoubleStart
            /\ RunlistExact
            /\ WaiterReachable
            /\ NoLostWakeup
            /\ VmOutlivesThreads

LEMMA NoWaitNotArg ==
  /\ NoWait \notin WaitArgs /\ NoWait.objs = <<>> /\ NoWait.timed = FALSE
  /\ Len(NoWait.objs) = 0
  BY Zenon, WaitsAssumption DEF NoWait

LEMMA ArgType ==
  ASSUME NEW w \in WaitArgs \cup {NoWait}
  PROVE  /\ w.objs \in Seq(Waitable) /\ w.all \in BOOLEAN
         /\ w.alertable \in BOOLEAN /\ w.timed \in BOOLEAN
         /\ Len(w.objs) \in Nat
         /\ \A i \in 1 .. Len(w.objs) : w.objs[i] \in Waitable
<1>1. w \in [objs: Seq(Waitable), all: BOOLEAN, alertable: BOOLEAN, timed: BOOLEAN]
  <2>1. NoWait \in [objs: Seq(Waitable), all: BOOLEAN, alertable: BOOLEAN, timed: BOOLEAN]
    <3>1. <<>> \in Seq(Waitable)
      OBVIOUS
    <3>. QED BY Zenon, <3>1 DEF NoWait
  <2>. QED BY Zenon, <2>1, WaitsAssumption
<1>2. w.objs \in Seq(Waitable) /\ w.all \in BOOLEAN /\ w.alertable \in BOOLEAN /\ w.timed \in BOOLEAN
  BY Zenon, <1>1
<1>. QED BY <1>2

(* How often an object occurs in a list is a number, and it is positive    *)
(* exactly when the object is in the list.                                 *)
LEMMA OccurrencesType ==
  ASSUME NEW S, NEW objs \in Seq(S), NEW o
  PROVE  /\ Occurrences(objs, o) \in Nat
         /\ Occurrences(objs, o) > 0 <=> \E i \in 1 .. Len(objs) : objs[i] = o
<1>. DEFINE I == {i \in 1 .. Len(objs) : objs[i] = o}
<1>1. Len(objs) \in Nat
  OBVIOUS
<1>2. IsFiniteSet(1 .. Len(objs))
  BY <1>1, FS_Interval
<1>3. IsFiniteSet(I)
  BY Zenon, <1>2, FS_Subset
<1>4. Cardinality(I) \in Nat
  BY Zenon, <1>3, FS_CardinalityType
<1>5. Cardinality(I) = 0 <=> I = {}
  BY Zenon, <1>3, FS_EmptySet
<1>. QED BY <1>4, <1>5 DEF Occurrences

(* Each kind of object answers is_signalled in its own way.                *)
LEMMA SignalKinds ==
  /\ \A o \in Objects : IsSignalled(o) = (sig[o] > 0)
  /\ \A o \in Mutants : IsSignalled(o) = TRUE
  /\ \A o \in Threads : IsSignalled(o) = (state[o] = "Terminated")
  /\ \A o \in Procs : IsSignalled(o) = \A t \in ProcThreads(o) : state[t] = "Terminated"
  BY Zenon, WaitsAssumption DEF IsSignalled

(* A thread belongs to the process that lists it, and to no other.         *)
LEMMA ProcOfThread ==
  ASSUME NEW u \in Threads
  PROVE  /\ ProcOf(u) \in Procs /\ u \in ProcThreads(ProcOf(u))
         /\ \A p \in Procs : u \in ProcThreads(p) => p = ProcOf(u)
  BY Zenon, WaitsAssumption DEF ProcOf

LEMMA ProcThreadsType == ASSUME NEW p \in Procs PROVE ProcThreads(p) \subseteq Threads
<1>1. ThreadsOf[p] \in Seq(Threads)
  BY Zenon, WaitsAssumption
<1>. QED BY <1>1 DEF ProcThreads

(* A thread that sleeps and is not among those notified can go on sleeping *)
(* if none of the objects it watches became signalled.                     *)
LEMMA StillAsleep ==
  ASSUME WaitsInv, NEW t \in Threads, state[t] = "Wait", inWait[t],
         wait'[t] = wait[t],
         \A o \in Waitable : Watches(t, o) /\ IsSignalled(o)' => IsSignalled(o)
  PROVE  ~Satisfiable(wait[t])'
<1>1. wait[t] \in WaitArgs \cup {NoWait}
  BY Zenon DEF WaitsInv, TypeOK
<1>2. \A i \in 1 .. Len(wait[t].objs) : wait[t].objs[i] \in Waitable /\ Watches(t, wait[t].objs[i])
  BY Zenon, <1>1, ArgType DEF Watches
<1>3. ~Satisfiable(wait[t])
  BY Zenon DEF WaitsInv, NoLostWakeup
<1>. DEFINE Sg == {o \in Waitable : IsSignalled(o)}
<1>4. Satisfiable(wait[t]) <=> IF wait[t].all
                                 THEN \A i \in 1 .. Len(wait[t].objs) : wait[t].objs[i] \in Sg
                                 ELSE \E i \in 1 .. Len(wait[t].objs) : wait[t].objs[i] \in Sg
  BY Zenon, <1>2 DEF Satisfiable
<1>5. Satisfiable(wait[t])' <=> IF wait[t].all
                                 THEN \A i \in 1 .. Len(wait[t].objs) : wait[t].objs[i] \in Sg'
                                 ELSE \E i \in 1 .. Len(wait[t].objs) : wait[t].objs[i] \in Sg'
  BY Zenon, <1>2 DEF Satisfiable, IsSignalled
<1>6. \A i \in 1 .. Len(wait[t].objs) : wait[t].objs[i] \in Sg' => wait[t].objs[i] \in Sg
  BY Zenon, <1>2
<1>. HIDE DEF Sg
<1>. QED BY Zenon, <1>3, <1>4, <1>5, <1>6

(* What a step has to leave alone so that no wake-up is lost.              *)
LEMMA NoWakeupLost ==
  ASSUME WaitsInv,
         \A t \in Threads : state'[t] = "Wait" /\ inWait'[t] =>
           /\ state[t] = "Wait" /\ inWait[t]
           /\ wait'[t] = wait[t] /\ apcs'[t] = apcs[t]
           /\ ~alerted'[t] /\ timer'[t] # "expired"
           /\ \A o \in Waitable : Watches(t, o) /\ IsSignalled(o)' => IsSignalled(o)
  PROVE  NoLostWakeup'
<1>. SUFFICES ASSUME NEW t \in Threads, state'[t] = "Wait", inWait'[t]
              PROVE  /\ ~Satisfiable(wait[t])' /\ ~ApcDue(t, wait[t])'
                     /\ ~alerted'[t] /\ timer'[t] # "expired"
  BY Zenon DEF NoLostWakeup
<1>1. ~Satisfiable(wait[t])'
  BY Zenon, StillAsleep
<1>2. ~ApcDue(t, wait[t])'
  BY Zenon DEF WaitsInv, NoLostWakeup, ApcDue
<1>. QED BY Zenon, <1>1, <1>2

(* notify wakes those it is told to, and starts only fibers that sleep.    *)
LEMMA NotifyKeeps ==
  ASSUME WaitsInv, NEW W \in SUBSET Threads, Notify(W),
         UNCHANGED <<state, susp, runlist, wait, vm>>
  PROVE  /\ inWait' \in [Threads -> BOOLEAN] /\ linked' \in SUBSET Threads
         /\ NoDoubleStart' /\ RunlistExact' /\ WaiterReachable' /\ VmOutlivesThreads'
         /\ \A t \in Threads : inWait'[t] => inWait[t] /\ t \notin W
<1>1. inWait' \in [Threads -> BOOLEAN] /\ linked' \in SUBSET Threads
  BY Zenon DEF Notify, WaitsInv, TypeOK
<1>2. \A t \in Threads : inWait'[t] <=> inWait[t] /\ t \notin W
  BY Zenon DEF Notify
<1>3. NoDoubleStart'
  BY Zenon, <1>2 DEF Notify, WaitsInv, NoDoubleStart, ThreadShape
<1>4. WaiterReachable'
  BY Zenon, <1>2 DEF Notify, WaitsInv, WaiterReachable
<1>5. RunlistExact' /\ VmOutlivesThreads'
  BY Zenon DEF WaitsInv, RunlistExact, VmOutlivesThreads
<1>. QED BY Zenon, <1>1, <1>2, <1>3, <1>4, <1>5

(* terminate() keeps the threads' bookkeeping, and wakes whoever waits for *)
(* the thread or, with its last thread, for the process.                   *)
LEMMA TerminateKeeps ==
  ASSUME WaitsInv, NEW t \in Threads, NEW u \in Threads, state[u] # "Terminated",
         Terminate(t, u), UNCHANGED <<susp, sig>>
  PROVE  /\ state' \in [Threads -> States] /\ runlist' \in SUBSET Threads
         /\ inWait' \in [Threads -> BOOLEAN] /\ linked' \in SUBSET Threads
         /\ vm' \in [Procs -> BOOLEAN]
         /\ NoDoubleStart' /\ RunlistExact' /\ WaiterReachable' /\ VmOutlivesThreads'
         /\ state'[u] = "Terminated" /\ \A v \in Threads \ {u} : state'[v] = state[v]
         /\ \A v \in Threads : inWait'[v] => inWait[v]
         /\ \A v \in Threads : inWait'[v] => \A o \in Waitable :
              Watches(v, o) /\ IsSignalled(o)' => IsSignalled(o)
<1>. DEFINE p == ProcOf(u)
            last == \A v \in ProcThreads(p) : v = u \/ state[v] = "Terminated"
            W == Watchers(u) \cup (IF last THEN Watchers(p) ELSE {})
            woken == {v \in W : inWait[v] /\ v # u /\ state[v] # "Terminated"}
<1>1. /\ state' = [state EXCEPT ![u] = "Terminated"]
      /\ runlist' = runlist \ {u}
      /\ inWait' = [v \in Threads |-> inWait[v] /\ v \notin W]
      /\ linked' = (linked \cup woken) \ (IF u = t THEN {t} ELSE {})
      /\ vm' = [q \in Procs |-> vm[q] /\ ~(q = p /\ last)]
  BY Zenon DEF Terminate, ExitWatchers, LastThread
<1>2. W \subseteq Threads /\ woken \subseteq Threads
  BY Zenon DEF Watchers
<1>3. TypeOK /\ p \in Procs /\ u \in ProcThreads(p) /\ ProcThreads(p) \subseteq Threads
  BY Zenon, ProcOfThread, ProcThreadsType DEF WaitsInv
<1>4. state'[u] = "Terminated" /\ \A v \in Threads \ {u} : state'[v] = state[v]
  BY Zenon, <1>1, <1>3 DEF TypeOK
<1>5. \A v \in Threads : inWait'[v] <=> inWait[v] /\ v \notin W
  BY Zenon, <1>1
<1>6. /\ state' \in [Threads -> States] /\ runlist' \in SUBSET Threads
      /\ inWait' \in [Threads -> BOOLEAN] /\ linked' \in SUBSET Threads
      /\ vm' \in [Procs -> BOOLEAN]
  <2>1. state' \in [Threads -> States] /\ runlist' \in SUBSET Threads
    BY Zenon, <1>1, <1>3 DEF TypeOK, States
  <2>2. linked' \in SUBSET Threads
    BY Zenon, <1>1, <1>2, <1>3 DEF TypeOK
  <2>3. inWait' \in [Threads -> BOOLEAN] /\ vm' \in [Procs -> BOOLEAN]
    BY Zenon, <1>1
  <2>. QED BY Zenon, <2>1, <2>2, <2>3
<1>. HIDE DEF W
<1>7. NoDoubleStart'
  BY Zenon, <1>1, <1>2, <1>5 DEF WaitsInv, NoDoubleStart, ThreadShape
<1>8. RunlistExact'
  BY Zenon, <1>1, <1>4 DEF WaitsInv, RunlistExact
<1>9. WaiterReachable'
  BY Zenon, <1>1, <1>4, <1>5 DEF WaitsInv, WaiterReachable
<1>10. ASSUME NEW q \in Procs
       PROVE  (\E v \in ProcThreads(q) : state'[v] # "Terminated")
                <=> (\E v \in ProcThreads(q) : state[v] # "Terminated") /\ ~(q = p /\ last)
  <2>1. ProcThreads(q) \subseteq Threads /\ (u \in ProcThreads(q) => q = p)
    BY Zenon, ProcOfThread, ProcThreadsType
  <2>2. CASE q = p
    BY Zenon, <2>1, <2>2, <1>4, <1>3
  <2>3. CASE q # p
    BY Zenon, <2>1, <2>3, <1>4
  <2>. QED BY Zenon, <2>2, <2>3
<1>11. VmOutlivesThreads'
  <2>1. \A q \in Procs : vm'[q] = (vm[q] /\ ~(q = p /\ last))
    BY Zenon, <1>1
  <2>. HIDE DEF last, p
  <2>. QED BY Zenon, <2>1, <1>10 DEF WaitsInv, VmOutlivesThreads
<1>12. ASSUME NEW v \in Threads, inWait'[v], NEW o \in Waitable, Watches(v, o), IsSignalled(o)'
       PROVE  IsSignalled(o)
  <2>1. v \notin W
    BY Zenon, <1>5, <1>12
  <2>2. o # u /\ ~(last /\ o = p)
    BY Zenon, <2>1, <1>12 DEF Watchers, W
  <2>3. CASE o \in Objects \cup Mutants
    BY Zenon, <2>3, <1>12, WaitsAssumption DEF IsSignalled
  <2>4. CASE o \in Threads
    BY Zenon, <2>4, <2>2, <1>4, <1>12, WaitsAssumption DEF IsSignalled
  <2>5. CASE o \in Procs
    <3>1. \A x \in ProcThreads(o) : state'[x] = "Terminated"
      BY Zenon, <2>5, <1>12, WaitsAssumption DEF IsSignalled
    <3>2. \A x \in ProcThreads(o) : state[x] = "Terminated"
      <4>. HIDE DEF last, p
      <4>. QED BY Zenon, <1>10, <3>1, <2>2, <2>5
    <3>. QED BY Zenon, <3>2, <2>5, WaitsAssumption DEF IsSignalled
  <2>. QED BY Zenon, <2>3, <2>4, <2>5 DEF Waitable
<1>. QED BY Zenon, <1>4, <1>5, <1>6, <1>7, <1>8, <1>9, <1>11, <1>12

(* Nothing becomes signalled when no thread ends and no count rises.       *)
LEMMA NothingSignalled ==
  ASSUME NEW o \in Waitable, IsSignalled(o)',
         \A v \in Threads : state'[v] = "Terminated" => state[v] = "Terminated",
         o \in Objects => (sig'[o] > 0 => sig[o] > 0)
  PROVE  IsSignalled(o)
<1>1. CASE o \in Objects \cup Mutants
  BY Zenon, <1>1, WaitsAssumption DEF IsSignalled
<1>2. CASE o \in Threads
  BY Zenon, <1>2, WaitsAssumption DEF IsSignalled
<1>3. CASE o \in Procs
  <2>1. \A x \in ProcThreads(o) : state'[x] = "Terminated"
    BY Zenon, <1>3, WaitsAssumption DEF IsSignalled
  <2>. QED BY Zenon, <2>1, <1>3, ProcThreadsType, WaitsAssumption DEF IsSignalled
<1>. QED BY Zenon, <1>1, <1>2, <1>3 DEF Waitable

(* satisfy() never signals an object, whatever the list repeats.           *)
LEMMA SatisfyLowers ==
  ASSUME WaitsInv, NEW t \in Threads, NEW objs \in Seq(Waitable), Satisfy(t, objs),
         \A i \in 1 .. Len(objs) : IsSignalled(objs[i])
  PROVE  /\ sig' \in [Objects -> 0 .. ULONG_SIZE - 1]
         /\ owner' \in [Mutants -> Threads \cup {NONE}]
         /\ held' \in [Mutants -> Int]
         /\ \A o \in Objects : sig'[o] > 0 => sig[o] > 0
<1>1. \A o : Occurrences(objs, o) \in Nat
  BY Zenon, OccurrencesType
<1>2. ASSUME NEW o \in Objects
      PROVE  /\ sig'[o] \in 0 .. ULONG_SIZE - 1
             /\ sig'[o] > 0 => sig[o] > 0
  <2>1. sig[o] \in 0 .. ULONG_SIZE - 1 /\ ULONG_SIZE \in Nat \ {0}
    BY Zenon, WaitsAssumption DEF WaitsInv, TypeOK
  <2>2. sig'[o] = IF o \in AutoEvents /\ Occurrences(objs, o) > 0 THEN 0
                  ELSE IF o \in Semaphores THEN (sig[o] - Occurrences(objs, o)) % ULONG_SIZE
                  ELSE sig[o]
    BY Zenon DEF Satisfy, SignalsAfter
  <2>3. Occurrences(objs, o) > 0 => sig[o] > 0
    <3>1. Occurrences(objs, o) > 0 => IsSignalled(o)
      BY Zenon, OccurrencesType
    <3>. QED BY Zenon, <3>1, SignalKinds
  <2>4. Occurrences(objs, o) = 0 => (sig[o] - Occurrences(objs, o)) % ULONG_SIZE = sig[o]
    BY <2>1, <1>1
  <2>5. (sig[o] - Occurrences(objs, o)) % ULONG_SIZE \in 0 .. ULONG_SIZE - 1
    <3>1. sig[o] - Occurrences(objs, o) \in Int
      BY <2>1, <1>1
    <3>. QED BY <3>1, <2>1
  <2>. HIDE DEF Occurrences
  <2>6. CASE Occurrences(objs, o) = 0
    BY <2>1, <2>2, <2>4, <2>6
  <2>7. CASE Occurrences(objs, o) > 0
    BY <2>1, <2>2, <2>3, <2>5, <2>7
  <2>. QED BY <2>6, <2>7, <1>1
<1>3. sig' \in [Objects -> 0 .. ULONG_SIZE - 1]
  BY Zenon, <1>2 DEF Satisfy, SignalsAfter
<1>4. owner' \in [Mutants -> Threads \cup {NONE}]
  BY Zenon DEF Satisfy, WaitsInv, TypeOK
<1>5. held' \in [Mutants -> Int]
  BY <1>1 DEF Satisfy, WaitsInv, TypeOK
<1>. QED BY Zenon, <1>2, <1>3, <1>4, <1>5

(* A thread that returns from a wait leaves no trace of it behind.         *)
LEMMA ReturnKeeps ==
  ASSUME WaitsInv, NEW t \in linked, ReturnToUser(t)
  PROVE  /\ state' \in [Threads -> States] /\ runlist' \in SUBSET Threads
         /\ wait' \in [Threads -> WaitArgs \cup {NoWait}]
         /\ timer' \in [Threads -> {"none", "armed", "expired"}]
         /\ ThreadShape' /\ NoDoubleStart' /\ RunlistExact' /\ WaiterReachable'
         /\ VmOutlivesThreads'
         /\ \A v \in Threads : state'[v] = "Terminated" <=> state[v] = "Terminated"
         /\ \A v \in Threads : state'[v] = "Wait" =>
              state[v] = "Wait" /\ v # t /\ wait'[v] = wait[v] /\ timer'[v] = timer[v]
<1>1. TypeOK /\ t \in Threads /\ susp[t] # 1 /\ ~inWait[t]
  BY Zenon DEF WaitsInv, TypeOK, NoDoubleStart
<1>2. /\ wait' = [wait EXCEPT ![t] = NoWait]
      /\ timer' = [timer EXCEPT ![t] = "none"]
      /\ state' = [state EXCEPT ![t] = IF state[t] = "Terminated" THEN state[t] ELSE "Running"]
      /\ runlist' = IF state[t] = "Terminated" THEN runlist ELSE runlist \cup {t}
      /\ UNCHANGED <<susp, linked, inWait, vm>>
  BY Zenon DEF ReturnToUser
<1>3. /\ state' \in [Threads -> States] /\ runlist' \in SUBSET Threads
      /\ wait' \in [Threads -> WaitArgs \cup {NoWait}]
      /\ timer' \in [Threads -> {"none", "armed", "expired"}]
  BY Zenon, <1>1, <1>2 DEF TypeOK, States
<1>4. /\ wait'[t] = NoWait /\ timer'[t] = "none"
      /\ state'[t] = IF state[t] = "Terminated" THEN state[t] ELSE "Running"
      /\ \A v \in Threads \ {t} :
           wait'[v] = wait[v] /\ timer'[v] = timer[v] /\ state'[v] = state[v]
  BY Zenon, <1>1, <1>2 DEF TypeOK
<1>5. ThreadShape'
  BY <1>1, <1>2, <1>4, NoWaitNotArg DEF WaitsInv, ThreadShape
<1>6. NoDoubleStart' /\ WaiterReachable'
  BY Zenon, <1>1, <1>2, <1>4 DEF WaitsInv, NoDoubleStart, WaiterReachable
<1>7. RunlistExact'
  BY Zenon, <1>1, <1>2, <1>4 DEF WaitsInv, RunlistExact
<1>8. \A v \in Threads : state'[v] = "Terminated" <=> state[v] = "Terminated"
  BY Zenon, <1>1, <1>4
<1>9. VmOutlivesThreads'
  BY Zenon, <1>2, <1>8, ProcThreadsType DEF WaitsInv, VmOutlivesThreads
<1>. QED BY Zenon, <1>3, <1>4, <1>5, <1>6, <1>7, <1>8, <1>9

LEMMA WaitsInit == Init => WaitsInv
<1>. SUFFICES ASSUME Init PROVE WaitsInv
  BY Zenon
<1>. USE DEF Init
<1>1. TypeOK
  BY WaitsAssumption DEF TypeOK, States
<1>2. ThreadShape /\ NoDoubleStart /\ RunlistExact /\ WaiterReachable /\ NoLostWakeup
  BY NoWaitNotArg DEF ThreadShape, NoDoubleStart, RunlistExact, WaiterReachable, NoLostWakeup
<1>3. VmOutlivesThreads
  <2>1. ASSUME NEW p \in Procs, ThreadsOf[p] # <<>>
        PROVE  \E t \in ProcThreads(p) : state[t] # "Terminated"
    <3>1. ThreadsOf[p] \in Seq(Threads) /\ Len(ThreadsOf[p]) > 0
      BY <2>1, WaitsAssumption
    <3>2. ThreadsOf[p][1] \in ProcThreads(p) /\ ThreadsOf[p][1] \in Threads
      BY SMTT(20), <3>1 DEF ProcThreads
    <3>. QED BY Zenon, <3>2
  <2>. QED BY Zenon, <2>1 DEF VmOutlivesThreads
<1>. QED BY Zenon, <1>1, <1>2, <1>3 DEF WaitsInv

-----------------------------------------------------------------------------
(* One pass of wait_on_handles, whichever way it ends.                     *)
LEMMA WaitLoopKeeps ==
  ASSUME WaitsInv, NEW t \in linked, NEW w \in WaitArgs,
         NEW tm \in {"none", "armed", "expired"}, tm # "none" => w.timed,
         WaitLoop(t, w, tm)
  PROVE  WaitsInv'
<1>1. TypeOK /\ t \in Threads /\ susp[t] # 1 /\ ~inWait[t] /\ w # NoWait
  BY Zenon, NoWaitNotArg DEF WaitsInv, TypeOK, NoDoubleStart
<1>2. ASSUME ReturnToUser(t), UNCHANGED <<apcs, objvars>>, alerted' \in [Threads -> BOOLEAN],
             \A v \in Threads \ {t} : alerted'[v] = alerted[v]
      PROVE  WaitsInv'
  <2>1. TypeOK'
    BY Zenon, <1>1, <1>2, ReturnKeeps DEF TypeOK, ReturnToUser, objvars
  <2>2. NoLostWakeup'
    <3>1. \A o \in Waitable : IsSignalled(o)' => IsSignalled(o)
      BY Zenon, <1>2, ReturnKeeps, NothingSignalled DEF objvars
    <3>2. UNCHANGED inWait
      BY Zenon, <1>2 DEF ReturnToUser
    <3>. QED BY <1>2, <3>1, <3>2, ReturnKeeps, NoWakeupLost DEF WaitsInv, NoLostWakeup
  <2>. QED BY Zenon, <1>2, <2>1, <2>2, ReturnKeeps DEF WaitsInv
<1>3. CASE WaitSatisfied(t, w)
  <2>1. PICK objs \in Seq(Waitable) : Satisfy(t, objs) /\ \A i \in 1 .. Len(objs) : IsSignalled(objs[i])
    <3>1. CASE w.all /\ Satisfy(t, w.objs)
      BY Zenon, <3>1, <1>3, ArgType DEF WaitSatisfied, Satisfiable
    <3>2. CASE \E i \in 1 .. Len(w.objs) : FirstSignalled(w, i) /\ Satisfy(t, <<w.objs[i]>>)
      <4>1. PICK i \in 1 .. Len(w.objs) : FirstSignalled(w, i) /\ Satisfy(t, <<w.objs[i]>>)
        BY Zenon, <3>2
      <4>2. w.objs[i] \in Waitable /\ IsSignalled(w.objs[i])
        BY Zenon, <4>1, ArgType DEF FirstSignalled
      <4>3. /\ <<w.objs[i]>> \in Seq(Waitable) /\ Len(<<w.objs[i]>>) = 1
            /\ <<w.objs[i]>>[1] = w.objs[i]
        BY <4>2
      <4>4. \A j \in 1 .. Len(<<w.objs[i]>>) : j = 1
        BY <4>3
      <4>. QED BY Zenon, <4>1, <4>2, <4>3, <4>4
    <3>. QED BY Zenon, <1>3, <3>1, <3>2 DEF WaitSatisfied
  <2>2. ReturnToUser(t) /\ UNCHANGED <<apcs, alerted>>
    BY Zenon, <1>3 DEF WaitSatisfied
  <2>3. TypeOK'
    BY Zenon, <1>1, <2>1, <2>2, ReturnKeeps, SatisfyLowers DEF TypeOK, ReturnToUser
  <2>4. NoLostWakeup'
    <3>1. \A o \in Waitable : IsSignalled(o)' => IsSignalled(o)
      <4>1. \A o \in Objects : sig'[o] > 0 => sig[o] > 0
        BY Zenon, <2>1, <1>1, SatisfyLowers
      <4>. QED BY Zenon, <4>1, <2>2, ReturnKeeps, NothingSignalled
    <3>2. UNCHANGED inWait
      BY Zenon, <2>2 DEF ReturnToUser
    <3>. QED BY ZenonT(40), <2>2, <3>1, <3>2, ReturnKeeps, NoWakeupLost DEF WaitsInv, NoLostWakeup
  <2>. QED BY Zenon, <2>2, <2>3, <2>4, ReturnKeeps DEF WaitsInv
<1>4. CASE WaitApc(t, w, tm)
  <2>1. /\ apcs' = [apcs EXCEPT ![t] = apcs[t] - 1] /\ apcs[t] > 0
        /\ UNCHANGED <<alerted, objvars>>
    BY Zenon, <1>4 DEF WaitApc, ApcDue
  <2>2. apcs' \in [Threads -> Nat] /\ \A v \in Threads \ {t} : apcs'[v] = apcs[v]
    <3>1. apcs[t] \in Nat /\ apcs[t] - 1 \in Nat
      BY <1>1, <2>1 DEF TypeOK
    <3>. QED BY Zenon, <1>1, <2>1, <3>1 DEF TypeOK
  <2>3. CASE ReturnToUser(t)
    <3>1. TypeOK'
      BY Zenon, <1>1, <2>1, <2>2, <2>3, ReturnKeeps DEF TypeOK, ReturnToUser, objvars
    <3>2. NoLostWakeup'
      <4>1. \A o \in Waitable : IsSignalled(o)' => IsSignalled(o)
        BY Zenon, <2>1, <2>3, ReturnKeeps, NothingSignalled DEF objvars
      <4>2. UNCHANGED inWait
        BY Zenon, <2>3 DEF ReturnToUser
      <4>. QED BY <2>1, <2>2, <2>3, <4>1, <4>2, ReturnKeeps, NoWakeupLost DEF WaitsInv, NoLostWakeup
    <3>. QED BY Zenon, <2>3, <3>1, <3>2, ReturnKeeps DEF WaitsInv
  <2>4. CASE /\ state[t] # "Terminated"
             /\ Terminate(t, t)
             /\ wait' = [wait EXCEPT ![t] = w]
             /\ timer' = [timer EXCEPT ![t] = tm]
             /\ UNCHANGED <<susp, loop>>
    <3>1. TypeOK'
      BY Zenon, <1>1, <2>1, <2>2, <2>4, TerminateKeeps DEF TypeOK, objvars
    <3>2. /\ wait'[t] = w /\ timer'[t] = tm
          /\ \A v \in Threads \ {t} : wait'[v] = wait[v] /\ timer'[v] = timer[v]
      BY Zenon, <1>1, <2>4 DEF TypeOK
    <3>3. /\ state'[t] = "Terminated" /\ \A v \in Threads \ {t} : state'[v] = state[v]
          /\ \A v \in Threads : inWait'[v] => inWait[v]
          /\ \A v \in Threads : inWait'[v] => \A o \in Waitable :
               Watches(v, o) /\ IsSignalled(o)' => IsSignalled(o)
      BY Zenon, <1>1, <2>1, <2>4, TerminateKeeps DEF objvars
    <3>4. ThreadShape'
      BY <1>1, <2>4, <3>2, <3>3, NoWaitNotArg DEF WaitsInv, ThreadShape
    <3>5. NoLostWakeup'
      BY Zenon, <2>1, <2>2, <3>2, <3>3, NoWakeupLost DEF WaitsInv, NoLostWakeup
    <3>. QED BY Zenon, <1>1, <2>1, <2>4, <3>1, <3>4, <3>5, TerminateKeeps DEF WaitsInv, objvars
  <2>. QED BY Zenon, <1>4, <2>3, <2>4 DEF WaitApc
<1>5. CASE WaitAlerted(t, w)
  BY Zenon, <1>1, <1>2, <1>5 DEF WaitAlerted, TypeOK
<1>6. CASE WaitTimedOut(t, w, tm)
  BY Zenon, <1>1, <1>2, <1>6 DEF WaitTimedOut, TypeOK
<1>7. CASE WaitBlocks(t, w, tm)
  <2>1. /\ wait' = [wait EXCEPT ![t] = w]
        /\ timer' = [timer EXCEPT ![t] = tm]
        /\ inWait' = [inWait EXCEPT ![t] = TRUE]
        /\ state' = [state EXCEPT ![t] = IF state[t] = "Terminated" THEN state[t] ELSE "Wait"]
        /\ runlist' = runlist \ {t}
        /\ linked' = linked \ {t}
        /\ UNCHANGED <<susp, apcs, alerted, vm, sig, owner, held, loop>>
    BY Zenon, <1>7 DEF WaitBlocks, objvars
  <2>2. TypeOK'
    BY Zenon, <1>1, <2>1 DEF TypeOK, States
  <2>3. /\ wait'[t] = w /\ timer'[t] = tm /\ inWait'[t]
        /\ state'[t] = IF state[t] = "Terminated" THEN state[t] ELSE "Wait"
        /\ \A v \in Threads \ {t} : /\ wait'[v] = wait[v] /\ timer'[v] = timer[v]
                                    /\ state'[v] = state[v] /\ inWait'[v] = inWait[v]
    BY Zenon, <1>1, <2>1 DEF TypeOK
  <2>4. ThreadShape'
    BY <1>1, <2>1, <2>3 DEF WaitsInv, ThreadShape
  <2>5. NoDoubleStart' /\ WaiterReachable'
    BY Zenon, <1>1, <2>1, <2>3 DEF WaitsInv, NoDoubleStart, WaiterReachable
  <2>6. RunlistExact'
    BY <1>1, <2>1, <2>3 DEF WaitsInv, RunlistExact
  <2>7. \A v \in Threads : state'[v] = "Terminated" <=> state[v] = "Terminated"
    BY Zenon, <1>1, <2>3
  <2>8. VmOutlivesThreads'
    BY Zenon, <2>1, <2>7, ProcThreadsType DEF WaitsInv, VmOutlivesThreads
  <2>9. NoLostWakeup'
    <3>1. \A o \in Waitable : IsSignalled(o)' => IsSignalled(o)
      BY Zenon, <2>1, <2>7, NothingSignalled
    <3>2. ~Satisfiable(wait[t])'
      <4>. DEFINE Sg == {o \in Waitable : IsSignalled(o)}
      <4>1. \A i \in 1 .. Len(w.objs) : w.objs[i] \in Waitable
        BY Zenon, ArgType
      <4>2. Satisfiable(w) <=> IF w.all THEN \A i \in 1 .. Len(w.objs) : w.objs[i] \in Sg
                                        ELSE \E i \in 1 .. Len(w.objs) : w.objs[i] \in Sg
        BY Zenon, <4>1 DEF Satisfiable
      <4>3. Satisfiable(wait[t])' <=> IF w.all THEN \A i \in 1 .. Len(w.objs) : w.objs[i] \in Sg'
                                               ELSE \E i \in 1 .. Len(w.objs) : w.objs[i] \in Sg'
        BY Zenon, <4>1, <2>3 DEF Satisfiable, IsSignalled
      <4>4. Sg' \subseteq Sg
        BY Zenon, <3>1
      <4>5. ~Satisfiable(w)
        BY Zenon, <1>7 DEF WaitBlocks
      <4>. HIDE DEF Sg
      <4>. QED BY Zenon, <4>2, <4>3, <4>4, <4>5
    <3>3. /\ ~ApcDue(t, wait[t])' /\ ~alerted'[t] /\ timer'[t] # "expired"
      BY Zenon, <1>7, <2>1, <2>3 DEF WaitBlocks, ApcDue
    <3>4. ASSUME NEW v \in Threads \ {t}, state'[v] = "Wait", inWait'[v]
          PROVE  /\ ~Satisfiable(wait[v])' /\ ~ApcDue(v, wait[v])'
                 /\ ~alerted'[v] /\ timer'[v] # "expired"
      <4>1. ~Satisfiable(wait[v])'
        BY Zenon, <2>3, <3>1, <3>4, StillAsleep
      <4>. QED BY ZenonT(40), <4>1, <2>1, <2>3, <3>4 DEF WaitsInv, NoLostWakeup, ApcDue
    <3>. QED BY Zenon, <3>2, <3>3, <3>4 DEF NoLostWakeup
  <2>. QED BY Zenon, <2>2, <2>4, <2>5, <2>6, <2>8, <2>9 DEF WaitsInv
<1>. QED BY Zenon, <1>3, <1>4, <1>5, <1>6, <1>7 DEF WaitLoop

(* The owner and the count of a mutant, under satisfy().                   *)
LEMMA SatisfyMutant ==
  ASSUME TypeOK, MutantBalanced, NEW t \in Threads, NEW objs \in Seq(Waitable), Satisfy(t, objs)
  PROVE  /\ MutantBalanced'
         /\ \A m \in Mutants : owner[m] # NONE => owner'[m] \in {owner[m], NONE}
<1>. SUFFICES ASSUME NEW m \in Mutants
              PROVE  /\ IF owner'[m] = NONE THEN held'[m] = 0 ELSE held'[m] > 0
                     /\ owner[m] # NONE => owner'[m] = owner[m]
  BY Zenon DEF MutantBalanced
<1>1. Occurrences(objs, m) \in Nat
  BY Zenon, OccurrencesType
<1>2. /\ owner'[m] = IF Occurrences(objs, m) > 0 /\ owner[m] = NONE THEN t ELSE owner[m]
      /\ held'[m] = IF owner[m] \in {NONE, t} THEN held[m] + Occurrences(objs, m) ELSE held[m]
  BY Zenon DEF Satisfy
<1>3. held[m] \in Int /\ t # NONE /\ IF owner[m] = NONE THEN held[m] = 0 ELSE held[m] > 0
  BY Zenon, WaitsAssumption DEF TypeOK, MutantBalanced
<1>. QED BY <1>1, <1>2, <1>3

LEMMA WaitLoopMutant ==
  ASSUME TypeOK, MutantBalanced, NEW t \in Threads, NEW w \in WaitArgs, NEW tm, WaitLoop(t, w, tm)
  PROVE  /\ MutantBalanced'
         /\ \A m \in Mutants : owner[m] # NONE => owner'[m] \in {owner[m], NONE}
<1>1. CASE WaitSatisfied(t, w)
  <2>1. CASE w.all /\ Satisfy(t, w.objs)
    BY Zenon, <2>1, ArgType, SatisfyMutant
  <2>2. CASE \E i \in 1 .. Len(w.objs) : FirstSignalled(w, i) /\ Satisfy(t, <<w.objs[i]>>)
    <3>1. PICK i \in 1 .. Len(w.objs) : Satisfy(t, <<w.objs[i]>>)
      BY Zenon, <2>2
    <3>2. <<w.objs[i]>> \in Seq(Waitable)
      BY ArgType
    <3>. QED BY Zenon, <3>1, <3>2, SatisfyMutant
  <2>. QED BY Zenon, <1>1, <2>1, <2>2 DEF WaitSatisfied
<1>2. CASE UNCHANGED <<owner, held>>
  BY Zenon, <1>2 DEF MutantBalanced
<1>. QED BY Zenon, <1>1, <1>2
       DEF WaitLoop, WaitApc, WaitAlerted, WaitTimedOut, WaitBlocks, objvars

LEMMA MutantStep ==
  ASSUME TypeOK, MutantBalanced, [Next]_vars
  PROVE  /\ MutantBalanced'
         /\ \A m \in Mutants : owner[m] # NONE => owner'[m] \in {owner[m], NONE}
<1>1. ASSUME NEW t \in Threads, NEW w \in WaitArgs, WaitOnHandles(t, w)
      PROVE  /\ MutantBalanced'
             /\ \A m \in Mutants : owner[m] # NONE => owner'[m] \in {owner[m], NONE}
  BY Zenon, <1>1, WaitLoopMutant DEF WaitOnHandles
<1>2. ASSUME NEW t \in Threads, Resumed(t)
      PROVE  /\ MutantBalanced'
             /\ \A m \in Mutants : owner[m] # NONE => owner'[m] \in {owner[m], NONE}
  <2>1. wait[t] \in WaitArgs /\ WaitLoop(t, wait[t], timer[t])
    BY Zenon, <1>2 DEF Resumed, TypeOK
  <2>. QED BY Zenon, <2>1, WaitLoopMutant
<1>3. ASSUME NEW t \in Threads, NEW m \in Mutants, NtReleaseMutant(t, m)
      PROVE  /\ MutantBalanced'
             /\ \A x \in Mutants : owner[x] # NONE => owner'[x] \in {owner[x], NONE}
  <2>1. /\ owner[m] = t /\ t # NONE /\ held[m] \in Int /\ held[m] > 0
        /\ held'[m] = held[m] - 1 /\ owner'[m] = IF held[m] = 1 THEN NONE ELSE t
    BY Zenon, <1>3, WaitsAssumption DEF NtReleaseMutant, TypeOK, MutantBalanced
  <2>2. \A x \in Mutants \ {m} : held'[x] = held[x] /\ owner'[x] = owner[x]
    BY Zenon, <1>3 DEF NtReleaseMutant, TypeOK
  <2>. QED BY <2>1, <2>2 DEF MutantBalanced
<1>4. CASE UNCHANGED <<owner, held>>
  BY Zenon, <1>4 DEF MutantBalanced
<1>5. [Next]_vars => \/ \E t \in Threads, w \in WaitArgs : WaitOnHandles(t, w)
                     \/ \E t \in Threads : Resumed(t)
                     \/ \E t \in Threads, m \in Mutants : NtReleaseMutant(t, m)
                     \/ UNCHANGED <<owner, held>>
  BY ZenonT(40) DEF Next, Syscall, vars, objvars, NtSetEvent, NtResetEvent, NtPulseEvent,
         NtReleaseSemaphore, NtAlertThread, NtQueueApcThread, NtTestAlert, NtResumeThread,
         NtTerminateThread, NtTerminateProcess, TerminateNext, FiberExit, Timeout
<1>. QED BY Zenon, <1>1, <1>2, <1>3, <1>4, <1>5

(* Subtraction does not wrap around when a semaphore is counted down no    *)
(* further than to zero.                                                   *)
LEMMA SatisfySemaphore ==
  ASSUME TypeOK, NEW t, NEW objs \in Seq(Waitable), Satisfy(t, objs),
         NEW s \in Semaphores, ~(Occurrences(objs, s) > sig[s])
  PROVE  sig'[s] \in Nat /\ sig'[s] <= sig[s]
<1>1. s \in Objects /\ s \notin AutoEvents /\ s \in Waitable
  BY Zenon, WaitsAssumption DEF Objects, Events, Waitable
<1>2. sig'[s] = (sig[s] - Occurrences(objs, s)) % ULONG_SIZE
  BY Zenon, <1>1 DEF Satisfy, SignalsAfter
<1>3. Occurrences(objs, s) \in Nat
  BY Zenon, OccurrencesType
<1>4. sig[s] \in 0 .. ULONG_SIZE - 1 /\ ULONG_SIZE \in Nat \ {0}
  <2>1. ULONG_SIZE \in Nat \ {0}
    BY Zenon, WaitsAssumption
  <2>2. sig[s] \in 0 .. ULONG_SIZE - 1
    BY Zenon, <1>1 DEF TypeOK
  <2>. QED BY <2>1, <2>2
<1>. DEFINE d == sig[s] - Occurrences(objs, s)
<1>5. d \in 0 .. ULONG_SIZE - 1 /\ d \in Nat /\ d <= sig[s]
  BY <1>3, <1>4
<1>. HIDE DEF d
<1>6. d % ULONG_SIZE = d
  BY <1>4, <1>5
<1>. QED BY Zenon, <1>2, <1>5, <1>6 DEF d

(* A wait counts a semaphore down, unless it overdraws it.                 *)
LEMMA WaitLoopSemaphore ==
  ASSUME TypeOK, NEW t \in Threads, NEW w \in WaitArgs, NEW tm, WaitLoop(t, w, tm),
         NEW s \in Semaphores, ~(w.all /\ Occurrences(w.objs, s) > sig[s])
  PROVE  sig'[s] \in Nat /\ sig'[s] <= sig[s]
<1>0. s \in Objects /\ sig[s] \in 0 .. ULONG_SIZE - 1
  BY Zenon DEF TypeOK, Objects
<1>1. CASE WaitSatisfied(t, w)
  <2>1. CASE w.all /\ Satisfy(t, w.objs)
    BY Zenon, <2>1, ArgType, SatisfySemaphore
  <2>2. CASE \E i \in 1 .. Len(w.objs) : FirstSignalled(w, i) /\ Satisfy(t, <<w.objs[i]>>)
    <3>1. PICK i \in 1 .. Len(w.objs) : IsSignalled(w.objs[i]) /\ Satisfy(t, <<w.objs[i]>>)
      BY Zenon, <2>2 DEF FirstSignalled
    <3>. DEFINE one == <<w.objs[i]>>
    <3>2. one \in Seq(Waitable) /\ Len(one) = 1 /\ one[1] = w.objs[i]
      BY ArgType
    <3>. HIDE DEF one
    <3>3. \A k \in 1 .. Len(one) : k = 1
      BY <3>2
    <3>4. \A k \in 1 .. Len(one) : IsSignalled(one[k])
      BY Zenon, <3>1, <3>2, <3>3
    <3>5. Occurrences(one, s) \in Nat /\ Occurrences(one, s) <= 1
      <4>. DEFINE I == {k \in 1 .. Len(one) : one[k] = s}
      <4>1. I \subseteq {1}
        BY Zenon, <3>3
      <4>2. IsFiniteSet({1}) /\ Cardinality({1}) = 1
        BY Zenon, FS_Singleton
      <4>3. Cardinality(I) <= Cardinality({1})
        BY Zenon, <4>1, <4>2, FS_Subset
      <4>4. Occurrences(one, s) <= 1
        BY Zenon, <4>2, <4>3 DEF Occurrences
      <4>5. Occurrences(one, s) \in Nat
        BY Zenon, <3>2, OccurrencesType
      <4>. QED BY Zenon, <4>4, <4>5
    <3>6. Occurrences(one, s) > 0 => sig[s] > 0
      <4>1. one \in Seq(Waitable)
        BY Zenon, <3>2
      <4>2. Occurrences(one, s) > 0 => \E k \in 1 .. Len(one) : one[k] = s
        BY Zenon, <4>1, OccurrencesType
      <4>3. Occurrences(one, s) > 0 => IsSignalled(s)
        BY Zenon, <3>4, <4>2
      <4>. QED BY Zenon, <1>0, <4>3, SignalKinds
    <3>7. ~(Occurrences(one, s) > sig[s])
      BY <1>0, <3>5, <3>6, WaitsAssumption
    <3>8. Satisfy(t, one)
      BY Zenon, <3>1 DEF one
    <3>. QED BY Zenon, <3>2, <3>7, <3>8, SatisfySemaphore
  <2>. QED BY Zenon, <1>1, <2>1, <2>2 DEF WaitSatisfied
<1>2. CASE UNCHANGED sig
  BY <1>0, <1>2, WaitsAssumption
<1>. QED BY Zenon, <1>1, <1>2
       DEF WaitLoop, WaitApc, WaitAlerted, WaitTimedOut, WaitBlocks, objvars

(* Whoever brings a semaphore above its maximum has overdrawn it.          *)
LEMMA SemaphoreStep ==
  ASSUME TypeOK, [Next]_vars, NEW s \in Semaphores, sig[s] <= MaxCount[s],
         ~(sig'[s] <= MaxCount[s])
  PROVE  \E t \in Threads, w \in WaitArgs : Overdraws(t, w, s)
<1>0. /\ s \in Objects /\ sig[s] \in 0 .. ULONG_SIZE - 1 /\ ULONG_SIZE \in Nat
      /\ MaxCount[s] \in 0 .. ULONG_SIZE - 1
  BY Zenon, WaitsAssumption DEF TypeOK, Objects
<1>1. ~(sig'[s] \in Nat /\ sig'[s] <= sig[s])
  BY <1>0
<1>2. ASSUME NEW t \in Threads, NEW w \in WaitArgs, WaitOnHandles(t, w)
      PROVE  Overdraws(t, w, s)
  BY Zenon, <1>1, <1>2, WaitLoopSemaphore DEF WaitOnHandles, Overdraws
<1>3. ASSUME NEW t \in Threads, Resumed(t)
      PROVE  wait[t] \in WaitArgs /\ Overdraws(t, wait[t], s)
  <2>1. wait[t] \in WaitArgs /\ WaitLoop(t, wait[t], timer[t])
    BY Zenon, <1>3 DEF Resumed, TypeOK
  <2>. QED BY Zenon, <1>1, <1>3, <2>1, WaitLoopSemaphore DEF Overdraws
<1>4. ASSUME NEW t \in Threads, NEW x \in Semaphores, NEW n \in ReleaseCounts,
             NtReleaseSemaphore(t, x, n)
      PROVE  FALSE
  <2>1. x \in Objects
    BY Zenon DEF Objects
  <2>2. CASE x = s
    BY Zenon, <1>4, <2>1, <2>2 DEF NtReleaseSemaphore, TypeOK
  <2>3. CASE x # s
    BY Zenon, <1>0, <1>4, <2>1, <2>3 DEF NtReleaseSemaphore, TypeOK
  <2>. QED BY Zenon, <2>2, <2>3
<1>5. ASSUME NEW t \in Threads, NEW e \in Events,
             NtSetEvent(t, e) \/ NtResetEvent(t, e) \/ NtPulseEvent(t, e)
      PROVE  FALSE
  <2>1. s # e
    BY Zenon, WaitsAssumption
  <2>2. sig'[s] = sig[s]
    BY Zenon, <1>0, <1>5, <2>1 DEF NtSetEvent, NtResetEvent, NtPulseEvent, TypeOK
  <2>. QED BY Zenon, <2>2
<1>6. [Next]_vars =>
        \/ \E t \in Threads, w \in WaitArgs : WaitOnHandles(t, w)
        \/ \E t \in Threads : Resumed(t)
        \/ \E t \in Threads, x \in Semaphores, n \in ReleaseCounts : NtReleaseSemaphore(t, x, n)
        \/ \E t \in Threads, e \in Events :
             NtSetEvent(t, e) \/ NtResetEvent(t, e) \/ NtPulseEvent(t, e)
        \/ UNCHANGED sig
  BY ZenonT(40) DEF Next, Syscall, vars, objvars, NtReleaseMutant, NtAlertThread,
         NtQueueApcThread, NtTestAlert, NtResumeThread, NtTerminateThread, NtTerminateProcess,
         TerminateNext, FiberExit, Timeout
<1>. QED BY Zenon, <1>2, <1>3, <1>4, <1>5, <1>6

-----------------------------------------------------------------------------
(* The calls that raise a count or set a flag and then notify.             *)
LEMMA NotifyStep ==
  ASSUME WaitsInv, NEW W \in SUBSET Threads, Notify(W), UNCHANGED <<othervars, owner, held>>,
         alerted' \in [Threads -> BOOLEAN], apcs' \in [Threads -> Nat],
         sig' \in [Objects -> 0 .. ULONG_SIZE - 1],
         \A t \in Threads \ W : alerted'[t] = alerted[t] /\ apcs'[t] = apcs[t],
         \A t \in Threads \ W, o \in Objects : Watches(t, o) /\ sig'[o] > 0 => sig[o] > 0
  PROVE  WaitsInv'
<1>1. TypeOK'
  BY Zenon, NotifyKeeps DEF WaitsInv, TypeOK, othervars
<1>2. ThreadShape'
  BY Zenon, NotifyKeeps DEF WaitsInv, ThreadShape, othervars
<1>3. NoLostWakeup'
  <2>1. ASSUME NEW t \in Threads \ W, NEW o \in Waitable, Watches(t, o), IsSignalled(o)'
        PROVE  IsSignalled(o)
    BY Zenon, <2>1, NothingSignalled DEF othervars
  <2>. QED BY Zenon, <2>1, NotifyKeeps, NoWakeupLost DEF WaitsInv, NoLostWakeup, othervars
<1>. QED BY Zenon, <1>1, <1>2, <1>3, NotifyKeeps DEF WaitsInv, othervars

(* terminate() of a live thread in a step that changes nothing else.       *)
LEMMA TerminateStep ==
  ASSUME WaitsInv, NEW t \in Threads, NEW u \in Threads, state[u] # "Terminated",
         Terminate(t, u), UNCHANGED <<susp, wait, timer, alerted, objvars>>,
         apcs' \in [Threads -> Nat], \A v \in Threads \ {u} : apcs'[v] = apcs[v],
         loop' \in [thread: Threads, proc: Procs, at: Nat \ {0}] \cup {NONE}
  PROVE  WaitsInv'
<1>1. /\ state' \in [Threads -> States] /\ runlist' \in SUBSET Threads
      /\ inWait' \in [Threads -> BOOLEAN] /\ linked' \in SUBSET Threads
      /\ vm' \in [Procs -> BOOLEAN]
      /\ NoDoubleStart' /\ RunlistExact' /\ WaiterReachable' /\ VmOutlivesThreads'
      /\ state'[u] = "Terminated" /\ \A v \in Threads \ {u} : state'[v] = state[v]
      /\ \A v \in Threads : inWait'[v] => inWait[v]
      /\ \A v \in Threads : inWait'[v] => \A o \in Waitable :
           Watches(v, o) /\ IsSignalled(o)' => IsSignalled(o)
  BY Zenon, TerminateKeeps DEF objvars
<1>2. TypeOK'
  BY Zenon, <1>1 DEF WaitsInv, TypeOK, objvars
<1>3. ThreadShape'
  BY Zenon, <1>1 DEF WaitsInv, ThreadShape
<1>4. NoLostWakeup'
  BY Zenon, <1>1, NoWakeupLost DEF WaitsInv, NoLostWakeup
<1>. QED BY Zenon, <1>1, <1>2, <1>3, <1>4 DEF WaitsInv

(* Steps that touch neither a thread nor a signal.                         *)
LEMMA FrameStep ==
  ASSUME WaitsInv, TypeOK', UNCHANGED <<thrvars, vm, sig>>
  PROVE  WaitsInv'
<1>. USE DEF thrvars
<1>1. ThreadShape' /\ NoDoubleStart' /\ RunlistExact' /\ WaiterReachable' /\ VmOutlivesThreads'
  BY Zenon DEF WaitsInv, ThreadShape, NoDoubleStart, RunlistExact, WaiterReachable, VmOutlivesThreads
<1>2. NoLostWakeup'
  <2>1. \A o \in Waitable : IsSignalled(o)' => IsSignalled(o)
    BY Zenon, NothingSignalled
  <2>. QED BY Zenon, <2>1, NoWakeupLost DEF WaitsInv, NoLostWakeup
<1>. QED BY Zenon, <1>1, <1>2 DEF WaitsInv

LEMMA WaitsStep == WaitsInv /\ [Next]_vars => WaitsInv'
<1>. SUFFICES ASSUME WaitsInv, [Next]_vars PROVE WaitsInv'
  BY Zenon
<1>. USE DEF thrvars, objvars, othervars
<1>1. TypeOK /\ \A o : Watchers(o) \in SUBSET Threads
  BY Zenon DEF WaitsInv, Watchers
<1>2. ASSUME NEW t \in Threads, NEW w \in WaitArgs, WaitOnHandles(t, w) PROVE WaitsInv'
  BY Zenon, <1>2, WaitLoopKeeps DEF WaitOnHandles, Running
<1>3. ASSUME NEW t \in Threads, Resumed(t) PROVE WaitsInv'
  <2>1. t \in linked /\ wait[t] \in WaitArgs /\ WaitLoop(t, wait[t], timer[t])
    BY Zenon, <1>1, <1>3 DEF Resumed, TypeOK
  <2>2. timer[t] \in {"none", "armed", "expired"} /\ (timer[t] # "none" => wait[t].timed)
    BY Zenon, <1>1 DEF TypeOK, WaitsInv, ThreadShape
  <2>. QED BY Zenon, <2>1, <2>2, WaitLoopKeeps
<1>4. ASSUME NEW t \in Threads, NEW e \in Events, NtSetEvent(t, e) PROVE WaitsInv'
  <2>1. e \in Objects /\ ULONG_SIZE > 1 /\ sig' = [sig EXCEPT ![e] = 1]
    BY <1>4, WaitsAssumption DEF NtSetEvent, Objects
  <2>2. /\ sig' \in [Objects -> 0 .. ULONG_SIZE - 1]
        /\ \A o \in Objects \ {e} : sig'[o] = sig[o]
    BY <1>1, <2>1, WaitsAssumption DEF TypeOK
  <2>3. \A u \in Threads \ Watchers(e) : ~Watches(u, e)
    BY Zenon DEF Watchers
  <2>. QED BY <1>1, <1>4, <2>2, <2>3, NotifyStep DEF NtSetEvent, TypeOK
<1>5. ASSUME NEW t \in Threads, NEW e \in Events, NtResetEvent(t, e) PROVE WaitsInv'
  <2>1. e \in Objects /\ sig' = [sig EXCEPT ![e] = 0]
    BY Zenon, <1>5 DEF NtResetEvent, Objects
  <2>2. /\ sig' \in [Objects -> 0 .. ULONG_SIZE - 1]
        /\ \A o \in Objects : sig'[o] > 0 => sig[o] > 0
    BY <1>1, <2>1, WaitsAssumption DEF TypeOK
  <2>3. Notify({})
    BY Zenon, <1>1, <1>5 DEF Notify, NtResetEvent, TypeOK
  <2>. QED BY Zenon, <1>1, <1>5, <2>2, <2>3, NotifyStep DEF NtResetEvent, TypeOK
<1>6. ASSUME NEW t \in Threads, NEW e \in Events, NtPulseEvent(t, e) PROVE WaitsInv'
  <2>1. e \in Objects /\ sig' = [sig EXCEPT ![e] = 0]
    BY Zenon, <1>6 DEF NtPulseEvent, Objects
  <2>2. /\ sig' \in [Objects -> 0 .. ULONG_SIZE - 1]
        /\ \A o \in Objects : sig'[o] > 0 => sig[o] > 0
    BY <1>1, <2>1, WaitsAssumption DEF TypeOK
  <2>. QED BY Zenon, <1>1, <1>6, <2>2, NotifyStep DEF NtPulseEvent, TypeOK
<1>7. ASSUME NEW t \in Threads, NEW s \in Semaphores, NEW n \in ReleaseCounts,
             NtReleaseSemaphore(t, s, n)
      PROVE  WaitsInv'
  <2>. DEFINE W == IF sig[s] = 0 THEN Watchers(s) ELSE {}
  <2>1. /\ s \in Objects /\ sig' = [sig EXCEPT ![s] = (sig[s] + n) % ULONG_SIZE]
        /\ Notify(W) /\ UNCHANGED <<othervars, alerted, apcs, owner, held>>
    BY Zenon, <1>7 DEF NtReleaseSemaphore, Objects
  <2>2. (sig[s] + n) % ULONG_SIZE \in 0 .. ULONG_SIZE - 1
    <3>1. sig[s] + n \in Int /\ ULONG_SIZE \in Nat \ {0}
      BY <1>1, <2>1, WaitsAssumption DEF TypeOK
    <3>. QED BY <3>1
  <2>3. /\ sig' \in [Objects -> 0 .. ULONG_SIZE - 1]
        /\ \A o \in Objects \ {s} : sig'[o] = sig[o]
    BY Zenon, <1>1, <2>1, <2>2 DEF TypeOK
  <2>4. sig[s] > 0 \/ W = Watchers(s)
    BY <1>1, <2>1 DEF TypeOK
  <2>5. \A u \in Threads \ W : Watches(u, s) => sig[s] > 0
    BY Zenon, <2>4 DEF Watchers
  <2>6. W \in SUBSET Threads
    BY Zenon, <1>1
  <2>. HIDE DEF W
  <2>. QED BY <1>1, <2>1, <2>3, <2>5, <2>6, NotifyStep DEF TypeOK
<1>8. ASSUME NEW t \in Threads, NEW m \in Mutants, NtReleaseMutant(t, m) PROVE WaitsInv'
  <2>1. owner' \in [Mutants -> Threads \cup {NONE}]
    BY Zenon, <1>1, <1>8 DEF NtReleaseMutant, TypeOK
  <2>2. held' \in [Mutants -> Int]
    BY <1>1, <1>8 DEF NtReleaseMutant, TypeOK
  <2>3. TypeOK'
    BY Zenon, <1>1, <1>8, <2>1, <2>2 DEF NtReleaseMutant, TypeOK
  <2>. QED BY Zenon, <1>8, <2>3, FrameStep DEF NtReleaseMutant
<1>9. ASSUME NEW t \in Threads, NEW u \in Threads, NtAlertThread(t, u) PROVE WaitsInv'
  <2>1. /\ alerted' \in [Threads -> BOOLEAN]
        /\ \A v \in Threads \ {u} : alerted'[v] = alerted[v]
    BY Zenon, <1>1, <1>9 DEF NtAlertThread, TypeOK
  <2>. QED BY Zenon, <1>1, <1>9, <2>1, NotifyStep DEF NtAlertThread, TypeOK
<1>10. ASSUME NEW t \in Threads, NEW u \in Threads, NtQueueApcThread(t, u) PROVE WaitsInv'
  <2>1. /\ apcs' \in [Threads -> Nat]
        /\ \A v \in Threads \ {u} : apcs'[v] = apcs[v]
    BY <1>1, <1>10 DEF NtQueueApcThread, TypeOK
  <2>. QED BY Zenon, <1>1, <1>10, <2>1, NotifyStep DEF NtQueueApcThread, TypeOK
<1>11. ASSUME NEW t \in Threads, NtTestAlert(t) PROVE WaitsInv'
  <2>1. t \in linked /\ state[t] = "Running" /\ ~inWait[t]
    BY Zenon, <1>11 DEF NtTestAlert, Running, WaitsInv, NoDoubleStart
  <2>2. apcs[t] > 0 /\ apcs' = [apcs EXCEPT ![t] = apcs[t] - 1] =>
          apcs' \in [Threads -> Nat] /\ \A v \in Threads \ {t} : apcs'[v] = apcs[v]
    BY <1>1 DEF TypeOK
  <2>3. CASE UNCHANGED <<othervars, linked, inWait, objvars>>
    <3>1. /\ alerted' \in [Threads -> BOOLEAN] /\ apcs' \in [Threads -> Nat]
          /\ \A v \in Threads \ {t} : alerted'[v] = alerted[v] /\ apcs'[v] = apcs[v]
      BY Zenon, <1>1, <1>11, <2>2, <2>3 DEF NtTestAlert, TypeOK
    <3>2. Notify({t})
      BY Zenon, <1>1, <2>1, <2>3 DEF Notify, TypeOK
    <3>. QED BY Zenon, <1>1, <2>3, <3>1, <3>2, NotifyStep DEF TypeOK
  <2>4. CASE /\ apcs[t] > 0 /\ apcs' = [apcs EXCEPT ![t] = apcs[t] - 1]
             /\ Terminate(t, t) /\ UNCHANGED <<susp, wait, timer, alerted, objvars, loop>>
    BY Zenon, <1>1, <2>1, <2>2, <2>4, TerminateStep DEF TypeOK
  <2>. QED BY Zenon, <1>11, <2>3, <2>4 DEF NtTestAlert
<1>12. ASSUME NEW t \in Threads, NEW u \in Threads, NtResumeThread(t, u) PROVE WaitsInv'
  <2>1. /\ susp[u] = 1 /\ susp' = [susp EXCEPT ![u] = 0] /\ susp'[u] = 0
        /\ \A v \in Threads \ {u} : susp'[v] = susp[v]
        /\ wait[u] = NoWait /\ ~inWait[u] /\ state[u] \in {"Initialized", "Terminated"}
        /\ UNCHANGED <<inWait, wait, timer, alerted, apcs, vm, sig, owner, held, loop>>
    BY Zenon, <1>1, <1>12 DEF NtResumeThread, TypeOK, WaitsInv, ThreadShape
  <2>2. \/ /\ state[u] = "Terminated" /\ UNCHANGED <<state, runlist, linked>>
        \/ /\ state[u] # "Terminated"
           /\ state' = [state EXCEPT ![u] = "Running"]
           /\ runlist' = runlist \cup {u} /\ linked' = linked \cup {u}
    BY Zenon, <1>12 DEF NtResumeThread
  <2>3. TypeOK'
    BY <1>1, <2>1, <2>2 DEF TypeOK, States
  <2>4. /\ state'[u] = IF state[u] = "Terminated" THEN state[u] ELSE "Running"
        /\ \A v \in Threads \ {u} : state'[v] = state[v]
        /\ linked' = IF state[u] = "Terminated" THEN linked ELSE linked \cup {u}
    BY Zenon, <1>1, <2>2 DEF TypeOK
  <2>5. ThreadShape' /\ NoDoubleStart' /\ WaiterReachable'
    BY <2>1, <2>4 DEF WaitsInv, ThreadShape, NoDoubleStart, WaiterReachable
  <2>6. RunlistExact'
    BY Zenon, <2>2, <2>4 DEF WaitsInv, RunlistExact
  <2>7. \A v \in Threads : state'[v] = "Terminated" <=> state[v] = "Terminated"
    BY Zenon, <2>1, <2>4
  <2>8. VmOutlivesThreads'
    BY Zenon, <2>1, <2>7, ProcThreadsType DEF WaitsInv, VmOutlivesThreads
  <2>9. NoLostWakeup'
    <3>1. \A o \in Waitable : IsSignalled(o)' => IsSignalled(o)
      BY Zenon, <2>1, <2>7, NothingSignalled
    <3>. QED BY Zenon, <2>1, <2>4, <3>1, NoWakeupLost DEF WaitsInv, NoLostWakeup
  <2>. QED BY Zenon, <2>3, <2>5, <2>6, <2>8, <2>9 DEF WaitsInv
<1>13. ASSUME NEW t \in Threads, NEW u \in Threads, NtTerminateThread(t, u) PROVE WaitsInv'
  BY Zenon, <1>1, <1>13, TerminateStep DEF NtTerminateThread, TypeOK
<1>14. ASSUME NEW t \in Threads, NEW p \in Procs, NtTerminateProcess(t, p) PROVE WaitsInv'
  <2>1. TypeOK'
    BY <1>1, <1>14 DEF NtTerminateProcess, TypeOK
  <2>. QED BY Zenon, <1>14, <2>1, FrameStep DEF NtTerminateProcess
<1>15. CASE TerminateNext
  <2>. DEFINE u == ThreadsOf[loop.proc][loop.at]
  <2>1. loop \in [thread: Threads, proc: Procs, at: Nat \ {0}]
    BY Zenon, <1>1, <1>15 DEF TerminateNext, TypeOK
  <2>2. /\ loop' \in [thread: Threads, proc: Procs, at: Nat \ {0}] \cup {NONE}
    BY <1>15, <2>1 DEF TerminateNext
  <2>3. CASE UNCHANGED <<thrvars, vm, objvars>>
    BY Zenon, <1>1, <2>2, <2>3, FrameStep DEF TypeOK
  <2>4. CASE /\ ~(loop.at > Len(ThreadsOf[loop.proc])) /\ state[u] # "Terminated"
             /\ Terminate(loop.thread, u)
             /\ UNCHANGED <<susp, wait, timer, alerted, apcs, objvars>>
    <3>1. u \in Threads
      <4>1. ThreadsOf[loop.proc] \in Seq(Threads)
        BY Zenon, <2>1, WaitsAssumption
      <4>2. loop.at \in 1 .. Len(ThreadsOf[loop.proc])
        BY <2>1, <2>4, <4>1
      <4>. QED BY <4>1, <4>2
    <3>. QED BY Zenon, <1>1, <2>1, <2>2, <2>4, <3>1, TerminateStep DEF TypeOK
  <2>. QED BY Zenon, <1>15, <2>3, <2>4 DEF TerminateNext
<1>16. ASSUME NEW t \in Threads, FiberExit(t) PROVE WaitsInv'
  <2>1. /\ t \in linked /\ state[t] = "Terminated" /\ linked' = linked \ {t}
        /\ UNCHANGED <<othervars, inWait, alerted, apcs, objvars>>
    BY Zenon, <1>16 DEF FiberExit
  <2>2. TypeOK'
    BY Zenon, <1>1, <2>1 DEF TypeOK
  <2>3. ThreadShape' /\ NoDoubleStart' /\ RunlistExact' /\ WaiterReachable' /\ VmOutlivesThreads'
    BY Zenon, <2>1 DEF WaitsInv, ThreadShape, NoDoubleStart, RunlistExact, WaiterReachable, VmOutlivesThreads
  <2>4. NoLostWakeup'
    <3>1. \A o \in Waitable : IsSignalled(o)' => IsSignalled(o)
      BY Zenon, <2>1, NothingSignalled
    <3>. QED BY Zenon, <2>1, <3>1, NoWakeupLost DEF WaitsInv, NoLostWakeup
  <2>. QED BY Zenon, <2>2, <2>3, <2>4 DEF WaitsInv
<1>17. ASSUME NEW u \in Threads, Timeout(u) PROVE WaitsInv'
  <2>1. /\ timer[u] = "armed" /\ timer' = [timer EXCEPT ![u] = "expired"] /\ Notify({u})
        /\ UNCHANGED <<state, susp, runlist, wait, alerted, apcs, vm, objvars, loop>>
    BY Zenon, <1>17 DEF Timeout
  <2>2. /\ timer' \in [Threads -> {"none", "armed", "expired"}] /\ timer'[u] = "expired"
        /\ \A v \in Threads \ {u} : timer'[v] = timer[v]
    BY Zenon, <1>1, <2>1 DEF TypeOK
  <2>3. /\ inWait' \in [Threads -> BOOLEAN] /\ linked' \in SUBSET Threads
        /\ NoDoubleStart' /\ RunlistExact' /\ WaiterReachable' /\ VmOutlivesThreads'
        /\ \A v \in Threads : inWait'[v] => inWait[v] /\ v # u
    BY Zenon, <2>1, NotifyKeeps
  <2>4. TypeOK'
    BY Zenon, <1>1, <2>1, <2>2, <2>3 DEF TypeOK
  <2>5. ThreadShape'
    BY Zenon, <2>1, <2>2, <2>3 DEF WaitsInv, ThreadShape
  <2>6. NoLostWakeup'
    <3>1. \A o \in Waitable : IsSignalled(o)' => IsSignalled(o)
      BY Zenon, <2>1, NothingSignalled
    <3>. QED BY Zenon, <2>1, <2>2, <2>3, <3>1, NoWakeupLost DEF WaitsInv, NoLostWakeup
  <2>. QED BY Zenon, <2>3, <2>4, <2>5, <2>6 DEF WaitsInv
<1>18. CASE UNCHANGED vars
  BY Zenon, <1>1, <1>18, FrameStep DEF vars, TypeOK
<1>. QED
  BY Zenon, <1>2, <1>3, <1>4, <1>5, <1>6, <1>7, <1>8, <1>9, <1>10, <1>11, <1>12, <1>13, <1>14,
     <1>15, <1>16, <1>17, <1>18 DEF Next, Syscall

-----------------------------------------------------------------------------
(* The invariant holds, with no fairness needed.                           *)
THEOREM WaitsCorrect == Spec => []WaitsInv
  BY WaitsInit, WaitsStep, PTL DEF Spec

(* No wake-up is lost: a thread never sleeps in wait_on_handles while its  *)
(* wait is satisfied, or an alert, an APC it accepts or its timeout is     *)
(* pending.                                                                *)
THEOREM WakeupsDelivered == Spec => []NoLostWakeup
<1>1. WaitsInv => NoLostWakeup
  BY Zenon DEF WaitsInv
<1>. QED BY <1>1, WaitsCorrect, PTL

(* The assertion of fiber_t::start, that the fiber is not in the run list, *)
(* holds whatever wakes a thread.                                          *)
THEOREM StartAsserts == Spec => []NoDoubleStart
<1>1. WaitsInv => NoDoubleStart
  BY Zenon DEF WaitsInv
<1>. QED BY <1>1, WaitsCorrect, PTL

(* running_threads holds exactly the threads in state Running.             *)
THEOREM RunningCountExact == Spec => []RunlistExact
<1>1. WaitsInv => RunlistExact
  BY Zenon DEF WaitsInv
<1>. QED BY <1>1, WaitsCorrect, PTL

(* A live thread is asleep where it can be woken, or in the run list.      *)
THEOREM NoThreadStranded == Spec => []WaiterReachable
<1>1. WaitsInv => WaiterReachable
  BY Zenon DEF WaitsInv
<1>. QED BY <1>1, WaitsCorrect, PTL

(* A process has its address space exactly as long as it has a live thread. *)
THEOREM AddressSpaceLifetime == Spec => []VmOutlivesThreads
<1>1. WaitsInv => VmOutlivesThreads
  BY Zenon DEF WaitsInv
<1>. QED BY <1>1, WaitsCorrect, PTL

(* A mutant's count and owner agree: NtReleaseMutant never counts below    *)
(* zero and never leaves a free mutant with an owner.                      *)
THEOREM MutantCount == Spec => []MutantBalanced
<1>1. Init => MutantBalanced
  BY Zenon DEF Init, MutantBalanced
<1>2. WaitsInv => TypeOK
  BY Zenon DEF WaitsInv
<1>. QED BY <1>1, <1>2, MutantStep, WaitsCorrect, PTL DEF Spec

(* Ownership of a mutant never passes directly from one thread to another. *)
THEOREM MutantNeverStolen == Spec => MutantHandover
<1>1. WaitsInv => TypeOK
  BY Zenon DEF WaitsInv
<1>2. TypeOK /\ MutantBalanced /\ [Next]_vars =>
        [\A m \in Mutants : owner[m] # NONE => owner'[m] \in {owner[m], NONE}]_vars
  BY Zenon, MutantStep
<1>. QED BY <1>1, <1>2, WaitsCorrect, MutantCount, PTL DEF Spec, MutantHandover

(* Nothing but a wait that names a semaphore more often than it counts     *)
(* brings it above its maximum, whatever lists the threads wait with: the  *)
(* test of NtReleaseSemaphore is made on the very sum that is stored, so a *)
(* sum that wraps around 2^32 does not get past it, and every other wait   *)
(* counts down no further than to zero.                                    *)
THEOREM SemaphoreLimit == Spec => OnlyRepeatsExceed
<1>. DEFINE Step == \A s \in Semaphores : sig[s] <= MaxCount[s] /\ ~(sig'[s] <= MaxCount[s])
                      => \E t \in Threads, w \in WaitArgs : Overdraws(t, w, s)
<1>1. WaitsInv => TypeOK
  BY Zenon DEF WaitsInv
<1>2. TypeOK /\ [Next]_vars => [Step]_vars
  BY Zenon, SemaphoreStep
<1>3. Spec => [][Step]_vars
  <2>. HIDE DEF Step
  <2>. QED BY <1>1, <1>2, WaitsCorrect, PTL DEF Spec
<1>. QED BY Zenon, <1>3 DEF OnlyRepeatsExceed
=============================================================================
