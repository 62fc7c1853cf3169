---------------------------- MODULE FibersProof -----------------------------
(***************************************************************************)
(* For any number of fibers, the run list stays one well-formed cycle      *)
(* through the main fiber, the asserts of remove_from_runlist never fail,  *)
(* and the main fiber sleeps only when no thread is runnable.              *)
(***************************************************************************)
EXTENDS Fibers, Lists, FiniteSetTheorems, WellFoundedInduction, TLAPS

(* The inductive invariant.  RingLinked alone would allow a thread linked  *)
(* to itself beside the main fiber's list; OneCycle rules that out.        *)
FiberInv == TypeOK /\ RingLinked /\ OneCycle /\ ModeLinked

(* The facts about the current fiber's neighbours that the list            *)
(* operations use.                                                         *)
LEMMA Neighbours ==
  ASSUME TypeOK, RingLinked
  PROVE  /\ current \in Fiber /\ current # NULL
         /\ next[current] \in Fiber /\ next[current] # NULL
         /\ prev[current] \in Fiber /\ prev[current] # NULL
         /\ prev[next[current]] = current /\ next[prev[current]] = current
         /\ Linked(next[current]) /\ Linked(prev[current]) /\ Linked(current)
  BY Zenon, FiberAssumption DEF RingLinked, Linked, Fiber, Threads, TypeOK

(* A thread is never alone in the list: the main fiber is there as well.   *)
LEMMA ThreadNotAlone ==
  ASSUME TypeOK, RingLinked, OneCycle, current \in Threads
  PROVE  next[current] # current /\ prev[current] # current
<1>1. current # Main
  BY Zenon, FiberAssumption DEF Threads
<1>2. next[current] # current
  <2>1. SUFFICES ASSUME next[current] = current PROVE FALSE
    BY Zenon
  <2>2. {current} \in SUBSET {f \in Fiber : Linked(f)}
    BY Zenon, Neighbours
  <2>3. Main \in {current}
    BY Zenon, <2>1, <2>2 DEF OneCycle
  <2>. QED BY Zenon, <1>1, <2>3
<1>. QED BY Zenon, <1>2, Neighbours

(* A step that leaves the links alone and switches to a runnable fiber.    *)
LEMMA SwitchKeepsRing ==
  ASSUME TypeOK, RingLinked, OneCycle, UNCHANGED <<next, prev>>,
         current' \in Fiber, Linked(current')
  PROVE  RingLinked' /\ OneCycle'
  BY Zenon DEF RingLinked, OneCycle, Linked

(* yield() goes to a runnable fiber.                                       *)
LEMMA YieldToLinked ==
  ASSUME TypeOK, RingLinked, yield
  PROVE  current' \in Fiber /\ Linked(current')
  BY Zenon, Neighbours DEF yield

(* remove_from_runlist followed by yield().                                *)
LEMMA StopKeepsRing ==
  ASSUME TypeOK, RingLinked, OneCycle, current \in Threads, stop
  PROVE  /\ next' \in [Fiber -> Fiber \cup {NULL}]
         /\ prev' \in [Fiber -> Fiber \cup {NULL}]
         /\ current' \in Fiber
         /\ RingLinked' /\ OneCycle'
         /\ \A f \in Fiber : Linked(f)' = (Linked(f) /\ f # current)
<1>1. current # Main
  BY Zenon, FiberAssumption DEF Threads
<1>2. /\ next' \in [Fiber -> Fiber \cup {NULL}]
      /\ prev' \in [Fiber -> Fiber \cup {NULL}]
      /\ current' = next[current]
  BY Zenon, Neighbours DEF stop, yield, TypeOK
<1>3. \A f \in Fiber : Linked(f)' = (Linked(f) /\ f # current)
  BY Zenon, Neighbours, ThreadNotAlone DEF stop, Linked
<1>4. RingLinked'
  <2>1. Linked(Main)' /\ Linked(current)'
    BY Zenon, <1>1, <1>2, <1>3, Neighbours, ThreadNotAlone DEF RingLinked, Fiber, Linked
  <2>2. ASSUME NEW f \in Fiber, Linked(f)'
        PROVE  /\ next'[f] \in Fiber /\ Linked(next[f])'
               /\ prev'[f] \in Fiber /\ Linked(prev[f])'
               /\ prev'[next'[f]] = f
               /\ next'[prev'[f]] = f
    <3>1. Linked(f) /\ f # current
      BY Zenon, <1>3, <2>2
    <3>2. /\ next[f] \in Fiber /\ Linked(next[f])
          /\ prev[f] \in Fiber /\ Linked(prev[f])
          /\ prev[next[f]] = f /\ next[prev[f]] = f
      BY Zenon, <3>1 DEF RingLinked
    <3>3. next'[f] = (IF f = prev[current] THEN next[current] ELSE next[f])
      BY Zenon DEF stop
    <3>4. prev'[f] = (IF f = next[current] THEN prev[current] ELSE prev[f])
      BY Zenon, <3>1 DEF stop
    <3>5. next'[f] \in Fiber /\ next'[f] # current /\ Linked(next[f])'
      BY Zenon, <1>3, <3>1, <3>2, <3>3, Neighbours, ThreadNotAlone DEF Linked
    <3>6. prev'[f] \in Fiber /\ prev'[f] # current /\ Linked(prev[f])'
      BY Zenon, <1>3, <3>1, <3>2, <3>4, Neighbours, ThreadNotAlone DEF Linked
    <3>7. prev'[next'[f]] = f
      BY Zenon, <3>1, <3>2, <3>3, <3>5, Neighbours DEF stop
    <3>8. next'[prev'[f]] = f
      BY Zenon, <3>1, <3>2, <3>4, <3>6, Neighbours DEF stop
    <3>. QED BY Zenon, <3>5, <3>6, <3>7, <3>8
  <2>. QED BY Zenon, <2>1, <2>2 DEF RingLinked
<1>5. OneCycle'
  <2>1. SUFFICES ASSUME NEW S \in SUBSET {f \in Fiber : Linked(f)'}, S # {},
                        \A f \in S : next'[f] \in S
                 PROVE  Main \in S
    BY Zenon DEF OneCycle
  <2>2. S \in SUBSET {f \in Fiber : Linked(f)} /\ current \notin S
    BY Zenon, <1>3, <2>1
  <2>3. CASE prev[current] \notin S
    <3>1. \A f \in S : next[f] \in S
      BY Zenon, <2>1, <2>2, <2>3 DEF stop
    <3>. QED BY Zenon, <2>1, <2>2, <3>1 DEF OneCycle
  <2>4. CASE prev[current] \in S
    <3>1. S \cup {current} \in SUBSET {f \in Fiber : Linked(f)}
      BY Zenon, <2>2, Neighbours
    <3>2. \A f \in S : next[f] \in S \cup {current}
      BY Zenon, <2>1, <2>2, Neighbours DEF stop
    <3>3. next[current] \in S
      BY Zenon, <2>1, <2>4, Neighbours DEF stop
    <3>4. Main \in S \cup {current}
      BY Zenon, <3>1, <3>2, <3>3 DEF OneCycle
    <3>. QED BY Zenon, <1>1, <3>4
  <2>. QED BY Zenon, <2>3, <2>4
<1>. QED BY Zenon, <1>2, <1>3, <1>4, <1>5, Neighbours

(* start() of a fiber that is not in the list.                             *)
LEMMA StartKeepsRing ==
  ASSUME TypeOK, RingLinked, OneCycle,
         NEW g \in Threads, prev[g] = NULL, start(g), current' = current
  PROVE  /\ next' \in [Fiber -> Fiber \cup {NULL}]
         /\ prev' \in [Fiber -> Fiber \cup {NULL}]
         /\ RingLinked' /\ OneCycle'
         /\ \A f \in Fiber : Linked(f)' = (Linked(f) \/ f = g)
<1>1. g \in Fiber /\ g # NULL /\ ~Linked(g) /\ g # current /\ g # next[current]
  BY Zenon, FiberAssumption, Neighbours DEF Fiber, Threads, Linked
<1>2. /\ next' \in [Fiber -> Fiber \cup {NULL}]
      /\ prev' \in [Fiber -> Fiber \cup {NULL}]
  BY Zenon, <1>1, Neighbours DEF start, TypeOK
<1>3. \A f \in Fiber : Linked(f)' = (Linked(f) \/ f = g)
  BY Zenon, <1>1, Neighbours DEF start, Linked
<1>4. RingLinked'
  <2>1. Linked(Main)' /\ Linked(current)'
    BY Zenon, <1>3, Neighbours DEF RingLinked, Fiber, Linked
  <2>2. ASSUME NEW f \in Fiber, Linked(f)'
        PROVE  /\ next'[f] \in Fiber /\ Linked(next[f])'
               /\ prev'[f] \in Fiber /\ Linked(prev[f])'
               /\ prev'[next'[f]] = f
               /\ next'[prev'[f]] = f
    <3>1. CASE f = g
      <4>1. next'[f] = next[current] /\ prev'[f] = current
        BY Zenon, <1>1, <3>1 DEF start
      <4>2. prev'[next[current]] = g /\ next'[current] = g
        BY Zenon, Neighbours DEF start
      <4>. QED BY Zenon, <1>3, <3>1, <4>1, <4>2, Neighbours DEF Linked
    <3>2. CASE f # g
      <4>1. Linked(f)
        BY Zenon, <1>3, <2>2, <3>2
      <4>2. /\ next[f] \in Fiber /\ Linked(next[f])
            /\ prev[f] \in Fiber /\ Linked(prev[f])
            /\ prev[next[f]] = f /\ next[prev[f]] = f
        BY Zenon, <4>1 DEF RingLinked
      <4>3. next'[f] = (IF f = current THEN g ELSE next[f])
        BY Zenon, <3>2 DEF start
      <4>4. prev'[f] = (IF f = next[current] THEN g ELSE prev[f])
        BY Zenon, <3>2 DEF start
      <4>5. next'[f] \in Fiber /\ Linked(next[f])'
        BY Zenon, <1>1, <1>3, <4>2, <4>3 DEF Linked
      <4>6. prev'[f] \in Fiber /\ Linked(prev[f])'
        BY Zenon, <1>1, <1>3, <4>2, <4>4 DEF Linked
      <4>7. prev'[next'[f]] = f
        BY Zenon, <1>1, <4>2, <4>3, <4>5, Neighbours DEF start
      <4>8. next'[prev'[f]] = f
        BY Zenon, <1>1, <4>2, <4>4, <4>6, Neighbours DEF start
      <4>. QED BY Zenon, <4>5, <4>6, <4>7, <4>8
    <3>. QED BY Zenon, <3>1, <3>2
  <2>. QED BY Zenon, <2>1, <2>2 DEF RingLinked
<1>5. OneCycle'
  <2>1. SUFFICES ASSUME NEW S \in SUBSET {f \in Fiber : Linked(f)'}, S # {},
                        \A f \in S : next'[f] \in S
                 PROVE  Main \in S
    BY Zenon DEF OneCycle
  <2>2. S \ {g} \in SUBSET {f \in Fiber : Linked(f)}
    BY Zenon, <1>3, <2>1
  <2>3. S \ {g} # {}
    BY Zenon, <1>1, <2>1, Neighbours DEF start
  <2>4. ASSUME NEW f \in S \ {g} PROVE next[f] \in S \ {g}
    <3>1. next[f] # g
      BY Zenon, <1>1, <2>2, <2>4 DEF RingLinked
    <3>2. CASE f = current
      BY Zenon, <1>1, <2>1, <2>4, <3>1, <3>2, Neighbours DEF start
    <3>3. CASE f # current
      BY Zenon, <2>1, <2>4, <3>1, <3>3 DEF start
    <3>. QED BY Zenon, <3>2, <3>3
  <2>. QED BY Zenon, <2>2, <2>3, <2>4 DEF OneCycle
<1>. QED BY Zenon, <1>2, <1>3, <1>4, <1>5

LEMMA FiberInit == Init => FiberInv
<1>. SUFFICES ASSUME Init PROVE FiberInv
  BY Zenon
<1>1. TypeOK /\ RingLinked /\ ModeLinked
  BY FiberAssumption
  DEF Init, TypeOK, RingLinked, ModeLinked, Linked, Fiber, Threads, Modes
<1>2. {f \in Fiber : Linked(f)} = {Main}
  BY Zenon, FiberAssumption DEF Init, Linked, Fiber, Threads
<1>3. OneCycle
  BY ZenonT(40), <1>2 DEF OneCycle
<1>. QED BY Zenon, <1>1, <1>3 DEF FiberInv

LEMMA FiberStep == FiberInv /\ [Next]_vars => FiberInv'
<1>. SUFFICES ASSUME FiberInv, [Next]_vars PROVE FiberInv'
  BY Zenon
<1>. USE DEF FiberInv
<1>1. ASSUME NEW g \in Threads, Start(g) PROVE FiberInv'
  <2>1. /\ next' \in [Fiber -> Fiber \cup {NULL}]
        /\ prev' \in [Fiber -> Fiber \cup {NULL}]
        /\ RingLinked' /\ OneCycle'
        /\ \A f \in Fiber : Linked(f)' = (Linked(f) \/ f = g)
    BY Zenon, <1>1, StartKeepsRing DEF Start
  <2>2. TypeOK'
    BY Zenon, <1>1, <2>1 DEF TypeOK, Start, Modes
  <2>3. ModeLinked'
    BY Zenon, <1>1, <2>1, FiberAssumption DEF ModeLinked, TypeOK, Start, Modes, Fiber
  <2>. QED BY Zenon, <2>1, <2>2, <2>3
<1>2. CASE Block
  <2>1. /\ next' \in [Fiber -> Fiber \cup {NULL}]
        /\ prev' \in [Fiber -> Fiber \cup {NULL}]
        /\ current' \in Fiber
        /\ RingLinked' /\ OneCycle'
        /\ \A f \in Fiber : Linked(f)' = (Linked(f) /\ f # current)
    BY Zenon, <1>2, StopKeepsRing DEF Block
  <2>2. TypeOK'
    BY Zenon, <1>2, <2>1 DEF TypeOK, Block, Modes
  <2>3. ModeLinked'
    BY Zenon, <1>2, <2>1 DEF ModeLinked, TypeOK, Block, Fiber
  <2>. QED BY Zenon, <2>1, <2>2, <2>3
<1>3. CASE Exit
  <2>1. /\ next' \in [Fiber -> Fiber \cup {NULL}]
        /\ prev' \in [Fiber -> Fiber \cup {NULL}]
        /\ current' \in Fiber
        /\ RingLinked' /\ OneCycle'
        /\ \A f \in Fiber : Linked(f)' = (Linked(f) /\ f # current)
    BY Zenon, <1>3, StopKeepsRing DEF Exit
  <2>2. TypeOK'
    BY Zenon, <1>3, <2>1 DEF TypeOK, Exit, Modes
  <2>3. ModeLinked'
    BY Zenon, <1>3, <2>1 DEF ModeLinked, TypeOK, Exit, Fiber
  <2>. QED BY Zenon, <2>1, <2>2, <2>3
<1>4. CASE Slice
  <2>1. current' \in Fiber /\ Linked(current')
    BY Zenon, <1>4, YieldToLinked, Neighbours DEF Slice
  <2>2. RingLinked' /\ OneCycle'
    BY Zenon, <1>4, <2>1, SwitchKeepsRing DEF Slice
  <2>3. slice' \in [Users -> 0 .. Slices + 1]
    <3>1. /\ slice \in [Users -> 0 .. Slices + 1] /\ current \in Users
          /\ slice[current] \in 0 .. Slices + 1 /\ Slices \in Nat
      BY Zenon, <1>4, FiberAssumption DEF TypeOK, Slice
    <3>2. CASE slice[current] <= Slices
      <4>1. slice[current] + 1 \in 0 .. Slices + 1
        BY <3>1, <3>2
      <4>. QED BY Zenon, <1>4, <3>1, <3>2, <4>1 DEF Slice
    <3>3. CASE ~(slice[current] <= Slices)
      <4>1. 0 \in 0 .. Slices + 1
        BY <3>1
      <4>. QED BY Zenon, <1>4, <3>1, <3>3, <4>1 DEF Slice
    <3>. QED BY Zenon, <3>2, <3>3
  <2>3a. TypeOK'
    BY Zenon, <1>4, <2>1, <2>3 DEF TypeOK, Slice, Modes
  <2>4. ModeLinked'
    BY Zenon, <1>4, Neighbours DEF ModeLinked, TypeOK, Slice, Linked
  <2>. QED BY Zenon, <2>2, <2>3a, <2>4
<1>5. CASE YieldExecution \/ Schedule
  <2>1. current' \in Fiber /\ Linked(current')
    BY Zenon, <1>5, YieldToLinked DEF YieldExecution, Schedule
  <2>2. RingLinked' /\ OneCycle'
    BY Zenon, <1>5, <2>1, SwitchKeepsRing DEF YieldExecution, Schedule
  <2>3. TypeOK' /\ ModeLinked'
    BY Zenon, <1>5, <2>1 DEF TypeOK, ModeLinked, Linked, YieldExecution, Schedule
  <2>. QED BY Zenon, <2>2, <2>3
<1>6. CASE UNCHANGED vars
  BY Zenon, <1>6 DEF vars, TypeOK, RingLinked, OneCycle, ModeLinked, Linked
<1>. QED BY Zenon, <1>1, <1>2, <1>3, <1>4, <1>5, <1>6 DEF Next, Progress

(* The run list of fiber.cpp is a well-formed single cycle at all times,   *)
(* for any set of threads.                                                 *)
THEOREM RunListCorrect == Spec => []FiberInv
  BY FiberInit, FiberStep, PTL DEF Spec

(* The asserts of remove_from_runlist (fiber.cpp:117) never fail.          *)
THEOREM StopAsserts == Spec => []StopAssertsHold
<1>1. FiberInv => StopAssertsHold
  BY Zenon, Neighbours DEF FiberInv, StopAssertsHold, LinksIntact
<1>. QED BY <1>1, RunListCorrect, PTL

(* When last_fiber() tells the main fiber that it is alone, no thread is   *)
(* in the run list.                                                        *)
THEOREM LastFiberExact == Spec => []LastFiberAlone
<1>1. ASSUME FiberInv PROVE LastFiberAlone
  <2>. USE <1>1 DEF FiberInv
  <2>1. SUFFICES ASSUME current = Main, last_fiber, NEW t \in Threads, Linked(t)
                 PROVE  FALSE
    BY Zenon DEF LastFiberAlone
  <2>. DEFINE S == {f \in Fiber : Linked(f)} \ {Main}
  <2>2. t \in S
    BY Zenon, <2>1, FiberAssumption DEF Fiber, Threads
  <2>3. ASSUME NEW f \in S PROVE next[f] \in S
    BY <2>1, <2>3, FiberAssumption DEF last_fiber, RingLinked
  <2>. HIDE DEF S
  <2>4. S \in SUBSET {f \in Fiber : Linked(f)} /\ Main \notin S
    BY Zenon DEF S
  <2>. QED BY Zenon, <2>2, <2>3, <2>4 DEF OneCycle
<1>. QED BY <1>1, RunListCorrect, PTL

-----------------------------------------------------------------------------
(* s is the queue that the links nx make of the fibers L, from c on.       *)
IsRing(s, nx, c, L) ==
  /\ s \in Seq(L) /\ s # <<>>
  /\ Distinct(s) /\ Elems(s) = L
  /\ s[1] = c
  /\ \A i \in 1 .. Len(s) - 1 : nx[s[i]] = s[i + 1]
  /\ nx[s[Len(s)]] = c

(* Any set of numbers that is not empty has a least one.                   *)
LEMMA Least ==
  ASSUME NEW T \in SUBSET Nat, T # {}
  PROVE  \E m \in T : \A k \in T : m <= k
<1>1. PICK m \in T : \A k \in T : ~(<<k, m>> \in OpToRel(<, Nat))
  BY Zenon, NatLessThanWellFounded, WFMin
<1>2. ASSUME NEW k \in T PROVE m <= k
  <2>1. ~(k < m)
    BY Zenon, <1>1 DEF OpToRel
  <2>. QED BY <2>1
<1>. QED BY Zenon, <1>2

(* A queue is met by following its links.                                  *)
LEMMA WalkIsRing ==
  ASSUME NEW s, NEW nx, NEW c, NEW L, IsRing(s, nx, c, L)
  PROVE  Walk(nx, c, Cardinality(L)) = s
<1>. DEFINE n == Len(s)
<1>1. s \in [1 .. n -> L] /\ n \in Nat \ {0}
  BY DEF IsRing
<1>2. Cardinality(L) = n
  <2>1. DOMAIN s = 1 .. n
    BY Zenon, <1>1
  <2>2. IsInjective(s)
    BY Zenon, <2>1 DEF IsRing, Distinct, IsInjective
  <2>3. \A x \in L : \E i \in 1 .. n : s[i] = x
    BY Zenon, <2>1 DEF IsRing, Elems
  <2>4. s \in Bijection(1 .. n, L)
    BY Zenon, <1>1, <2>2, <2>3 DEF Bijection, Injection, Surjection
  <2>. QED BY Zenon, <1>1, <2>4, FS_CountingElements DEF ExistsBijection
<1>. DEFINE IsWalk(h) == h = [i \in 1 .. n |-> IF i = 1 THEN c ELSE nx[h[i - 1]]]
            w == CHOOSE h : IsWalk(h)
<1>3. Walk(nx, c, n) = w
  BY Zenon DEF Walk
<1>4. IsWalk(s)
  <2>1. \A i \in 1 .. n : s[i] = IF i = 1 THEN c ELSE nx[s[i - 1]]
    BY <1>1 DEF IsRing
  <2>. QED BY Zenon, <1>1, <2>1
<1>. HIDE DEF IsWalk
<1>5. IsWalk(w)
  BY Zenon, <1>4
<1>. HIDE DEF w
<1>6. w = s
  <2>1. SUFFICES ASSUME w # s PROVE FALSE
    BY Zenon
  <2>. DEFINE T == {i \in 1 .. n : w[i] # s[i]}
  <2>2. T \in SUBSET Nat /\ T # {}
    BY SMTT(20), <1>1, <1>5, <2>1 DEF IsWalk
  <2>3. PICK m \in T : \A k \in T : m <= k
    BY Zenon, <2>2, Least
  <2>4. m \in 1 .. n /\ w[m] # s[m] /\ m # 1
    BY Zenon, <1>4, <1>5 DEF IsWalk
  <2>5. m - 1 \in 1 .. n /\ m - 1 \notin T
    BY <1>1, <2>3, <2>4
  <2>6. w[m - 1] = s[m - 1]
    BY Zenon, <2>5
  <2>. QED BY <1>4, <1>5, <2>4, <2>6 DEF IsWalk
<1>. QED BY Zenon, <1>2, <1>3, <1>6

(* yield() sends the head of the queue to its end.                         *)
LEMMA YieldRing ==
  ASSUME NEW s, NEW nx, NEW c, NEW L, IsRing(s, nx, c, L)
  PROVE  IsRing(Append(Tail(s), Head(s)), nx, nx[c], L)
<1>. DEFINE n == Len(s)
            r == Append(Tail(s), Head(s))
<1>1. /\ s \in Seq(L) /\ s # <<>> /\ Distinct(s) /\ Elems(s) = L
      /\ s[1] = c /\ nx[s[n]] = c /\ n \in Nat \ {0}
      /\ \A i \in 1 .. n - 1 : nx[s[i]] = s[i + 1]
  BY DEF IsRing
<1>2. /\ Len(r) = n /\ r[n] = c
      /\ \A i \in 1 .. n - 1 : r[i] = s[i + 1]
  BY <1>1
<1>3. r \in Seq(L) /\ r # <<>> /\ Distinct(r) /\ Elems(r) = L
  <2>. DEFINE h == Head(s)
              t == Tail(s)
  <2>1. t \in Seq(L) /\ h \in L /\ Distinct(t) /\ Elems(t) = L \ {h}
    BY Zenon, <1>1, TailElems
  <2>. HIDE DEF h, t
  <2>2. h \notin Elems(t)
    BY Zenon, <2>1
  <2>3. /\ Append(t, h) \in Seq(L) /\ Append(t, h) # <<>>
        /\ Elems(Append(t, h)) = Elems(t) \cup {h}
        /\ Distinct(t) /\ h \notin Elems(t) => Distinct(Append(t, h))
    BY <2>1, AppendElems
  <2>. QED BY Zenon, <2>1, <2>2, <2>3 DEF h, t
<1>. HIDE DEF r, n
<1>4. r[1] = nx[c]
  BY <1>1, <1>2
<1>5. ASSUME NEW i \in 1 .. n - 1 PROVE nx[r[i]] = r[i + 1]
  <2>1. CASE i = n - 1
    BY <1>1, <1>2, <2>1
  <2>2. CASE i # n - 1
    BY <1>1, <1>2, <2>2
  <2>. QED BY Zenon, <2>1, <2>2
<1>. QED BY Zenon, <1>2, <1>3, <1>4, <1>5 DEF IsRing, r

(* stop() drops the head: the links go past it.                            *)
LEMMA StopRing ==
  ASSUME NEW s, NEW nx, NEW c, NEW L, IsRing(s, nx, c, L), Len(s) # 1,
         NEW ny, \A f \in L : ny[f] = IF nx[f] = c THEN nx[c] ELSE nx[f]
  PROVE  IsRing(Tail(s), ny, nx[c], L \ {c})
<1>. DEFINE n == Len(s)
            r == Tail(s)
<1>1. /\ s \in Seq(L) /\ s # <<>> /\ Distinct(s) /\ Elems(s) = L
      /\ s[1] = c /\ nx[s[n]] = c /\ n \in Nat \ {0, 1}
      /\ \A i \in 1 .. n : s[i] \in L
      /\ \A i \in 1 .. n - 1 : nx[s[i]] = s[i + 1]
  BY DEF IsRing
<1>2. /\ Len(r) = n - 1
      /\ \A i \in 1 .. n - 1 : r[i] = s[i + 1]
  BY <1>1
<1>3. Head(s) = c
  BY <1>1
<1>4. r \in Seq(L) /\ Distinct(r) /\ Elems(r) = L \ {c}
  BY Zenon, <1>1, <1>3, TailElems
<1>. HIDE DEF r, n
<1>5. r \in Seq(L \ {c})
  <2>1. \A i \in 1 .. Len(r) : r[i] \in L \ {c}
    BY <1>4 DEF Elems
  <2>. QED BY <1>4, <2>1
<1>6. r[1] = nx[c] /\ r # <<>>
  BY <1>1, <1>2
<1>7. \A i \in 2 .. n : s[i] # c
  BY <1>1 DEF Distinct, n
<1>8. ASSUME NEW i \in 1 .. n - 2 PROVE ny[r[i]] = r[i + 1]
  <2>1. r[i] = s[i + 1] /\ r[i + 1] = s[i + 2] /\ nx[s[i + 1]] = s[i + 2]
    BY <1>1, <1>2
  <2>2. s[i + 1] \in L /\ s[i + 2] # c
    BY <1>1, <1>7
  <2>. QED BY Zenon, <2>1, <2>2
<1>9. ny[r[n - 1]] = nx[c]
  BY <1>1, <1>2
<1>. QED BY <1>1, <1>2, <1>4, <1>5, <1>6, <1>8, <1>9 DEF IsRing, r

(* start() puts a fiber second in the queue.                               *)
LEMMA StartRing ==
  ASSUME NEW s, NEW nx, NEW c, NEW L, IsRing(s, nx, c, L), NEW g, g \notin L,
         NEW ny, ny[c] = g, ny[g] = nx[c], \A f \in L \ {c} : ny[f] = nx[f]
  PROVE  IsRing(<<Head(s), g>> \o Tail(s), ny, c, L \cup {g})
<1>. DEFINE n == Len(s)
            r == <<Head(s), g>> \o Tail(s)
<1>1. /\ s \in Seq(L) /\ s # <<>> /\ Distinct(s) /\ Elems(s) = L
      /\ s[1] = c /\ nx[s[n]] = c /\ n \in Nat \ {0}
      /\ \A i \in 1 .. n : s[i] \in L
      /\ \A i \in 1 .. n - 1 : nx[s[i]] = s[i + 1]
  BY DEF IsRing
<1>2. /\ Len(r) = n + 1 /\ r[1] = c /\ r[2] = g
      /\ \A i \in 3 .. n + 1 : r[i] = s[i - 1]
      /\ r \in Seq(L \cup {g})
  BY <1>1
<1>3. Distinct(r) /\ Elems(r) = L \cup {g}
  <2>. DEFINE M == L \cup {g}
  <2>1. s \in Seq(M) /\ g \in M /\ 2 \in 1 .. (Len(s) + 1)
    BY <1>1
  <2>2. r = insert(s, 2, g)
    BY <1>1, <1>2 DEF insert
  <2>. HIDE DEF M, r
  <2>3. /\ Elems(r) = Elems(s) \cup {g}
        /\ Distinct(s) /\ g \notin Elems(s) => Distinct(r)
    BY <2>1, <2>2, InsertElems
  <2>. QED BY Zenon, <1>1, <2>3
<1>. HIDE DEF r, n
<1>4. \A i \in 2 .. n : s[i] # c
  BY <1>1 DEF Distinct, n
<1>5. ASSUME NEW i \in 1 .. n PROVE ny[r[i]] = r[i + 1]
  <2>1. CASE i = 1
    BY <1>2, <2>1
  <2>2. CASE i = 2
    BY <1>1, <1>2, <2>2
  <2>3. CASE i > 2
    <3>1. r[i] = s[i - 1] /\ r[i + 1] = s[i] /\ s[i - 1] # c /\ nx[s[i - 1]] = s[i]
      BY <1>1, <1>2, <1>4, <2>3
    <3>. QED BY <1>1, <2>3, <3>1
  <2>. QED BY <2>1, <2>2, <2>3
<1>6. ny[r[n + 1]] = c
  <2>1. CASE n = 1
    BY <1>1, <1>2, <2>1
  <2>2. CASE n # 1
    <3>1. r[n + 1] = s[n] /\ s[n] # c /\ s[n] \in L
      BY <1>1, <1>2, <1>4, <2>2
    <3>. QED BY Zenon, <1>1, <3>1
  <2>. QED BY Zenon, <2>1, <2>2
<1>7. r # <<>>
  BY <1>1, <1>2
<1>8. n = (n + 1) - 1
  BY <1>1
<1>. QED BY Zenon, <1>2, <1>3, <1>5, <1>6, <1>7, <1>8 DEF IsRing, r

(* The links of the run list make a queue of the runnable fibers.          *)
RingInv == \E s : IsRing(s, next, current, Runnable)

LEMMA RingInit == Init => RingInv /\ Queue!Init
<1>. SUFFICES ASSUME Init PROVE RingInv /\ Queue!Init
  BY Zenon
<1>1. Runnable = {Main} /\ next[Main] = Main /\ current = Main
  BY Zenon, FiberAssumption DEF Init, Runnable, Linked, Fiber, Threads
<1>2. IsRing(<<Main>>, next, current, Runnable)
  BY <1>1 DEF IsRing, Distinct, Elems
<1>3. RingOfLinks = <<Main>>
  BY Zenon, <1>2, WalkIsRing DEF RingOfLinks
<1>. QED BY Zenon, <1>2, <1>3 DEF RingInv, Queue!Init

(* A step that switches to the next fiber and leaves the links alone.      *)
LEMMA YieldRefines ==
  ASSUME FiberInv, RingInv, yield, UNCHANGED <<next, prev>>
  PROVE  RingInv' /\ Queue!Yield
<1>1. PICK s : IsRing(s, next, current, Runnable)
  BY Zenon DEF RingInv
<1>2. RingOfLinks = s
  BY Zenon, <1>1, WalkIsRing DEF RingOfLinks
<1>3. next' = next /\ current' = next[current] /\ Runnable' = Runnable
  BY Zenon, Neighbours DEF FiberInv, yield, Runnable, Linked
<1>. DEFINE r == Append(Tail(s), Head(s))
<1>4. IsRing(r, next', current', Runnable')
  BY Zenon, <1>1, <1>3, YieldRing
<1>5. RingOfLinks' = r
  BY Zenon, <1>4, WalkIsRing DEF RingOfLinks
<1>. QED BY Zenon, <1>2, <1>4, <1>5 DEF RingInv, Queue!Yield

(* A thread that stop()s.                                                  *)
LEMMA StopRefines ==
  ASSUME FiberInv, RingInv, current \in Threads, stop
  PROVE  RingInv' /\ Queue!Stop
<1>. USE DEF FiberInv
<1>1. PICK s : IsRing(s, next, current, Runnable)
  BY Zenon DEF RingInv
<1>2. RingOfLinks = s
  BY Zenon, <1>1, WalkIsRing DEF RingOfLinks
<1>3. /\ current' = next[current]
      /\ Runnable' = Runnable \ {current}
  BY Zenon, StopKeepsRing, Neighbours DEF Runnable, stop, yield
<1>4. \A f \in Runnable : next'[f] = IF next[f] = current THEN next[current] ELSE next[f]
  <2>1. ASSUME NEW f \in Runnable PROVE next[f] = current <=> f = prev[current]
    BY Zenon, Neighbours DEF Runnable, RingLinked
  <2>2. ASSUME NEW f \in Runnable
        PROVE  next'[f] = IF f = prev[current] THEN next[current] ELSE next[f]
    BY Zenon DEF Runnable, stop
  <2>. QED BY Zenon, <2>1, <2>2
<1>5. Len(s) # 1
  BY Zenon, <1>1, ThreadNotAlone DEF IsRing
<1>6. IsRing(Tail(s), next', current', Runnable')
  BY Zenon, <1>1, <1>3, <1>4, <1>5, StopRing
<1>7. RingOfLinks' = Tail(s)
  BY Zenon, <1>6, WalkIsRing DEF RingOfLinks
<1>8. Head(s) # Main
  BY <1>1, FiberAssumption DEF IsRing, Threads
<1>. QED BY Zenon, <1>2, <1>6, <1>7, <1>8 DEF RingInv, Queue!Stop

(* A fiber that is start()ed.                                              *)
LEMMA StartRefines ==
  ASSUME FiberInv, RingInv, NEW g \in Threads, prev[g] = NULL, start(g), current' = current
  PROVE  RingInv' /\ Queue!Start(g)
<1>. USE DEF FiberInv
<1>1. PICK s : IsRing(s, next, current, Runnable)
  BY Zenon DEF RingInv
<1>2. RingOfLinks = s
  BY Zenon, <1>1, WalkIsRing DEF RingOfLinks
<1>3. g \in Fiber /\ g \notin Runnable /\ current \in Runnable
  BY Zenon, Neighbours DEF Fiber, Runnable, Linked
<1>4. Runnable' = Runnable \cup {g}
  <2>1. \A f \in Fiber : Linked(f)' = (Linked(f) \/ f = g)
    BY Zenon, StartKeepsRing
  <2>. QED BY Zenon, <1>3, <2>1 DEF Runnable
<1>5. /\ next'[current] = g /\ next'[g] = next[current]
      /\ \A f \in Runnable \ {current} : next'[f] = next[f]
  BY Zenon, <1>3, Neighbours DEF start, Runnable
<1>. DEFINE r == <<Head(s), g>> \o Tail(s)
<1>6. IsRing(r, next', current', Runnable')
  BY Zenon, <1>1, <1>3, <1>4, <1>5, StartRing
<1>7. RingOfLinks' = r
  BY Zenon, <1>6, WalkIsRing DEF RingOfLinks
<1>8. \A i \in DOMAIN s : s[i] # g
  BY Zenon, <1>1, <1>3 DEF IsRing, Elems
<1>. QED BY Zenon, <1>2, <1>6, <1>7, <1>8 DEF RingInv, Queue!Start

LEMMA RingStep ==
  FiberInv /\ RingInv /\ [Next]_vars => RingInv' /\ [Queue!Next]_RingOfLinks
<1>. SUFFICES ASSUME FiberInv, RingInv, [Next]_vars
              PROVE  RingInv' /\ [Queue!Next]_RingOfLinks
  BY Zenon
<1>1. ASSUME UNCHANGED <<next, prev, current>>
      PROVE  RingInv' /\ UNCHANGED RingOfLinks
  BY Zenon, <1>1 DEF RingInv, RingOfLinks, Runnable, Linked
<1>2. ASSUME NEW g \in Threads, Start(g) PROVE RingInv' /\ Queue!Start(g)
  BY Zenon, <1>2, StartRefines DEF Start
<1>3. CASE Block \/ Exit
  BY Zenon, <1>3, StopRefines DEF Block, Exit, Queue!Next
<1>4. CASE Slice
  <2>1. CASE slice[current] <= Slices
    BY Zenon, <1>1, <1>4, <2>1 DEF Slice
  <2>2. CASE ~(slice[current] <= Slices)
    BY Zenon, <1>4, <2>2, YieldRefines DEF Slice, Queue!Next
  <2>. QED BY Zenon, <2>1, <2>2
<1>5. CASE YieldExecution \/ Schedule
  BY Zenon, <1>5, YieldRefines DEF YieldExecution, Schedule, Queue!Next
<1>6. CASE UNCHANGED vars
  BY Zenon, <1>1, <1>6 DEF vars
<1>. QED BY Zenon, <1>2, <1>3, <1>4, <1>5, <1>6 DEF Next, Progress, Queue!Next

(* The pointer surgery of fiber.cpp implements the queue of FiberRing, for *)
(* any number of fibers: yield() sends the head to the back, start() puts  *)
(* a fiber second, stop() drops the head, and nothing else changes.        *)
THEOREM RunListIsQueue == Spec => ImplementsQueue
<1>1. FiberInv /\ Init => RingInv /\ Queue!Init
  BY Zenon, RingInit
<1>. QED BY <1>1, RingStep, RunListCorrect, PTL DEF Spec, ImplementsQueue, Queue!Spec
=============================================================================
