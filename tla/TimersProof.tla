---------------------------- MODULE TimersProof -----------------------------
(***************************************************************************)
(* Proofs about module Timers, for any threads, timers, delays and bounds: *)
(* the list of timeouts stays in order, a thread that sleeps with a        *)
(* timeout stays in it, the main fiber never sleeps past a timeout and     *)
(* never gives up while something could still run.                         *)
(***************************************************************************)
EXTENDS Timers, WellFoundedInduction, TLAPS

All == Threads \cup NtTimers

(* The list l is in order, by what is left of each timeout in r.           *)
Sorted(l, r) == \A i, j \in DOMAIN l : i < j => r[l[i]] <= r[l[j]] /\ l[i] # l[j]

(* A sleeping thread is not in the run list, and with a timeout it is in   *)
(* the list l; no other thread is.                                         *)
Sleepers(l, lk, iw, w) ==
  \A t \in Threads : /\ iw[t] => t \notin lk
                     /\ iw[t] /\ w[t].timed => t \in Elems(l)
                     /\ t \in Elems(l) => w[t].timed

(* The main fiber is alone when it says so.                                *)
MainIsAlone == main = "alone" => linked = {}

(* The inductive invariant.                                                *)
TimersInv == /\ TypeOK
             /\ Sorted(list, rem)
             /\ Sleepers(list, linked, inWait, wait)
             /\ MainIsAlone
             /\ QuitsOnlyStuck
             /\ SleepInTime

-----------------------------------------------------------------------------
(* The list *)

(* A set of places has a first one.                                        *)
LEMMA FirstIsFirst ==
  ASSUME NEW S \in SUBSET Nat, S # {}
  PROVE  First(S) \in S /\ \A n \in S : First(S) <= n
<1>1. PICK m \in S : \A n \in S : ~(<<n, m>> \in OpToRel(<, Nat))
  BY Zenon, NatLessThanWellFounded, WFMin
<1>2. \A n \in S : ~(n < m)
  BY <1>1, Zenon DEF OpToRel
<1>3. \A n \in S : m <= n
  BY <1>2
<1> QED BY Zenon, <1>3 DEF First

(* add and check_timers both stop at the first timeout that is later.      *)
LEMMA FirstAfterSplits ==
  ASSUME rem \in [All -> 0 .. Forever], NEW l \in Seq(All), NEW d \in Nat
  PROVE  /\ FirstAfter(l, d) \in 1 .. (Len(l) + 1)
         /\ \A i \in 1 .. (FirstAfter(l, d) - 1) : i \in DOMAIN l /\ rem[l[i]] <= d
         /\ FirstAfter(l, d) <= Len(l) => rem[l[FirstAfter(l, d)]] > d
<1> DEFINE S == {i \in DOMAIN l : rem[l[i]] > d} \cup {Len(l) + 1}
           n == First(S)
<1>1. DOMAIN l = 1 .. Len(l) /\ Len(l) \in Nat /\ \A i \in DOMAIN l : l[i] \in All
  OBVIOUS
<1>2. S \in SUBSET Nat /\ S # {}
  BY <1>1
<1>3. n \in S /\ \A i \in S : n <= i
  <2> HIDE DEF S
  <2> QED BY Zenon, <1>2, FirstIsFirst
<1>4. FirstAfter(l, d) = n
  BY Zenon DEF FirstAfter
<1> HIDE DEF n
<1>5. n \in 1 .. (Len(l) + 1) /\ (n <= Len(l) => rem[l[n]] > d)
  BY <1>1, <1>3
<1>6. ASSUME NEW i \in 1 .. (n - 1) PROVE i \in DOMAIN l /\ rem[l[i]] <= d
  <2>1. i \in DOMAIN l /\ i \notin S
    BY <1>1, <1>3, <1>5
  <2>2. ~(rem[l[i]] > d)
    BY Zenon, <2>1
  <2>3. rem[l[i]] \in 0 .. Forever
    BY Zenon, <1>1, <2>1
  <2> QED BY <2>1, <2>2, <2>3, TimerAssumption
<1> QED BY Zenon, <1>4, <1>5, <1>6

(* timeout_t::add keeps the order.                                         *)
LEMMA AddKeeps ==
  ASSUME rem \in [All -> 0 .. Forever], NEW l \in Seq(All), Sorted(l, rem),
         NEW x \in All, x \notin Elems(l), NEW d \in 0 .. Forever,
         NEW r, r[x] = d, \A y \in Elems(l) : r[y] = rem[y]
  PROVE  /\ add(l, x, d) \in Seq(All)
         /\ Elems(add(l, x, d)) = Elems(l) \cup {x}
         /\ Sorted(add(l, x, d), r)
<1> DEFINE n == FirstAfter(l, d)
           a == add(l, x, d)
<1>1. DOMAIN l = 1 .. Len(l) /\ Len(l) \in Nat /\ \A i \in DOMAIN l : l[i] \in All
  OBVIOUS
<1>0. d \in Nat
  BY TimerAssumption
<1>2. /\ n \in 1 .. (Len(l) + 1)
      /\ \A i \in 1 .. (n - 1) : i \in DOMAIN l /\ rem[l[i]] <= d
      /\ n <= Len(l) => rem[l[n]] > d
  BY Zenon, <1>0, FirstAfterSplits
<1>3. a = insert(l, n, x)
  BY Zenon DEF add
<1> HIDE DEF n, a
<1>4. a = [j \in 1 .. (Len(l) + 1) |-> IF j < n THEN l[j] ELSE IF j = n THEN x ELSE l[j - 1]]
  BY Zenon, <1>3 DEF insert
<1>5. a \in Seq(All) /\ Elems(a) = Elems(l) \cup {x}
  BY <1>2, <1>3, InsertElems
<1>6. DOMAIN a = 1 .. (Len(l) + 1)
  BY Zenon, <1>4
<1>7. \A i \in DOMAIN l : r[l[i]] = rem[l[i]] /\ rem[l[i]] \in 0 .. Forever /\ l[i] # x
  BY Zenon, <1>1 DEF Elems
<1>8. \A i \in DOMAIN l : n <= i => rem[l[i]] > d
  <2>1. SUFFICES ASSUME NEW i \in DOMAIN l, n < i PROVE rem[l[i]] > d
    BY <1>1, <1>2
  <2>2. n \in DOMAIN l /\ rem[l[n]] > d /\ rem[l[n]] <= rem[l[i]]
    BY <1>1, <1>2, <2>1 DEF Sorted
  <2> QED BY SMTT(20), <1>7, <2>2, TimerAssumption
<1>9. ASSUME NEW i \in DOMAIN a, NEW j \in DOMAIN a, i < j
      PROVE  r[a[i]] <= r[a[j]] /\ a[i] # a[j]
  <2>1. CASE i = n
    <3>1. a[i] = x /\ a[j] = l[j - 1] /\ j - 1 \in DOMAIN l /\ n <= j - 1
      BY <1>1, <1>2, <1>4, <1>6, <1>9, <2>1
    <3> QED BY <1>7, <1>8, <3>1, TimerAssumption
  <2>2. CASE j = n
    <3>1. a[j] = x /\ a[i] = l[i] /\ i \in 1 .. (n - 1) /\ i \in DOMAIN l
      BY <1>1, <1>2, <1>4, <1>6, <1>9, <2>2
    <3> QED BY Zenon, <1>2, <1>7, <3>1
  <2>3. CASE i # n /\ j # n
    <3>1. PICK i1, j1 \in DOMAIN l : i1 < j1 /\ a[i] = l[i1] /\ a[j] = l[j1]
      <4> DEFINE b(k) == IF k < n THEN k ELSE k - 1
      <4>1. b(i) \in DOMAIN l /\ b(j) \in DOMAIN l /\ b(i) < b(j)
        <5>1. /\ Len(l) \in Nat /\ n \in 1 .. (Len(l) + 1) /\ i # n /\ j # n /\ i < j
              /\ i \in 1 .. (Len(l) + 1) /\ j \in 1 .. (Len(l) + 1)
          BY Zenon, <1>1, <1>2, <1>6, <1>9, <2>3
        <5>2. b(i) \in 1 .. Len(l) /\ b(j) \in 1 .. Len(l)
          BY SMTT(20), <5>1
        <5>3. b(i) < b(j)
          BY <5>1
        <5> QED BY Zenon, <1>1, <5>2, <5>3
      <4>2. \A k \in 1 .. (Len(l) + 1) : k # n => a[k] = l[b(k)]
        BY Zenon, <1>2, <1>4
      <4>3. a[i] = l[b(i)] /\ a[j] = l[b(j)]
        BY Zenon, <1>6, <2>3, <4>2
      <4> HIDE DEF b
      <4> QED BY Zenon, <4>1, <4>3
    <3> QED BY <1>7, <3>1 DEF Sorted
  <2> QED BY Zenon, <2>1, <2>2, <2>3
<1> QED BY Zenon, <1>5, <1>9 DEF a, Sorted

(* timeout_t::remove keeps the order.                                      *)
LEMMA RemoveKeeps ==
  ASSUME NEW l \in Seq(All), Sorted(l, rem), NEW x,
         NEW r, \A y \in Elems(l) : y # x => r[y] = rem[y]
  PROVE  /\ Without(l, x) \in Seq(All)
         /\ Elems(Without(l, x)) = Elems(l) \ {x}
         /\ Sorted(Without(l, x), r)
<1> DEFINE w == Without(l, x)
<1>1. Distinct(l)
  <2>1. \A i, j \in DOMAIN l : i < j \/ j < i \/ i = j
    OBVIOUS
  <2> QED BY Zenon, <2>1 DEF Distinct, Sorted
<1>2. w \in Seq(All) /\ Elems(w) = Elems(l) \ {x}
  BY Zenon, <1>1, WithoutElems
<1>3. ASSUME NEW i \in DOMAIN w, NEW j \in DOMAIN w, i < j
      PROVE  r[w[i]] <= r[w[j]] /\ w[i] # w[j]
  <2>1. PICK m, n \in DOMAIN l : m < n /\ w[i] = l[m] /\ w[j] = l[n]
    BY <1>3, WithoutOrder
  <2>2. r[w[i]] = rem[w[i]] /\ r[w[j]] = rem[w[j]]
    BY Zenon, <1>2 DEF Elems
  <2> QED BY <2>1, <2>2 DEF Sorted
<1> QED BY Zenon, <1>2, <1>3 DEF Sorted

(* check_timers drops what is due from the head, and nothing else.         *)
LEMMA DropKeeps ==
  ASSUME rem \in [All -> 0 .. Forever], list \in Seq(All), Sorted(list, rem),
         NEW rest, rest = SubSeq(list, FirstAfter(list, 0), Len(list))
  PROVE  /\ rest \in Seq(All)
         /\ Elems(rest) = Elems(list) \ Due
         /\ Sorted(rest, rem)
<1> DEFINE n == FirstAfter(list, 0)
<1>1. DOMAIN list = 1 .. Len(list) /\ Len(list) \in Nat /\ \A i \in DOMAIN list : list[i] \in All
  OBVIOUS
<1>2. n \in 1 .. (Len(list) + 1)
  BY Zenon, FirstAfterSplits
<1>3. Due = {list[i] : i \in 1 .. (n - 1)}
  BY Zenon DEF Due
<1>4. rest = SubSeq(list, n, Len(list))
  BY Zenon
<1> HIDE DEF n
<1>5. rest \in Seq(All) /\ DOMAIN rest = 1 .. (Len(list) + 1 - n) /\ Places(rest, list, n)
  BY ZenonT(40), <1>2, <1>4, SuffixElems
<1>6. /\ \A i \in DOMAIN rest : /\ i + n - 1 \in DOMAIN list /\ n <= i + n - 1
                                /\ rest[i] = list[i + n - 1]
      /\ \A j \in DOMAIN list : n <= j => j + 1 - n \in DOMAIN rest /\ rest[j + 1 - n] = list[j]
  BY Zenon, <1>5 DEF Places
<1>7. ASSUME NEW y \in Elems(rest) PROVE y \in Elems(list) /\ y \notin Due
  <2>1. PICK i \in DOMAIN rest : y = rest[i]
    BY Zenon DEF Elems
  <2>2. PICK j \in DOMAIN list : n <= j /\ y = list[j]
    BY Zenon, <1>6, <2>1
  <2>3. \A k \in 1 .. (n - 1) : k \in DOMAIN list /\ k < j
    BY <1>1, <1>2, <2>2
  <2> QED BY Zenon, <1>3, <2>2, <2>3 DEF Elems, Sorted
<1>8. ASSUME NEW y \in Elems(list), y \notin Due PROVE y \in Elems(rest)
  <2>1. PICK j \in DOMAIN list : y = list[j]
    BY Zenon DEF Elems
  <2>2. n <= j
    BY <1>1, <1>2, <1>3, <1>8, <2>1
  <2>3. j + 1 - n \in DOMAIN rest /\ rest[j + 1 - n] = list[j]
    BY Zenon, <1>6, <2>2
  <2> QED BY Zenon, <2>1, <2>3 DEF Elems
<1>9. Sorted(rest, rem)
  <2>1. SUFFICES ASSUME NEW i \in DOMAIN rest, NEW j \in DOMAIN rest, i < j
                 PROVE  rem[rest[i]] <= rem[rest[j]] /\ rest[i] # rest[j]
    BY Zenon DEF Sorted
  <2>2. i + n - 1 < j + n - 1
    BY <1>2, <1>5, <2>1
  <2> DEFINE i1 == i + n - 1
             j1 == j + n - 1
  <2>3. i1 \in DOMAIN list /\ j1 \in DOMAIN list /\ rest[i] = list[i1] /\ rest[j] = list[j1]
    BY Zenon, <1>6
  <2> HIDE DEF i1, j1
  <2>4. i1 < j1
    BY Zenon, <2>2 DEF i1, j1
  <2> QED BY Zenon, <2>3, <2>4 DEF Sorted
<1> QED BY Zenon, <1>5, <1>7, <1>8, <1>9

-----------------------------------------------------------------------------
(* The steps *)

(* get_int_timeout rounds up to whole milliseconds, and stays an int.      *)
LEMMA TimeoutRounded ==
  ASSUME NEW d \in Nat
  PROVE  LET ms == get_int_timeout(d)
         IN /\ ms * MsTicks \in 0 .. IntMax * MsTicks
            /\ ms * MsTicks < d + MsTicks
            /\ d <= ms * MsTicks \/ ms * MsTicks = IntMax * MsTicks
<1> DEFINE q == (d + MsTicks - 1) \div MsTicks
           ms == get_int_timeout(d)
<1>1. MsTicks \in Nat /\ MsTicks > 0 /\ IntMax \in Nat
  BY TimerAssumption
<1>2. q \in Nat /\ q * MsTicks <= d + MsTicks - 1 /\ d <= q * MsTicks
  BY <1>1
<1>3. ms = IF q < IntMax THEN q ELSE IntMax
  BY Zenon DEF get_int_timeout
<1> HIDE DEF q, ms
<1>4. CASE q < IntMax
  <2>1. q * MsTicks <= IntMax * MsTicks /\ q * MsTicks \in Nat
    BY <1>1, <1>2, <1>4
  <2> QED BY <1>1, <1>2, <1>3, <1>4, <2>1 DEF ms
<1>5. CASE ~(q < IntMax)
  <2>1. IntMax * MsTicks <= q * MsTicks /\ q * MsTicks \in Nat /\ IntMax * MsTicks \in Nat
    BY <1>1, <1>2, <1>5
  <2> QED BY <1>1, <1>2, <1>3, <1>5, <2>1 DEF ms
<1> QED BY Zenon, <1>4, <1>5

(* Nothing is said of the main fiber while it is at the top of its loop.   *)
LEMMA MainYielded ==
  ASSUME main' = "yielded"
  PROVE  MainIsAlone' /\ QuitsOnlyStuck' /\ SleepInTime'
BY Zenon DEF MainIsAlone, QuitsOnlyStuck, SleepInTime

(* check_timers expires what is due, and starts those it wakes.            *)
LEMMA CheckKeeps ==
  ASSUME TimersInv, check_timers
  PROVE  /\ list' \in Seq(All) /\ Sorted(list', rem)
         /\ expired' \in [NtTimers -> BOOLEAN] /\ linked' \in SUBSET Threads
         /\ inWait' \in [Threads -> BOOLEAN]
         /\ Sleepers(list', linked', inWait', wait)
<1>1. rem \in [All -> 0 .. Forever] /\ list \in Seq(All) /\ Sorted(list, rem)
  BY Zenon DEF TimersInv, TypeOK, All
<1>2. list' = SubSeq(list, FirstAfter(list, 0), Len(list))
  BY Zenon DEF check_timers
<1>3. list' \in Seq(All) /\ Elems(list') = Elems(list) \ Due /\ Sorted(list', rem)
  BY Zenon, <1>1, <1>2, DropKeeps
<1>4. expired' \in [NtTimers -> BOOLEAN]
  <2>1. expired' = [x \in NtTimers |-> expired[x] \/ x \in Due]
    BY Zenon DEF check_timers
  <2> QED BY <2>1, Zenon
<1>5. linked' \in SUBSET Threads
  BY Zenon DEF check_timers, Woken, TimersInv, TypeOK
<1>6. inWait' = [t \in Threads |-> inWait[t] /\ t \notin Woken(Due)]
  BY Zenon DEF check_timers
<1>7. inWait' \in [Threads -> BOOLEAN]
  BY <1>6, Zenon
<1>8. Sleepers(list', linked', inWait', wait)
  <2>1. SUFFICES ASSUME NEW t \in Threads
                 PROVE  /\ inWait'[t] => t \notin linked'
                        /\ inWait'[t] /\ wait[t].timed => t \in Elems(list')
                        /\ t \in Elems(list') => wait[t].timed
    BY Zenon DEF Sleepers
  <2>2. inWait'[t] <=> inWait[t] /\ t \notin Woken(Due)
    BY Zenon, <1>6
  <2>3. inWait[t] /\ t \notin Woken(Due) => t \notin Due
    BY Zenon DEF Woken
  <2>4. linked' = linked \cup Woken(Due)
    BY Zenon DEF check_timers
  <2>5. /\ inWait[t] => t \notin linked
        /\ inWait[t] /\ wait[t].timed => t \in Elems(list)
        /\ t \in Elems(list) => wait[t].timed
    BY Zenon DEF TimersInv, Sleepers
  <2> QED BY Zenon, <1>3, <2>2, <2>3, <2>4, <2>5
<1> QED BY Zenon, <1>3, <1>4, <1>5, <1>7, <1>8

(* satisfy takes the thread's timeout out, and may put the timer in.       *)
LEMMA SatisfyKeeps ==
  ASSUME TimersInv, NEW t \in Threads, NEW x \in NtTimers, Satisfy(t, x)
  PROVE  /\ list' \in Seq(All) /\ rem' \in [All -> 0 .. Forever] /\ Sorted(list', rem')
         /\ Elems(list') \cap Threads = (Elems(list) \ {t}) \cap Threads
         /\ expired' \in [NtTimers -> BOOLEAN] /\ failed' \in BOOLEAN
         /\ interval' = interval
<1>1. rem \in [All -> 0 .. Forever] /\ list \in Seq(All) /\ Sorted(list, rem)
  BY Zenon DEF TimersInv, TypeOK, All
<1>2. x # t /\ x \in All /\ x \notin Threads /\ interval[x] \in 0 .. Forever
  <2>1. interval[x] \in {0, Period} /\ Period \in Nat /\ Forever \in Nat /\ Period < Forever
    BY Zenon, TimerAssumption DEF TimersInv, TypeOK
  <2> QED BY <2>1, TimerAssumption DEF All
<1>3. interval' = interval /\ failed' \in BOOLEAN
  BY Zenon DEF Satisfy
<1>4. expired' \in [NtTimers -> BOOLEAN]
  <2>1. expired \in [NtTimers -> BOOLEAN] /\ (x \notin Sync) \in BOOLEAN
    BY Zenon DEF TimersInv, TypeOK
  <2>2. expired' = [expired EXCEPT ![x] = x \notin Sync]
    BY Zenon DEF Satisfy
  <2> QED BY Zenon, <2>1, <2>2
<1>5. CASE interval[x] # 0 /\ ~AddFails(x)
  <2>1. /\ list' = add(remove(t), x, interval[x])
        /\ rem' = [y \in DOMAIN rem |-> IF y = t THEN 0 ELSE IF y = x THEN interval[x] ELSE rem[y]]
    BY Zenon, <1>5 DEF Satisfy
  <2>2. remove(t) = Without(list, t)
    BY Zenon DEF remove
  <2>3. /\ remove(t) \in Seq(All) /\ Elems(remove(t)) = Elems(list) \ {t}
        /\ Sorted(remove(t), rem)
    BY <1>1, <2>2, RemoveKeeps
  <2>4. x \notin Elems(remove(t))
    BY Zenon, <1>5, <2>3 DEF AddFails
  <2>5. rem' \in [All -> 0 .. Forever]
    BY <1>1, <1>2, <2>1, TimerAssumption
  <2>6. rem'[x] = interval[x] /\ \A y \in Elems(remove(t)) : rem'[y] = rem[y]
    <3>1. \A y \in Elems(remove(t)) : y \in All
      BY <2>3 DEF Elems
    <3> QED BY Zenon, <1>1, <1>2, <2>1, <2>3, <2>4, <3>1
  <2> DEFINE l == remove(t)
             r == rem'
  <2>7. l \in Seq(All) /\ Sorted(l, rem) /\ x \notin Elems(l)
    BY Zenon, <2>3, <2>4
  <2>8. r[x] = interval[x] /\ \A y \in Elems(l) : r[y] = rem[y]
    BY Zenon, <2>6
  <2>9. /\ add(l, x, interval[x]) \in Seq(All)
        /\ Elems(add(l, x, interval[x])) = Elems(l) \cup {x}
        /\ Sorted(add(l, x, interval[x]), r)
    <3> HIDE DEF l, r
    <3> QED BY Zenon, <1>1, <1>2, <2>7, <2>8, AddKeeps
  <2> QED BY Zenon, <1>2, <1>3, <1>4, <2>1, <2>3, <2>5, <2>9
<1>6. CASE ~(interval[x] # 0 /\ ~AddFails(x))
  <2>1. /\ list' = Without(list, t)
        /\ rem' = [y \in DOMAIN rem |-> IF y = t THEN 0 ELSE rem[y]]
    BY Zenon, <1>6 DEF Satisfy, remove
  <2>2. rem' \in [All -> 0 .. Forever] /\ \A y \in Elems(list) : y # t => rem'[y] = rem[y]
    <3>1. \A y \in Elems(list) : y \in All
      BY <1>1 DEF Elems
    <3> QED BY <1>1, <2>1, <3>1, TimerAssumption
  <2> DEFINE r == rem'
  <2>3. \A y \in Elems(list) : y # t => r[y] = rem[y]
    BY Zenon, <2>2
  <2>4. /\ Without(list, t) \in Seq(All) /\ Elems(Without(list, t)) = Elems(list) \ {t}
        /\ Sorted(Without(list, t), r)
    <3> HIDE DEF r
    <3> QED BY Zenon, <1>1, <2>3, RemoveKeeps
  <2> QED BY Zenon, <1>3, <1>4, <2>1, <2>2, <2>4
<1> QED BY Zenon, <1>5, <1>6

LEMMA InitInv == Init => TimersInv
<1> SUFFICES ASSUME Init PROVE TimersInv
  BY Zenon
<1>1. TypeOK
  <2>1. IntMax * MsTicks \in Nat /\ Forever \in Nat
    BY TimerAssumption
  <2>2. until \in 0 .. IntMax * MsTicks
    BY <2>1 DEF Init
  <2>3. rem \in [Threads \cup NtTimers -> 0 .. Forever]
    BY <2>1 DEF Init
  <2>4. wait \in [Threads -> [on : NtTimers \cup {NONE}, timed : BOOLEAN]]
    BY Zenon DEF Init, NoWait
  <2>5. /\ expired \in [NtTimers -> BOOLEAN] /\ inWait \in [Threads -> BOOLEAN]
        /\ failed \in BOOLEAN
    BY Zenon DEF Init
  <2>6. list \in Seq(Threads \cup NtTimers) /\ linked \in SUBSET Threads
    BY DEF Init
  <2>7. interval \in [NtTimers -> {0, Period}] /\ main \in {"yielded", "alone", "poll", "quit"}
    BY Zenon DEF Init
  <2> QED BY Zenon, <2>2, <2>3, <2>4, <2>5, <2>6, <2>7 DEF TypeOK
<1>2. list = <<>> /\ main = "yielded" /\ Elems(list) = {} /\ inWait = [t \in Threads |-> FALSE]
  BY DEF Init, Elems
<1>3. Sorted(list, rem) /\ Sleepers(list, linked, inWait, wait)
  BY <1>2 DEF Sorted, Sleepers
<1> QED BY Zenon, <1>1, <1>2, <1>3 DEF TimersInv, MainIsAlone, QuitsOnlyStuck, SleepInTime

(* Time takes as much off the later of two timeouts as off the earlier.    *)
LEMMA TickKeeps ==
  ASSUME TimersInv, Tick
  PROVE  TimersInv'
<1>1. /\ rem \in [All -> 0 .. Forever] /\ list \in Seq(All) /\ Sorted(list, rem)
      /\ Forever \in Nat
  BY Zenon, TimerAssumption DEF TimersInv, TypeOK, All
<1>2. rem' = [x \in All |-> IF rem[x] \in {0, Forever} THEN rem[x] ELSE rem[x] - 1]
  BY Zenon, <1>1 DEF Tick
<1>3. rem' \in [All -> 0 .. Forever]
  BY <1>1, <1>2
<1>4. UNCHANGED <<list, expired, interval, linked, inWait, wait, main, failed>>
  BY Zenon DEF Tick
<1>5. until' \in 0 .. IntMax * MsTicks /\ until' <= until /\ (until' > 0 => until' = until - 1)
  BY TimerAssumption DEF Tick, TimersInv, TypeOK
<1>6. TypeOK'
  BY Zenon, <1>3, <1>4, <1>5 DEF TimersInv, TypeOK, All
<1>7. \A i \in DOMAIN list : list[i] \in All
  BY <1>1
<1>8. Sorted(list', rem')
  <2>1. SUFFICES ASSUME NEW i \in DOMAIN list, NEW j \in DOMAIN list, i < j
                 PROVE  rem'[list[i]] <= rem'[list[j]] /\ list[i] # list[j]
    BY Zenon, <1>4 DEF Sorted
  <2>2. rem[list[i]] <= rem[list[j]] /\ list[i] # list[j]
    BY Zenon, <1>1, <2>1 DEF Sorted
  <2>3. rem[list[i]] \in 0 .. Forever /\ rem[list[j]] \in 0 .. Forever
    BY Zenon, <1>1, <1>7
  <2>4. \A x \in All : rem'[x] = IF rem[x] \in {0, Forever} THEN rem[x] ELSE rem[x] - 1
    BY Zenon, <1>2
  <2>5. /\ rem'[list[i]] = IF rem[list[i]] \in {0, Forever} THEN rem[list[i]] ELSE rem[list[i]] - 1
        /\ rem'[list[j]] = IF rem[list[j]] \in {0, Forever} THEN rem[list[j]] ELSE rem[list[j]] - 1
    BY Zenon, <1>7, <2>4
  <2> QED BY <1>1, <2>2, <2>3, <2>5
<1>9. SleepInTime'
  <2>1. SUFFICES ASSUME main = "poll", until' > 0, list # <<>>
                 PROVE  until' < rem'[Head(list)] + MsTicks
    BY Zenon, <1>4 DEF SleepInTime
  <2> DEFINE x == Head(list)
  <2>2. x \in All
    BY <1>1, <2>1
  <2> HIDE DEF x
  <2>3. until \in Nat /\ until > 0 /\ until' = until - 1 /\ MsTicks \in Nat
    BY <1>5, <2>1, TimerAssumption DEF TimersInv, TypeOK
  <2>4. until < rem[x] + MsTicks
    BY Zenon, <2>1, <2>3 DEF TimersInv, SleepInTime, x
  <2>5. rem'[x] \in Nat /\ rem'[x] >= rem[x] - 1 /\ rem[x] \in Nat
    BY <1>1, <1>2, <2>2
  <2>6. until' < rem'[x] + MsTicks
    BY <2>3, <2>4, <2>5
  <2> QED BY Zenon, <2>6 DEF x
<1>10. Sleepers(list', linked', inWait', wait') /\ MainIsAlone' /\ QuitsOnlyStuck'
  BY Zenon, <1>4 DEF TimersInv, Sleepers, MainIsAlone, QuitsOnlyStuck
<1> QED BY Zenon, <1>6, <1>8, <1>9, <1>10 DEF TimersInv

(* The timeout of x, with d left, goes in the list.                        *)
LEMMA PutKeeps ==
  ASSUME TimersInv, NEW x \in All, x \notin Elems(list), NEW d \in 0 .. Forever,
         list' = add(list, x, d), rem' = [rem EXCEPT ![x] = d]
  PROVE  /\ list' \in Seq(All) /\ rem' \in [All -> 0 .. Forever]
         /\ Elems(list') = Elems(list) \cup {x} /\ Sorted(list', rem')
<1>1. rem \in [All -> 0 .. Forever] /\ list \in Seq(All) /\ Sorted(list, rem)
  BY Zenon DEF TimersInv, TypeOK, All
<1> DEFINE r == rem'
<1>2. r \in [All -> 0 .. Forever] /\ r[x] = d
  BY Zenon, <1>1
<1>3. \A y \in Elems(list) : r[y] = rem[y]
  <2>1. \A y \in Elems(list) : y \in All /\ y # x
    BY <1>1 DEF Elems
  <2> QED BY Zenon, <1>1, <2>1
<1>4. /\ add(list, x, d) \in Seq(All)
      /\ Elems(add(list, x, d)) = Elems(list) \cup {x}
      /\ Sorted(add(list, x, d), r)
  <2> HIDE DEF r
  <2> QED BY Zenon, <1>1, <1>2, <1>3, AddKeeps
<1> QED BY Zenon, <1>2, <1>4

LEMMA SetTimerKeeps ==
  ASSUME TimersInv, NEW t \in Threads, NEW x \in NtTimers, NEW relative \in BOOLEAN,
         NEW d \in Delays, NEW period \in {0, Period},
         NtSetTimer(t, x, relative, d, period)
  PROVE  TimersInv'
<1>1. rem \in [All -> 0 .. Forever] /\ list \in Seq(All) /\ Sorted(list, rem)
  BY Zenon DEF TimersInv, TypeOK, All
<1>2. UNCHANGED <<linked, inWait, wait, main, until>> /\ main' = "yielded"
  BY Zenon DEF NtSetTimer, mainvars, Runs
<1>3. interval' \in [NtTimers -> {0, Period}]
  BY Zenon DEF NtSetTimer, TimersInv, TypeOK
<1>3a. failed' \in BOOLEAN
  <2>1. CASE relative /\ d = 0
    BY Zenon, <2>1 DEF NtSetTimer, TimersInv, TypeOK
  <2>2. CASE ~(relative /\ d = 0)
    <3>1. failed' = (x \in Elems(list))
      BY Zenon, <2>2 DEF NtSetTimer, AddFails
    <3> QED BY <3>1
  <2> QED BY Zenon, <2>1, <2>2
<1>4. expired' \in [NtTimers -> BOOLEAN]
  <2>1. expired \in [NtTimers -> BOOLEAN]
    BY Zenon DEF TimersInv, TypeOK
  <2>2. expired' = [expired EXCEPT ![x] = TRUE] \/ expired' = [expired EXCEPT ![x] = FALSE]
    BY Zenon DEF NtSetTimer
  <2> QED BY Zenon, <2>1, <2>2
<1>5. /\ list' \in Seq(All) /\ rem' \in [All -> 0 .. Forever] /\ Sorted(list', rem')
      /\ Elems(list') \cap Threads = Elems(list) \cap Threads
  <2>1. CASE (relative /\ d = 0) \/ AddFails(x)
    <3>1. list' = list /\ rem' = rem
      BY Zenon, <2>1 DEF NtSetTimer
    <3> QED BY Zenon, <1>1, <3>1
  <2>2. CASE ~(relative /\ d = 0) /\ ~AddFails(x)
    <3>1. list' = add(list, x, d) /\ rem' = [rem EXCEPT ![x] = d]
      BY Zenon, <2>2 DEF NtSetTimer
    <3>2. x \in All /\ x \notin Threads /\ x \notin Elems(list) /\ d \in 0 .. Forever
      BY Zenon, <2>2, TimerAssumption DEF AddFails, All
    <3>3. /\ list' \in Seq(All) /\ rem' \in [All -> 0 .. Forever]
          /\ Elems(list') = Elems(list) \cup {x} /\ Sorted(list', rem')
      BY Zenon, <3>1, <3>2, PutKeeps
    <3> QED BY Zenon, <3>2, <3>3
  <2> QED BY Zenon, <2>1, <2>2
<1>6. TypeOK'
  BY Zenon, <1>2, <1>3, <1>4, <1>5, <1>3a DEF TimersInv, TypeOK, All
<1>7. Sleepers(list', linked', inWait', wait')
  BY Zenon, <1>2, <1>5 DEF TimersInv, Sleepers
<1> QED BY Zenon, <1>2, <1>5, <1>6, <1>7, MainYielded DEF TimersInv

LEMMA CancelTimerKeeps ==
  ASSUME TimersInv, NEW t \in Threads, NEW x \in NtTimers, NtCancelTimer(t, x)
  PROVE  TimersInv'
<1>1. rem \in [All -> 0 .. Forever] /\ list \in Seq(All) /\ Sorted(list, rem)
  BY Zenon DEF TimersInv, TypeOK, All
<1>2. UNCHANGED <<interval, linked, inWait, wait, main, until, failed>> /\ main' = "yielded"
  BY Zenon DEF NtCancelTimer, mainvars, Runs
<1>3. expired' \in [NtTimers -> BOOLEAN]
  <2>1. expired \in [NtTimers -> BOOLEAN] /\ expired' = [expired EXCEPT ![x] = FALSE]
    BY Zenon DEF NtCancelTimer, TimersInv, TypeOK
  <2> QED BY Zenon, <2>1
<1>4. list' = Without(list, x) /\ rem' = [rem EXCEPT ![x] = 0]
  BY Zenon DEF NtCancelTimer, remove
<1> DEFINE r == rem'
<1>5. r \in [All -> 0 .. Forever]
  <2>1. 0 \in 0 .. Forever
    BY TimerAssumption
  <2> QED BY Zenon, <1>1, <1>4, <2>1
<1>6. \A y \in Elems(list) : y # x => r[y] = rem[y]
  <2>1. \A y \in Elems(list) : y \in All
    BY <1>1 DEF Elems
  <2> QED BY Zenon, <1>1, <1>4, <2>1
<1>7. /\ Without(list, x) \in Seq(All) /\ Elems(Without(list, x)) = Elems(list) \ {x}
      /\ Sorted(Without(list, x), r)
  <2> HIDE DEF r
  <2> QED BY Zenon, <1>1, <1>6, RemoveKeeps
<1>8. list' \in Seq(All) /\ Sorted(list', rem')
  BY Zenon, <1>4, <1>7
<1>9. TypeOK'
  BY Zenon, <1>2, <1>3, <1>5, <1>8 DEF TimersInv, TypeOK, All
<1>10. \A u \in Threads : u \in Elems(list') <=> u \in Elems(list)
  BY Zenon, <1>4, <1>7, TimerAssumption
<1>11. Sleepers(list', linked', inWait', wait')
  BY Zenon, <1>2, <1>10 DEF TimersInv, Sleepers
<1> QED BY Zenon, <1>2, <1>8, <1>9, <1>11, MainYielded DEF TimersInv

LEMMA WaitOnKeeps ==
  ASSUME TimersInv, NEW t \in Threads, NEW x \in NtTimers \cup {NONE}, NEW timed \in BOOLEAN,
         NEW relative \in BOOLEAN, NEW d \in Delays, WaitOn(t, x, timed, relative, d)
  PROVE  TimersInv'
<1>1. rem \in [All -> 0 .. Forever] /\ list \in Seq(All) /\ Sorted(list, rem)
  BY Zenon DEF TimersInv, TypeOK, All
<1>2. UNCHANGED <<main, until>> /\ main' = "yielded" /\ t \in linked /\ wait[t] = NoWait
  BY Zenon DEF WaitOn, mainvars, Runs
<1>3. t \notin Elems(list) /\ ~inWait[t]
  <2>1. (inWait[t] => t \notin linked) /\ (t \in Elems(list) => wait[t].timed)
    BY Zenon DEF TimersInv, Sleepers
  <2>2. ~wait[t].timed
    BY <1>2 DEF NoWait
  <2> QED BY Zenon, <1>2, <2>1, <2>2
<1>4. CASE Signalled(x)
  <2>1. x \in NtTimers /\ Satisfy(t, x) /\ UNCHANGED <<linked, inWait, wait>>
    BY Zenon, <1>4 DEF WaitOn, Signalled
  <2>2. /\ list' \in Seq(All) /\ rem' \in [All -> 0 .. Forever] /\ Sorted(list', rem')
        /\ Elems(list') \cap Threads = (Elems(list) \ {t}) \cap Threads
        /\ expired' \in [NtTimers -> BOOLEAN] /\ failed' \in BOOLEAN
        /\ interval' = interval
    BY Zenon, <2>1, SatisfyKeeps
  <2>3. TypeOK'
    BY Zenon, <1>2, <2>1, <2>2 DEF TimersInv, TypeOK, All
  <2>4. Sleepers(list', linked', inWait', wait')
    BY Zenon, <1>3, <2>1, <2>2 DEF TimersInv, Sleepers
  <2> QED BY Zenon, <1>2, <2>2, <2>3, <2>4, MainYielded DEF TimersInv
<1>5. CASE ~Signalled(x)
  <2>1. /\ wait' = [wait EXCEPT ![t] = [on |-> x, timed |-> timed]]
        /\ linked' = linked \ {t}
        /\ inWait' = [inWait EXCEPT ![t] = TRUE]
        /\ UNCHANGED <<expired, interval, failed>>
    BY Zenon, <1>5 DEF WaitOn
  <2>2. AtLeast(relative, d) \in 0 .. Forever
    BY TimerAssumption DEF AtLeast
  <2>3. /\ list' \in Seq(All) /\ rem' \in [All -> 0 .. Forever] /\ Sorted(list', rem')
        /\ Elems(list') = IF timed THEN Elems(list) \cup {t} ELSE Elems(list)
    <3>1. CASE timed
      <4>1. /\ list' = add(list, t, AtLeast(relative, d))
            /\ rem' = [rem EXCEPT ![t] = AtLeast(relative, d)]
        BY Zenon, <1>5, <3>1 DEF WaitOn
      <4>2. t \in All
        BY Zenon DEF All
      <4> QED BY Zenon, <1>3, <2>2, <3>1, <4>1, <4>2, PutKeeps
    <3>2. CASE ~timed
      <4>1. list' = list /\ rem' = rem
        BY Zenon, <1>5, <3>2 DEF WaitOn
      <4> QED BY Zenon, <1>1, <3>2, <4>1
    <3> QED BY Zenon, <3>1, <3>2
  <2>4. TypeOK'
    BY Zenon, <1>2, <2>1, <2>3 DEF TimersInv, TypeOK, All
  <2>5. Sleepers(list', linked', inWait', wait')
    <3>1. SUFFICES ASSUME NEW u \in Threads
                   PROVE  /\ inWait'[u] => u \notin linked'
                          /\ inWait'[u] /\ wait'[u].timed => u \in Elems(list')
                          /\ u \in Elems(list') => wait'[u].timed
      BY Zenon DEF Sleepers
    <3>2. inWait \in [Threads -> BOOLEAN] /\ DOMAIN wait = Threads
      BY Zenon DEF TimersInv, TypeOK
    <3>3. CASE u = t
      <4>1. wait'[u].timed = timed
        BY Zenon, <2>1, <3>2, <3>3
      <4> QED BY Zenon, <1>3, <2>1, <2>3, <3>3, <4>1
    <3>4. CASE u # t
      <4>1. wait'[u] = wait[u] /\ inWait'[u] = inWait[u]
        BY Zenon, <2>1, <3>2, <3>4
      <4>2. u \in Elems(list') <=> u \in Elems(list)
        BY Zenon, <2>3, <3>4
      <4> QED BY Zenon, <2>1, <4>1, <4>2 DEF TimersInv, Sleepers
    <3> QED BY Zenon, <3>3, <3>4
  <2> QED BY Zenon, <1>2, <2>3, <2>4, <2>5, MainYielded DEF TimersInv
<1> QED BY Zenon, <1>4, <1>5

LEMMA ResumedKeeps ==
  ASSUME TimersInv, NEW t \in Threads, Resumed(t)
  PROVE  TimersInv'
<1>1. rem \in [All -> 0 .. Forever] /\ list \in Seq(All) /\ Sorted(list, rem)
  BY Zenon DEF TimersInv, TypeOK, All
<1>2. /\ UNCHANGED <<main, until>> /\ main' = "yielded" /\ t \in linked
      /\ wait[t] \in [on : NtTimers \cup {NONE}, timed : BOOLEAN]
  BY Zenon DEF Resumed, mainvars, Runs, TimersInv, TypeOK
<1>3. ~inWait[t]
  BY Zenon, <1>2 DEF TimersInv, Sleepers
<1>4. /\ NoWait \in [on : NtTimers \cup {NONE}, timed : BOOLEAN] /\ ~NoWait.timed
      /\ inWait \in [Threads -> BOOLEAN] /\ DOMAIN wait = Threads
  BY Zenon DEF NoWait, TimersInv, TypeOK
<1>5. CASE /\ Signalled(wait[t].on) /\ Satisfy(t, wait[t].on)
           /\ wait' = [wait EXCEPT ![t] = NoWait] /\ UNCHANGED <<linked, inWait>>
  <2> DEFINE x == wait[t].on
  <2>1. x \in NtTimers /\ Satisfy(t, x)
    BY Zenon, <1>2, <1>5 DEF Signalled
  <2> HIDE DEF x
  <2>2. /\ list' \in Seq(All) /\ rem' \in [All -> 0 .. Forever] /\ Sorted(list', rem')
        /\ Elems(list') \cap Threads = (Elems(list) \ {t}) \cap Threads
        /\ expired' \in [NtTimers -> BOOLEAN] /\ failed' \in BOOLEAN
        /\ interval' = interval
    BY Zenon, <2>1, SatisfyKeeps
  <2>3. TypeOK'
    BY Zenon, <1>2, <1>4, <1>5, <2>2 DEF TimersInv, TypeOK, All
  <2>4. wait'[t] = NoWait /\ \A u \in Threads \ {t} : wait'[u] = wait[u]
    BY Zenon, <1>4, <1>5
  <2>5. Sleepers(list', linked', inWait', wait')
    BY Zenon, <1>3, <1>4, <1>5, <2>2, <2>4 DEF TimersInv, Sleepers
  <2> QED BY Zenon, <1>2, <2>2, <2>3, <2>5, MainYielded DEF TimersInv
<1>6. CASE /\ wait[t].timed /\ t \notin Elems(list)
           /\ wait' = [wait EXCEPT ![t] = NoWait]
           /\ UNCHANGED <<timervars, linked, inWait, failed>>
  <2>1. TypeOK'
    BY Zenon, <1>2, <1>4, <1>6 DEF TimersInv, TypeOK, timervars
  <2>2. wait'[t] = NoWait /\ \A u \in Threads \ {t} : wait'[u] = wait[u]
    BY Zenon, <1>4, <1>6
  <2>3. Sleepers(list', linked', inWait', wait')
    BY Zenon, <1>3, <1>4, <1>6, <2>2 DEF TimersInv, Sleepers, timervars
  <2> QED BY Zenon, <1>1, <1>2, <1>6, <2>1, <2>3, MainYielded DEF TimersInv, timervars
<1>7. CASE /\ ~(wait[t].timed /\ t \notin Elems(list))
           /\ inWait' = [inWait EXCEPT ![t] = TRUE]
           /\ linked' = linked \ {t}
           /\ UNCHANGED <<timervars, wait, failed>>
  <2>1. TypeOK'
    BY Zenon, <1>2, <1>4, <1>7 DEF TimersInv, TypeOK, timervars
  <2>2. \A u \in Threads \ {t} : inWait'[u] = inWait[u]
    BY Zenon, <1>4, <1>7
  <2>3. Sleepers(list', linked', inWait', wait')
    BY Zenon, <1>4, <1>7, <2>2 DEF TimersInv, Sleepers, timervars
  <2> QED BY Zenon, <1>1, <1>2, <1>7, <2>1, <2>3, MainYielded DEF TimersInv, timervars
<1> QED BY Zenon, <1>5, <1>6, <1>7 DEF Resumed

(* What is not due is all in the future, so that the first of what is left *)
(* says how long to sleep.                                                 *)
LEMMA MainSleepKeeps ==
  ASSUME TimersInv, MainSleep
  PROVE  TimersInv'
<1>1. /\ check_timers /\ main = "alone" /\ UNCHANGED <<rem, interval, wait, failed>>
      /\ main' = (IF list = <<>> THEN "quit" ELSE "poll")
      /\ until' = IF list' = <<>> THEN 0 ELSE get_int_timeout(rem[Head(list')]) * MsTicks
  BY Zenon DEF MainSleep
<1>2. /\ list' \in Seq(All) /\ Sorted(list', rem)
      /\ expired' \in [NtTimers -> BOOLEAN] /\ linked' \in SUBSET Threads
      /\ inWait' \in [Threads -> BOOLEAN]
      /\ Sleepers(list', linked', inWait', wait)
  BY Zenon, <1>1, CheckKeeps
<1>3. ASSUME list' # <<>>
      PROVE  /\ until' \in 0 .. IntMax * MsTicks
             /\ until' < rem[Head(list')] + MsTicks
  <2> DEFINE e == rem[Head(list')]
  <2>1. e \in Nat
    BY <1>2, <1>3, TimerAssumption DEF TimersInv, TypeOK, All
  <2>2. until' = get_int_timeout(e) * MsTicks
    BY Zenon, <1>1, <1>3
  <2> HIDE DEF e
  <2>3. until' \in 0 .. IntMax * MsTicks /\ until' < e + MsTicks
    BY Zenon, <2>1, <2>2, TimeoutRounded
  <2> QED BY Zenon, <2>3 DEF e
<1>4. until' \in 0 .. IntMax * MsTicks
  <2>1. 0 \in 0 .. IntMax * MsTicks
    BY TimerAssumption
  <2> QED BY Zenon, <1>1, <1>3, <2>1
<1>5. TypeOK'
  BY Zenon, <1>1, <1>2, <1>4 DEF TimersInv, TypeOK, All
<1>6. QuitsOnlyStuck'
  <2>1. SUFFICES ASSUME list = <<>> PROVE linked' = {} /\ list' = <<>>
    BY Zenon, <1>1 DEF QuitsOnlyStuck
  <2>2. FirstAfter(list, 0) \in 1 .. (Len(list) + 1)
    BY Zenon, FirstAfterSplits DEF TimersInv, TypeOK, All
  <2>3. Len(list) = 0 /\ FirstAfter(list, 0) = 1
    BY <2>1, <2>2
  <2>4. Due = {} /\ list' = <<>>
    BY <1>1, <2>1, <2>3 DEF Due, check_timers
  <2>5. Woken(Due) = {}
    BY Zenon, <2>4 DEF Woken
  <2> QED BY Zenon, <1>1, <2>4, <2>5 DEF check_timers, TimersInv, MainIsAlone
<1>7. MainIsAlone' /\ SleepInTime'
  BY Zenon, <1>1, <1>3 DEF MainIsAlone, SleepInTime
<1> QED BY Zenon, <1>1, <1>2, <1>5, <1>6, <1>7 DEF TimersInv

LEMMA MainCheckKeeps ==
  ASSUME TimersInv, MainCheck
  PROVE  TimersInv'
<1>1. /\ check_timers /\ UNCHANGED <<rem, interval, wait, until, failed>>
      /\ main' = (IF linked' = {} THEN "alone" ELSE "yielded")
  BY Zenon DEF MainCheck
<1>2. /\ list' \in Seq(All) /\ Sorted(list', rem)
      /\ expired' \in [NtTimers -> BOOLEAN] /\ linked' \in SUBSET Threads
      /\ inWait' \in [Threads -> BOOLEAN]
      /\ Sleepers(list', linked', inWait', wait)
  BY Zenon, <1>1, CheckKeeps
<1>3. TypeOK'
  BY Zenon, <1>1, <1>2 DEF TimersInv, TypeOK, All
<1>4. MainIsAlone' /\ QuitsOnlyStuck' /\ SleepInTime'
  BY Zenon, <1>1 DEF MainIsAlone, QuitsOnlyStuck, SleepInTime
<1> QED BY Zenon, <1>1, <1>2, <1>3, <1>4 DEF TimersInv

LEMMA PollKeeps ==
  ASSUME TimersInv, PollEnd \/ PollInterrupted
  PROVE  TimersInv'
<1>1. /\ UNCHANGED <<list, rem, expired, interval, linked, inWait, wait, failed>>
      /\ main' = "yielded" /\ until' \in {0, until}
  BY Zenon DEF PollEnd, PollInterrupted, timervars
<1>2. until' \in 0 .. IntMax * MsTicks
  BY <1>1, TimerAssumption DEF TimersInv, TypeOK
<1>3. TypeOK'
  BY Zenon, <1>1, <1>2 DEF TimersInv, TypeOK
<1> QED BY Zenon, <1>1, <1>3, MainYielded DEF TimersInv

-----------------------------------------------------------------------------
LEMMA NextInv == TimersInv /\ [Next]_vars => TimersInv'
<1> SUFFICES ASSUME TimersInv, [Next]_vars PROVE TimersInv'
  BY Zenon
<1>1. CASE Tick
  BY Zenon, <1>1, TickKeeps
<1>2. CASE MainCheck
  BY Zenon, <1>2, MainCheckKeeps
<1>3. CASE MainSleep
  BY Zenon, <1>3, MainSleepKeeps
<1>4. CASE PollEnd \/ PollInterrupted
  BY Zenon, <1>4, PollKeeps
<1>5. ASSUME NEW t \in Threads, Resumed(t) PROVE TimersInv'
  BY Zenon, <1>5, ResumedKeeps
<1>6. ASSUME NEW t \in Threads, NEW x \in NtTimers, NEW relative \in BOOLEAN, NEW d \in Delays,
             NEW period \in {0, Period}, NtSetTimer(t, x, relative, d, period)
      PROVE  TimersInv'
  BY Zenon, <1>6, SetTimerKeeps
<1>7. ASSUME NEW t \in Threads, NEW x \in NtTimers, NtCancelTimer(t, x) PROVE TimersInv'
  BY Zenon, <1>7, CancelTimerKeeps
<1>8. ASSUME NEW t \in Threads, NEW x \in NtTimers \cup {NONE}, NEW timed \in BOOLEAN,
             NEW relative \in BOOLEAN, NEW d \in Delays, WaitOn(t, x, timed, relative, d)
      PROVE  TimersInv'
  BY Zenon, <1>8, WaitOnKeeps
<1>9. CASE UNCHANGED vars
  BY Zenon, <1>9 DEF vars, timervars, mainvars, TimersInv, TypeOK, MainIsAlone, QuitsOnlyStuck, SleepInTime
<1> QED BY Zenon, <1>1, <1>2, <1>3, <1>4, <1>5, <1>6, <1>7, <1>8, <1>9 DEF Next

(* The invariant holds of every behaviour of the timeouts, whatever the    *)
(* threads, the timers and the times that are set.                         *)
THEOREM TimersCorrect == Spec => []TimersInv
BY InitInv, NextInv, PTL DEF Spec

(* The list of timeouts is in order of expiry and holds no timeout twice,  *)
(* so assert( queue_is_valid() ) of set_timeout never fails.               *)
THEOREM QueueStaysInOrder == Spec => []QueueIsValid
<1>1. TimersInv => QueueIsValid
  BY Zenon DEF TimersInv, Sorted, QueueIsValid
<1> QED BY <1>1, TimersCorrect, PTL

(* A thread asleep with a timeout is in the list of timeouts, and one that *)
(* sleeps is not in the run list: notify() never starts a fiber twice.     *)
THEOREM SleepersAreListed == Spec => []SleeperWillWake
<1>1. TimersInv => SleeperWillWake
  BY Zenon DEF TimersInv, Sleepers, SleeperWillWake
<1> QED BY <1>1, TimersCorrect, PTL

(* schedule() gives up only when no fiber and no timeout is left.          *)
THEOREM NoEarlyQuit == Spec => []QuitsOnlyStuck
<1>1. TimersInv => QuitsOnlyStuck
  BY Zenon DEF TimersInv
<1> QED BY <1>1, TimersCorrect, PTL

(* The main fiber never sleeps a millisecond past the first timeout.       *)
THEOREM NeverLate == Spec => []SleepInTime
<1>1. TimersInv => SleepInTime
  BY Zenon DEF TimersInv
<1> QED BY <1>1, TimersCorrect, PTL

(* And it sleeps as long as it can before it, instead of spinning.         *)
THEOREM NeverSpins == Spec => SleepsLongEnough
<1> DEFINE Long == main = "alone" /\ main' = "poll" /\ list' # <<>> =>
                     rem[Head(list')] <= until' \/ until' = IntMax * MsTicks
<1>1. ASSUME TimersInv, [Next]_vars PROVE [Long]_vars
  <2>1. SUFFICES ASSUME main = "alone", main' = "poll", list' # <<>>
                 PROVE  rem[Head(list')] <= until' \/ until' = IntMax * MsTicks
    BY Zenon
  <2>2. MainSleep
    <3>1. CASE Tick
      BY Zenon, <2>1, <3>1 DEF Tick
    <3>2. CASE UNCHANGED vars
      BY Zenon, <2>1, <3>2 DEF vars, mainvars
    <3>3. main # "yielded" /\ main # "poll"
      BY Zenon, <2>1
    <3>4. ~MainCheck /\ ~PollEnd /\ ~PollInterrupted
      BY Zenon, <3>3 DEF MainCheck, PollEnd, PollInterrupted
    <3>5. \A t \in Threads : ~Runs(t)
      BY Zenon, <3>3 DEF Runs
    <3>6. ASSUME NEW t \in Threads
          PROVE  /\ ~Resumed(t)
                 /\ \A x, relative, d, period : ~NtSetTimer(t, x, relative, d, period)
                 /\ \A x : ~NtCancelTimer(t, x)
                 /\ \A x, timed, relative, d : ~WaitOn(t, x, timed, relative, d)
      BY Zenon, <3>5 DEF Resumed, NtSetTimer, NtCancelTimer, WaitOn
    <3> QED BY Zenon, <1>1, <3>1, <3>2, <3>4, <3>6 DEF Next
  <2>3. list' \in Seq(All)
    BY Zenon, <1>1, <2>2, CheckKeeps DEF MainSleep
  <2> DEFINE e == rem[Head(list')]
  <2>4. e \in Nat
    BY <1>1, <2>1, <2>3, TimerAssumption DEF TimersInv, TypeOK, All
  <2>5. until' = get_int_timeout(e) * MsTicks
    BY Zenon, <2>1, <2>2 DEF MainSleep
  <2> HIDE DEF e
  <2>6. e <= until' \/ until' = IntMax * MsTicks
    BY Zenon, <2>4, <2>5, TimeoutRounded
  <2> QED BY Zenon, <2>6 DEF e
<1> HIDE DEF Long
<1>2. Spec => [][Long]_vars
  BY <1>1, TimersCorrect, PTL DEF Spec
<1> QED BY Zenon, <1>2 DEF Long, SleepsLongEnough

-----------------------------------------------------------------------------
(* A thread that sleeps after a step slept before it, in the same wait, or *)
(* has just found its timer unsignalled.                                   *)
LEMMA SignalStep ==
  ASSUME 0 \notin Delays, TimersInv, SignalSeen, [Next]_vars
  PROVE  SignalSeen'
<1>1. SUFFICES ASSUME NEW u \in Threads, inWait'[u], wait'[u].on # NONE, expired'[wait'[u].on]
               PROVE  FALSE
  BY Zenon DEF SignalSeen, Signalled
<1>2. /\ expired \in [NtTimers -> BOOLEAN] /\ inWait \in [Threads -> BOOLEAN]
      /\ wait \in [Threads -> [on : NtTimers \cup {NONE}, timed : BOOLEAN]]
      /\ inWait[u] => u \notin linked
      /\ inWait[u] /\ wait[u].on # NONE => wait[u].on \in NtTimers /\ ~expired[wait[u].on]
  BY Zenon DEF TimersInv, TypeOK, Sleepers, SignalSeen, Signalled
<1>3. SUFFICES ASSUME inWait[u], wait'[u] = wait[u] PROVE ~expired'[wait[u].on]
  <2>1. CASE ~inWait[u]
    <3>1. PICK t \in Threads : \/ Resumed(t)
                              \/ \E x \in NtTimers \cup {NONE}, timed, relative \in BOOLEAN, d \in Delays :
                                   WaitOn(t, x, timed, relative, d)
      <4>1. CASE MainCheck \/ MainSleep
        BY Zenon, <1>1, <1>2, <2>1, <4>1 DEF MainCheck, MainSleep, check_timers
      <4>2. CASE inWait' = inWait
        BY Zenon, <1>1, <2>1, <4>2
      <4> QED BY Zenon, <4>1, <4>2 DEF Next, Tick, PollEnd, PollInterrupted, NtSetTimer, NtCancelTimer, vars
    <3>2. /\ inWait' = [inWait EXCEPT ![t] = TRUE]
          /\ expired' = expired
          /\ ~Signalled(wait'[t].on)
      <4>1. CASE Resumed(t)
        BY Zenon, <1>1, <2>1, <4>1 DEF Resumed, timervars
      <4>2. ASSUME NEW x \in NtTimers \cup {NONE}, NEW timed \in BOOLEAN, NEW relative \in BOOLEAN,
                   NEW d \in Delays, WaitOn(t, x, timed, relative, d)
            PROVE  inWait' = [inWait EXCEPT ![t] = TRUE] /\ expired' = expired /\ ~Signalled(wait'[t].on)
        <5>1. ~Signalled(x)
          BY Zenon, <1>1, <2>1, <4>2 DEF WaitOn
        <5> QED BY <1>2, <4>2, <5>1 DEF WaitOn
      <4> QED BY Zenon, <3>1, <4>1, <4>2
    <3>3. u = t
      BY Zenon, <1>1, <1>2, <2>1, <3>2
    <3> QED BY Zenon, <1>1, <3>2, <3>3 DEF Signalled
  <2>2. CASE inWait[u] /\ wait'[u] # wait[u]
    <3>1. PICK t \in linked : wait' = wait \/ \E w : wait' = [wait EXCEPT ![t] = w]
      <4>1. wait' = wait \/ \E t \in linked : \E w : wait' = [wait EXCEPT ![t] = w]
        <5>1. CASE \/ Tick \/ MainCheck \/ MainSleep \/ PollEnd \/ PollInterrupted \/ UNCHANGED vars
          BY <5>1, Zenon DEF Tick, MainCheck, MainSleep, PollEnd, PollInterrupted, vars
        <5>2. ASSUME NEW t \in Threads, Resumed(t)
              PROVE  wait' = wait \/ \E v \in linked : \E w : wait' = [wait EXCEPT ![v] = w]
          BY <5>2, Zenon DEF Resumed, Runs
        <5>3. ASSUME NEW t \in Threads, NEW x \in NtTimers \cup {NONE}, NEW timed \in BOOLEAN,
                     NEW relative \in BOOLEAN, NEW d \in Delays, WaitOn(t, x, timed, relative, d)
              PROVE  wait' = wait \/ \E v \in linked : \E w : wait' = [wait EXCEPT ![v] = w]
          BY <5>3, Zenon DEF WaitOn, Runs
        <5>4. ASSUME NEW t \in Threads, NEW x, NEW relative, NEW d, NEW period,
                     NtSetTimer(t, x, relative, d, period) \/ NtCancelTimer(t, x)
              PROVE  wait' = wait
          BY <5>4, Zenon DEF NtSetTimer, NtCancelTimer
        <5> QED BY <5>1, <5>2, <5>3, <5>4, Zenon DEF Next
      <4> QED BY Zenon, <2>2, <4>1
    <3> QED BY Zenon, <1>2, <2>2, <3>1
  <2> QED BY Zenon, <1>1, <2>1, <2>2
<1> DEFINE x == wait[u].on
<1>4. /\ u \notin linked /\ x # NONE /\ x \in NtTimers /\ ~expired[x]
  BY Zenon, <1>1, <1>2, <1>3
<1>5. CASE MainCheck \/ MainSleep
  <2>1. check_timers
    BY Zenon, <1>5 DEF MainCheck, MainSleep
  <2>2. u \notin Woken(Due)
    BY Zenon, <1>1, <2>1 DEF check_timers
  <2>3. x \notin Due
    BY Zenon, <1>3, <2>2 DEF Woken
  <2> QED BY Zenon, <1>4, <2>1, <2>3 DEF check_timers
<1>6. ASSUME NEW t \in Threads, NEW y, Signalled(y), Satisfy(t, y) PROVE ~expired'[x]
  BY Zenon, <1>2, <1>4, <1>6 DEF Satisfy, Signalled
<1>7. ASSUME NEW t \in Threads, NEW y \in NtTimers, NEW relative \in BOOLEAN, NEW d \in Delays,
             NEW period \in {0, Period}, NtSetTimer(t, y, relative, d, period)
      PROVE  ~expired'[x]
  <2>1. expired' = [expired EXCEPT ![y] = FALSE]
    BY Zenon, <1>7 DEF NtSetTimer
  <2> QED BY Zenon, <1>2, <1>4, <2>1
<1>8. ASSUME NEW t \in Threads, NEW y \in NtTimers, NtCancelTimer(t, y) PROVE ~expired'[x]
  BY Zenon, <1>2, <1>4, <1>8 DEF NtCancelTimer
<1>9. CASE expired' = expired
  BY Zenon, <1>4, <1>9
<1> QED
  <2>1. ASSUME NEW t \in Threads, Resumed(t) PROVE ~expired'[x]
    BY Zenon, <1>6, <1>9, <2>1 DEF Resumed, timervars
  <2>2. ASSUME NEW t \in Threads, NEW y \in NtTimers \cup {NONE}, NEW timed \in BOOLEAN,
               NEW relative \in BOOLEAN, NEW d \in Delays, WaitOn(t, y, timed, relative, d)
        PROVE  ~expired'[x]
    BY Zenon, <1>6, <1>9, <2>2 DEF WaitOn
  <2>3. CASE Tick \/ PollEnd \/ PollInterrupted \/ UNCHANGED vars
    BY <1>9, <2>3, Zenon DEF Tick, PollEnd, PollInterrupted, vars, timervars
  <2> QED BY <1>5, <1>7, <1>8, <2>1, <2>2, <2>3, Zenon DEF Next

(* No thread sleeps on a timer that is signalled, unless NtSetTimer is     *)
(* given a relative due time of 0, which signals without notifying.        *)
THEOREM NoSignalMissed ==
  ASSUME 0 \notin Delays
  PROVE  Spec => []SignalSeen
<1>1. Init => SignalSeen
  BY Zenon DEF Init, SignalSeen
<1>2. TimersInv /\ SignalSeen /\ [Next]_vars => SignalSeen'
  BY Zenon, SignalStep
<1> QED BY <1>1, <1>2, TimersCorrect, PTL DEF Spec
=============================================================================
