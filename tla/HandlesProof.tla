---------------------------- MODULE HandlesProof ----------------------------
(***************************************************************************)
(* The reference counts are exact for every number of processes, objects   *)
(* and handles; and a path, through whatever directories and links, leads  *)
(* only to objects that are there.                                         *)
(***************************************************************************)
EXTENDS Handles, Lists, FiniteSetTheorems, TLAPS

(* The cells of table t that hold o.                                       *)
Cnt(t, o) == Cardinality({c \in Cells : t[c] = o})

Tables == [Cells -> Objs \cup {NONE}]

(* The inductive invariant.  That a deleted process has no handles is      *)
(* needed because nobody would ever drop them.                             *)
HandlesInv ==
  /\ HTypeOK
  /\ RefsExact
  /\ \A c \in Cells : proc[c[1]] = "deleted" => table[c] = NONE

LEMMA CellsFinite == IsFiniteSet(Cells)
<1>1. IsFiniteSet(Slots)
  <2>1. MaxHandles - 1 \in Int
    BY HandlesAssumption
  <2> QED BY <2>1, FS_Interval DEF Slots
<1> QED BY Zenon, <1>1, HandlesAssumption, FS_Product DEF Cells

LEMMA CntType ==
  ASSUME NEW t \in Tables, NEW o \in Objs
  PROVE  /\ IsFiniteSet({c \in Cells : t[c] = o})
         /\ Cnt(t, o) \in Nat
         /\ \A c \in Cells : t[c] = o => Cnt(t, o) > 0
<1> DEFINE H == {c \in Cells : t[c] = o}
<1>1. IsFiniteSet(H)
  <2>1. H \in SUBSET Cells
    BY Zenon
  <2> QED BY Zenon, <2>1, CellsFinite, FS_Subset
<1>2. Cardinality(H) \in Nat
  BY Zenon, <1>1, FS_CardinalityType
<1>3. Cardinality(H) = 0 <=> H = {}
  BY Zenon, <1>1, FS_EmptySet
<1> QED BY <1>1, <1>2, <1>3 DEF Cnt

(* Storing v in one cell moves one reference.                              *)
LEMMA SetCell ==
  ASSUME NEW t \in Tables, NEW k \in Cells, NEW v \in Objs \cup {NONE}, NEW o \in Objs,
         NEW u, u = [c \in Cells |-> IF c = k THEN v ELSE t[c]]
  PROVE  /\ u \in Tables
         /\ Cnt(u, o) = Cnt(t, o) + (IF v = o THEN 1 ELSE 0) - (IF t[k] = o THEN 1 ELSE 0)
<1> DEFINE H == {c \in Cells : t[c] = o}
           G == {c \in Cells : u[c] = o}
<1>1. u \in Tables
  BY Zenon DEF Tables
<1>2. IsFiniteSet(H) /\ Cardinality(H) \in Nat
  BY Zenon, CntType DEF Cnt
<1>3. CASE v = o
  <2>1. G = H \cup {k}
    BY Zenon, <1>3
  <2>2. Cardinality(G) = IF k \in H THEN Cardinality(H) ELSE Cardinality(H) + 1
    BY Zenon, <2>1, <1>2, FS_AddElement
  <2>3. k \in H <=> t[k] = o
    BY Zenon
  <2> HIDE DEF H, G
  <2>4. Cardinality(G) = Cardinality(H) + 1 - (IF t[k] = o THEN 1 ELSE 0)
    BY <2>2, <2>3, <1>2
  <2> USE DEF H, G
  <2> QED BY Zenon, <1>1, <1>3, <2>4 DEF Cnt
<1>4. CASE v # o
  <2>1. G = H \ {k}
    BY Zenon, <1>4
  <2>2. Cardinality(G) = IF k \in H THEN Cardinality(H) - 1 ELSE Cardinality(H)
    BY Zenon, <2>1, <1>2, FS_RemoveElement
  <2>3. k \in H <=> t[k] = o
    BY Zenon
  <2> HIDE DEF H, G
  <2>4. Cardinality(G) = Cardinality(H) + 0 - (IF t[k] = o THEN 1 ELSE 0)
    BY <2>2, <2>3, <1>2
  <2> USE DEF H, G
  <2> QED BY Zenon, <1>1, <1>4, <2>4 DEF Cnt
<1> QED BY Zenon, <1>3, <1>4

LEMMA ClearCell ==
  ASSUME NEW t \in Tables, NEW k \in Cells, NEW o \in Objs,
         NEW u, u = [c \in Cells |-> IF c = k THEN NONE ELSE t[c]]
  PROVE  /\ u \in Tables
         /\ Cnt(u, o) = Cnt(t, o) - (IF t[k] = o THEN 1 ELSE 0)
<1> DEFINE v == NONE
<1>1. v \in Objs \cup {NONE} /\ v # o /\ Cnt(t, o) \in Nat
  BY Zenon, HandlesAssumption, CntType
<1>2. u = [c \in Cells |-> IF c = k THEN v ELSE t[c]]
  BY Zenon
<1> HIDE DEF v
<1>3. /\ u \in Tables
      /\ Cnt(u, o) = Cnt(t, o) + (IF v = o THEN 1 ELSE 0) - (IF t[k] = o THEN 1 ELSE 0)
  BY <1>1, <1>2, SetCell
<1> QED BY <1>1, <1>3

(* Every handle of a process is dropped.                                   *)
LEMMA ClearProc ==
  ASSUME NEW t \in Tables, NEW p \in Procs, NEW o \in Objs,
         NEW u, u = [c \in Cells |-> IF c[1] = p THEN NONE ELSE t[c]]
  PROVE  /\ u \in Tables
         /\ LET n == Cardinality({c \in Cells : c[1] = p /\ t[c] = o})
            IN n \in Nat /\ n <= Cnt(t, o) /\ Cnt(u, o) = Cnt(t, o) - n
<1> DEFINE H == {c \in Cells : t[c] = o}
           P == {c \in Cells : c[1] = p /\ t[c] = o}
           G == {c \in Cells : u[c] = o}
<1>1. u \in Tables
  BY Zenon DEF Tables
<1>2. IsFiniteSet(H) /\ Cardinality(H) \in Nat
  BY Zenon, CntType DEF Cnt
<1>3. P \in SUBSET H /\ H \cap P = P /\ G = H \ P
  BY Zenon, HandlesAssumption
<1>4. IsFiniteSet(P) /\ Cardinality(P) <= Cardinality(H)
  BY Zenon, <1>2, <1>3, FS_Subset
<1>5. Cardinality(P) \in Nat
  BY Zenon, <1>4, FS_CardinalityType
<1>6. Cardinality(H \ P) = Cardinality(H) - Cardinality(H \cap P)
  BY Zenon, <1>2, FS_Difference
<1>7. Cardinality(G) = Cardinality(H) - Cardinality(P)
  BY Zenon, <1>3, <1>6
<1> QED BY Zenon, <1>1, <1>4, <1>5, <1>7 DEF Cnt

-----------------------------------------------------------------------------
LEMMA AllocCounts ==
  ASSUME NEW t \in Tables, NEW acc, NEW p \in Procs, NEW o \in Objs, NEW mask,
         alloc_handle(t, acc, p, o, mask), NEW x \in Objs
  PROVE  /\ table' \in Tables
         /\ Cnt(table', x) = Cnt(t, x) + (IF x = o THEN 1 ELSE 0)
         /\ \A c \in Cells : table'[c] = t[c] \/ c[1] = p
<1>1. PICK i \in FreeIn(t, p) :
        table' = [c \in Cells |-> IF c = <<p, i>> THEN o ELSE t[c]]
  BY Zenon DEF alloc_handle
<1> DEFINE k == <<p, i>>
<1>2. k \in Cells /\ t[k] = NONE /\ k[1] = p
  BY Zenon DEF FreeIn, Cells
<1>3. t[k] # x
  BY Zenon, <1>2, HandlesAssumption
<1>4. /\ table' \in Tables
      /\ Cnt(table', x) = Cnt(t, x) + (IF o = x THEN 1 ELSE 0) - (IF t[k] = x THEN 1 ELSE 0)
  BY <1>1, <1>2, SetCell
<1>5. Cnt(t, x) \in Nat
  BY Zenon, CntType
<1>6. \A c \in Cells : table'[c] = t[c] \/ c[1] = p
  BY Zenon, <1>1, <1>2
<1> HIDE DEF k
<1> QED BY <1>3, <1>4, <1>5, <1>6

LEMMA ExactIsCnt ==
  /\ RefsExact <=> \A o \in Objs : refs[o] = Cnt(table, o) + pins[o]
  /\ RefsExact' <=> \A o \in Objs : refs'[o] = Cnt(table', o) + pins'[o]
  BY Zenon DEF RefsExact, Holders, Cnt

LEMMA InitInv == HInit => HandlesInv
<1> SUFFICES ASSUME HInit PROVE HandlesInv
  BY Zenon
<1>1. HTypeOK
  BY DEF HInit, HTypeOK
<1>2. RefsExact
  <2> SUFFICES ASSUME NEW o \in Objs PROVE refs[o] = Cnt(table, o) + pins[o]
    BY Zenon, ExactIsCnt
  <2>1. {c \in Cells : table[c] = o} = {}
    BY Zenon, HandlesAssumption DEF HInit
  <2>2. Cnt(table, o) = 0
    BY Zenon, <2>1, FS_EmptySet DEF Cnt
  <2>3. refs[o] \in Nat /\ pins[o] = refs[o]
    BY Zenon, <1>1 DEF HInit, HTypeOK
  <2> QED BY <2>2, <2>3
<1>3. \A c \in Cells : proc[c[1]] = "deleted" => table[c] = NONE
  BY Zenon DEF HInit
<1> QED BY Zenon, <1>1, <1>2, <1>3 DEF HandlesInv

(* How an action's effect on one object's count establishes the invariant. *)
LEMMA Establish ==
  ASSUME HandlesInv, table' \in Tables, pins' \in [Objs -> Nat],
         proc' \in [Procs -> {"running", "terminated", "deleted"}],
         refs' = [x \in Objs |-> refs'[x]],
         \A x \in Objs : Cnt(table', x) \in Nat /\ refs'[x] = Cnt(table', x) + pins'[x],
         \A c \in Cells : proc'[c[1]] = "deleted" => table'[c] = NONE
  PROVE  HandlesInv'
<1>1. RefsExact'
  BY Zenon, ExactIsCnt
<1>2. \A x \in Objs : refs'[x] \in Nat
  OBVIOUS
<1>3. refs' \in [Objs -> Nat]
  BY Zenon, <1>2
<1> QED BY Zenon, <1>1, <1>3 DEF HandlesInv, HTypeOK, Tables

LEMMA AcquireInv ==
  ASSUME HandlesInv, NEW p \in Procs, NEW o \in Objs, NEW mask, NEW fits \in BOOLEAN,
         pins' \in [Objs -> Nat], \A x \in Objs : pins'[x] >= pins[x],
         Acquire(p, o, fits, mask)
  PROVE  HandlesInv'
<1>1. table \in Tables /\ refs \in [Objs -> Nat] /\ pins \in [Objs -> Nat]
  BY Zenon DEF HandlesInv, HTypeOK, Tables
<1>2. \A x \in Objs : refs[x] = Cnt(table, x) + pins[x] /\ Cnt(table, x) \in Nat
  BY Zenon, <1>1, ExactIsCnt, CntType DEF HandlesInv
<1>3. \A x \in Objs : refs'[x] = refs[x] + (pins'[x] - pins[x]) + (IF fits /\ x = o THEN 1 ELSE 0)
  BY Zenon DEF Acquire, RefsAfter
<1>4. proc' = proc /\ refs' = [x \in Objs |-> refs'[x]]
  BY Zenon DEF Acquire, RefsAfter
<1>5. /\ table' \in Tables
      /\ \A x \in Objs : Cnt(table', x) = Cnt(table, x) + (IF fits /\ x = o THEN 1 ELSE 0)
      /\ \A c \in Cells : table'[c] = table[c] \/ proc[c[1]] = "running"
  <2>1. CASE fits
    <3>1. alloc_handle(table, access, p, o, mask) /\ proc[p] = "running"
      BY Zenon, <2>1 DEF Acquire
    <3>2. \A x \in Objs : /\ table' \in Tables
                          /\ Cnt(table', x) = Cnt(table, x) + (IF x = o THEN 1 ELSE 0)
                          /\ \A c \in Cells : table'[c] = table[c] \/ c[1] = p
      BY Zenon, <3>1, <1>1, AllocCounts
    <3> QED BY Zenon, <3>1, <3>2, <2>1
  <2>2. CASE ~fits
    <3>1. table' = table
      BY Zenon, <2>2 DEF Acquire
    <3> QED BY <3>1, <1>1, <1>2, <2>2
  <2> QED BY Zenon, <2>1, <2>2
<1>6. \A x \in Objs : Cnt(table', x) \in Nat /\ refs'[x] = Cnt(table', x) + pins'[x]
  <2> TAKE x \in Objs
  <2>1. refs[x] \in Nat /\ pins[x] \in Nat /\ pins'[x] \in Nat
    BY Zenon, <1>1
  <2> QED BY <2>1, <1>2, <1>3, <1>5
<1>7. \A c \in Cells : proc'[c[1]] = "deleted" => table'[c] = NONE
  BY Zenon, <1>4, <1>5 DEF HandlesInv
<1>8. proc' \in [Procs -> {"running", "terminated", "deleted"}]
  BY Zenon, <1>4 DEF HandlesInv, HTypeOK
<1> QED BY Zenon, <1>4, <1>5, <1>6, <1>7, <1>8, Establish

LEMMA ValidCell ==
  ASSUME HTypeOK, NEW p \in Procs, NEW h \in {index_to_handle(i) : i \in Slots}, ValidHandle(p, h)
  PROVE  /\ <<p, handle_to_index(h)>> \in Cells
         /\ ObjectOf(p, h) \in Objs
         /\ table[<<p, handle_to_index(h)>>] = ObjectOf(p, h)
<1>1. PICK i \in Slots : h = (i + 1) * 4
  BY Zenon DEF index_to_handle
<1>2. i \in Nat
  BY HandlesAssumption DEF Slots
<1>3. handle_to_index(h) = i
  BY <1>1, <1>2 DEF handle_to_index
<1>4. <<p, i>> \in Cells
  BY Zenon DEF Cells
<1> QED BY Zenon, <1>3, <1>4 DEF HTypeOK, ObjectOf, ValidHandle

LEMMA CloseInv ==
  ASSUME HandlesInv, NEW p \in Procs, NEW h \in {index_to_handle(i) : i \in Slots}, NtClose(p, h)
  PROVE  HandlesInv'
<1> DEFINE k == <<p, handle_to_index(h)>>
           o == ObjectOf(p, h)
<1>1. table \in Tables /\ refs \in [Objs -> Nat] /\ pins \in [Objs -> Nat] /\ HTypeOK
  BY Zenon DEF HandlesInv, HTypeOK, Tables
<1>2. \A x \in Objs : refs[x] = Cnt(table, x) + pins[x] /\ Cnt(table, x) \in Nat
  BY Zenon, <1>1, ExactIsCnt, CntType DEF HandlesInv
<1>3. k \in Cells /\ o \in Objs /\ table[k] = o
  BY Zenon, <1>1, ValidCell DEF NtClose, free_handle
<1>4. table' = [c \in Cells |-> IF c = k THEN NONE ELSE table[c]]
  BY Zenon DEF NtClose, free_handle
<1>5. refs' = [x \in Objs |-> IF x = o THEN refs[x] - 1 ELSE refs[x]] /\ pins' = pins /\ proc' = proc
  BY Zenon DEF NtClose, free_handle
<1> HIDE DEF k, o
<1>6. \A x \in Objs : /\ table' \in Tables
                      /\ Cnt(table', x) = Cnt(table, x) - (IF table[k] = x THEN 1 ELSE 0)
  <2> DEFINE u == table'
  <2> TAKE x \in Objs
  <2>1. u = [c \in Cells |-> IF c = k THEN NONE ELSE table[c]]
    BY Zenon, <1>4
  <2> HIDE DEF u
  <2>2. u \in Tables /\ Cnt(u, x) = Cnt(table, x) - (IF table[k] = x THEN 1 ELSE 0)
    BY <1>1, <1>3, <2>1, ClearCell
  <2> QED BY Zenon, <2>2 DEF u
<1>7. table' \in Tables
  BY Zenon, <1>1, <1>3, <1>4 DEF Tables
<1>8. \A x \in Objs : Cnt(table', x) \in Nat /\ refs'[x] = Cnt(table', x) + pins'[x]
  <2> TAKE x \in Objs
  <2>1. Cnt(table', x) \in Nat
    BY Zenon, <1>7, CntType
  <2>2. refs[x] \in Nat /\ pins[x] \in Nat
    BY Zenon, <1>1
  <2> QED BY <2>1, <2>2, <1>2, <1>3, <1>5, <1>6
<1>9. \A c \in Cells : proc'[c[1]] = "deleted" => table'[c] = NONE
  BY Zenon, <1>4, <1>5 DEF HandlesInv
<1>10. refs' = [x \in Objs |-> refs'[x]]
  BY Zenon, <1>5
<1>11. pins' \in [Objs -> Nat] /\ proc' \in [Procs -> {"running", "terminated", "deleted"}]
  BY Zenon, <1>1, <1>5 DEF HTypeOK
<1> QED BY Zenon, <1>7, <1>8, <1>9, <1>10, <1>11, Establish

(* Closing the source first and then allocating is two moves.              *)
LEMMA DuplicateInv ==
  ASSUME HandlesInv, NEW p \in Procs, NEW q \in Procs,
         NEW h \in {index_to_handle(i) : i \in Slots}, NEW mask,
         NEW close \in BOOLEAN, NEW delivered \in BOOLEAN,
         NtDuplicateObject(p, h, q, close, delivered, mask)
  PROVE  HandlesInv'
<1> DEFINE k == <<p, handle_to_index(h)>>
           o == ObjectOf(p, h)
           left == [c \in Cells |-> IF close /\ c = k THEN NONE ELSE table[c]]
           masks == [c \in Cells |-> IF close /\ c = k THEN {} ELSE access[c]]
           done == delivered /\ FreeIn(left, q) # {}
<1>1. table \in Tables /\ refs \in [Objs -> Nat] /\ pins \in [Objs -> Nat] /\ HTypeOK
  BY Zenon DEF HandlesInv, HTypeOK, Tables
<1>2. \A x \in Objs : refs[x] = Cnt(table, x) + pins[x] /\ Cnt(table, x) \in Nat
  BY Zenon, <1>1, ExactIsCnt, CntType DEF HandlesInv
<1>3. k \in Cells /\ o \in Objs /\ table[k] = o
  BY Zenon, <1>1, ValidCell DEF NtDuplicateObject
<1>4. /\ refs' = [x \in Objs |-> IF x = o THEN refs[x] + (IF done THEN 1 ELSE 0) - (IF close THEN 1 ELSE 0)
                                 ELSE refs[x]]
      /\ IF done THEN alloc_handle(left, masks, q, o, mask) ELSE table' = left
      /\ pins' = pins /\ proc' = proc /\ proc[q] # "deleted"
  BY Zenon DEF NtDuplicateObject
<1>5. left \in Tables
  BY Zenon, <1>1 DEF Tables
<1>6. \A x \in Objs : Cnt(left, x) = Cnt(table, x) - (IF close /\ x = o THEN 1 ELSE 0)
  <2>1. CASE close
    <3>1. left = [c \in Cells |-> IF c = k THEN NONE ELSE table[c]]
      BY Zenon, <2>1
    <3> TAKE x \in Objs
    <3>2. Cnt(left, x) = Cnt(table, x) - (IF table[k] = x THEN 1 ELSE 0)
      <4> HIDE DEF left, k, o
      <4> QED BY <3>1, <1>1, <1>3, ClearCell
    <3> HIDE DEF left, k, o
    <3> QED BY Zenon, <3>2, <1>2, <1>3, <2>1
  <2>2. CASE ~close
    <3>1. left = table
      BY Zenon, <2>2, <1>1 DEF Tables
    <3> HIDE DEF left
    <3> QED BY <3>1, <2>2, <1>2
  <2> QED BY Zenon, <2>1, <2>2
<1>7. \A c \in Cells : proc[c[1]] = "deleted" => left[c] = NONE
  BY Zenon DEF HandlesInv
<1>8. done \in BOOLEAN
  BY Zenon
<1> HIDE DEF left, masks, done, k, o
<1>9. \A x \in Objs : /\ table' \in Tables
                      /\ Cnt(table', x) = Cnt(left, x) + (IF done /\ x = o THEN 1 ELSE 0)
                      /\ \A c \in Cells : table'[c] = left[c] \/ c[1] = q
  <2> TAKE x \in Objs
  <2>1. CASE done
    BY <2>1, <1>3, <1>4, <1>5, AllocCounts
  <2>2. CASE ~done
    <3>1. Cnt(left, x) \in Nat
      BY Zenon, <1>5, CntType
    <3> QED BY <2>2, <3>1, <1>4, <1>5
  <2> QED BY Zenon, <2>1, <2>2
<1>10. table' \in Tables /\ \A c \in Cells : table'[c] = left[c] \/ c[1] = q
  BY Zenon, <1>3, <1>9
<1>11. \A x \in Objs : Cnt(table', x) \in Nat /\ refs'[x] = Cnt(table', x) + pins'[x]
  <2> TAKE x \in Objs
  <2>1. Cnt(table', x) \in Nat
    BY Zenon, <1>10, CntType
  <2>2. refs[x] \in Nat /\ pins[x] \in Nat
    BY Zenon, <1>1
  <2>3. refs'[x] = IF x = o THEN refs[x] + (IF done THEN 1 ELSE 0) - (IF close THEN 1 ELSE 0) ELSE refs[x]
    BY Zenon, <1>4
  <2>4. Cnt(table', x) = Cnt(table, x) - (IF close /\ x = o THEN 1 ELSE 0) + (IF done /\ x = o THEN 1 ELSE 0)
    BY Zenon, <1>6, <1>9
  <2>5. pins'[x] = pins[x] /\ refs[x] = Cnt(table, x) + pins[x] /\ Cnt(table, x) \in Nat
    BY Zenon, <1>2, <1>4
  <2> QED BY <2>1, <2>2, <2>3, <2>4, <2>5
<1>12. \A c \in Cells : proc'[c[1]] = "deleted" => table'[c] = NONE
  BY Zenon, <1>4, <1>7, <1>10
<1>13. refs' = [x \in Objs |-> refs'[x]]
  BY Zenon, <1>4
<1>14. pins' \in [Objs -> Nat] /\ proc' \in [Procs -> {"running", "terminated", "deleted"}]
  BY Zenon, <1>1, <1>4 DEF HTypeOK
<1> QED BY Zenon, <1>10, <1>11, <1>12, <1>13, <1>14, Establish

(* free_all_handles releases each object as often as the table held it.    *)
LEMMA FreeAllInv ==
  ASSUME HandlesInv, NEW p \in Procs, Terminate(p) \/ DeleteProcess(p)
  PROVE  HandlesInv'
<1> DEFINE u == table'
<1>1. table \in Tables /\ refs \in [Objs -> Nat] /\ pins \in [Objs -> Nat] /\ HTypeOK
  BY Zenon DEF HandlesInv, HTypeOK, Tables
<1>2. \A x \in Objs : refs[x] = Cnt(table, x) + pins[x] /\ Cnt(table, x) \in Nat
  BY Zenon, <1>1, ExactIsCnt, CntType DEF HandlesInv
<1>3. /\ u = [c \in Cells |-> IF c[1] = p THEN NONE ELSE table[c]]
      /\ refs' = [x \in Objs |-> refs[x] - Cardinality(HeldBy(p, x))]
      /\ pins' = pins
      /\ \A q \in Procs : q # p => proc'[q] = proc[q]
      /\ proc' \in [Procs -> {"running", "terminated", "deleted"}]
  BY Zenon, <1>1 DEF Terminate, DeleteProcess, free_all_handles, HTypeOK
<1> HIDE DEF u
<1>4. u \in Tables
  BY Zenon, <1>1, <1>3 DEF Tables
<1>5. \A x \in Objs : Cnt(u, x) \in Nat /\ refs'[x] = Cnt(u, x) + pins'[x]
  <2> TAKE x \in Objs
  <2>1. LET n == Cardinality({c \in Cells : c[1] = p /\ table[c] = x})
        IN n \in Nat /\ n <= Cnt(table, x) /\ Cnt(u, x) = Cnt(table, x) - n
    BY <1>1, <1>3, ClearProc
  <2>2. refs'[x] = refs[x] - Cardinality({c \in Cells : c[1] = p /\ table[c] = x})
    BY Zenon, <1>3 DEF HeldBy
  <2>3. refs[x] \in Nat /\ pins[x] \in Nat /\ pins'[x] = pins[x]
    BY Zenon, <1>1, <1>3
  <2> QED BY <2>1, <2>2, <2>3, <1>2
<1>6. \A c \in Cells : proc'[c[1]] = "deleted" => u[c] = NONE
  <2> TAKE c \in Cells
  <2>1. c[1] \in Procs
    BY Zenon DEF Cells
  <2> QED BY Zenon, <2>1, <1>3 DEF HandlesInv
<1>7. refs' = [x \in Objs |-> refs'[x]]
  BY Zenon, <1>3
<1>8. pins' \in [Objs -> Nat]
  BY Zenon, <1>1, <1>3
<1> QED BY Zenon, <1>3, <1>4, <1>5, <1>6, <1>7, <1>8, Establish DEF u

LEMMA StepInv == HandlesInv /\ [HNext]_hvars => HandlesInv'
<1> SUFFICES ASSUME HandlesInv, [HNext]_hvars PROVE HandlesInv'
  BY Zenon
<1>1. CASE /\ pins' \in [Objs -> Nat]
           /\ \A x \in Objs : pins'[x] >= pins[x]
           /\ \E p \in Procs, o \in Objs, mask \in AccessMasks, fits \in BOOLEAN :
                Acquire(p, o, fits, mask)
  BY Zenon, <1>1, AcquireInv
<1>2. CASE \E p \in Procs, h \in {index_to_handle(i) : i \in Slots} : NtClose(p, h)
  BY Zenon, <1>2, CloseInv
<1>3. CASE \E p, q \in Procs, h \in {index_to_handle(i) : i \in Slots}, mask \in AccessMasks,
              close, delivered \in BOOLEAN : NtDuplicateObject(p, h, q, close, delivered, mask)
  BY <1>3, DuplicateInv
<1>4. CASE \E p \in Procs : Terminate(p) \/ DeleteProcess(p)
  BY Zenon, <1>4, FreeAllInv
<1>5. CASE UNCHANGED hvars
  BY Zenon, <1>5 DEF hvars, HandlesInv, HTypeOK, RefsExact, Holders
<1> QED BY Zenon, <1>1, <1>2, <1>3, <1>4, <1>5 DEF HNext

(* Whatever the processes open, close, duplicate and however they end, the *)
(* count of an object is the number of handles to it in all tables plus    *)
(* the references the kernel keeps: alloc_handle's addref, free_handle's   *)
(* and free_all_handles' release balance for every number of processes,    *)
(* objects and slots.                                                      *)
THEOREM CountsAreExact == HandlesSpec => []RefsExact
<1>1. HandlesInv => RefsExact
  BY Zenon DEF HandlesInv
<1> QED BY InitInv, StepInv, <1>1, PTL DEF HandlesSpec

LEMMA InvSlotsLive == HandlesInv => SlotsLive
<1> SUFFICES ASSUME HandlesInv, NEW c \in Cells, table[c] # NONE
             PROVE  refs[table[c]] > 0 /\ proc[c[1]] # "deleted"
  BY Zenon DEF SlotsLive, Live
<1> DEFINE o == table[c]
<1>1. table \in Tables /\ o \in Objs /\ pins[o] \in Nat
  BY Zenon DEF HandlesInv, HTypeOK, Tables
<1> DEFINE H == {d \in Cells : table[d] = o}
<1>2. Cnt(table, o) \in Nat /\ IsFiniteSet(H) /\ c \in H
  BY Zenon, <1>1, CntType
<1>3. Cardinality(H) # 0
  BY Zenon, <1>2, FS_EmptySet
<1>4. refs[o] = Cnt(table, o) + pins[o]
  BY Zenon, <1>1, ExactIsCnt DEF HandlesInv
<1>5. refs[o] > 0
  BY <1>1, <1>2, <1>3, <1>4 DEF Cnt
<1> QED BY Zenon, <1>5 DEF HandlesInv

(* No handle of any process ever leads to a deleted object, and a deleted  *)
(* process has none: object_from_handle never follows a dangling pointer.  *)
THEOREM NoDanglingHandle == HandlesSpec => []SlotsLive
BY InitInv, StepInv, InvSlotsLive, PTL DEF HandlesSpec

(* What Acquire does to the counts.                                        *)
LEMMA AcquireLive ==
  ASSUME HTypeOK, NEW p \in Procs, NEW o \in Objs, NEW fits \in BOOLEAN, NEW mask,
         pins' \in [Objs -> Nat], \A x \in Objs : pins'[x] >= pins[x],
         Acquire(p, o, fits, mask)
  PROVE  \A x \in Objs : /\ Live(x) => refs'[x] > 0
                         /\ fits /\ x = o => refs'[x] > 0
                         /\ pins'[x] > pins[x] => refs'[x] > 0
                         /\ ~(fits /\ x = o) /\ pins'[x] = pins[x] => refs'[x] = refs[x]
<1> TAKE x \in Objs
<1>1. refs[x] \in Nat /\ pins[x] \in Nat /\ pins'[x] \in Nat /\ pins'[x] >= pins[x]
  BY Zenon DEF HTypeOK
<1>2. refs'[x] = refs[x] + (pins'[x] - pins[x]) + (IF fits /\ x = o THEN 1 ELSE 0)
  BY Zenon DEF Acquire, RefsAfter
<1> QED BY <1>1, <1>2 DEF Live

-----------------------------------------------------------------------------
(* What is pinned is there.                                                *)
LEMMA PinnedIsLive == HandlesInv => \A o \in Objs : pins[o] > 0 => Live(o)
<1> SUFFICES ASSUME HandlesInv, NEW o \in Objs, pins[o] > 0 PROVE Live(o)
  BY Zenon
<1>1. table \in Tables /\ refs[o] \in Nat /\ pins[o] \in Nat
  BY Zenon DEF HandlesInv, HTypeOK, Tables
<1>2. Cnt(table, o) \in Nat
  BY Zenon, <1>1, CntType
<1>3. refs[o] = Cnt(table, o) + pins[o]
  BY Zenon, <1>1, ExactIsCnt DEF HandlesInv
<1> QED BY <1>1, <1>2, <1>3 DEF Live

(* How often x is in a list of elements of A.                              *)
LEMMA OccurrencesOf ==
  ASSUME NEW A, NEW s \in Seq(A), NEW x
  PROVE  /\ Cardinality({i \in 1 .. Len(s) : s[i] = x}) \in Nat
         /\ x \notin A => Cardinality({i \in 1 .. Len(s) : s[i] = x}) = 0
<1> DEFINE K == {i \in 1 .. Len(s) : s[i] = x}
<1>1. Len(s) \in Nat /\ \A i \in 1 .. Len(s) : s[i] \in A
  OBVIOUS
<1>2. IsFiniteSet(1 .. Len(s))
  BY <1>1, FS_Interval
<1>3. K \in SUBSET (1 .. Len(s))
  BY Zenon
<1>4. Cardinality(K) \in Nat
  BY Zenon, <1>2, <1>3, FS_Subset, FS_CardinalityType
<1>5. x \notin A => K = {}
  BY Zenon, <1>1
<1>6. Cardinality({}) = 0
  BY Zenon, FS_EmptySet
<1> QED BY Zenon, <1>4, <1>5, <1>6

(* Only a value that alloc_handle may have given passes for a handle.      *)
LEMMA HandleOfSlot ==
  ASSUME NEW p, NEW h \in HandleValues, ValidHandle(p, h)
  PROVE  h \in {index_to_handle(i) : i \in Slots}
<1> DEFINE i == handle_to_index(h)
<1>1. h \in Nat /\ h # 0 /\ h % 4 = 0 /\ i < MaxHandles /\ MaxHandles \in Nat
  BY HandlesAssumption DEF HandleValues, ValidHandle, index_to_handle
<1>2. h = (i + 1) * 4 /\ i \in Nat
  BY <1>1 DEF handle_to_index
<1>3. i \in Slots
  BY <1>1, <1>2 DEF Slots
<1> QED BY Zenon, <1>2, <1>3 DEF index_to_handle

(* The calls that drop references are steps of Handles for any handle      *)
(* value that is passed, and revive no object.                             *)
Drops == pins' = pins /\ \A x \in Objs : refs'[x] > 0 => Live(x)

LEMMA CloseDrops ==
  ASSUME HandlesInv, NEW p \in Procs, NEW h \in HandleValues, NtClose(p, h)
  PROVE  HNext /\ Drops
<1>1. ValidHandle(p, h) /\ pins' = pins
  BY Zenon DEF NtClose, free_handle
<1>2. h \in {index_to_handle(i) : i \in Slots}
  BY Zenon, <1>1, HandleOfSlot
<1>3. ASSUME NEW x \in Objs, refs'[x] > 0 PROVE Live(x)
  <2>1. refs[x] \in Nat
    BY Zenon DEF HandlesInv, HTypeOK
  <2>2. refs'[x] = IF x = ObjectOf(p, h) THEN refs[x] - 1 ELSE refs[x]
    BY Zenon DEF NtClose, free_handle
  <2> QED BY <1>3, <2>1, <2>2 DEF Live
<1> QED BY Zenon, <1>1, <1>2, <1>3 DEF HNext, Drops

LEMMA DuplicateDrops ==
  ASSUME HandlesInv, NEW sp \in Procs, NEW tp \in Procs, NEW h \in HandleValues,
         NEW mask \in AccessMasks, NEW close \in BOOLEAN, NEW delivered \in BOOLEAN,
         NtDuplicateObject(sp, h, tp, close, delivered, mask)
  PROVE  HNext /\ Drops
<1>1. ValidHandle(sp, h) /\ pins' = pins
  BY Zenon DEF NtDuplicateObject
<1>2. h \in {index_to_handle(i) : i \in Slots}
  BY Zenon, <1>1, HandleOfSlot
<1>3. HNext
  BY Zenon, <1>2 DEF HNext
<1>4. ASSUME NEW x \in Objs, refs'[x] > 0 PROVE Live(x)
  <2>1. refs[x] \in Nat /\ HTypeOK
    BY Zenon DEF HandlesInv, HTypeOK
  <2>2. CASE x = ObjectOf(sp, h)
    <3>1. <<sp, handle_to_index(h)>> \in Cells /\ table[<<sp, handle_to_index(h)>>] = x
      BY Zenon, <1>1, <1>2, <2>1, <2>2, ValidCell
    <3>2. x # NONE
      BY Zenon, HandlesAssumption
    <3> QED BY Zenon, <3>1, <3>2, InvSlotsLive DEF SlotsLive
  <2>3. CASE x # ObjectOf(sp, h)
    <3>1. refs'[x] = refs[x]
      BY Zenon, <2>3 DEF NtDuplicateObject
    <3> QED BY Zenon, <1>4, <3>1 DEF Live
  <2> QED BY Zenon, <2>2, <2>3
<1> QED BY Zenon, <1>1, <1>3, <1>4 DEF Drops

LEMMA EndDrops ==
  ASSUME HandlesInv, NEW p \in Procs, Terminate(p) \/ DeleteProcess(p)
  PROVE  HNext /\ Drops
<1>1. HNext
  BY Zenon DEF HNext
<1>2. ASSUME NEW x \in Objs, refs'[x] > 0 PROVE Live(x)
  <2> DEFINE n == Cardinality(HeldBy(p, x))
  <2>1. refs[x] \in Nat
    BY Zenon DEF HandlesInv, HTypeOK
  <2>2. HeldBy(p, x) \in SUBSET Cells
    BY Zenon DEF HeldBy
  <2>3. n \in Nat
    BY Zenon, <2>2, CellsFinite, FS_Subset, FS_CardinalityType
  <2>4. refs'[x] = refs[x] - n
    BY Zenon DEF Terminate, DeleteProcess, free_all_handles
  <2> HIDE DEF n
  <2> QED BY <1>2, <2>1, <2>3, <2>4 DEF Live
<1>3. pins' = pins
  BY Zenon DEF Terminate, DeleteProcess, free_all_handles
<1> QED BY Zenon, <1>1, <1>2, <1>3 DEF Drops

-----------------------------------------------------------------------------
(* Any set of numbers that is not empty has a least one.                   *)
LEMMA LeastNumber ==
  ASSUME NEW T \in SUBSET Nat, T # {}
  PROVE  \E m \in T : \A k \in T : m <= k
<1>1. PICK m \in T : \A k \in T : ~(<<k, m>> \in OpToRel(<, Nat))
  BY Zenon, NatLessThanWellFounded, WFMin
<1>2. ASSUME NEW k \in T PROVE m <= k
  <2>1. ~(k < m)
    BY Zenon, <1>1 DEF OpToRel
  <2> QED BY <2>1
<1> QED BY Zenon, <1>2

LEMMA FirstIsIn ==
  ASSUME NEW T \in SUBSET Nat, T # {}
  PROVE  First(T) \in T
BY Zenon, LeastNumber DEF First

-----------------------------------------------------------------------------
(* u[n] is what WithoutAll leaves of the first n elements.                 *)
IsUpto(u, s, X, m) ==
  u = [n \in 0 .. m |-> IF n = 0 THEN <<>>
                        ELSE IF s[n] \in X THEN u[n - 1] ELSE Append(u[n - 1], s[n])]

LEMMA UptoExists ==
  ASSUME NEW s, NEW X, NEW l \in Nat
  PROVE  \E u : IsUpto(u, s, X, l)
<1> DEFINE T == {m \in Nat : ~ \E u : IsUpto(u, s, X, m)}
<1>1. SUFFICES T = {}
  BY Zenon
<1>2. SUFFICES ASSUME T # {} PROVE FALSE
  BY Zenon
<1>3. PICK m \in T : \A k \in T : m <= k
  <2> HIDE DEF T
  <2>1. T \in SUBSET Nat
    BY Zenon DEF T
  <2> QED BY Zenon, <1>2, <2>1, LeastNumber
<1>4. CASE m = 0
  <2>1. IsUpto([n \in 0 .. 0 |-> <<>>], s, X, 0)
    BY DEF IsUpto
  <2> QED BY Zenon, <1>4, <2>1
<1>5. CASE m # 0
  <2>1. m - 1 \in Nat /\ m - 1 \notin T
    BY <1>3, <1>5
  <2>2. PICK u : IsUpto(u, s, X, m - 1)
    BY Zenon, <2>1
  <2> DEFINE v == [n \in 0 .. m |-> IF n < m THEN u[n]
                     ELSE IF s[m] \in X THEN u[m - 1] ELSE Append(u[m - 1], s[m])]
  <2>3. \A n \in 0 .. m - 1 : u[n] = IF n = 0 THEN <<>>
                               ELSE IF s[n] \in X THEN u[n - 1] ELSE Append(u[n - 1], s[n])
    BY Zenon, <2>1, <2>2 DEF IsUpto
  <2>4. \A n \in 0 .. m : v[n] = IF n = 0 THEN <<>>
                          ELSE IF s[n] \in X THEN v[n - 1] ELSE Append(v[n - 1], s[n])
    BY <1>3, <1>5, <2>3
  <2>5. v = [n \in 0 .. m |-> v[n]]
    BY Zenon
  <2> HIDE DEF v
  <2>6. IsUpto(v, s, X, m)
    BY Zenon, <2>4, <2>5 DEF IsUpto
  <2> QED BY Zenon, <2>6
<1> QED BY Zenon, <1>4, <1>5

LEMMA WithoutAllSteps ==
  ASSUME NEW S, NEW s \in Seq(S), NEW X
  PROVE  \E u : /\ WithoutAll(s, X) = u[Len(s)]
               /\ u[0] = <<>>
               /\ \A n \in 1 .. Len(s) : u[n] = IF s[n] \in X THEN u[n - 1] ELSE Append(u[n - 1], s[n])
<1> DEFINE l == Len(s)
           u == CHOOSE v : IsUpto(v, s, X, l)
<1>1. l \in Nat
  OBVIOUS
<1>2. WithoutAll(s, X) = u[l]
  BY Zenon DEF WithoutAll, IsUpto
<1>3. IsUpto(u, s, X, l)
  BY Zenon, <1>1, UptoExists
<1> HIDE DEF u, l
<1>4. \A n \in 0 .. l : u[n] = IF n = 0 THEN <<>>
                        ELSE IF s[n] \in X THEN u[n - 1] ELSE Append(u[n - 1], s[n])
  BY Zenon, <1>1, <1>3 DEF IsUpto
<1>5. u[0] = <<>>
  BY <1>1, <1>4
<1>6. \A n \in 1 .. l : u[n] = IF s[n] \in X THEN u[n - 1] ELSE Append(u[n - 1], s[n])
  BY <1>1, <1>4
<1> QED BY Zenon, <1>2, <1>5, <1>6 DEF l

(* Unlinking the elements of X leaves the others, each once.               *)
LEMMA WithoutAllElems ==
  ASSUME NEW S, NEW s \in Seq(S), NEW X, Distinct(s)
  PROVE  /\ WithoutAll(s, X) \in Seq(S)
         /\ Distinct(WithoutAll(s, X))
         /\ Elems(WithoutAll(s, X)) = Elems(s) \ X
<1> DEFINE l == Len(s)
           E(n) == {s[i] : i \in 1 .. n}
<1>1. l \in Nat /\ DOMAIN s = 1 .. l /\ \A i \in 1 .. l : s[i] \in S
  OBVIOUS
<1>2. PICK u : /\ WithoutAll(s, X) = u[l]
               /\ u[0] = <<>>
               /\ \A n \in 1 .. l : u[n] = IF s[n] \in X THEN u[n - 1] ELSE Append(u[n - 1], s[n])
  BY WithoutAllSteps
<1> HIDE DEF l
<1>4. /\ u[0] = <<>>
      /\ \A n \in 1 .. l : u[n] = IF s[n] \in X THEN u[n - 1] ELSE Append(u[n - 1], s[n])
  BY Zenon, <1>2
<1> DEFINE Good(n) == u[n] \in Seq(S) /\ Distinct(u[n]) /\ Elems(u[n]) = E(n) \ X
           T == {n \in 0 .. l : ~Good(n)}
<1>5. T = {}
  <2>1. SUFFICES ASSUME T # {} PROVE FALSE
    BY Zenon
  <2>2. PICK m \in T : \A k \in T : m <= k
    <3> HIDE DEF T
    <3>1. T \in SUBSET Nat
      BY <1>1 DEF T
    <3> QED BY Zenon, <2>1, <3>1, LeastNumber
  <2>3. CASE m = 0
    <3>1. E(0) = {} /\ Elems(<<>>) = {} /\ Distinct(<<>>)
      BY DEF Elems, Distinct
    <3> HIDE DEF E
    <3>2. u[0] \in Seq(S) /\ Distinct(u[0]) /\ Elems(u[0]) = E(0) \ X
      BY <1>4, <3>1
    <3> QED BY Zenon, <2>3, <3>2
  <2>4. CASE m # 0
    <3>1. m \in 1 .. l /\ m - 1 \in 0 .. l /\ m - 1 \notin T
      <4>1. T \subseteq 0 .. l
        BY Zenon
      <4> HIDE DEF T
      <4> QED BY <1>1, <2>2, <2>4, <4>1
    <3>2. Good(m - 1) /\ s[m] \in S
      BY Zenon, <1>1, <3>1
    <3>3. E(m) = E(m - 1) \cup {s[m]} /\ s[m] \notin E(m - 1)
      <4>1. \A i : i \in 1 .. m <=> i \in 1 .. m - 1 \/ i = m
        BY <1>1, <3>1
      <4>2. \A i \in 1 .. m - 1 : i \in DOMAIN s /\ m \in DOMAIN s /\ i # m
        BY <1>1, <3>1
      <4>3. s[m] \notin E(m - 1)
        BY Zenon, <4>2 DEF Distinct
      <4>4. E(m) = E(m - 1) \cup {s[m]}
        BY Zenon, <4>1
      <4> QED BY Zenon, <4>3, <4>4
    <3> DEFINE r == u[m - 1]
               x == s[m]
    <3>4. u[m] = IF x \in X THEN r ELSE Append(r, x)
      BY Zenon, <1>4, <3>1
    <3>5. r \in Seq(S) /\ Distinct(r) /\ Elems(r) = E(m - 1) \ X /\ x \in S
      BY Zenon, <3>2
    <3> DEFINE A == E(m - 1)
    <3>6. E(m) = A \cup {x} /\ x \notin A /\ Elems(r) = A \ X
      BY Zenon, <3>3, <3>5
    <3> HIDE DEF r, x, E, A
    <3>7. CASE x \in X
      BY Zenon, <3>4, <3>5, <3>6, <3>7, <2>2
    <3>8. CASE x \notin X
      <4>1. /\ Append(r, x) \in Seq(S)
            /\ Elems(Append(r, x)) = Elems(r) \cup {x}
            /\ x \notin Elems(r) => Distinct(Append(r, x))
        BY <3>5, AppendElems
      <4> QED BY Zenon, <3>4, <3>6, <3>8, <4>1, <2>2
    <3> QED BY Zenon, <3>7, <3>8
  <2> QED BY Zenon, <2>3, <2>4
<1>6. l \in 0 .. l /\ l \notin T
  <2> HIDE DEF T
  <2> QED BY <1>1, <1>5
<1>7. E(l) = Elems(s)
  BY Zenon, <1>1 DEF Elems
<1> HIDE DEF E
<1>8. u[l] \in Seq(S) /\ Distinct(u[l]) /\ Elems(u[l]) = E(l) \ X
  BY Zenon, <1>6
<1> QED BY Zenon, <1>2, <1>7, <1>8

(* The first place of a list with an element of P.                         *)
Hits(s, P) == {i \in DOMAIN s : s[i] \in P}

LEMMA FirstHit ==
  ASSUME NEW S, NEW s \in Seq(S), NEW P, NEW i \in DOMAIN s, s[i] \in P,
         \A j \in DOMAIN s : j < i => s[j] \notin P
  PROVE  Hits(s, P) # {} /\ First(Hits(s, P)) = i
<1> DEFINE H == Hits(s, P)
<1>1. H \in SUBSET Nat /\ H \subseteq DOMAIN s /\ i \in H /\ \A j \in H : ~(j < i)
  BY DEF Hits
<1> HIDE DEF H
<1>2. \E m \in H : \A k \in H : m <= k
  BY Zenon, <1>1, LeastNumber
<1>3. First(H) \in H /\ \A k \in H : First(H) <= k
  BY Zenon, <1>2 DEF First
<1> DEFINE f == First(H)
<1>4. f \in Nat /\ i \in Nat /\ f <= i /\ ~(f < i)
  BY Zenon, <1>1, <1>3
<1> HIDE DEF f
<1>5. f = i
  BY <1>4
<1> QED BY Zenon, <1>1, <1>5 DEF f, H

LEMMA HitOfFirst ==
  ASSUME NEW S, NEW s \in Seq(S), NEW P, Hits(s, P) # {}
  PROVE  LET i == First(Hits(s, P))
         IN i \in DOMAIN s /\ s[i] \in P /\ \A j \in DOMAIN s : j < i => s[j] \notin P
<1> DEFINE H == Hits(s, P)
<1>1. H \in SUBSET Nat /\ H # {} /\ H = {i \in DOMAIN s : s[i] \in P}
  BY DEF Hits
<1> HIDE DEF H
<1>2. \E m \in H : \A k \in H : m <= k
  BY Zenon, <1>1, LeastNumber
<1> DEFINE f == First(H)
<1>3. f \in H /\ \A k \in H : f <= k
  BY Zenon, <1>2 DEF First
<1> HIDE DEF f
<1>4. f \in DOMAIN s /\ s[f] \in P /\ \A j \in DOMAIN s : j < f => s[j] \notin P
  BY <1>1, <1>3
<1> QED BY Zenon, <1>4 DEF f, H

LEMMA SameHits ==
  ASSUME NEW S, NEW s \in Seq(S), NEW P, NEW Q, \A e \in Elems(s) : e \in P <=> e \in Q
  PROVE  Hits(s, P) = Hits(s, Q)
<1>1. \A i \in DOMAIN s : s[i] \in P <=> s[i] \in Q
  BY DEF Elems
<1> QED BY <1>1 DEF Hits

(* What list_anchor::append adds does not hide what was found before.      *)
LEMMA AppendFirst ==
  ASSUME NEW S, NEW s \in Seq(S), NEW x \in S, NEW P, Hits(s, P) # {}
  PROVE  /\ Hits(Append(s, x), P) # {}
         /\ Append(s, x)[First(Hits(Append(s, x), P))] = s[First(Hits(s, P))]
<1> DEFINE i == First(Hits(s, P))
           r == Append(s, x)
<1>1. i \in DOMAIN s /\ s[i] \in P /\ \A j \in DOMAIN s : j < i => s[j] \notin P
  BY Zenon, HitOfFirst
<1>2. r \in Seq(S) /\ \A j \in DOMAIN s : j \in DOMAIN r /\ r[j] = s[j]
  OBVIOUS
<1>3. \A j \in DOMAIN r : j < i => j \in DOMAIN s
  BY <1>1
<1> HIDE DEF i, r
<1>4. i \in DOMAIN r /\ r[i] \in P /\ \A j \in DOMAIN r : j < i => r[j] \notin P
  BY Zenon, <1>1, <1>2, <1>3
<1>5. Hits(r, P) # {} /\ First(Hits(r, P)) = i
  BY Zenon, <1>2, <1>4, FirstHit
<1> QED BY Zenon, <1>1, <1>2, <1>5 DEF i, r

(* Unlinking other elements does not change which one is found first.      *)
LEMMA WithoutAllFirst ==
  ASSUME NEW S, NEW s \in Seq(S), NEW X, NEW P, Hits(s, P) # {},
         s[First(Hits(s, P))] \notin X
  PROVE  LET r == WithoutAll(s, X)
         IN Hits(r, P) # {} /\ r[First(Hits(r, P))] = s[First(Hits(s, P))]
<1> DEFINE l == Len(s)
           f == First(Hits(s, P))
           y == s[f]
<1>1. l \in Nat /\ DOMAIN s = 1 .. l /\ \A i \in 1 .. l : s[i] \in S
  OBVIOUS
<1>2. PICK u : /\ WithoutAll(s, X) = u[l]
               /\ u[0] = <<>>
               /\ \A n \in 1 .. l : u[n] = IF s[n] \in X THEN u[n - 1] ELSE Append(u[n - 1], s[n])
  BY WithoutAllSteps
<1>3. f \in 1 .. l /\ y \in P /\ y \notin X /\ y = s[f] /\ \A j \in 1 .. l : j < f => s[j] \notin P
  BY Zenon, <1>1, HitOfFirst
<1> HIDE DEF l, f, y
<1> DEFINE Found(r) == Hits(r, P) # {} /\ r[First(Hits(r, P))] = y
           Good(n) == u[n] \in Seq(S) /\ (IF n < f THEN Hits(u[n], P) = {} ELSE Found(u[n]))
           T == {n \in 0 .. l : ~Good(n)}
<1>4. T = {}
  <2>1. SUFFICES ASSUME T # {} PROVE FALSE
    BY Zenon
  <2>2. PICK m \in T : \A k \in T : m <= k
    <3> HIDE DEF T
    <3>1. T \in SUBSET Nat
      BY <1>1 DEF T
    <3> QED BY Zenon, <2>1, <3>1, LeastNumber
  <2>3. m \in 0 .. l /\ ~Good(m)
    BY Zenon, <2>2
  <2>4. CASE m = 0
    <3>1. <<>> \in Seq(S) /\ Hits(<<>>, P) = {} /\ 0 < f
      BY <1>3 DEF Hits
    <3> QED BY Zenon, <1>2, <2>3, <2>4, <3>1
  <2>5. CASE m # 0
    <3>1. m \in 1 .. l /\ m - 1 \in 0 .. l /\ m - 1 \notin T
      <4> HIDE DEF T, Good
      <4> QED BY <1>1, <2>2, <2>3, <2>5
    <3> DEFINE r == u[m - 1]
               x == s[m]
    <3>2. Good(m - 1)
      BY Zenon, <3>1
    <3>3. r \in Seq(S) /\ (IF m - 1 < f THEN Hits(r, P) = {} ELSE Found(r)) /\ x \in S
      BY Zenon, <1>1, <3>1, <3>2
    <3>4. u[m] = IF x \in X THEN r ELSE Append(r, x)
      BY Zenon, <1>2, <3>1
    <3>5. (m < f => x \notin P) /\ (m = f => x = y)
      BY Zenon, <1>3, <3>1
    <3>6. f \in Nat /\ m \in Nat
      BY <1>1, <1>3, <3>1
    <3> HIDE DEF r, x, Found, T
    <3>7. CASE x \in X
      <4>1. m # f /\ u[m] = r
        BY Zenon, <1>3, <3>4, <3>5, <3>7
      <4>2. (m < f => m - 1 < f) /\ (~(m < f) => ~(m - 1 < f))
        BY <3>6, <4>1
      <4> QED BY Zenon, <2>3, <3>3, <4>1, <4>2
    <3>8. CASE x \notin X
      <4> DEFINE q == Append(r, x)
      <4>1. q \in Seq(S) /\ u[m] = q
        BY <3>3, <3>4, <3>8
      <4>2. CASE m < f
        <5>1. Hits(r, P) = {} /\ x \notin P
          BY <3>3, <3>5, <3>6, <4>2
        <5>2. Hits(q, P) = {}
          BY <3>3, <5>1 DEF Hits
        <5> QED BY Zenon, <2>3, <4>1, <4>2, <5>2
      <4>3. CASE m = f
        <5>1. Hits(r, P) = {} /\ x = y /\ x \in P
          BY <1>3, <3>3, <3>5, <3>6, <4>3
        <5> DEFINE i == Len(r) + 1
        <5>2. i \in DOMAIN q /\ q[i] = x /\ \A j \in DOMAIN q : j < i => j \in DOMAIN r /\ q[j] = r[j]
          BY <3>3
        <5> HIDE DEF i, q
        <5>3. \A j \in DOMAIN q : j < i => q[j] \notin P
          BY Zenon, <5>1, <5>2 DEF Hits
        <5>4. Hits(q, P) # {} /\ First(Hits(q, P)) = i
          BY <4>1, <5>1, <5>2, <5>3, FirstHit
        <5>5. Found(u[m]) /\ ~(m < f)
          BY <3>6, <4>1, <4>3, <5>1, <5>2, <5>4 DEF Found
        <5> QED BY Zenon, <2>3, <4>1, <5>5
      <4>4. CASE m > f
        <5>1. Found(r) /\ ~(m < f)
          BY <3>3, <3>6, <4>4
        <5>2. Hits(r, P) # {} /\ r[First(Hits(r, P))] = y
          BY Zenon, <5>1 DEF Found
        <5>3. Hits(q, P) # {} /\ q[First(Hits(q, P))] = r[First(Hits(r, P))]
          BY Zenon, <3>3, <5>2, AppendFirst
        <5>4. Found(q)
          BY Zenon, <5>2, <5>3 DEF Found
        <5> QED BY Zenon, <2>3, <4>1, <5>1, <5>4
      <4> QED BY <3>6, <4>2, <4>3, <4>4
    <3> QED BY Zenon, <3>7, <3>8
  <2> QED BY Zenon, <2>4, <2>5
<1>5. Good(l)
  <2>1. l \in 0 .. l /\ l \notin T
    <3> HIDE DEF T
    <3> QED BY <1>1, <1>4
  <2> QED BY Zenon, <2>1
<1>6. ~(l < f)
  BY <1>1, <1>3
<1>7. Found(WithoutAll(s, X))
  BY Zenon, <1>2, <1>5, <1>6
<1> QED BY Zenon, <1>7 DEF f, y

-----------------------------------------------------------------------------
(* The lists and the parents of the objects of `alive' are a tree: li[d]   *)
(* is the list of entries of d, pa[e] the parent of e, nm[e] its name and  *)
(* ty[e] its class.                                                        *)
IsTree(alive, ty, pa, li, nm) ==
  /\ \A o \in Objs : ty[o] = "none" <=> o \notin alive
  /\ \A o \in Objs : pa[o] # NONE => pa[o] \in Objs /\ ty[pa[o]] = "dir" /\ o \in Elems(li[pa[o]])
  /\ \A d \in Objs : li[d] \in Seq(Objs) /\ Distinct(li[d])
  /\ \A d \in Objs : \A e \in Elems(li[d]) : e \in Objs /\ e \in alive /\ pa[e] = d
  /\ \A d \in Objs : \A e, f \in Elems(li[d]) : nm[e] = nm[f] => e = f

(* A new object at the end of one list, where its name is new, or of none. *)
Grown(alive, ty, pa, li, nm, ty2, pa2, li2, nm2, o, d, n, kind) ==
  /\ o \in Objs /\ o \notin alive /\ d \in Objs \cup {NONE} /\ kind # "none"
  /\ d # NONE => d \in alive /\ ty[d] = "dir" /\ \A e \in Elems(li[d]) : nm[e] # n
  /\ \A x \in Objs : /\ ty2[x] = (IF x = o THEN kind ELSE ty[x])
                     /\ pa2[x] = (IF x = o THEN d ELSE pa[x])
                     /\ nm2[x] = (IF x = o THEN n ELSE nm[x])
                     /\ li2[x] = (IF x = d THEN Append(li[x], o) ELSE li[x])

LEMMA TreeAppended ==
  ASSUME NEW alive, NEW ty, NEW pa, NEW li, NEW nm, IsTree(alive, ty, pa, li, nm),
         NEW ty2, NEW pa2, NEW li2, NEW nm2, NEW o, NEW d, NEW n, NEW kind,
         Grown(alive, ty, pa, li, nm, ty2, pa2, li2, nm2, o, d, n, kind)
  PROVE  IsTree(alive \cup {o}, ty2, pa2, li2, nm2)
<1> USE DEF Grown
<1>1. \A x \in Objs : \A e \in Elems(li[x]) : e \in Objs /\ e # o
  BY DEF IsTree
<1>2. ASSUME NEW x \in Objs
      PROVE  /\ li2[x] \in Seq(Objs)
             /\ Distinct(li2[x])
             /\ Elems(li2[x]) = IF x = d THEN Elems(li[x]) \cup {o} ELSE Elems(li[x])
  <2> DEFINE s == li[x]
  <2>1. s \in Seq(Objs) /\ Distinct(s) /\ o \notin Elems(s) /\ o \in Objs
    BY Zenon, <1>1 DEF IsTree
  <2>2. li2[x] = IF x = d THEN Append(s, o) ELSE s
    BY Zenon
  <2> HIDE DEF s
  <2>3. Append(s, o) \in Seq(Objs) /\ Elems(Append(s, o)) = Elems(s) \cup {o} /\ Distinct(Append(s, o))
    BY ONLY Z3, <2>1, AppendElems
  <2> QED BY Zenon, <2>1, <2>2, <2>3 DEF s
<1>3. \A x \in Objs : ty2[x] = "none" <=> x \notin alive \cup {o}
  BY Zenon DEF IsTree
<1>4. ASSUME NEW x \in Objs, pa2[x] # NONE
      PROVE  pa2[x] \in Objs /\ ty2[pa2[x]] = "dir" /\ x \in Elems(li2[pa2[x]])
  <2>1. CASE x = o
    <3>1. pa2[x] = d /\ d \in Objs /\ d # o /\ ty[d] = "dir"
      BY Zenon, <1>4, <2>1
    <3> QED BY Zenon, <1>2, <2>1, <3>1
  <2>2. CASE x # o
    <3>1. /\ pa2[x] = pa[x] /\ pa[x] \in Objs /\ ty[pa[x]] = "dir" /\ x \in Elems(li[pa[x]])
          /\ ty[o] = "none"
      BY Zenon, <1>4, <2>2 DEF IsTree
    <3>2. pa[x] # o
      BY Zenon, <3>1
    <3> QED BY Zenon, <1>2, <3>1, <3>2
  <2> QED BY Zenon, <2>1, <2>2
<1>5. ASSUME NEW x \in Objs, NEW e \in Elems(li2[x])
      PROVE  e \in Objs /\ e \in alive \cup {o} /\ pa2[e] = x
  <2>1. CASE e \in Elems(li[x])
    <3>1. e \in Objs /\ e # o /\ e \in alive /\ pa[e] = x
      BY Zenon, <1>1, <2>1 DEF IsTree
    <3> QED BY Zenon, <3>1
  <2>2. CASE x = d /\ e = o
    BY Zenon, <2>2
  <2> QED BY Zenon, <1>2, <2>1, <2>2
<1>6. ASSUME NEW x \in Objs, NEW e \in Elems(li2[x]), NEW f \in Elems(li2[x]), nm2[e] = nm2[f]
      PROVE  e = f
  <2>1. nm2[o] = n /\ \A y \in Elems(li[x]) : nm2[y] = nm[y]
    BY Zenon, <1>1
  <2>2. \A y, z \in Elems(li[x]) : nm[y] = nm[z] => y = z
    BY Zenon DEF IsTree
  <2>3. x = d => \A y \in Elems(li[x]) : nm[y] # n
    BY Zenon, HandlesAssumption
  <2>4. CASE x = d
    <3>1. e \in Elems(li[x]) \cup {o} /\ f \in Elems(li[x]) \cup {o}
      BY Zenon, <1>2, <2>4
    <3>2. e = o <=> f = o
      BY Zenon, <1>6, <2>1, <2>3, <2>4, <3>1
    <3> QED BY Zenon, <1>6, <2>1, <2>2, <3>1, <3>2
  <2>5. CASE x # d
    BY Zenon, <1>2, <1>6, <2>1, <2>2, <2>5
  <2> QED BY Zenon, <2>4, <2>5
<1> QED BY Zenon, <1>2, <1>3, <1>4, <1>5, <1>6 DEF IsTree

(* The objects of D are deleted: they leave their parents' lists, and      *)
(* their entries lose their parent.                                        *)
Pruned(ty, pa, li, nm, ty2, pa2, li2, nm2, D) ==
  /\ D \in SUBSET Objs
  /\ \A x \in Objs : /\ ty2[x] = (IF x \in D THEN "none" ELSE ty[x])
                     /\ pa2[x] = (IF x \in D \/ pa[x] \in D THEN NONE ELSE pa[x])
                     /\ x \notin D => nm2[x] = nm[x]
                     /\ li2[x] = (IF x \in D THEN <<>> ELSE WithoutAll(li[x], D))

LEMMA TreeDestructed ==
  ASSUME NEW alive, NEW ty, NEW pa, NEW li, NEW nm, IsTree(alive, ty, pa, li, nm),
         NEW ty2, NEW pa2, NEW li2, NEW nm2, NEW D, Pruned(ty, pa, li, nm, ty2, pa2, li2, nm2, D)
  PROVE  IsTree(alive \ D, ty2, pa2, li2, nm2)
<1> USE DEF Pruned
<1>1. ASSUME NEW x \in Objs
      PROVE  /\ li2[x] \in Seq(Objs)
             /\ Distinct(li2[x])
             /\ Elems(li2[x]) = IF x \in D THEN {} ELSE Elems(li[x]) \ D
  <2> DEFINE s == li[x]
  <2>1. s \in Seq(Objs) /\ Distinct(s)
    BY Zenon DEF IsTree
  <2>2. li2[x] = IF x \in D THEN <<>> ELSE WithoutAll(s, D)
    BY Zenon
  <2> HIDE DEF s
  <2>3. <<>> \in Seq(Objs) /\ Distinct(<<>>) /\ Elems(<<>>) = {}
    BY DEF Distinct, Elems
  <2>4. /\ WithoutAll(s, D) \in Seq(Objs)
        /\ Distinct(WithoutAll(s, D))
        /\ Elems(WithoutAll(s, D)) = Elems(s) \ D
    BY Zenon, <2>1, WithoutAllElems
  <2> QED BY Zenon, <2>2, <2>3, <2>4 DEF s
<1>2. \A x \in Objs : ty2[x] = "none" <=> x \notin alive \ D
  BY Zenon DEF IsTree
<1>3. ASSUME NEW x \in Objs, pa2[x] # NONE
      PROVE  pa2[x] \in Objs /\ ty2[pa2[x]] = "dir" /\ x \in Elems(li2[pa2[x]])
  <2>1. x \notin D /\ pa2[x] = pa[x] /\ pa[x] \notin D /\ pa[x] # NONE
    BY Zenon, <1>3
  <2>2. pa[x] \in Objs /\ ty[pa[x]] = "dir" /\ x \in Elems(li[pa[x]])
    BY Zenon, <2>1 DEF IsTree
  <2> QED BY Zenon, <1>1, <2>1, <2>2
<1>4. ASSUME NEW x \in Objs, NEW e \in Elems(li2[x])
      PROVE  e \in Objs /\ e \in alive \ D /\ pa2[e] = x /\ nm2[e] = nm[e] /\ e \in Elems(li[x])
  <2>1. x \notin D /\ e \in Elems(li[x]) /\ e \notin D
    BY Zenon, <1>1
  <2>2. e \in Objs /\ e \in alive /\ pa[e] = x
    BY Zenon, <2>1 DEF IsTree
  <2> QED BY Zenon, <2>1, <2>2
<1>5. ASSUME NEW x \in Objs, NEW e \in Elems(li2[x]), NEW f \in Elems(li2[x]), nm2[e] = nm2[f]
      PROVE  e = f
  <2>1. e \in Elems(li[x]) /\ f \in Elems(li[x]) /\ nm[e] = nm[f]
    BY Zenon, <1>4, <1>5
  <2> QED BY Zenon, <2>1 DEF IsTree
<1> QED BY Zenon, <1>1, <1>2, <1>3, <1>4, <1>5 DEF IsTree
=============================================================================
