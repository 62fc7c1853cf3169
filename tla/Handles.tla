------------------------------ MODULE Handles -------------------------------
(***************************************************************************)
(* Reference counts and handle tables: kernel/object.cpp, object.inl and   *)
(* process_alloc_user_handle of process.cpp.                               *)
(*                                                                         *)
(* An object is an address; refs[o] = 0 means that nothing lives there.    *)
(* How a name leads to an object is the subject of module Objects: here an *)
(* open may find any live object.  References that no handle accounts for  *)
(* (OBJ_PERMANENT, objects the kernel made for itself) are counted in the  *)
(* auxiliary variable pins.                                                *)
(***************************************************************************)
EXTENDS Integers, FiniteSets

CONSTANTS Procs, Objs, NONE,
          MaxHandles,   \* handle_table_t::max_handles
          AccessMasks   \* the access masks that calls pass

ASSUME HandlesAssumption ==
  /\ IsFiniteSet(Procs)
  /\ NONE \notin Objs
  /\ MaxHandles \in Nat \ {0}

VARIABLES refs,    \* object_t::refcount, 0 for a deleted object
          pins,    \* references held by no handle table
          table,   \* handle_table_t::info[].object of every process
          access,  \* handle_table_t::info[].access
          proc     \* "running", "terminated" or "deleted"

hvars == <<refs, pins, table, access, proc>>

Slots == 0 .. MaxHandles - 1
Cells == Procs \X Slots

Live(o) == refs[o] > 0
Holders(o) == {c \in Cells : table[c] = o}

index_to_handle(i) == (i + 1) * 4
handle_to_index(h) == (h \div 4) - 1

(* Every handle of the table, zero, values that are not a multiple of four *)
(* and the first value beyond the table.                                   *)
HandleValues == 0 .. index_to_handle(MaxHandles)

-----------------------------------------------------------------------------
FreeIn(t, p) == {i \in Slots : t[<<p, i>>] = NONE}
FreeSlots(p) == FreeIn(table, p)

(* free_handle and object_from_handle accept a handle on the same terms.   *)
ValidHandle(p, h) ==
  /\ h # 0
  /\ h % 4 = 0
  /\ handle_to_index(h) < MaxHandles
  /\ table[<<p, handle_to_index(h)>>] # NONE

ObjectOf(p, h) == table[<<p, handle_to_index(h)>>]

(* alloc_handle: the first free slot of p in table t, where acc are the    *)
(* masks, is given to o.                                                   *)
alloc_handle(t, acc, p, o, mask) ==
  \E i \in FreeIn(t, p) :
    /\ \A j \in FreeIn(t, p) : i <= j
    /\ table' = [c \in Cells |-> IF c = <<p, i>> THEN o ELSE t[c]]
    /\ access' = [c \in Cells |-> IF c = <<p, i>> THEN mask ELSE acc[c]]

-----------------------------------------------------------------------------
(* Mutant: alloc_handle stores the object without addref.                   *)
RefsAfter_noaddref(o, fits) ==
  [x \in Objs |-> refs[x] + (pins'[x] - pins[x])]

(* A system call of p that looks up or makes an object and asks for a      *)
(* handle (alloc_user_handle).  The references it takes on the way and     *)
(* drops before it returns cancel out: what is left is one reference for   *)
(* the handle, if there was a slot, and those that pins' counts.           *)
RefsAfter(o, fits) ==
  [x \in Objs |-> refs[x] + (pins'[x] - pins[x]) + (IF fits /\ x = o THEN 1 ELSE 0)]

Acquire(p, o, fits, mask) ==
  /\ fits => proc[p] = "running" /\ FreeSlots(p) # {}
  /\ refs' = RefsAfter(o, fits)
  /\ IF fits THEN alloc_handle(table, access, p, o, mask) ELSE UNCHANGED <<table, access>>
  /\ UNCHANGED proc

(* Mutant: free_handle does not clear the slot.                            *)
free_handle_keeps_slot(p, h) ==
  /\ ValidHandle(p, h)
  /\ refs' = [x \in Objs |-> IF x = ObjectOf(p, h) THEN refs[x] - 1 ELSE refs[x]]
  /\ UNCHANGED <<table, access>>

(* free_handle: release, then clear the slot.                              *)
free_handle(p, h) ==
  /\ ValidHandle(p, h)
  /\ refs' = [x \in Objs |-> IF x = ObjectOf(p, h) THEN refs[x] - 1 ELSE refs[x]]
  /\ table' = [c \in Cells |-> IF c = <<p, handle_to_index(h)>> THEN NONE ELSE table[c]]
  /\ access' = [c \in Cells |-> IF c = <<p, handle_to_index(h)>> THEN {} ELSE access[c]]

NtClose(p, h) ==
  /\ proc[p] = "running"
  /\ free_handle(p, h)
  /\ UNCHANGED <<pins, proc>>

(* NtDuplicateObject by any running process: handle h of sp is copied into *)
(* tp, which may have ended already.  The caller's reference outlives the  *)
(* source handle when that is closed first (DUPLICATE_CLOSE_SOURCE), and   *)
(* the new handle may take the slot that this frees.  delivered: the       *)
(* target process's handle is still valid at that point, and the new       *)
(* handle can be written to the caller; the source stays closed if not, or *)
(* if there is no slot.                                                    *)
NtDuplicateObject(sp, h, tp, close, delivered, mask) ==
  LET o == ObjectOf(sp, h)
      src == <<sp, handle_to_index(h)>>
      left == [c \in Cells |-> IF close /\ c = src THEN NONE ELSE table[c]]
      masks == [c \in Cells |-> IF close /\ c = src THEN {} ELSE access[c]]
      done == delivered /\ FreeIn(left, tp) # {}
  IN /\ \E p \in Procs : proc[p] = "running"
     /\ proc[sp] # "deleted" /\ proc[tp] # "deleted"
     /\ ValidHandle(sp, h)
     /\ refs' = [x \in Objs |-> IF x = o THEN refs[x] + (IF done THEN 1 ELSE 0) - (IF close THEN 1 ELSE 0)
                                ELSE refs[x]]
     /\ IF done THEN alloc_handle(left, masks, tp, o, mask)
                ELSE table' = left /\ access' = masks
     /\ UNCHANGED <<pins, proc>>

HeldBy(p, o) == {c \in Cells : c[1] = p /\ table[c] = o}

(* Mutant: free_all_handles drops one reference for each distinct object.  *)
free_all_handles_once(p) ==
  /\ refs' = [x \in Objs |-> IF HeldBy(p, x) # {} THEN refs[x] - 1 ELSE refs[x]]
  /\ table' = [c \in Cells |-> IF c[1] = p THEN NONE ELSE table[c]]
  /\ UNCHANGED <<pins, access>>

(* free_all_handles leaves info[].access alone.                            *)
free_all_handles(p) ==
  /\ refs' = [x \in Objs |-> refs[x] - Cardinality(HeldBy(p, x))]
  /\ table' = [c \in Cells |-> IF c[1] = p THEN NONE ELSE table[c]]
  /\ UNCHANGED <<pins, access>>

(* process_t::terminate; the process object, and with it the table, stays  *)
(* while somebody has a handle to the process.                             *)
Terminate(p) ==
  /\ proc[p] = "running"
  /\ proc' = [q \in Procs |-> IF q = p THEN "terminated" ELSE proc[q]]
  /\ free_all_handles(p)

(* ~process_t, ~handle_table_t: handles that were duplicated into a        *)
(* process after its end go with it.                                       *)
DeleteProcess(p) ==
  /\ proc[p] = "terminated"
  /\ proc' = [q \in Procs |-> IF q = p THEN "deleted" ELSE proc[q]]
  /\ free_all_handles(p)

-----------------------------------------------------------------------------
HInit == /\ refs \in [Objs -> {0, 1}]
         /\ pins = refs
         /\ table = [c \in Cells |-> NONE]
         /\ access = [c \in Cells |-> {}]
         /\ proc = [p \in Procs |-> "running"]

HNext ==
  \/ /\ pins' \in [Objs -> Nat]
     /\ \A x \in Objs : pins'[x] >= pins[x]
     /\ \E p \in Procs, o \in Objs, mask \in AccessMasks, fits \in BOOLEAN :
          Acquire(p, o, fits, mask)
  \/ \E p \in Procs, h \in {index_to_handle(i) : i \in Slots} : NtClose(p, h)
  \/ \E p, q \in Procs, h \in {index_to_handle(i) : i \in Slots}, mask \in AccessMasks, close, delivered \in BOOLEAN :
       NtDuplicateObject(p, h, q, close, delivered, mask)
  \/ \E p \in Procs : Terminate(p) \/ DeleteProcess(p)

HandlesSpec == HInit /\ [][HNext]_hvars

-----------------------------------------------------------------------------
HTypeOK ==
  /\ refs \in [Objs -> Nat]
  /\ pins \in [Objs -> Nat]
  /\ table \in [Cells -> Objs \cup {NONE}]
  /\ proc \in [Procs -> {"running", "terminated", "deleted"}]

(* The count of every object is exactly the number of handles to it, in    *)
(* all processes, plus the references the kernel keeps (addref, release,   *)
(* alloc_handle, free_handle, object_factory::create, NtDuplicateObject).  *)
(* So no slot refers to a deleted object, and none is deleted too late.    *)
RefsExact == \A o \in Objs : refs[o] = Cardinality(Holders(o)) + pins[o]

(* A slot never refers to an object that has been deleted, and a deleted   *)
(* process has no handles (free_handle, free_all_handles).                 *)
SlotsLive == \A c \in Cells : table[c] # NONE => Live(table[c]) /\ proc[c[1]] # "deleted"
=============================================================================
