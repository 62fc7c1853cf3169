------------------------------ MODULE Objects -------------------------------
(***************************************************************************)
(* The object manager's names: kernel/objdir.cpp, symlink.cpp, and the     *)
(* object_factory and nt_open_object of object.cpp and object.inl, on top  *)
(* of the handles and counts of module Handles.                            *)
(*                                                                         *)
(* A path is [abs, segs]: whether it starts with a backslash, and what     *)
(* stands between the backslashes after that.  "\" is <<"">>, "a\" is      *)
(* <<"a", "">>.                                                            *)
(***************************************************************************)
EXTENDS Handles, Lists, Functions

CONSTANTS Root,      \* the root directory
          Names,     \* names of objects
          lower,     \* tolower, on Names
          Paths,     \* the paths that calls pass
          Targets,   \* the targets that links are made with
          AttrSets,  \* sets of OBJ_ attributes that calls pass
          MaxPins,   \* bound on the references that no handle holds
          MaxDepth   \* calls of open() that the kernel's stack has room for

ASSUME ObjectsAssumption ==
  /\ Root \in Objs
  /\ Paths \cup Targets \subseteq [abs: BOOLEAN, segs: Seq(Names \cup {""}) \ {<<>>}]
  /\ lower \in [Names -> Names]
  /\ AccessMasks # {}
  /\ MaxDepth \in Nat

VARIABLES type,    \* the class of an object, "none" for a deleted one
          parent,  \* object_t::parent
          list,    \* object_dir_impl_t::object_list
          name,    \* object_t::name
          target   \* symlink_t::target

nvars == <<type, parent, list, name, target>>
vars == <<hvars, nvars>>

Kinds == {"dir", "link", "event"}
NoPath == [abs |-> FALSE, segs |-> <<"">>]

-----------------------------------------------------------------------------
(* Mutant: only one of the names is folded.                                *)
compare_one_side(a, b, ignoreCase) == IF ignoreCase /\ a # "" THEN lower[a] = b ELSE a = b

(* unicode_string_t::compare                                               *)
compare(a, b, ignoreCase) == a = b \/ (ignoreCase /\ a # "" /\ lower[a] = lower[b])

(* The first entry of the list with that name.                             *)
lookup(d, n, ignoreCase) ==
  LET hits == {i \in DOMAIN list[d] : compare(name[list[d][i]], n, ignoreCase)}
  IN IF hits = {} THEN NONE ELSE list[d][First(hits)]

(* What open() came to: an error; an object (which it referenced); or the  *)
(* call of on_open with the directory, the entry or NONE, and the last     *)
(* segment.  leaked: the targets of links that symlink_t::open referenced. *)
Fails(leaked)         == [res |-> "error", dir |-> NONE, obj |-> NONE, last |-> "", leaked |-> leaked]
Yields(o, leaked)     == [res |-> "object", dir |-> NONE, obj |-> o, last |-> "", leaked |-> leaked]
OnOpen(d, o, n, leaked) == [res |-> "on_open", dir |-> d, obj |-> o, last |-> n, leaked |-> leaked]
Overflow              == [res |-> "overflow", dir |-> NONE, obj |-> NONE, last |-> "", leaked |-> <<>>]

(* A call of the virtual open(): the object, what is left of the path, the *)
(* directory that the path started from, and what was leaked on the way.   *)
Calls == [obj: Objs, segs: Seq(Names \cup {""}), base: Objs \cup {NONE}, leaked: Seq(Objs)]

(* open_root: from the directory `base' (already found from its handle),   *)
(* or from the root.  In these definitions open[c] is what call c comes to.*)
open_root(open, path, base, leaked) ==
  LET dir == IF base = NONE THEN Root ELSE base
  IN IF path.abs # (base = NONE) THEN Fails(leaked)
     ELSE IF path.segs = <<"">> THEN OnOpen(NONE, dir, "", leaked)
     ELSE open[[obj |-> dir, segs |-> path.segs, base |-> base, leaked |-> leaked]]

(* object_dir_impl_t::open: the next segment names the last entry, or one  *)
(* to go on from.                                                          *)
DirOpen(open, c, attrs) ==
  LET entry == lookup(c.obj, Head(c.segs), "CASE_INSENSITIVE" \in attrs)
  IN IF Head(c.segs) = "" THEN Fails(c.leaked)
     ELSE IF Len(c.segs) = 1 THEN OnOpen(c.obj, entry, Head(c.segs), c.leaked)
     ELSE IF entry = NONE THEN Fails(c.leaked)
     ELSE open[[obj |-> entry, segs |-> Tail(c.segs), base |-> c.base, leaked |-> c.leaked]]

(* symlink_t::open: with more path to come, open the target and go on from *)
(* there, without ever releasing it; at the end of a path, start again     *)
(* with the target as the path.                                            *)
LinkOpen(open, c, attrs) ==
  IF c.segs # <<"">>
  THEN LET t == open_root(open, target[c.obj], NONE, c.leaked)
       IN IF t.res = "overflow" THEN Overflow
          ELSE IF t.obj = NONE THEN Fails(t.leaked)
          ELSE open[[obj |-> t.obj, segs |-> c.segs, base |-> c.base,
                     leaked |-> Append(t.leaked, t.obj)]]
  ELSE IF "OPENLINK" \in attrs THEN Fails(c.leaked)
  ELSE open_root(open, target[c.obj], c.base, c.leaked)

(* The virtual open(): other objects take no further path.                 *)
OpenObject(open, c, attrs) ==
  CASE type[c.obj] = "dir"   -> DirOpen(open, c, attrs)
    [] type[c.obj] = "link"  -> LinkOpen(open, c, attrs)
    [] type[c.obj] = "event" -> IF c.segs = <<"">> THEN Yields(c.obj, c.leaked) ELSE Fails(c.leaked)

(* What a path leads to, with calls of open() nested at most MaxDepth deep.*)
Walk(path, base, attrs) ==
  LET open[n \in 0 .. MaxDepth] ==
        [c \in Calls |-> IF n = 0 THEN Overflow ELSE OpenObject(open[n - 1], c, attrs)]
  IN open_root(open[MaxDepth], path, base, <<>>)

-----------------------------------------------------------------------------
(* check_access and object_dir_impl_t::access_allowed; only directories    *)
(* check.                                                                  *)
Effective(mask) ==
  (mask \cap {"QUERY", "TRAVERSE", "CREATE_OBJECT", "CREATE_SUBDIRECTORY"})
    \cup (IF mask \cap {"MAXIMUM_ALLOWED", "GENERIC_ALL"} # {}
          THEN {"QUERY", "TRAVERSE", "CREATE_OBJECT", "CREATE_SUBDIRECTORY"} ELSE {})
    \cup (IF "GENERIC_READ" \in mask THEN {"QUERY", "TRAVERSE"} ELSE {})
    \cup (IF "GENERIC_WRITE" \in mask THEN {"CREATE_OBJECT", "CREATE_SUBDIRECTORY"} ELSE {})

access_allowed(o, required, mask) == type[o] = "dir" => required \subseteq Effective(mask)

(* object_from_handle( dir, info.root, DIRECTORY_QUERY ): the directories  *)
(* that p can start a relative path from, and NONE for an absolute one.    *)
Bases(p) == {NONE} \cup {table[c] : c \in {x \in Cells :
              /\ x[1] = p /\ table[x] # NONE
              /\ type[table[x]] = "dir" /\ access_allowed(table[x], {"QUERY"}, access[x])}}

-----------------------------------------------------------------------------
(* ~object_t and ~object_dir_impl_t of the objects whose count this step   *)
(* takes to zero: they leave their parents' lists, and the entries of a    *)
(* deleted directory lose their parent.                                    *)
Dead(o) == refs[o] > 0 /\ refs'[o] = 0

(* Mutant: a directory that is deleted does not unlink its entries.        *)
Destruct_keeps_parent ==
  /\ type' = [o \in Objs |-> IF Dead(o) THEN "none" ELSE type[o]]
  /\ parent' = [o \in Objs |-> IF Dead(o) THEN NONE ELSE parent[o]]
  /\ list' = [o \in Objs |-> IF Dead(o) THEN <<>> ELSE WithoutAll(list[o], {c \in Objs : Dead(c)})]
  /\ name' = [o \in Objs |-> IF Dead(o) THEN "" ELSE name[o]]
  /\ target' = [o \in Objs |-> IF Dead(o) THEN NoPath ELSE target[o]]

Destruct ==
  /\ type' = [o \in Objs |-> IF Dead(o) THEN "none" ELSE type[o]]
  /\ parent' = [o \in Objs |-> IF Dead(o) \/ (parent[o] # NONE /\ Dead(parent[o])) THEN NONE
                               ELSE parent[o]]
  /\ list' = [o \in Objs |-> IF Dead(o) THEN <<>> ELSE WithoutAll(list[o], {c \in Objs : Dead(c)})]
  /\ name' = [o \in Objs |-> IF Dead(o) THEN "" ELSE name[o]]
  /\ target' = [o \in Objs |-> IF Dead(o) THEN NoPath ELSE target[o]]

(* Mutant: the new entry goes to the front of the list.                    *)
append_front(d, o, n, kind, tgt) ==
  /\ type' = [type EXCEPT ![o] = kind]
  /\ parent' = [parent EXCEPT ![o] = d]
  /\ list' = [x \in Objs |-> IF x = d THEN <<o>> \o list[x] ELSE list[x]]
  /\ name' = [name EXCEPT ![o] = n]
  /\ target' = [target EXCEPT ![o] = tgt]

(* object_dir_impl_t::append, and the constructor of the new object.  d is *)
(* NONE for an object without a name.                                      *)
append(d, o, n, kind, tgt) ==
  /\ type' = [type EXCEPT ![o] = kind]
  /\ parent' = [parent EXCEPT ![o] = d]
  /\ list' = [x \in Objs |-> IF x = d THEN Append(list[x], o) ELSE list[x]]
  /\ name' = [name EXCEPT ![o] = n]
  /\ target' = [target EXCEPT ![o] = tgt]

(* Mutant: a link drops the reference on its target twice.                 *)
PinsAfter_twice(leaked, o, kept) ==
  [x \in Objs |-> pins[x] - Cardinality({i \in 1 .. Len(leaked) : leaked[i] = x})
                          + (IF kept /\ x = o THEN 1 ELSE 0)]

PinsAfter(leaked, o, kept) ==
  [x \in Objs |-> pins[x] + Cardinality({i \in 1 .. Len(leaked) : leaked[i] = x})
                          + (IF kept /\ x = o THEN 1 ELSE 0)]

Bounded == SumFunction(pins') <= MaxPins

-----------------------------------------------------------------------------
(* object_factory::create found or referenced an object of any class: it   *)
(* gets a handle and, if permanent, keeps the reference.                   *)
GiveExisting(p, w, attrs, mask) ==
  LET fits == FreeSlots(p) # {}
  IN /\ pins' = PinsAfter(w.leaked, w.obj, fits /\ "PERMANENT" \in attrs)
     /\ Acquire(p, w.obj, fits, mask)
     /\ UNCHANGED nvars

(* object_factory::on_open makes a new object: it is deleted again if it   *)
(* gets no handle.                                                         *)
GiveNew(p, o, w, kind, tgt, attrs, mask) ==
  LET fits == FreeSlots(p) # {}
  IN /\ ~Live(o)
     /\ pins' = PinsAfter(w.leaked, o, fits /\ "PERMANENT" \in attrs)
     /\ Acquire(p, o, fits, mask)
     /\ IF fits THEN append(w.dir, o, w.last, kind, tgt) ELSE UNCHANGED nvars

(* A call that fails leaves only what its links leaked.                    *)
GiveNothing(p, w) ==
  /\ pins' = PinsAfter(w.leaked, NONE, FALSE)
  /\ Acquire(p, Root, FALSE, {})
  /\ UNCHANGED nvars

(* NtCreateEvent, NtCreateDirectoryObject, NtCreateSymbolicLinkObject with *)
(* a name: object_factory::create and on_open.                             *)
CreateNamed(p, kind, path, base, tgt, attrs, mask) ==
  LET w == Walk(path, base, attrs)
      exists == w.res = "object" \/ (w.res = "on_open" /\ w.obj # NONE /\ "OPENIF" \in attrs)
      new == w.res = "on_open" /\ w.obj = NONE
  IN /\ proc[p] = "running"
     /\ w.res # "overflow"
     /\ \/ exists /\ GiveExisting(p, w, attrs, mask)
        \/ new /\ \E o \in Objs : GiveNew(p, o, w, kind, tgt, attrs, mask)
        \/ ~exists /\ ~new /\ GiveNothing(p, w)
     /\ Bounded

CreateUnnamed(p, kind, tgt, attrs, mask) ==
  /\ proc[p] = "running"
  /\ \E o \in Objs : GiveNew(p, o, OnOpen(NONE, NONE, "", <<>>), kind, tgt, attrs, mask)
  /\ Bounded

(* create_symlink (through create_kernel, without attributes) and          *)
(* create_directory_object (through name_object, ignoring case): the       *)
(* kernel keeps the reference that it was given.                           *)
CreateKernel(kind, path, tgt) ==
  LET w == Walk(path, NONE, IF kind = "dir" THEN {"CASE_INSENSITIVE"} ELSE {})
  IN /\ w.res = "on_open" /\ w.obj = NONE
     /\ \E o \in Objs :
          /\ ~Live(o)
          /\ pins' = PinsAfter(w.leaked, o, TRUE)
          /\ append(w.dir, o, w.last, kind, tgt)
          /\ \E p \in Procs : Acquire(p, o, FALSE, {})
     /\ Bounded

(* nt_open_object with find_object_t::on_open: a link that is the last     *)
(* segment is opened itself, except with OBJ_OPENLINK.  accepted: the      *)
(* object found has the class that this call is for, and the handle can be *)
(* written to the caller's memory.                                         *)
NtOpen(p, path, base, attrs, accepted, mask) ==
  LET w == Walk(path, base, attrs)
      found == \/ w.res = "object"
               \/ /\ w.res = "on_open" /\ w.obj # NONE
                  /\ ~(type[w.obj] = "link" /\ "OPENLINK" \in attrs)
      fits == found /\ accepted /\ FreeSlots(p) # {}
  IN /\ proc[p] = "running"
     /\ w.res # "overflow"
     /\ pins' = PinsAfter(w.leaked, NONE, FALSE)
     /\ Acquire(p, IF found THEN w.obj ELSE Root, fits, mask)
     /\ UNCHANGED nvars
     /\ Bounded

CloseHandle(p, h) == NtClose(p, h) /\ Destruct

(* The source handle must allow the access that the copy is to have.       *)
Duplicate(sp, h, tp, close, delivered, mask) ==
  /\ NtDuplicateObject(sp, h, tp, close, delivered, mask)
  /\ access_allowed(ObjectOf(sp, h), mask, access[<<sp, handle_to_index(h)>>])
  /\ Destruct

EndProcess(p) == (Terminate(p) \/ DeleteProcess(p)) /\ Destruct

-----------------------------------------------------------------------------
(* init_root; the kernel's own directories come from CreateKernel.         *)
Init ==
  /\ refs = [o \in Objs |-> IF o = Root THEN 1 ELSE 0]
  /\ pins = refs
  /\ table = [c \in Cells |-> NONE]
  /\ access = [c \in Cells |-> {}]
  /\ proc = [p \in Procs |-> "running"]
  /\ type = [o \in Objs |-> IF o = Root THEN "dir" ELSE "none"]
  /\ parent = [o \in Objs |-> NONE]
  /\ list = [o \in Objs |-> <<>>]
  /\ name = [o \in Objs |-> ""]
  /\ target = [o \in Objs |-> NoPath]

TargetOf(kind) == IF kind = "link" THEN Targets ELSE {NoPath}

Next ==
  \/ \E p \in Procs, kind \in Kinds, attrs \in AttrSets, mask \in AccessMasks :
       \E tgt \in TargetOf(kind) :
         \/ \E path \in Paths, base \in Bases(p) :
              CreateNamed(p, kind, path, base, tgt, attrs, mask)
         \/ CreateUnnamed(p, kind, tgt, attrs, mask)
  \/ \E p \in Procs, path \in Paths, attrs \in AttrSets, accepted \in BOOLEAN, mask \in AccessMasks :
       \E base \in Bases(p) : NtOpen(p, path, base, attrs, accepted, mask)
  \/ \E kind \in {"dir", "link"}, path \in Paths :
       \E tgt \in TargetOf(kind) : CreateKernel(kind, path, tgt)
  \/ \E p \in Procs, h \in HandleValues : CloseHandle(p, h)
  \/ \E sp, tp \in Procs, h \in HandleValues, mask \in AccessMasks, close, delivered \in BOOLEAN :
       Duplicate(sp, h, tp, close, delivered, mask)
  \/ \E p \in Procs : EndProcess(p)

Spec == Init /\ [][Next]_vars

-----------------------------------------------------------------------------
(* No directory has two entries of the same name, although create looks    *)
(* the name up with the caller's case rule and links may lead two callers  *)
(* to the same directory by different paths (object_factory::on_open).     *)
NamesUnique ==
  \A d \in Objs : \A i, j \in 1 .. Len(list[d]) :
    name[list[d][i]] = name[list[d][j]] => i = j

(* The types; and the list of a directory and the parent pointers of its   *)
(* entries agree, an entry is in one list once, and both ends are alive:   *)
(* append, unlink and the two destructors leave no pointer to a deleted    *)
(* object, whatever is deleted first.  And names are unique.               *)
TreeOK ==
  /\ HTypeOK
  /\ \A o \in Objs : type[o] \in Kinds \cup {"none"} /\ (type[o] = "none" <=> refs[o] = 0)
  /\ \A o \in Objs : parent[o] # NONE =>
       type[parent[o]] = "dir" /\ \E i \in 1 .. Len(list[parent[o]]) : list[parent[o]][i] = o
  /\ \A d \in Objs : Distinct(list[d]) /\ \A i \in 1 .. Len(list[d]) :
       Live(list[d][i]) /\ parent[list[d][i]] = d
  /\ NamesUnique

(* What a name stands for never changes while the object is there: no      *)
(* later create, by either case rule, makes a lookup find another object   *)
(* (append puts a new entry behind those that lookup meets first).         *)
LookupStable ==
  [][\A d \in {x \in Objs : list[x] # list'[x]}, n \in Names, ci \in BOOLEAN :
       LET found == lookup(d, n, ci)
       IN found # NONE /\ parent'[found] = d => lookup(d, n, ci)' = found]_<<list, name>>
=============================================================================
