------------------------------ MODULE Registry ------------------------------
(***************************************************************************)
(* The registry (reg.cpp): a tree of keys with values, opened and created   *)
(* by path, deleted while handles are open.  Names and paths are sequences  *)
(* of characters, since the parser of paths works on them; "A" and "a"      *)
(* differ in case only and "/" stands for the backslash.                    *)
(***************************************************************************)
EXTENDS Integers, Sequences, SequencesExt, FiniteSets, FiniteSetsExt

CONSTANTS Paths,        \* paths that a process passes
          NKeys,        \* bound: keys in memory
          MaxHandles,   \* bound: handles of a key
          ValueNames    \* names of values

RegistryAssumption == NKeys \in Nat \ {0} /\ MaxHandles \in Nat

VARIABLES regkey,       \* address -> key
          khandles      \* address -> number of open handles

kvars == <<regkey, khandles>>

Addr == 1..NKeys
root_key == 1
NoKey == 0
FreeKey == [live |-> FALSE, parent |-> NoKey, name |-> <<>>, children |-> <<>>, values |-> <<>>, refs |-> 0,
            odd |-> FALSE]  \* history: odd when a path with two backslashes in a row made it

\* init_registry: the root, whose reference belongs to the kernel.
KInit ==
  /\ regkey = [a \in Addr |-> IF a = root_key THEN [FreeKey EXCEPT !.live = TRUE, !.refs = 1] ELSE FreeKey]
  /\ khandles = [a \in Addr |-> 0]

ToLower(c) == IF c = "A" THEN "a" ELSE c
\* strncmpW over the whole name; memcmp over as many bytes as there are
\* characters, that is over half of the name.
SameLower(a, b) == Len(a) = Len(b) /\ \A i \in 1..Len(a) : ToLower(a[i]) = ToLower(b[i])
SameHalf(a, b) == Len(a) = Len(b) /\ \A i \in 1..(Len(a) \div 2) : a[i] = b[i]

\* skip_slashes: the string moves while the index grows, so that after the
\* first backslash the character it looks at is the one after the next.
RECURSIVE SkipFrom(_, _)
SkipFrom(str, len) ==
  IF len < Len(str) /\ str[len + 1] = "/" THEN SkipFrom(Tail(str), len + 1) ELSE str
skip_slashes(str) == SkipFrom(str, 0)

get_next_segment(str) ==
  LET at == {i \in 1..Len(str) : str[i] = "/"} IN IF at = {} THEN Len(str) ELSE Min(at) - 1

\* do_open_subkey: the first child with the name of the next segment.
do_open_subkey(ks, k, str, sensitive) ==
  LET name  == skip_slashes(str)
      len   == get_next_segment(name)
      seg   == SubSeq(name, 1, len)
      found == SelectSeq(ks[k].children,
                         LAMBDA c : IF sensitive THEN SameHalf(seg, ks[c].name)
                                    ELSE SameLower(seg, ks[c].name))
  IN IF len = 0 \/ found = <<>> THEN [key |-> NoKey, rest |-> name]
     ELSE [key |-> found[1], rest |-> SubSeq(name, len + 1, Len(name))]

\* The loop of open_parse_key and create_parse_key: as far down as keys exist.
RECURSIVE open_parse_key(_, _, _, _)
open_parse_key(ks, k, str, sensitive) ==
  LET d == do_open_subkey(ks, k, str, sensitive)
  IN IF str = <<>> THEN [key |-> k, rest |-> str]
     ELSE IF d.key = NoKey THEN [key |-> k, rest |-> d.rest]
     ELSE open_parse_key(ks, d.key, d.rest, sensitive)

\* new regkey_t( parent, name ): linked at the end, with the parent's reference.
NewKey(ks, parent, name, odd) ==
  LET a == Min({a \in Addr : ~ks[a].live})
  IN [[ks EXCEPT ![a] = [FreeKey EXCEPT !.live = TRUE, !.parent = parent, !.name = name, !.refs = 1, !.odd = odd]]
        EXCEPT ![parent] = [@ EXCEPT !.children = Append(@, a)]]

\* The second loop of create_parse_key, which looks nothing up, also when the
\* first one has stopped at a second backslash; no key (NoKey) when memory is full.
RECURSIVE create_parse_key(_, _, _, _)
create_parse_key(ks, k, str, odd) ==
  LET name == skip_slashes(str)
      len  == get_next_segment(name)
      made == NewKey(ks, k, SubSeq(name, 1, len), odd)
  IN IF str = <<>> THEN [ks |-> ks, key |-> k]
     ELSE IF \A a \in Addr : ks[a].live THEN [ks |-> ks, key |-> NoKey]
     ELSE create_parse_key(made, Last(made[k].children), SubSeq(name, len + 1, Len(name)), odd)

\* release of a key; with the last reference ~regkey_t lets its children go.
RECURSIVE Release(_, _)
Release(ks, a) ==
  LET k == ks[a]
      RECURSIVE Drop(_, _)
      Drop(s, cs) == IF cs = <<>> THEN s
                     ELSE Drop(Release([s EXCEPT ![Head(cs)] = [@ EXCEPT !.parent = NoKey]], Head(cs)), Tail(cs))
  IN IF k.refs > 1 THEN [ks EXCEPT ![a] = [k EXCEPT !.refs = @ - 1]]
     ELSE [Drop(ks, k.children) EXCEPT ![a] = FreeKey]

----------------------------------------------------------------------------
Bases == {root_key} \cup {a \in Addr : khandles[a] > 0}

\* NtOpenKey, from the root or from a key that is open.
OpenKey(base, path, sensitive) ==
  LET d == open_parse_key(regkey, base, path, sensitive)
  IN /\ base \in Bases /\ d.rest = <<>> /\ khandles[d.key] < MaxHandles
     /\ regkey' = [regkey EXCEPT ![d.key] = [@ EXCEPT !.refs = @ + 1]]
     /\ khandles' = [khandles EXCEPT ![d.key] = @ + 1]

\* NtCreateKey: what exists is opened, case insensitively, the rest is created.
CreateKey(base, path) ==
  LET d == open_parse_key(regkey, base, path, FALSE)
      odd == \E i \in 2..Len(path) : path[i] = "/" /\ path[i - 1] = "/"
      c == create_parse_key(regkey, d.key, d.rest, odd)
  IN /\ base \in Bases /\ c.key # NoKey
     /\ khandles[c.key] < MaxHandles
     /\ regkey' = [c.ks EXCEPT ![c.key] = [@ EXCEPT !.refs = @ + 1]]
     /\ khandles' = [khandles EXCEPT ![c.key] = @ + 1]

\* NtClose of a key's handle.
CloseKey(a) ==
  /\ khandles[a] > 0
  /\ regkey' = Release(regkey, a)
  /\ khandles' = [khandles EXCEPT ![a] = @ - 1]

\* Mutant of delkey: the key stays in its parent's list.
delkey_linked(a) == Release([regkey EXCEPT ![a] = [@ EXCEPT !.parent = NoKey]], a)

\* regkey_t::delkey.
delkey(a) ==
  LET p == regkey[a].parent
      unlinked == [[regkey EXCEPT ![p] = [@ EXCEPT !.children = SelectSeq(@, LAMBDA c : c # a)]]
                     EXCEPT ![a] = [@ EXCEPT !.parent = NoKey]]
  IN Release(unlinked, a)

\* NtDeleteKey, through an open handle; the root has no parent.
DeleteKey(a) ==
  /\ khandles[a] > 0 /\ regkey[a].parent # NoKey
  /\ regkey' = delkey(a)
  /\ UNCHANGED khandles

\* Mutant of delete_value: the name is compared as it stands.
WithoutValue_case(vs, v) == SelectSeq(vs, LAMBDA w : w # v)

\* delete_value: the first value of that name, ignoring case.
WithoutValue(vs, v) ==
  LET at == {i \in 1..Len(vs) : SameLower(vs[i], v)} IN IF at = {} THEN vs ELSE RemoveAt(vs, Min(at))

\* NtSetValueKey: an old value of the name goes, the new one is last.
SetValue(a, v) ==
  /\ khandles[a] > 0
  /\ regkey' = [regkey EXCEPT ![a] = [@ EXCEPT !.values = Append(WithoutValue(@, v), v)]]
  /\ UNCHANGED khandles
DeleteValue(a, v) ==
  /\ khandles[a] > 0
  /\ regkey' = [regkey EXCEPT ![a] = [@ EXCEPT !.values = WithoutValue(@, v)]]
  /\ UNCHANGED khandles

KNext ==
  \/ \E b \in Bases, p \in Paths : CreateKey(b, p) \/ \E s \in BOOLEAN : OpenKey(b, p, s)
  \/ \E a \in Addr : CloseKey(a) \/ DeleteKey(a)
  \/ \E a \in Addr, v \in ValueNames : SetValue(a, v) \/ DeleteValue(a, v)

KSpec == KInit /\ [][KNext]_kvars

----------------------------------------------------------------------------
LiveKeys == {a \in Addr : regkey[a].live}

\* The keys form a forest that matches its links: a key is in exactly the list
\* of its parent, it counts one reference for that (the root one of the kernel)
\* and one for each handle, and so a key is in memory exactly as long as it can
\* be reached (regkey_t, delkey, ~regkey_t), also when keys are deleted, and
\* keys created under deleted ones, while handles are open.
RegistryTree ==
  /\ \A a \in LiveKeys :
        /\ regkey[a].refs = khandles[a] + (IF a = root_key \/ regkey[a].parent # NoKey THEN 1 ELSE 0)
        /\ regkey[a].refs > 0
        /\ regkey[a].parent # NoKey => Contains(regkey[regkey[a].parent].children, a)
        /\ \A i \in 1..Len(regkey[a].children) : regkey[regkey[a].children[i]].parent = a
        /\ Cardinality(ToSet(regkey[a].children)) = Len(regkey[a].children)
  /\ \A a \in Addr \ LiveKeys : khandles[a] = 0

\* No key has two values whose names differ in case only.  A subkey with the
\* name of an earlier one, but for case, was made by a path with two backslashes
\* in a row, after which create_parse_key does not look for the name; every other
\* key with a parent and a name (a backslash at the end of the path of a new key
\* makes one without) is the one that an open of its name finds, whatever is
\* created and deleted beside it (do_open_subkey, NtSetValueKey).
NamesAreUnique ==
  \A a \in LiveKeys :
    /\ \A i, j \in 1..Len(regkey[a].children) :
          /\ i < j
          /\ SameLower(regkey[regkey[a].children[i]].name, regkey[regkey[a].children[j]].name)
          => regkey[regkey[a].children[j]].odd
    /\ \A i, j \in 1..Len(regkey[a].values) :
          i # j => ~SameLower(regkey[a].values[i], regkey[a].values[j])
    /\ regkey[a].parent # NoKey /\ regkey[a].name # <<>> /\ ~regkey[a].odd =>
          do_open_subkey(regkey, regkey[a].parent, regkey[a].name, FALSE).key = a
=============================================================================
