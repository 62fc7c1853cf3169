-------------------------------- MODULE Hive --------------------------------
(***************************************************************************)
(* Registry hive files (libntreg/ntreg.c): pages tiled by blocks, and in    *)
(* the blocks key nodes (nk), subkey indices (lf, and ri over several lf),  *)
(* value lists (vl), values (vk) and their data.  Every operation allocates *)
(* and frees blocks of the pages, which never grow.  Sizes are in cells of  *)
(* 8 bytes, an offset names a cell, and a name is a sequence of numbers.    *)
(***************************************************************************)
EXTENDS Integers, Sequences, SequencesExt, FiniteSets, FiniteSetsExt, TLC

CONSTANTS PageCells,    \* sequence: cells of each page
          HNames,       \* names that a caller passes
          Lengths,      \* bytes of value data that a caller stores
          MaxOps        \* bound: operations of a caller

HiveAssumption == MaxOps \in Nat /\ \A l \in Lengths : l \in Nat \ {0}

VARIABLES hive,         \* offset of a block -> [size, body]
          hlife,        \* "ok", "undefined" (memory misread) or "endless" (rdel_keys)
          ops           \* operations so far

hvars == <<hive, hlife, ops>>

Garbage == 0            \* an entry of an index that was never written
Nil == 0                \* alloc_block failed
Free == [t |-> "free"]
Nk(name, parent) == [t |-> "nk", name |-> name, parent |-> parent, no_subkeys |-> 0, lf |-> 0,
                     no_values |-> 0, vlist |-> 0]
Vk(name, inline) == [t |-> "vk", name |-> name, len |-> IF inline THEN 4 ELSE 0, inline |-> inline, data |-> 0]

Cells(bytes) == (bytes + 4 + 7) \div 8
NkSize == Cells(80 + 4)
VkSize == Cells(24 + 4)
LfSize(n) == Cells(8 + 8 * n)
RiSize(n) == Cells(8 + 4 * n)
VlSize(n) == Cells(4 * n)

PageStart(p) == 1 + FoldSeq(LAMBDA x, y : x + y, 0, SubSeq(PageCells, 1, p - 1))
find_page_start(o) == Max({p \in 1..Len(PageCells) : PageStart(p) <= o})

\* find_free_blk, find_free: the first block that fits, in the page of the
\* caller's block before all others.
FreeBlocks(h, size) == {o \in DOMAIN h : h[o].body = Free /\ h[o].size >= size}
find_free(h, ofs, size) ==
  LET near == {o \in FreeBlocks(h, size) : ofs # 0 /\ find_page_start(o) = find_page_start(ofs)}
  IN IF near # {} THEN Min(near)
     ELSE IF FreeBlocks(h, size) # {} THEN Min(FreeBlocks(h, size)) ELSE Nil

\* alloc_block at blk, and fill_block: what is left over becomes a free block.
Place(h, blk, size, body) ==
  LET trail == h[blk].size - size
  IN IF trail = 0 THEN [h EXCEPT ![blk] = [size |-> size, body |-> body]]
     ELSE ((blk + size) :> [size |-> trail, body |-> Free]) @@ (blk :> [size |-> size, body |-> body]) @@ h

\* free_block: the block joins free neighbours of its page.
free_block(h, blk) ==
  LET same(o) == find_page_start(o) = find_page_start(blk)
      next == {o \in DOMAIN h : o = blk + h[blk].size /\ same(o) /\ h[o].body = Free}
      prev == {o \in DOMAIN h : o + h[o].size = blk /\ same(o) /\ h[o].body = Free}
      join == next \cup prev \cup {blk}
  IN [o \in (DOMAIN h \ join) \cup {Min(join)} |->
        IF o = Min(join) THEN [size |-> MapThenSumSet(LAMBDA x : h[x].size, join), body |-> Free] ELSE h[o]]

Body(h, o, b) == [h EXCEPT ![o] = [@ EXCEPT !.body = b]]
B(h, o) == h[o].body

----------------------------------------------------------------------------
(* Looking up.                                                             *)

Less(a, b) ==
  \/ Len(a) < Len(b) /\ IsPrefix(a, b)
  \/ \E i \in 1..Min({Len(a), Len(b)}) : a[i] < b[i] /\ \A j \in 1..(i - 1) : a[j] = b[j]

\* The index blocks of a key: none, one, or those an ri block lists.
Lists(h, nk) ==
  IF B(h, nk).no_subkeys = 0 THEN <<>>
  ELSE IF B(h, B(h, nk).lf).t = "ri" THEN B(h, B(h, nk).lf).lists ELSE <<B(h, nk).lf>>

\* ex_next_n and the loop of trav_path: a plain index is read as far as the
\* key has subkeys, the lists of an ri block as far as they go.
Subkeys(h, nk) ==
  LET ls == Lists(h, nk)
  IN IF ls = <<>> THEN <<>>
     ELSE IF B(h, B(h, nk).lf).t = "ri" THEN FlattenSeq([i \in 1..Len(ls) |-> B(h, ls[i]).keys])
     ELSE SubSeq(B(h, ls[1]).keys, 1, B(h, nk).no_subkeys)
Values(h, nk) == IF B(h, nk).no_values = 0 THEN <<>> ELSE B(h, B(h, nk).vlist).vals

\* trav_path for one name: a subkey that begins with it.
FindKey(h, nk, name) ==
  LET f == SelectSeq(Subkeys(h, nk), LAMBDA k : k # Garbage /\ IsPrefix(name, B(h, k).name))
  IN IF f = <<>> THEN Nil ELSE f[1]
\* vlist_find: a value that is, or without TPF_EXACT begins with, the name.
FindValue(h, nk, name, exact) ==
  LET vs == Values(h, nk)
      at == {i \in 1..Len(vs) : IF exact THEN B(h, vs[i]).name = name ELSE IsPrefix(name, B(h, vs[i]).name)}
  IN IF at = {} THEN 0 ELSE Min(at)

----------------------------------------------------------------------------
(* Values.  An operation yields [h, life].                                  *)

Ok(h) == [h |-> h, life |-> "ok"]

\* add_value: a new list with the value at its end replaces the old one.
add_value(h, nk, name, dword) ==
  LET key   == B(h, nk)
      n     == key.no_values + 1
      vl    == find_free(h, nk, VlSize(n))
      h1    == Place(h, vl, VlSize(n), [t |-> "vl", vals |-> Values(h, nk)])
      vk    == find_free(h1, vl, VkSize)
      h2    == Place(h1, vk, VkSize, Vk(name, dword))
      h3    == Body(Body(h2, vl, [t |-> "vl", vals |-> Append(Values(h, nk), vk)]), nk,
                    [key EXCEPT !.no_values = n, !.vlist = vl])
  IN IF FindKey(h, nk, name) # Nil \/ FindValue(h, nk, name, FALSE) # 0 \/ vl = Nil THEN Ok(h)
     ELSE IF vk = Nil THEN Ok(free_block(h1, vl))
     ELSE Ok(IF n = 1 THEN h3 ELSE free_block(h3, key.vlist))

\* del_vk: the data, then the value.
del_vk(h, vk) ==
  LET b == B(h, vk) IN free_block(IF ~b.inline /\ b.data # 0 THEN free_block(h, b.data) ELSE h, vk)

\* del_value: the first value that begins with the name, whatever exact says.
\* The copy of the list runs one entry over its end when the last one goes:
\* that entry falls into the padding of an even list, and else behind it.
del_value(h, nk, name) ==
  LET key  == B(h, nk)
      slot == FindValue(h, nk, name, FALSE)
      n    == key.no_values - 1
      h1   == free_block(del_vk(h, Values(h, nk)[slot]), key.vlist)
      vl   == find_free(h1, key.vlist, VlSize(n))
      h2   == Place(h1, vl, VlSize(n), [t |-> "vl", vals |-> RemoveAt(Values(h, nk), slot)])
  IN IF slot = 0 THEN Ok(h)
     ELSE IF n = 0 THEN Ok(Body(h1, nk, [key EXCEPT !.no_values = 0, !.vlist = 0]))
     ELSE [h |-> Body(h2, nk, [key EXCEPT !.no_values = n, !.vlist = vl]),
           life |-> IF slot = n + 1 /\ n % 2 = 1 THEN "undefined" ELSE "ok"]

RECURSIVE DelAll(_, _)
DelAll(h, vks) == IF vks = <<>> THEN h ELSE DelAll(del_vk(h, Head(vks)), Tail(vks))
del_allvalues(h, nk) ==
  LET key == B(h, nk)
  IN IF key.no_values = 0 THEN h
     ELSE Body(free_block(DelAll(h, Values(h, nk)), key.vlist), nk, [key EXCEPT !.no_values = 0, !.vlist = 0])

\* Mutant of alloc_val_data: the new block takes the place of the old one.
alloc_val_data_lost(h, vk, blk, len) ==
  Body(Place(h, blk, Cells(len), [t |-> "data"]), vk, [B(h, vk) EXCEPT !.len = len, !.inline = FALSE, !.data = blk])

\* alloc_val_data: the new block is there before the old one goes.
alloc_val_data(h, vk, blk, len) ==
  LET b  == B(h, vk)
      h1 == Place(h, blk, Cells(len), [t |-> "data"])
      h2 == IF b.len # 0 /\ ~b.inline THEN free_block(h1, b.data) ELSE h1
  IN Body(h2, vk, [b EXCEPT !.len = len, !.inline = FALSE, !.data = blk])

\* put_buf2val of len bytes, with TPF_EXACT: the length is that of the value of
\* the name, the space is given to the first value that begins with it.
put_buf2val(h, nk, name, len) ==
  LET named == FindValue(h, nk, name, TRUE)
      first == FindValue(h, nk, name, FALSE)
      vk    == Values(h, nk)[first]
      blk   == find_free(h, vk, Cells(len))
  IN IF named = 0 THEN Ok(h)
     ELSE IF B(h, Values(h, nk)[named]).len = len \/ blk = Nil THEN Ok(h)
     ELSE [h |-> alloc_val_data(h, vk, blk, len), life |-> IF named = first THEN "ok" ELSE "undefined"]

----------------------------------------------------------------------------
(* Keys.                                                                    *)

\* Where add_key stops in an index: at the first name that is not below.
Stop(h, list, name) ==
  {i \in 1..Len(B(h, list).keys) :
     LET k == B(h, list).keys[i] IN k = Garbage \/ ~Less(B(h, k).name, name)}

\* The new key's node is in place; its index is copied into a new block, lf, and the
\* old one freed.
Listed(h, nk, ls, ri, lf, keys) ==
  LET key == B(h, nk)
      h2  == Place(h, lf, LfSize(Len(keys)), [t |-> "lf", keys |-> keys])
  IN IF ls = <<>> THEN Body(h2, nk, [key EXCEPT !.no_subkeys = @ + 1, !.lf = lf])
     ELSE free_block(IF B(h, key.lf).t = "ri"
                     THEN Body(Body(h2, key.lf, [t |-> "ri", lists |-> [ls EXCEPT ![ri] = lf]]), nk,
                               [key EXCEPT !.no_subkeys = @ + 1])
                     ELSE Body(h2, nk, [key EXCEPT !.no_subkeys = @ + 1, !.lf = lf]), ls[ri])
WithIndex(h, nk, ls, ri, new, keys, lf) ==
  IF lf = Nil THEN Ok(free_block(h, new)) ELSE Ok(Listed(h, nk, ls, ri, lf, keys))
WithNode(h, nk, ls, ri, new, keys) ==
  WithIndex(h, nk, ls, ri, new, keys, find_free(h, nk, LfSize(Len(keys))))
NewKey(h, nk, name, ls, ri, old, slot, new) ==
  IF new = Nil THEN Ok(h)
  ELSE WithNode(Place(h, new, NkSize, Nk(name, nk)), nk, ls, ri, new,
                IF ls = <<>> THEN <<new, Garbage>> ELSE InsertAt(old, slot, new))

\* add_key: the index that takes the new key is copied into a new block.  The
\* first index of a key counts one entry too many.
add_key(h, nk, name) ==
  LET ls    == Lists(h, nk)
      hits  == {i \in 1..Len(ls) : Stop(h, ls[i], name) # {}}
      ri    == IF hits = {} THEN Len(ls) ELSE Min(hits)
      old   == IF ls = <<>> THEN <<>> ELSE B(h, ls[ri]).keys
      slot  == IF hits = {} THEN Len(old) + 1 ELSE Min(Stop(h, ls[ri], name))
  IN IF hits # {} /\ old[slot] = Garbage THEN [h |-> h, life |-> "undefined"]
     ELSE IF hits # {} /\ B(h, old[slot]).name = name THEN Ok(h)
     ELSE NewKey(h, nk, name, ls, ri, old, slot, find_free(h, nk, NkSize))

\* Is the name in the lists?  del_key compares the entries up to the name.
At(h, list, name) ==
  {i \in 1..Len(B(h, list).keys) : LET k == B(h, list).keys[i] IN k # Garbage /\ B(h, k).name = name}
ReadsGarbage(h, list, name) ==
  \E i \in 1..Len(B(h, list).keys) : B(h, list).keys[i] = Garbage /\ \A j \in At(h, list, name) : i < j

\* The key without the subkey whose node is del: list ri of ls has become lf, or is
\* gone if that is Nil; a deep index whose list becomes empty gets a new ri block.
NewRi(h, nk, rb, rest) ==
  Body(free_block(Place(h, rb, RiSize(Len(rest)), [t |-> "ri", lists |-> rest]), B(h, nk).lf), nk,
       [B(h, nk) EXCEPT !.lf = rb])
Relist(h, nk, deep, ls, ri, lf) ==
  LET key == B(h, nk)
  IN IF ~deep THEN Body(h, nk, [key EXCEPT !.lf = lf])
     ELSE IF lf # Nil THEN Body(h, key.lf, [t |-> "ri", lists |-> [ls EXCEPT ![ri] = lf]])
     ELSE IF Len(ls) = 1 THEN Body(free_block(h, key.lf), nk, [key EXCEPT !.lf = 0])
     ELSE NewRi(h, nk, find_free(h, nk, RiSize(Len(ls) - 1)), RemoveAt(ls, ri))
WithoutKey(h, nk, del, list) ==
  Body(free_block(free_block(h, del), list), nk, [B(h, nk) EXCEPT !.no_subkeys = @ - 1])
Unlisted(h, nk, deep, ls, ri, del, keys, lf) ==
  IF keys # <<>> /\ lf = Nil THEN [h |-> h, life |-> "failed"]
  ELSE IF B(h, del).no_values # 0 \/ B(h, del).no_subkeys # 0 THEN [h |-> h, life |-> "failed"]
  ELSE IF keys = <<>> THEN Ok(Relist(WithoutKey(h, nk, del, ls[ri]), nk, deep, ls, ri, Nil))
  ELSE Ok(Relist(WithoutKey(Place(h, lf, LfSize(Len(keys)), [t |-> "lf", keys |-> keys]), nk, del, ls[ri]),
                 nk, deep, ls, ri, lf))
DelSlot(h, nk, ls, ri, slot) ==
  LET old == B(h, ls[ri]).keys
  IN Unlisted(h, nk, B(h, B(h, nk).lf).t = "ri", ls, ri, old[slot], RemoveAt(old, slot),
              find_free(h, nk, LfSize(Len(old) - 1)))

\* del_key: the key of exactly that name, when it has no values and no subkeys.
\* The new index is allocated before the old one goes.
del_key(h, nk, name) ==
  LET ls   == Lists(h, nk)
      hits == {i \in 1..Len(ls) : At(h, ls[i], name) # {}}
  IN IF \E i \in 1..Len(ls) : (\A j \in hits : i <= j) /\ ReadsGarbage(h, ls[i], name)
     THEN [h |-> h, life |-> "undefined"]
     ELSE IF hits = {} THEN [h |-> h, life |-> "failed"]
     ELSE DelSlot(h, nk, ls, Min(hits), Min(At(h, ls[Min(hits)], name)))

\* rdel_keys: the subkeys first, each time the first one; a subkey that cannot
\* be deleted is tried for ever.
RECURSIVE rdel_keys(_, _, _), RdelSubkeys(_, _)
RdelSubkeys(h, nk) ==
  LET r == rdel_keys(h, nk, B(h, Subkeys(h, nk)[1]).name)
  IN IF Subkeys(h, nk) = <<>> THEN Ok(h)
     ELSE IF r.life # "ok" THEN [r EXCEPT !.life = IF @ = "failed" THEN "endless" ELSE @]
     ELSE RdelSubkeys(r.h, nk)
rdel_keys(h, nk, name) ==
  LET k == FindKey(h, nk, name)
      r == RdelSubkeys(h, k)
  IN IF k = Nil THEN [h |-> h, life |-> "failed"]
     ELSE IF r.life # "ok" THEN r
     ELSE del_key(del_allvalues(r.h, k), nk, name)

----------------------------------------------------------------------------
(* A hive with a deep index of two keys under the root; a caller with the   *)
(* offset of any key.                                                       *)

Low == CHOOSE n \in HNames : \A m \in HNames : n = m \/ Less(n, m)
High == CHOOSE n \in HNames : \A m \in HNames : n = m \/ Less(m, n)
rootofs == 1
Tile(h, o, size, body) == (o :> [size |-> size, body |-> body]) @@ h
HInit ==
  /\ LET k1 == 1 + NkSize
         k2 == k1 + NkSize
         l1 == k2 + NkSize
         l2 == l1 + LfSize(1)
         ri == l2 + LfSize(1)
         end == ri + RiSize(2)
         root == [Nk(<<>>, 0) EXCEPT !.no_subkeys = 2, !.lf = ri]
         rest == (end :> [size |-> PageCells[1] - (end - 1), body |-> Free])
         others == [o \in {PageStart(p) : p \in 2..Len(PageCells)} |->
                      [size |-> PageCells[find_page_start(o)], body |-> Free]]
     IN hive = Tile(Tile(Tile(Tile(Tile(Tile(rest @@ others, rootofs, NkSize, root),
                  k1, NkSize, Nk(Low, rootofs)), k2, NkSize, Nk(High, rootofs)),
                  l1, LfSize(1), [t |-> "lf", keys |-> <<k1>>]), l2, LfSize(1), [t |-> "lf", keys |-> <<k2>>]),
                  ri, RiSize(2), [t |-> "ri", lists |-> <<l1, l2>>])
  /\ hlife = "ok"
  /\ ops = 0

KeysOf(h) == {o \in DOMAIN h : h[o].body.t = "nk"}
Do(r) == /\ hlife = "ok" /\ ops < MaxOps /\ ops' = ops + 1
         /\ hive' = r.h
         /\ hlife' = IF r.life = "failed" THEN "ok" ELSE r.life

AddKey == \E k \in KeysOf(hive), n \in HNames : Do(add_key(hive, k, n))
DelKey == \E k \in KeysOf(hive), n \in HNames : Do(del_key(hive, k, n))
RdelKeys == \E k \in KeysOf(hive), n \in HNames : Do(rdel_keys(hive, k, n))
AddValue == \E k \in KeysOf(hive), n \in HNames, d \in BOOLEAN : Do(add_value(hive, k, n, d))
DelValue == \E k \in KeysOf(hive), n \in HNames : Do(del_value(hive, k, n))
PutValue == \E k \in KeysOf(hive), n \in HNames, l \in Lengths : Do(put_buf2val(hive, k, n, l))
HNext == AddKey \/ DelKey \/ RdelKeys \/ AddValue \/ DelValue \/ PutValue

HSpec == HInit /\ [][HNext]_hvars

----------------------------------------------------------------------------
\* The blocks a block refers to, in order.
Refs(h, o) ==
  LET b == B(h, o)
  IN CASE b.t = "nk" -> (IF b.no_subkeys # 0 THEN <<b.lf>> ELSE <<>>) \o (IF b.no_values # 0 THEN <<b.vlist>> ELSE <<>>)
       [] b.t = "ri" -> b.lists
       [] b.t = "lf" -> SelectSeq(b.keys, LAMBDA k : k # Garbage)
       [] b.t = "vl" -> b.vals
       [] b.t = "vk" -> IF b.inline \/ b.data = 0 THEN <<>> ELSE <<b.data>>
       [] OTHER -> <<>>

\* As long as no memory was misread, the blocks tile the pages, free ones never
\* touch, and every used block but the root is referred to by exactly one other
\* (alloc_block, free_block and all operations on keys and values): nothing
\* dangles and nothing is used twice.  An index that add_key has made too long
\* is the one thing that may be left over when its key has no subkeys.
HiveIntact ==
  hlife = "ok" =>
    LET h == hive
        used == {o \in DOMAIN h : h[o].body # Free}
        all == UNION {ToSet(Refs(h, o)) : o \in used}
    IN /\ \A o \in DOMAIN h :
            LET next == o + h[o].size
            IN /\ next \in DOMAIN h => (find_page_start(next) # find_page_start(o) \/ {h[o].body, h[next].body} # {Free})
               /\ next \in DOMAIN h \/ next = PageStart(Len(PageCells) + 1)
       /\ all \subseteq used
       /\ MapThenSumSet(LAMBDA o : Len(Refs(h, o)), used) = Cardinality(all)
       /\ \A o \in used \ all : o = rootofs \/ B(h, o).t = "lf"

\* A key's index lists as many keys as the key has subkeys.
IndexCountsMatch ==
  hlife = "ok" =>
    \A k \in KeysOf(hive) :
      Lists(hive, k) # <<>> =>
        hive[k].body.no_subkeys =
          FoldSeq(LAMBDA l, n : n + Len(hive[l].body.keys), 0, Lists(hive, k))
=============================================================================
