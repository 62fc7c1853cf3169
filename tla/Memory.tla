------------------------------- MODULE Memory -------------------------------
(***************************************************************************)
(* The user address space of a process: mem.cpp (address_space_impl),      *)
(* block.cpp (mblock and its two kinds of pages) and the views of          *)
(* section.cpp.  Addresses are page numbers.  A block is known by its first*)
(* page, which never changes while it lives.  A place in a backing file is *)
(* a cell <<backing, page offset>>; both the kernel's own mapping and the  *)
(* mapping in the client process are recorded as cells, so that a wrong    *)
(* offset shows.  Block tracers (debugging) are left out.                  *)
(***************************************************************************)
EXTENDS Integers, Sequences, FiniteSets, FiniteSetsExt

CONSTANTS NPages,      \* highest_address >> 12
          Gran,        \* 0x10000 >> 12: alignment and size of a guard block
          MaxAnon,     \* bound: anonymous backing files alive at once
          MaxCalls,    \* bound: calls that change the space, destroy aside
          Named,       \* the page addresses that calls name, besides NULL
          Sections,    \* section objects that can be mapped
          Image,       \* the section that is a PE image
          SecLen,      \* pages of a section
          SecProt,     \* Protect a section was created with
          ImageParts,  \* sequence of [at, len, prot]: header, then PE sections
          GUARD, NONE  \* no backing; no mapping

MemoryAssumption ==
  /\ {NPages, Gran, MaxAnon, MaxCalls, SecLen} \subseteq Nat \ {0}
  /\ NPages > 2 * Gran /\ Gran > 0
  /\ Image \in Sections /\ Named \subseteq 0..NPages

VARIABLES vm, life, calls

Pages == 0..(NPages - 1)
Prots == {2, 4}                          \* PAGE_READONLY, PAGE_READWRITE
Anon == 1..MaxAnon
Backings == Anon \cup Sections
Run(a, n) == a..(a + n - 1)

\* life: "up"; "full", "split" and "die" when the kernel stops itself on an
\* assert of verify, an assert of split or a failed mapping; "undefined" when
\* xlate is indexed out of its bounds; "gone" once the space is destroyed.
Lives == {"up", "full", "split", "die", "undefined", "gone"}

\* mblock: size, State, Protect, the backing file and core_ofs, the start of
\* the kernel's mapping and the section object recorded for symbols.
Blocks == [size : 1..NPages, state : {"reserve", "commit"}, prot : {0} \cup Prots,
           back : Backings \cup {GUARD}, ofs : Pages,
           kern : {NONE} \cup (Backings \X Pages), sec : Sections \cup {NONE}]

IsBlock(v, b) == v.blk[b] # NONE
BlockSet(v) == {b \in Pages : IsBlock(v, b)}
Span(v, b) == Run(b, v.blk[b].size)

\* The guard blocks of address_space_impl::init: reserved, without a backing.
GuardBlock(n) == [size |-> n, state |-> "reserve", prot |-> 0, back |-> GUARD,
                  ofs |-> 0, kern |-> NONE, sec |-> NONE]

MemInit ==
  LET top == NPages - Gran IN
  /\ vm = [blk |-> [p \in Pages |-> IF p \in {0, top} THEN GuardBlock(Gran) ELSE NONE],
           xlate |-> [p \in Pages |-> IF p < Gran THEN 0
                                      ELSE IF p >= top THEN top ELSE NONE],
           refs |-> [k \in Backings |-> IF k \in Sections THEN 1 ELSE 0],
           remote |-> [p \in Pages |-> NONE],
           open |-> Sections]
  /\ life = "up"
  /\ calls = 0

----------------------------------------------------------------------------
(* find_free_area, check_area, get_mblock *)

NoMemory == -1                           \* STATUS_NO_MEMORY
Wrapped == -2                            \* the search left the page table

\* The bottom-up search: skip past any block met, and past unaligned pages.
RECURSIVE FindUp(_, _, _, _)
FindUp(v, len, base, free) ==
  IF free >= len THEN base
  ELSE IF base + free >= NPages THEN NoMemory
  ELSE LET b == v.xlate[base + free] IN
       IF b # NONE THEN FindUp(v, len, b + v.blk[b].size, 0)
       ELSE IF base % Gran # 0 THEN FindUp(v, len, base + 1, free)
       ELSE FindUp(v, len, base, free + 1)

\* The top-down search.  base is unsigned: below zero it wraps to an address
\* far above highest_address, and the table of pages is read out of bounds.
RECURSIVE FindDown(_, _, _, _)
FindDown(v, len, base, free) ==
  IF free >= len THEN base
  ELSE IF base < 0 THEN Wrapped
  ELSE IF base + free <= 0 THEN NoMemory
  ELSE LET b == v.xlate[base + free] IN
       IF b # NONE THEN FindDown(v, len, b - len, 0)
       ELSE IF base % Gran # 0 THEN FindDown(v, len, base - 1, free)
       ELSE FindDown(v, len, base, free + 1)

\* Mutant of find_free_area: the top-down search starts one step too low.
find_free_area_low(v, len, topdown) ==
  IF topdown THEN FindDown(v, len, ((NPages - len - 1) \div Gran) * Gran, 0)
  ELSE FindUp(v, len, 0, 0)

find_free_area(v, len, topdown) ==
  IF topdown THEN FindDown(v, len, ((NPages - len) \div Gran) * Gran, 0)
  ELSE FindUp(v, len, 0, 0)

AreaValid(a, len) == a < NPages /\ a + len <= NPages /\ len > 0
AreaContiguous(v, a, len) == \A p \in Run(a, len) : v.xlate[p] = v.xlate[a]
AreaFree(v, a, len) == \A p \in Run(a, len) : v.xlate[p] = NONE

\* get_mem_region: reserving needs a free area, committing one that is free
\* throughout or lies in one block.
get_mem_region(v, a, len, state) ==
  /\ AreaValid(a, len)
  /\ state = "reserve" => AreaFree(v, a, len)
  /\ AreaContiguous(v, a, len)

\* The last assert of verify(): the blocks may never fill the whole space.
VerifyTotal(v) ==
  MapThenSumSet(LAMBDA b : v.blk[b].size, BlockSet(v)) < NPages

----------------------------------------------------------------------------
(* mblock: split, commit, uncommit, and the reference a block holds on its *)
(* backing file                                                            *)

\* Mutant of link_rest: the page table still names the old block.
link_rest_noxlate(v, b, n, rest) ==
  [v EXCEPT !.blk[b].size = n, !.blk[b + n] = rest,
            !.refs = [k \in Backings |-> IF k = rest.back THEN @[k] + 2 ELSE @[k]]]

\* The two halves of a split put in the table and the list.  do_split adds a
\* reference on the backing and the constructor of the new block another.
link_rest(v, b, n, rest) ==
  [v EXCEPT !.blk[b].size = n,
            !.blk[b + n] = rest,
            !.refs = [k \in Backings |-> IF k = rest.back THEN @[k] + 2 ELSE @[k]],
            !.xlate = [p \in Pages |-> IF p \in Run(b + n, rest.size)
                                       THEN b + n ELSE @[p]]]

\* Mutant of split: the second block inherits the kernel address unchanged.
split_samekern(v, b, n) ==
  link_rest(v, b, n, [v.blk[b] EXCEPT !.size = @ - n, !.sec = NONE,
                        !.ofs = IF v.blk[b].back = GUARD THEN 0 ELSE @ + n])

\* Mutant of split: the offset in the backing moves only for mapped blocks.
split_sameofs(v, b, n) ==
  link_rest(v, b, n, [v.blk[b] EXCEPT !.size = @ - n, !.sec = NONE,
                        !.ofs = IF v.blk[b].state = "reserve" THEN @ ELSE @ + n,
                        !.kern = IF @ = NONE THEN NONE ELSE <<@[1], @[2] + n>>])

\* mblock::split: a second block takes everything from page n of the block on.
\* State, Protect and the kernel mapping go with it, the section does not.
split(v, b, n) ==
  link_rest(v, b, n, [v.blk[b] EXCEPT !.size = @ - n, !.sec = NONE,
                        !.ofs = IF v.blk[b].back = GUARD THEN 0 ELSE @ + n,
                        !.kern = IF @ = NONE THEN NONE ELSE <<@[1], @[2] + n>>])

\* split's own asserts: the part cut off and the part kept are not empty.
SplitFits(v, b, a, len) == a + len <= b + v.blk[b].size

\* split_area: cut before the area, then after it.
split_area(v, b, a, len) ==
  LET v1 == IF b = a THEN v ELSE split(v, b, a - b)
  IN IF v1.blk[a].size = len THEN v1 ELSE split(v1, a, len)

\* mblock::commit: the kernel maps the pages on the first commit; the client's
\* mapping is made anew each time, with the protection just set.
commit(v, b, prot) ==
  LET o == v.blk[b]
      kern == IF o.state = "commit" THEN o.kern ELSE <<o.back, o.ofs>>
  IN [v EXCEPT !.blk[b] = [o EXCEPT !.state = "commit", !.prot = prot, !.kern = kern],
               !.remote = [p \in Pages |-> IF p \in Span(v, b)
                             THEN [cell |-> <<o.back, o.ofs + (p - b)>>, prot |-> prot]
                             ELSE @[p]]]

\* alloc_core_pages or alloc_fd_pages, insert_block, and the reserve() and
\* page translation of set_block_state.
NewBlock(v, a, len, back) ==
  [v EXCEPT !.blk[a] = [GuardBlock(len) EXCEPT !.back = back],
            !.refs[back] = @ + 1,
            !.xlate = [p \in Pages |-> IF p \in Run(a, len) THEN a ELSE @[p]]]

\* free_shared: uncommit (client unmapped, kernel unmapped), unreserve, clear
\* the page table, unlink, and the destructors' releases.
free_shared(v, b) ==
  LET o == v.blk[b]
      drop(k) == (IF k = o.back THEN 1 ELSE 0) + (IF k = o.sec THEN 1 ELSE 0)
  IN [v EXCEPT !.blk[b] = NONE,
               !.xlate = [p \in Pages |-> IF p \in Span(v, b) THEN NONE ELSE @[p]],
               !.refs = [k \in Backings |-> @[k] - drop(k)],
               !.remote = [p \in Pages |-> IF o.state = "commit" /\ p \in Span(v, b)
                                           THEN NONE ELSE @[p]]]

\* Mutant of set_section: no reference is taken.
set_section_noref(v, b, s) ==
  LET old == v.blk[b].sec
  IN [v EXCEPT !.blk[b].sec = s,
               !.refs = [k \in Backings |-> @[k] - (IF k = old THEN 1 ELSE 0)]]

\* mblock::set_section: the previous section is released first.
set_section(v, b, s) ==
  LET old == v.blk[b].sec
  IN [v EXCEPT !.blk[b].sec = s,
               !.refs = [k \in Backings |-> (@[k] - (IF k = old THEN 1 ELSE 0))
                                            + (IF k = s THEN 1 ELSE 0)]]

----------------------------------------------------------------------------
(* allocate_virtual_memory, map_fd and pe_section_t::mapit as functions of *)
(* the space; a result is the space after the call and how it ended        *)

Res(v, end) == [vm |-> v, end |-> end]

\* set_block_state after a block covers exactly the area; committing guard
\* pages cannot map them into the kernel, which dies.
set_block_state(v, b, state, prot) ==
  LET v1 == IF state = "commit" THEN commit(v, b, prot) ELSE v
  IN IF state = "commit" /\ v.blk[b].back = GUARD THEN Res(v, "die")
     ELSE Res(v1, IF VerifyTotal(v1) THEN "ok" ELSE "full")

FreeAnon(v) == {k \in Anon : v.refs[k] = 0}

\* The start address a call uses: the one given or, for NULL, a search.
StartOf(v, start, len, topdown) ==
  IF start = 0 THEN find_free_area(v, len, topdown) ELSE start

allocate_virtual_memory(v, start, len, topdown, state, prot) ==
  LET a == StartOf(v, start, len, topdown) IN
  IF len = 0 \/ len > NPages \/ start > NPages \/ a = NoMemory THEN Res(v, "fail")
  ELSE IF a = Wrapped THEN Res(v, "undefined")
  ELSE IF ~get_mem_region(v, a, len, state) THEN Res(v, "fail")
  ELSE LET b == v.xlate[a]
           v1 == IF b = NONE THEN NewBlock(v, a, len, Min(FreeAnon(v)))
                 ELSE split_area(v, b, a, len)
       IN set_block_state(v1, a, state, prot)

\* section_t::mapit and map_fd: always committed, and never over a block.
map_fd(v, start, s, topdown, prot) ==
  LET a == StartOf(v, start, SecLen, topdown) IN
  IF prot > SecProt \/ start > NPages \/ a = NoMemory THEN Res(v, "fail")
  ELSE IF a = Wrapped THEN Res(v, "undefined")
  ELSE IF ~get_mem_region(v, a, SecLen, "commit") \/ v.xlate[a] # NONE
       THEN Res(v, "fail")
       ELSE set_block_state(NewBlock(v, a, SecLen, s), a, "commit", prot)

\* pe_section_t::mapit: the header page, then every part of the image at its
\* fixed address.  A failure on the header is returned, on a part it kills.
RECURSIVE MapImageFrom(_, _)
MapImageFrom(v, i) ==
  IF i > Len(ImageParts) THEN Res(v, "ok")
  ELSE LET part == ImageParts[i]
           r == allocate_virtual_memory(v, part.at, part.len, FALSE, "commit", part.prot)
       IN IF r.end = "fail" THEN Res(r.vm, IF i = 1 THEN "fail" ELSE "die")
          ELSE IF r.end # "ok" THEN r
          ELSE MapImageFrom(set_section(r.vm, part.at, Image), i + 1)

----------------------------------------------------------------------------
(* The calls a process makes *)

\* The state after a call that ended with r.
Finish(r) ==
  /\ calls < MaxCalls
  /\ calls' = IF r.vm = vm THEN calls ELSE calls + 1
  /\ vm' = r.vm
  /\ life' = IF r.end \in {"ok", "fail"} THEN "up" ELSE r.end

Alloc(start, len, topdown, state, prot) ==
  /\ life = "up"
  /\ FreeAnon(vm) # {}
  /\ Finish(allocate_virtual_memory(vm, start, len, topdown, state, prot))

MapView(start, s, topdown, prot) ==
  /\ life = "up"
  /\ s \in vm.open \ {Image}
  /\ Finish(map_fd(vm, start, s, topdown, prot))

MapImage ==
  /\ life = "up"
  /\ Image \in vm.open
  /\ Cardinality(FreeAnon(vm)) >= Len(ImageParts)
  /\ Finish(MapImageFrom(vm, 1))

\* Decommitting, like releasing, frees the pages.  The block must be as long
\* as the area, but may end before the area does.
free_virtual_memory(v, start, len) ==
  LET b == v.xlate[start] IN
  IF b = NONE THEN Res(v, "fail")
  ELSE IF v.blk[b].size < len THEN Res(v, "fail")
  ELSE IF ~SplitFits(v, b, start, len) THEN Res(v, "split")
  ELSE Res(free_shared(split_area(v, b, start, len), start), "ok")

FreeVirtualMemory(start, len) ==
  /\ life = "up" /\ start # 0 /\ len # 0
  /\ Finish(free_virtual_memory(vm, start, len))

\* The whole block the address lies in is freed.
unmap_view(v, start) ==
  IF v.xlate[start] = NONE THEN Res(v, "fail")
  ELSE Res(free_shared(v, v.xlate[start]), "ok")

UnmapViewOfSection(start) ==
  /\ life = "up"
  /\ Finish(unmap_view(vm, start))

\* NtClose of the last handle of a section.
CloseSection(s) ==
  /\ life = "up"
  /\ s \in vm.open
  /\ vm' = [vm EXCEPT !.open = @ \ {s}, !.refs[s] = @ - 1]
  /\ UNCHANGED <<life, calls>>

\* address_space_impl::destroy, when the process is destroyed.
RECURSIVE FreeBlocks(_)
FreeBlocks(v) == IF BlockSet(v) = {} THEN v
                 ELSE FreeBlocks(free_shared(v, Min(BlockSet(v))))
destroy ==
  /\ life = "up"
  /\ vm' = FreeBlocks(vm)
  /\ life' = "gone"
  /\ UNCHANGED calls

\* An address, or NULL and the direction of the search (MEM_TOP_DOWN).
Wheres == {<<a, FALSE>> : a \in Named \cup {0}} \cup {<<0, TRUE>>}

MemNext ==
  \/ \E w \in Wheres, len \in 1..NPages, how \in {<<"reserve", 0>>} \cup ({"commit"} \X Prots) :
        Alloc(w[1], len, w[2], how[1], how[2])
  \/ \E w \in Wheres, s \in Sections, prot \in Prots : MapView(w[1], s, w[2], prot)
  \/ MapImage
  \/ \E start \in Named \cap Pages, len \in 1..NPages : FreeVirtualMemory(start, len)
  \/ \E start \in Named \cap Pages : UnmapViewOfSection(start)
  \/ \E s \in Sections : CloseSection(s)
  \/ destroy

MemorySpec == MemInit /\ [][MemNext]_<<vm, life, calls>>

----------------------------------------------------------------------------
(* Properties *)

\* What verify() asserts after every change, and more: no two blocks overlap,
\* and the page table names a block exactly on the pages that block covers.
\* split, the page translation updates and the frees keep it (mem.cpp:79-117).
TablesAgree ==
  /\ life \in Lives
  /\ vm.blk \in [Pages -> Blocks \cup {NONE}]
  /\ \A b \in BlockSet(vm) : Span(vm, b) \subseteq Pages
  /\ \A p \in Pages : vm.xlate[p] =
       (IF \E b \in BlockSet(vm) : p \in Span(vm, b)
        THEN CHOOSE b \in BlockSet(vm) : p \in Span(vm, b) ELSE NONE)
  /\ \A b, c \in BlockSet(vm) : b # c => Span(vm, b) \cap Span(vm, c) = {}

\* A committed page has the same cell in the client's mapping, in the kernel's
\* mapping and by the block's core_ofs, with the block's protection; a page
\* that is not committed is mapped nowhere.  So a system call that copies to a
\* user address writes what the client reads there (get_kernel_address), also
\* after any number of splits.
ViewsAgree ==
  \A p \in Pages :
    LET b == vm.xlate[p] IN
    IF b = NONE \/ vm.blk[b].state # "commit"
    THEN vm.remote[p] = NONE /\ (b # NONE => vm.blk[b].kern = NONE)
    ELSE LET o == vm.blk[b] IN
         /\ o.kern = <<o.back, o.ofs>>
         /\ vm.remote[p] = [cell |-> <<o.back, o.ofs + (p - b)>>, prot |-> o.prot]

\* A backing file or section object lives as long as a block or a handle uses
\* it: its count is never below the number of users.  (It can stay above: a
\* split takes one reference too many, which is never given back.)
BackingAlive ==
  \A k \in Backings :
    vm.refs[k] >= Cardinality({b \in BlockSet(vm) : vm.blk[b].back = k})
                  + Cardinality({b \in BlockSet(vm) : vm.blk[b].sec = k})
                  + (IF k \in vm.open THEN 1 ELSE 0)

\* find_free_area finds the lowest (top-down: the highest) aligned free area
\* that is long enough, and bottom-up reports no memory only if there is none.
Candidates(len) ==
  {a \in Pages : a % Gran = 0 /\ AreaValid(a, len) /\ AreaFree(vm, a, len)}
FindsArea ==
  life = "up" => \A len \in 1..NPages :
    /\ find_free_area(vm, len, FALSE) =
         (IF Candidates(len) = {} THEN NoMemory ELSE Min(Candidates(len)))
    /\ (Candidates(len) \ {0}) # {} =>
         find_free_area(vm, len, TRUE) = Max(Candidates(len))

\* The blocks implement the space of pages: whatever is split, committed again
\* or freed around it, an allocated page keeps the cell it was given, and a
\* call that frees pages frees one contiguous run and changes nothing else.
PageOf(p) ==
  LET b == vm.xlate[p] IN
  IF b = NONE THEN NONE
  ELSE LET o == vm.blk[b] IN
       [cell |-> IF o.back = GUARD THEN NONE ELSE <<o.back, o.ofs + (p - b)>>,
        prot |-> IF o.state = "commit" THEN o.prot ELSE 0]
Abstract == INSTANCE AddressSpace
  WITH page <- [p \in Pages |-> PageOf(p)], FREE <- NONE, NOCELL <- NONE
ImplementsPages == Abstract!AddressSpaceSpec

\* split asserts "target_length < RegionSize" (block.cpp:252); the calls that
\* split a block check enough for it to hold.
SplitAssertsHold == life # "split"
=============================================================================
