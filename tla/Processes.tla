------------------------------ MODULE Processes -------------------------------
(*****************************************************************************)
(* Executable images as pe_section_t reads and maps them, and the processes  *)
(* made from them.                                                           *)
(*****************************************************************************)
EXTENDS Naturals, Sequences, SequencesExt, FiniteSets, FiniteSetsExt

-------------------------------------------------------------------------------
(***************************************************************************)
(* Executable images (pe_section_t of src/kernel/section.cpp): how mapit   *)
(* lays the sections of the file out in a process, how addresses of the    *)
(* image are found in the file, and how exports are looked up by name and  *)
(* by address.  (get_proc_address( ordinal ) is called by the search for a *)
(* name only.)  Names are numbers in the order of strcmp, addresses count  *)
(* words, tables are functions from 0 as in the file.  Reading a table     *)
(* outside its bounds gives the answer Wild.                               *)
(***************************************************************************)
CONSTANTS ExportNames,   \* the names that are looked up
          MaxExports,    \* functions of an export table
          SectionTables, \* sequences of [va, vsize, ptr, raw]
          ImagePage,     \* words of a page
          UlongRange     \* number of values of a ULONG

ImageAssumption ==
    /\ ExportNames \subseteq Nat
    /\ {MaxExports, ImagePage, UlongRange} \subseteq Nat \ {0}
    /\ 2 * MaxExports < UlongRange

VARIABLES exports,  \* the export table: names, their ordinals, the functions
          sections, \* the section table
          memory,   \* the words mapit wrote: address to word of the file
          answer    \* the last question and its answer

ivars == <<exports, sections, memory, answer>>

Table(n, S) == [0..(n - 1) -> S]
Size(t) == Cardinality(DOMAIN t)

NoAnswer == [asked |-> "nothing", arg |-> 0, got |-> 0]
Wild == UlongRange

\* Any table of sorted names, each with the ordinal of some function.
ExportTables ==
    UNION {{e \in [names : Table(n, ExportNames), ords : Table(n, 0..(f - 1)), funcs : Table(f, {10, 20, 30})] :
               /\ \A i, j \in 0..(n - 1) : i < j => e.names[i] < e.names[j]
               /\ \A i, j \in 0..(f - 1) : i # j => e.funcs[i] # e.funcs[j]} :
           n \in 1..MaxExports, f \in 1..MaxExports}

ImInit == /\ exports \in ExportTables
          /\ sections \in SectionTables
          /\ memory = <<>>
          /\ answer = NoAnswer

RoundUp(n) == ((n + ImagePage - 1) \div ImagePage) * ImagePage

\* One turn of mapit's loop: pages for the virtual size, then the file's data
\* as far as copy_to_user finds pages for it.
MapSection(m, s) ==
    LET pages == s.va .. (s.va + RoundUp(s.vsize) - 1)
        mapped == [a \in DOMAIN m \cup pages |-> IF a \in pages THEN Wild ELSE m[a]]
        data == {a \in s.va .. (s.va + s.raw - 1) : s.va..a \subseteq DOMAIN mapped}
    IN  IF s.vsize = 0 THEN m
        ELSE [a \in DOMAIN mapped |-> IF a \in data THEN a - s.va + s.ptr ELSE mapped[a]]

Laid[i \in Nat] == IF i = 0 THEN <<>> ELSE MapSection(Laid[i - 1], sections[i])

mapit == /\ memory = <<>>
         /\ memory' = Laid[Len(sections)]
         /\ UNCHANGED <<exports, sections, answer>>

\* The first section holding the address decides.
virtual_addr_to_offset(v) ==
    LET in == {i \in DOMAIN sections : /\ sections[i].va <= v
                                       /\ sections[i].va + sections[i].raw > v}
    IN  IF in = {} THEN Wild
        ELSE LET s == sections[CHOOSE i \in in : \A j \in in : i <= j] IN v - s.va + s.ptr

ordinal_address_direct(n) ==
    IF n >= Size(exports.funcs) THEN 0 ELSE exports.funcs[n]

\* get_proc_address( ULONG ): what it calls an ordinal is the index of a name.
ordinal_address(n) ==
    IF n >= Size(exports.funcs) THEN 0
    ELSE exports.funcs[exports.ords[n]]

ULONG == 0..(UlongRange - 1)

\* The binary search of get_proc_address( name ), in unsigned arithmetic, at
\* most one turn per name and one more.
Bisect[left \in ULONG, right \in ULONG, name \in ExportNames, turns \in 0..(MaxExports + 1)] ==
    LET n == (left + right) \div 2 IN
    IF left > right THEN 0
    ELSE IF n \notin DOMAIN exports.names \/ turns = 0 THEN Wild
    ELSE IF exports.names[n] = name THEN ordinal_address(n)
    ELSE IF name < exports.names[n]
    THEN Bisect[left, (n + UlongRange - 1) % UlongRange, name, turns - 1]
    ELSE Bisect[n + 1, right, name, turns - 1]

get_proc_address(name) == Bisect[0, Size(exports.names) - 1, name, MaxExports + 1]

\* The search runs on behind the table until some word equals the ordinal.
name_of_ordinal(ordinal) ==
    LET i == {k \in DOMAIN exports.ords : exports.ords[k] = ordinal}
    IN  IF i = {} THEN Wild ELSE exports.names[CHOOSE k \in i : \A j \in i : k <= j]

get_symbol(address) ==
    LET i == {k \in DOMAIN exports.funcs : exports.funcs[k] = address}
    IN  IF i = {} THEN 0 ELSE name_of_ordinal(CHOOSE k \in i : \A j \in i : k <= j)

Ask(what, arg, got) == /\ answer' = [asked |-> what, arg |-> arg, got |-> got]
                       /\ UNCHANGED <<exports, sections, memory>>

Lookup(name) == Ask("address", name, get_proc_address(name))
Symbol(address) == Ask("symbol", address, get_symbol(address))
Offset(v) == memory # <<>> /\ Ask("offset", v, virtual_addr_to_offset(v))

ImNext == \/ mapit
          \/ \E name \in ExportNames : Lookup(name)
          \/ \E address \in {10, 20, 30} : Symbol(address)
          \/ \E v \in DOMAIN memory : Offset(v)

ImSpec == ImInit /\ [][ImNext]_ivars

-----------------------------------------------------------------------------
ExportIndex(name) == {i \in DOMAIN exports.names : exports.names[i] = name}

\* What the kernel reads of an image is what the process sees: a word found in
\* the file for an address is the word mapit put there; an exported name gives
\* the address of its function, or none when as many names as there are
\* functions sort before it; no other name that sorts behind the first export
\* gives an address; the symbol of a named function's address is a name that is
\* looked up to the same address.
ImageAnswersAgree ==
    LET a == answer.arg
        r == answer.got
    IN  CASE answer.asked = "address" ->
               IF ExportIndex(a) # {}
               THEN \A i \in ExportIndex(a) :
                      r = IF i < Size(exports.funcs) THEN exports.funcs[exports.ords[i]] ELSE 0
               ELSE a > exports.names[0] => r = 0
          [] answer.asked = "symbol" ->
               r \in ExportNames \ {0} => \A i \in ExportIndex(r) : exports.funcs[exports.ords[i]] = a
          [] answer.asked = "offset" -> r # Wild => memory[a] = r
          [] OTHER -> TRUE

\* "return the address if we get a match" (section.cpp:525).
MatchGivesAddress ==
    answer.asked = "address" => \A i \in ExportIndex(answer.arg) : answer.got = exports.funcs[exports.ords[i]]

-------------------------------------------------------------------------------
(***************************************************************************)
(* Creation, lookup and end of processes and threads                       *)
(* (src/kernel/process.cpp, create_thread of thread.cpp) as far as the     *)
(* layout of the address space and the client ids go.  A new process has   *)
(* its image, ntdll, the block shared with the kernel, the place of the    *)
(* GDI handle table, the process environment block (PEB) and the locale    *)
(* tables mapped in this order; a thread adds its own block (TEB).         *)
(* Addresses count granules of 64k; both ends of the space are guarded.    *)
(***************************************************************************)
CONSTANTS SpaceTop,    \* the highest granule, a guard block
          NtdllBase, GdiTable, ImageBases,  \* fixed addresses
          Processes,   \* the process objects
          MaxIds,      \* ids handed out
          MaxOwn,      \* blocks a program allocates for itself
          MaxOpen      \* handles on one process

ProcessAssumption ==
    /\ {SpaceTop, NtdllBase, GdiTable, MaxIds, MaxOwn, MaxOpen} \subseteq Nat
    /\ ImageBases \subseteq 1..(SpaceTop - 2)

VARIABLES process,      \* the process objects
          unique_counter,
          phandles      \* the handles open on each process

pvars == <<process, unique_counter, phandles>>

Area(what, at) == [what |-> what, at |-> at]

Guards == {Area("guard", 0), Area("guard", SpaceTop)}

NoProcess == [stage |-> "none", id |-> 0, areas |-> {}, threads |-> {}]

PInit == /\ process = [p \in Processes |-> NoProcess]
         /\ unique_counter = 0
         /\ phandles = [p \in Processes |-> 0]

\* The places where one granule can go: a fixed one, the highest or the
\* lowest that is free.  None when there is no room.
Places(areas, how) ==
    LET free == (0..SpaceTop) \ {a.at : a \in areas} IN
    IF free = {} THEN {}
    ELSE CASE how = "down" -> {Max(free)}
           [] how = "up"   -> {Min(free)}
           [] OTHER        -> free

Maps(areas, m) == LET at == IF m.how = "fixed" THEN {m.at} \ {a.at : a \in areas}
                            ELSE Places(areas, m.how)
                  IN  {areas \cup {Area(m.what, x)} : x \in at}

Fixed(what, at) == [what |-> what, how |-> "fixed", at |-> at]
Found(what, how) == [what |-> what, how |-> how, at |-> 0]

Mappings_peb_first(base) ==
    <<Fixed("exe", base), Fixed("ntdll", NtdllBase), Fixed("gdi", GdiTable),
      Found("peb", "down"), Found("shared", "down"), Found("nls", "up")>>

\* What create_process maps, in its order.
Mappings(base) ==
    <<Fixed("exe", base), Fixed("ntdll", NtdllBase), Found("shared", "down"),
      Fixed("gdi", GdiTable), Found("peb", "down"), Found("nls", "up")>>

\* The first mapping that fails ends create_process; what is mapped stays.
Layout(base) ==
    FoldLeft(LAMBDA r, m : LET next == Maps(r.areas, m) IN
                           IF r.ok /\ next # {} THEN [r EXCEPT !.areas = CHOOSE s \in next : TRUE]
                           ELSE [r EXCEPT !.ok = FALSE],
             [ok |-> TRUE, areas |-> Guards], Mappings(base))

NewId == unique_counter + 1

\* NtCreateProcess.  A process that could not be completed stays listed.
CreateProcess(p, base) ==
    /\ process[p].stage = "none" /\ NewId <= MaxIds
    /\ LET r == Layout(base) IN
       process' = [process EXCEPT ![p] =
                     [stage |-> IF r.ok THEN "ready" ELSE "half", id |-> NewId,
                      areas |-> r.areas, threads |-> {}]]
    /\ unique_counter' = NewId
    /\ phandles' = [phandles EXCEPT ![p] = IF Layout(base).ok THEN 1 ELSE 0]

Thread(id, at, alive) == [id |-> id, teb |-> at, alive |-> alive]

\* NtCreateThread on a process that still has its address space; a thread
\* whose block finds no room is released again.
CreateThread(p) ==
    /\ process[p].stage \in {"ready", "half"} /\ NewId <= MaxIds
    /\ LET at == Places(process[p].areas, "down") IN
       process' = [process EXCEPT
                     ![p].areas = @ \cup {Area("teb", x) : x \in at},
                     ![p].threads = @ \cup {Thread(NewId, x, TRUE) : x \in at}]
    /\ unique_counter' = NewId
    /\ UNCHANGED phandles

\* The threads in ts end; the last one takes the address space with it.
Ended(P, ts) ==
    LET threads == {Thread(t.id, t.teb, t.alive /\ t \notin ts) : t \in P.threads}
    IN  IF \E t \in threads : t.alive THEN [P EXCEPT !.threads = threads]
        ELSE [P EXCEPT !.threads = threads, !.stage = "dead", !.areas = {}]

TerminateThread(p, t) ==
    /\ t.alive
    /\ process' = [process EXCEPT ![p] = Ended(@, {t})]
    /\ UNCHANGED <<unique_counter, phandles>>

\* NtTerminateProcess by a thread of another process.
TerminateProcess(p) ==
    /\ \E t \in process[p].threads : t.alive
    /\ process' = [process EXCEPT ![p] = Ended(@, @.threads)]
    /\ UNCHANGED <<unique_counter, phandles>>

\* NtClose.  A process without threads goes with its last handle (each
\* thread holds a reference to its process and is itself never released).
CloseProcess(p) ==
    /\ phandles[p] > 0
    /\ phandles' = [phandles EXCEPT ![p] = @ - 1]
    /\ process' = IF phandles[p] = 1 /\ process[p].stage = "ready" /\ process[p].threads = {}
                  THEN [process EXCEPT ![p] = NoProcess] ELSE process
    /\ UNCHANGED unique_counter

Own(p) == {a \in process[p].areas : a.what = "own"}

\* NtAllocateVirtualMemory and NtFreeVirtualMemory of the program's threads.
Allocate(p, how) ==
    /\ \E t \in process[p].threads : t.alive
    /\ Cardinality(Own(p)) < MaxOwn
    /\ \E x \in Places(process[p].areas, how) :
         process' = [process EXCEPT ![p].areas = @ \cup {Area("own", x)}]
    /\ UNCHANGED <<unique_counter, phandles>>

FreeOwn(p, a) ==
    /\ \E t \in process[p].threads : t.alive
    /\ process' = [process EXCEPT ![p].areas = @ \ {a}]
    /\ UNCHANGED <<unique_counter, phandles>>

Listed == {p \in Processes : process[p].stage # "none"}
find_process_by_id(pid) == {p \in Listed : process[p].id = pid}

find_thread_by_client_id(pid, tid) ==
    {p \in find_process_by_id(pid) : \E t \in process[p].threads : t.id = tid}

\* NtOpenProcess by client id, with a thread's id or without.
OpenProcess(pid, tid) ==
    /\ \E p \in IF tid # 0 THEN find_thread_by_client_id(pid, tid) ELSE find_process_by_id(pid) :
         /\ phandles[p] < MaxOpen
         /\ phandles' = [phandles EXCEPT ![p] = @ + 1]
    /\ UNCHANGED <<process, unique_counter>>

PNext == \/ \E p \in Processes, b \in ImageBases : CreateProcess(p, b)
         \/ \E p \in Processes : \/ CreateThread(p) \/ TerminateProcess(p) \/ CloseProcess(p)
                                 \/ \E t \in process[p].threads : TerminateThread(p, t)
                                 \/ \E how \in {"up", "down"} : Allocate(p, how)
                                 \/ \E a \in Own(p) : FreeOwn(p, a)
         \/ \E pid, tid \in 0..MaxIds : OpenProcess(pid, tid)

PSpec == PInit /\ [][PNext]_pvars

-----------------------------------------------------------------------------
\* In every complete process the shared block lies at the highest place, as
\* the assertion of get_shared_memory_block demands and ntdll relies on; no
\* two areas share a granule; each live thread has a block of its own, which
\* nothing else of the process occupies.  An id names one process or thread,
\* and a handle keeps its process, whatever was created and ended meanwhile.
ProcessLayout ==
    /\ \A p \in Listed : LET P == process[p] IN
        /\ P.stage = "ready" => {Area("shared", SpaceTop - 1), Area("gdi", GdiTable)} \subseteq P.areas
        /\ \A a, b \in P.areas : a.at = b.at => a = b
        /\ \A t \in P.threads : t.alive => /\ Area("teb", t.teb) \in P.areas
                                           /\ \A u \in P.threads : u.alive /\ u.teb = t.teb => u = t
        /\ \A q \in Listed \ {p} : ({P.id} \cup {t.id : t \in P.threads})
                                       \cap ({process[q].id} \cup {t.id : t \in process[q].threads}) = {}
    /\ \A p \in Processes : phandles[p] > 0 => p \in Listed
===============================================================================
