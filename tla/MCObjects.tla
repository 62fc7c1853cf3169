------------------------------ MODULE MCObjects -------------------------------
(***************************************************************************)
(* Objects with their names and handles (Objects), and the memory of a     *)
(* process (Memory).  A behaviour is one of one of the two.                *)
(***************************************************************************)
EXTENDS Objects, TLC

VARIABLES which,   \* the part that this behaviour is one of
          vm, life, calls

(* Two processes with one handle each, three objects besides the root,     *)
(* names that differ in case only.                                         *)
CONSTANTS p1, p2, root, o1, o2, o3, sect, img, GUARD

Lower == [n \in Names |-> IF n = "A" THEN "a" ELSE n]
Abs(segs) == [abs |-> TRUE, segs |-> segs]
Rel(segs) == [abs |-> FALSE, segs |-> segs]
SomePaths == {Abs(<<"a">>), Abs(<<"A">>), Abs(<<"A", "a">>), Abs(<<"A", "">>), Rel(<<"A">>)}
SomeTargets == {Abs(<<"a">>)}
SomeAttrs == {{}, {"CASE_INSENSITIVE", "OPENIF", "PERMANENT"}}
SomeMasks == {{"QUERY"}}
Symm == Permutations(Objs \ {Root}) \cup Permutations(Procs)

(* Eight pages, of which the first and the last two are guards; one shared *)
(* section of two pages and one image of two parts.                        *)
Me == INSTANCE Memory WITH NPages <- 8, Gran <- 2, MaxAnon <- 2, MaxCalls <- 3, Named <- {2, 3, 4, 7},
                           Sections <- {sect, img}, Image <- img, SecLen <- 2, SecProt <- 4,
                           ImageParts <- <<[at |-> 2, len |-> 1, prot |-> 2], [at |-> 3, len |-> 1, prot |-> 4]>>

ASSUME Me!MemoryAssumption

MCInit ==
  /\ which \in {"objects", "memory"}
  /\ Init
  /\ Me!MemInit

objectsvars == <<refs, pins, table, access, proc, type, parent, list, name,
                  target>>
memoryvars == <<vm, life, calls>>
mcvars == <<which, objectsvars, memoryvars>>

MCNext ==
  \/ which = "objects" /\ Next /\ UNCHANGED <<which, memoryvars>>
  \/ which = "memory" /\ Me!MemNext /\ UNCHANGED <<which, objectsvars>>

MCSpec == MCInit /\ [][MCNext]_mcvars

-------------------------------------------------------------------------------
(* A process's blocks are what its pages were asked to be: the memory      *)
(* manager with its splitting of blocks implements a table of pages        *)
(* (mem.cpp, block.cpp; AddressSpace).                                     *)
ImplementsPages == Me!ImplementsPages

(* Kernel and process see the same memory: every page reached through the  *)
(* kernel's block is the page mapped in the process, and sections live as  *)
(* long as a view of them (split, set_section).                            *)
ViewsAgree == Me!ViewsAgree /\ Me!BackingAlive
===============================================================================
