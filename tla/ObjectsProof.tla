---------------------------- MODULE ObjectsProof ----------------------------
(***************************************************************************)
(* The tree of names stays a tree, and the object manager with its names   *)
(* and links implements the handle tables and counts of Handles, for every *)
(* number of processes, objects, handles, names and links.                 *)
(***************************************************************************)
EXTENDS Objects, HandlesProof

-----------------------------------------------------------------------------
Segments == Seq(Names \cup {""}) \ {<<>>}
PathSet == [abs: BOOLEAN, segs: Segments]

Alive == {o \in Objs : Live(o)}
Dirs == {o \in Alive : type[o] = "dir"}

(* The inductive invariant, beside HandlesInv: the types; the tree; and    *)
(* the root directory, which the kernel never lets go of.                  *)
TreeTypes ==
  /\ type \in [Objs -> Kinds \cup {"none"}]
  /\ parent \in [Objs -> Objs \cup {NONE}]
  /\ list \in [Objs -> Seq(Objs)]
  /\ target \in [Objs -> PathSet]
  /\ name = [o \in Objs |-> name[o]]

RootStays == pins[Root] > 0 /\ type[Root] = "dir"

(* No entry of d has the name n.                                           *)
NewName(d, n) == \A e \in Elems(list[d]) : name[e] # n

Tree == IsTree(Alive, type, parent, list, name)

TreeInv == HTypeOK /\ TreeTypes /\ Tree /\ RootStays

(* Calls of open() on what is there, and what such a call may come to:     *)
(* every object it names is there, on_open without an object has a         *)
(* directory to put one in, where no entry has the name yet.               *)
SafeCalls == [obj: Alive, segs: Segments, base: Dirs \cup {NONE}, leaked: Seq(Alive)]

Outcome(w) ==
  /\ w.res \in {"error", "object", "on_open", "overflow"}
  /\ w.dir \in Dirs \cup {NONE}
  /\ w.obj \in Alive \cup {NONE}
  /\ w.leaked \in Seq(Alive)
  /\ w.res = "object" => w.obj # NONE
  /\ w.res = "on_open" /\ w.obj = NONE => w.dir # NONE /\ NewName(w.dir, w.last)

LEMMA SafeCallsAreCalls == SafeCalls \subseteq Calls
<1>1. Alive \subseteq Objs /\ Dirs \subseteq Objs
  BY Zenon DEF Alive, Dirs
<1>2. ASSUME NEW s \in Seq(Alive) PROVE s \in Seq(Objs)
  BY <1>1
<1>3. ASSUME NEW c \in SafeCalls PROVE c \in Calls
  BY Zenon, <1>1, <1>2 DEF SafeCalls, Calls, Segments
<1> QED BY Zenon, <1>3

LEMMA RootIsDir ==
  ASSUME HandlesInv, TreeInv
  PROVE  Root \in Dirs
<1>1. Root \in Objs /\ pins[Root] > 0 /\ type[Root] = "dir"
  BY Zenon, ObjectsAssumption DEF TreeInv, RootStays
<1> QED BY Zenon, <1>1, PinnedIsLive DEF Dirs, Alive

(* lookup finds an entry of the directory's list, which is there; when it  *)
(* finds none, by either case rule, no entry has that very name.           *)
LEMMA LookupAlive ==
  ASSUME TreeInv, NEW d \in Objs, NEW n, NEW ci
  PROVE  /\ lookup(d, n, ci) \in Alive \cup {NONE}
         /\ lookup(d, n, ci) = NONE => NewName(d, n)
<1> DEFINE hits == {i \in DOMAIN list[d] : compare(name[list[d][i]], n, ci)}
<1>1. list[d] \in Seq(Objs)
  BY Zenon DEF TreeInv, TreeTypes
<1>2. CASE hits = {}
  <2>1. lookup(d, n, ci) = NONE
    BY Zenon, <1>2 DEF lookup
  <2>2. \A i \in DOMAIN list[d] : name[list[d][i]] # n
    BY Zenon, <1>2 DEF compare
  <2> QED BY Zenon, <2>1, <2>2 DEF NewName, Elems
<1>3. CASE hits # {}
  <2>1. lookup(d, n, ci) = list[d][First(hits)]
    BY Zenon, <1>3 DEF lookup
  <2>2. hits \subseteq 1 .. Len(list[d]) /\ hits \in SUBSET Nat
    BY <1>1
  <2> HIDE DEF hits
  <2>3. First(hits) \in 1 .. Len(list[d])
    BY Zenon, <1>3, <2>2, FirstIsIn
  <2>4. list[d][First(hits)] \in Objs /\ Live(list[d][First(hits)])
    BY <1>1, <2>3 DEF TreeInv, Tree, IsTree, Alive, Elems
  <2> QED BY Zenon, <2>1, <2>4, HandlesAssumption DEF Alive
<1> QED BY Zenon, <1>2, <1>3

LEMMA OpenRootSafe ==
  ASSUME TreeInv, Root \in Dirs, NEW h, \A c \in SafeCalls : Outcome(h[c]),
         NEW path \in PathSet, NEW base \in Dirs \cup {NONE}, NEW leaked \in Seq(Alive)
  PROVE  Outcome(open_root(h, path, base, leaked))
<1> DEFINE dir == IF base = NONE THEN Root ELSE base
           c == [obj |-> dir, segs |-> path.segs, base |-> base, leaked |-> leaked]
<1>1. dir \in Dirs /\ dir \in Alive /\ dir # NONE
  BY Zenon, HandlesAssumption DEF Dirs, Alive
<1>2. c \in SafeCalls
  BY Zenon, <1>1 DEF SafeCalls, PathSet
<1>3. Outcome(h[c])
  BY Zenon, <1>2
<1>4. Outcome(Fails(leaked)) /\ Outcome(OnOpen(NONE, dir, "", leaked))
  BY Zenon, <1>1 DEF Outcome, Fails, OnOpen
<1> HIDE DEF dir
<1> QED BY Zenon, <1>3, <1>4 DEF open_root, dir

LEMMA OpenObjectSafe ==
  ASSUME TreeInv, Root \in Dirs, NEW h, \A c \in SafeCalls : Outcome(h[c]),
         NEW attrs, NEW c \in SafeCalls
  PROVE  Outcome(OpenObject(h, c, attrs))
<1>1. /\ c.obj \in Alive /\ c.segs \in Segments /\ c.base \in Dirs \cup {NONE}
      /\ c.leaked \in Seq(Alive) /\ c.obj # NONE /\ c.obj \in Objs
  BY Zenon, HandlesAssumption DEF SafeCalls, Alive
<1>2. Outcome(Fails(c.leaked)) /\ Outcome(Overflow)
  BY <1>1 DEF Outcome, Fails, Overflow
<1>3. CASE type[c.obj] = "dir"
  <2> DEFINE entry == lookup(c.obj, Head(c.segs), "CASE_INSENSITIVE" \in attrs)
             next == [obj |-> entry, segs |-> Tail(c.segs), base |-> c.base, leaked |-> c.leaked]
  <2>1. entry \in Alive \cup {NONE} /\ (entry = NONE => NewName(c.obj, Head(c.segs)))
    BY Zenon, <1>1, LookupAlive
  <2>2. c.obj \in Dirs
    BY Zenon, <1>1, <1>3 DEF Dirs
  <2> HIDE DEF entry
  <2>3. Outcome(OnOpen(c.obj, entry, Head(c.segs), c.leaked))
    BY Zenon, <1>1, <2>1, <2>2 DEF Outcome, OnOpen
  <2>4. ASSUME Len(c.segs) # 1, entry # NONE PROVE Outcome(h[next])
    <3>1. Tail(c.segs) \in Segments
      <4> DEFINE s == c.segs
                 S == Names \cup {""}
      <4>1. s \in Seq(S) /\ s # <<>> /\ Len(s) # 1
        BY Zenon, <1>1, <2>4 DEF Segments
      <4> HIDE DEF s, S
      <4>2. Len(s) \in Nat /\ Len(s) # 0
        BY <4>1
      <4>3. Tail(s) \in Seq(S) /\ Len(Tail(s)) = Len(s) - 1
        BY <4>1
      <4>4. Tail(s) # <<>>
        <5>1. Len(Tail(s)) # 0
          BY <4>1, <4>2, <4>3
        <5>2. Len(<<>>) = 0
          BY Zenon
        <5> QED BY <5>1, <5>2, Zenon
      <4> QED BY Zenon, <4>3, <4>4 DEF Segments, s, S
    <3>2. next \in SafeCalls
      BY Zenon, <1>1, <2>1, <2>4, <3>1 DEF SafeCalls
    <3> QED BY Zenon, <3>2
  <2> HIDE DEF next
  <2>5. Outcome(DirOpen(h, c, attrs))
    BY Zenon, <1>2, <2>3, <2>4 DEF DirOpen, entry, next
  <2> QED BY Zenon, <1>3, <2>5 DEF OpenObject
<1>4. CASE type[c.obj] = "link"
  <2>1. target[c.obj] \in PathSet
    BY Zenon, <1>1 DEF TreeInv, TreeTypes
  <2> DEFINE t == open_root(h, target[c.obj], NONE, c.leaked)
             next == [obj |-> t.obj, segs |-> c.segs, base |-> c.base,
                      leaked |-> Append(t.leaked, t.obj)]
  <2>2. Outcome(t) /\ Outcome(open_root(h, target[c.obj], c.base, c.leaked))
    BY Zenon, <1>1, <2>1, OpenRootSafe
  <2> HIDE DEF t
  <2>3. Outcome(Fails(t.leaked))
    BY Zenon, <2>2 DEF Outcome, Fails
  <2>4. ASSUME t.obj # NONE PROVE Outcome(h[next])
    <3>1. t.obj \in Alive /\ t.leaked \in Seq(Alive)
      BY Zenon, <2>2, <2>4 DEF Outcome
    <3>2. Append(t.leaked, t.obj) \in Seq(Alive)
      BY <3>1
    <3>3. next \in SafeCalls
      BY Zenon, <1>1, <3>1, <3>2 DEF SafeCalls
    <3> QED BY Zenon, <3>3
  <2> HIDE DEF next
  <2>5. Outcome(LinkOpen(h, c, attrs))
    BY Zenon, <1>2, <2>2, <2>3, <2>4 DEF LinkOpen, t, next
  <2> QED BY Zenon, <1>4, <2>5 DEF OpenObject
<1>5. CASE type[c.obj] = "event"
  <2>1. Outcome(Yields(c.obj, c.leaked))
    BY Zenon, <1>1 DEF Outcome, Yields
  <2> QED BY Zenon, <1>2, <1>5, <2>1 DEF OpenObject
<1>6. type[c.obj] \in {"dir", "link", "event"}
  BY <1>1 DEF TreeInv, TreeTypes, Tree, IsTree, Kinds
<1> QED BY Zenon, <1>3, <1>4, <1>5, <1>6

-----------------------------------------------------------------------------
(* f[n] is open() with n nested calls to go: prev stands for f[n - 1].     *)
Layer(n, prev, attrs) == [c \in Calls |-> IF n = 0 THEN Overflow ELSE OpenObject(prev, c, attrs)]

IsOpen(f, attrs, m) == f = [n \in 0 .. m |-> Layer(n, f[n - 1], attrs)]

LEMMA OpenExists ==
  ASSUME NEW attrs, NEW l \in Nat
  PROVE  \E f : IsOpen(f, attrs, l)
<1> DEFINE T == {m \in Nat : ~ \E f : IsOpen(f, attrs, m)}
<1>1. SUFFICES T = {}
  BY Zenon
<1>2. SUFFICES ASSUME T # {} PROVE FALSE
  BY Zenon
<1>3. PICK m \in T : \A k \in T : m <= k
  <2> HIDE DEF T
  <2>1. T \in SUBSET Nat
    BY Zenon DEF T
  <2> QED BY Zenon, <1>2, <2>1, LeastNumber
<1>4. CASE m = 0
  <2>1. \A x, y : Layer(0, x, attrs) = Layer(0, y, attrs)
    BY Zenon DEF Layer
  <2>2. IsOpen([n \in 0 .. 0 |-> Layer(0, 0, attrs)], attrs, 0)
    <3> DEFINE f == [n \in 0 .. 0 |-> Layer(0, 0, attrs)]
    <3>1. Layer(0, f[0 - 1], attrs) = Layer(0, 0, attrs)
      BY <2>1, Zenon
    <3>2. f[0] = Layer(0, f[0 - 1], attrs)
      BY <3>1
    <3>3. f = [n \in 0 .. 0 |-> f[n]]
      BY Zenon
    <3> HIDE DEF f
    <3>4. [n \in 0 .. 0 |-> f[n]] = [n \in 0 .. 0 |-> Layer(n, f[n - 1], attrs)]
      BY <3>2
    <3>5. f = [n \in 0 .. 0 |-> Layer(n, f[n - 1], attrs)]
      BY Zenon, <3>3, <3>4
    <3> QED BY Zenon, <3>5 DEF IsOpen, f
  <2> QED BY Zenon, <1>4, <2>2
<1>5. CASE m # 0
  <2>1. m - 1 \in Nat /\ m - 1 \notin T
    BY <1>3, <1>5
  <2>2. PICK f : IsOpen(f, attrs, m - 1)
    BY Zenon, <2>1
  <2> DEFINE g == [n \in 0 .. m |-> IF n < m THEN f[n] ELSE Layer(m, f[m - 1], attrs)]
  <2>3. \A n \in 0 .. m - 1 : f[n] = Layer(n, f[n - 1], attrs)
    BY Zenon, <2>1, <2>2 DEF IsOpen
  <2>4. \A x, y : Layer(0, x, attrs) = Layer(0, y, attrs)
    BY Zenon DEF Layer
  <2>5. ASSUME NEW n \in 0 .. m PROVE g[n] = Layer(n, g[n - 1], attrs)
    <3>1. CASE n = 0
      BY <1>3, <1>5, <2>3, <2>4, <3>1
    <3>2. CASE n # 0
      BY <1>3, <1>5, <2>3, <3>2
    <3> QED BY Zenon, <3>1, <3>2
  <2>6. g = [n \in 0 .. m |-> g[n]]
    BY Zenon
  <2> HIDE DEF g
  <2>7. IsOpen(g, attrs, m)
    BY Zenon, <2>5, <2>6 DEF IsOpen
  <2> QED BY Zenon, <2>7
<1> QED BY Zenon, <1>4, <1>5

(* However links and directories lead from one to the other, a path only   *)
(* leads to what is there, and every reference leaked on the way is on an  *)
(* object that is there.                                                   *)
LEMMA WalkSafe ==
  ASSUME TreeInv, Root \in Dirs, NEW attrs,
         NEW path \in PathSet, NEW base \in Dirs \cup {NONE}
  PROVE  Outcome(Walk(path, base, attrs))
<1> DEFINE f == CHOOSE g : IsOpen(g, attrs, MaxDepth)
<1>1. Walk(path, base, attrs) = open_root(f[MaxDepth], path, base, <<>>)
  BY Zenon DEF Walk, IsOpen, Layer
<1>2. IsOpen(f, attrs, MaxDepth) /\ MaxDepth \in Nat
  BY Zenon, ObjectsAssumption, OpenExists
<1> HIDE DEF f
<1>3. \A n \in 0 .. MaxDepth : f[n] = Layer(n, f[n - 1], attrs)
  BY Zenon, <1>2 DEF IsOpen
<1> DEFINE Safe(n) == \A c \in SafeCalls : Outcome(f[n][c])
           T == {n \in 0 .. MaxDepth : ~Safe(n)}
<1>4. T = {}
  <2>1. SUFFICES ASSUME T # {} PROVE FALSE
    BY Zenon
  <2>2. PICK m \in T : \A k \in T : m <= k
    <3> HIDE DEF T
    <3>1. T \in SUBSET Nat
      BY <1>2 DEF T
    <3> QED BY Zenon, <2>1, <3>1, LeastNumber
  <2>3. m \in 0 .. MaxDepth /\ ~Safe(m)
    BY Zenon, <2>2
  <2>4. ASSUME NEW c \in SafeCalls
        PROVE  f[m][c] = IF m = 0 THEN Overflow ELSE OpenObject(f[m - 1], c, attrs)
    <3>1. c \in Calls
      BY Zenon, SafeCallsAreCalls
    <3> QED BY Zenon, <1>3, <2>3, <3>1 DEF Layer
  <2>5. CASE m = 0
    <3>1. Outcome(Overflow)
      BY DEF Outcome, Overflow
    <3> QED BY Zenon, <2>3, <2>4, <2>5, <3>1
  <2>6. CASE m # 0
    <3>1. m - 1 \in 0 .. MaxDepth /\ m - 1 \notin T
      <4> HIDE DEF T
      <4> QED BY <1>2, <2>2, <2>3, <2>6
    <3>2. Safe(m - 1)
      BY Zenon, <3>1
    <3> DEFINE h == f[m - 1]
    <3>3. \A c \in SafeCalls : Outcome(h[c])
      BY Zenon, <3>2
    <3> HIDE DEF h
    <3>4. \A c \in SafeCalls : Outcome(OpenObject(h, c, attrs))
      BY Zenon, <3>3, OpenObjectSafe
    <3> QED BY Zenon, <2>3, <2>4, <2>6, <3>4 DEF h
  <2> QED BY Zenon, <2>5, <2>6
<1>5. Safe(MaxDepth) /\ <<>> \in Seq(Alive)
  BY <1>2, <1>4
<1> QED BY Zenon, <1>1, <1>5, OpenRootSafe

(* References that a call leaves behind are on objects that are there, or  *)
(* on the one it keeps.                                                    *)
LEMMA PinsGrow ==
  ASSUME HTypeOK, NEW leaked \in Seq(Alive), NEW o, NEW kept \in BOOLEAN,
         pins' = PinsAfter(leaked, o, kept)
  PROVE  /\ pins' \in [Objs -> Nat]
         /\ \A x \in Objs : pins'[x] >= pins[x]
         /\ \A x \in Objs : x \in Alive \/ pins'[x] = pins[x] \/ (kept /\ x = o)
         /\ \A x \in Objs : kept /\ x = o => pins'[x] > pins[x]
<1> DEFINE K(x) == {i \in 1 .. Len(leaked) : leaked[i] = x}
<1>1. ASSUME NEW x \in Objs
      PROVE  Cardinality(K(x)) \in Nat /\ (x \notin Alive => Cardinality(K(x)) = 0)
  BY OccurrencesOf
<1>2. pins' = [x \in Objs |-> pins[x] + Cardinality(K(x)) + (IF kept /\ x = o THEN 1 ELSE 0)]
  BY Zenon DEF PinsAfter
<1> HIDE DEF K
<1>3. \A x \in Objs : pins[x] \in Nat
  BY Zenon DEF HTypeOK
<1> QED BY <1>1, <1>2, <1>3

(* A step that keeps the names and lets live what lives.                   *)
LEMMA NamesKept ==
  ASSUME TreeInv, HTypeOK', UNCHANGED nvars, pins'[Root] >= pins[Root],
         \A x \in Objs : refs'[x] > 0 <=> Live(x)
  PROVE  TreeInv'
<1>1. UNCHANGED type /\ UNCHANGED parent /\ UNCHANGED list /\ UNCHANGED target /\ UNCHANGED name
  BY Zenon DEF nvars
<1>2. Alive' = Alive
  BY Zenon DEF Alive, Live
<1>3. Tree'
  BY Zenon, <1>1, <1>2 DEF TreeInv, Tree
<1>4. RootStays'
  <2>1. pins[Root] \in Nat /\ pins'[Root] \in Nat
    BY Zenon, ObjectsAssumption DEF TreeInv, HTypeOK
  <2> QED BY <1>1, <2>1 DEF TreeInv, RootStays
<1>5. TreeTypes'
  BY Zenon, <1>1 DEF TreeInv, TreeTypes
<1> QED BY Zenon, <1>3, <1>4, <1>5 DEF TreeInv

(* append puts a new object at the end of one list, or of none.            *)
LEMMA NamesAppended ==
  ASSUME TreeInv, HTypeOK', pins'[Root] >= pins[Root],
         NEW d \in Dirs \cup {NONE}, NEW o \in Objs, NEW n, NEW kind \in Kinds, NEW tgt \in PathSet,
         ~Live(o), append(d, o, n, kind, tgt), d # NONE => NewName(d, n), refs'[o] > 0,
         \A x \in Objs : x # o => (refs'[x] > 0 <=> Live(x))
  PROVE  TreeInv'
<1>1. /\ type \in [Objs -> Kinds \cup {"none"}] /\ parent \in [Objs -> Objs \cup {NONE}]
      /\ list \in [Objs -> Seq(Objs)] /\ target \in [Objs -> PathSet] /\ name = [x \in Objs |-> name[x]]
  BY Zenon DEF TreeInv, TreeTypes
<1>2. /\ type' = [type EXCEPT ![o] = kind]
      /\ parent' = [parent EXCEPT ![o] = d]
      /\ list' = [x \in Objs |-> IF x = d THEN Append(list[x], o) ELSE list[x]]
      /\ target' = [target EXCEPT ![o] = tgt]
      /\ name' = [name EXCEPT ![o] = n]
  BY Zenon DEF append
<1>3. d \in Objs \cup {NONE} /\ (d # NONE => d \in Alive /\ type[d] = "dir")
  BY Zenon DEF Dirs, Alive
<1>4. o \notin Alive /\ Alive' = Alive \cup {o} /\ kind # "none"
  BY Zenon DEF Alive, Live, Kinds
<1>5. \A x \in Objs : /\ type'[x] = (IF x = o THEN kind ELSE type[x])
                      /\ parent'[x] = (IF x = o THEN d ELSE parent[x])
                      /\ name'[x] = (IF x = o THEN n ELSE name[x])
                      /\ list'[x] = (IF x = d THEN Append(list[x], o) ELSE list[x])
  BY Zenon, <1>1, <1>2
<1>6. IsTree(Alive, type, parent, list, name) /\ (d # NONE => \A e \in Elems(list[d]) : name[e] # n)
  BY Zenon DEF TreeInv, Tree, NewName
<1>7. IsTree(Alive \cup {o}, type', parent', list', name')
  <2>1. Grown(Alive, type, parent, list, name, type', parent', list', name', o, d, n, kind)
    BY Zenon, <1>3, <1>4, <1>5, <1>6 DEF Grown
  <2> QED BY Zenon, <1>6, <2>1, TreeAppended
<1>8. Tree'
  BY Zenon, <1>4, <1>7 DEF Tree
<1>9. TreeTypes'
  <2>1. \A x \in Objs : list'[x] \in Seq(Objs)
    BY Zenon, <1>7 DEF IsTree
  <2> QED BY Zenon, <1>1, <1>2, <1>3, <2>1 DEF TreeTypes
<1>10. RootStays'
  <2>1. pins[Root] \in Nat /\ pins'[Root] \in Nat /\ Root \in Objs
    BY Zenon, ObjectsAssumption DEF TreeInv, HTypeOK
  <2>2. type[Root] = "dir" /\ Root # o
    BY Zenon, <1>4, <1>6, <2>1 DEF TreeInv, RootStays, IsTree
  <2> QED BY <1>5, <2>1, <2>2 DEF TreeInv, RootStays
<1> QED BY Zenon, <1>8, <1>9, <1>10 DEF TreeInv

(* What is deleted leaves its parent's list, and its entries lose their    *)
(* parent.                                                                 *)
LEMMA NamesDestructed ==
  ASSUME TreeInv, HTypeOK', Destruct, pins' = pins, refs'[Root] > 0,
         \A x \in Objs : refs'[x] > 0 => Live(x)
  PROVE  TreeInv'
<1> DEFINE D == {c \in Objs : Dead(c)}
<1>1. /\ type \in [Objs -> Kinds \cup {"none"}] /\ parent \in [Objs -> Objs \cup {NONE}]
      /\ list \in [Objs -> Seq(Objs)] /\ target \in [Objs -> PathSet]
  BY Zenon DEF TreeInv, TreeTypes
<1>2. /\ type' = [o \in Objs |-> IF o \in D THEN "none" ELSE type[o]]
      /\ parent' = [o \in Objs |-> IF o \in D \/ (parent[o] # NONE /\ Dead(parent[o])) THEN NONE
                                   ELSE parent[o]]
      /\ list' = [o \in Objs |-> IF o \in D THEN <<>> ELSE WithoutAll(list[o], D)]
      /\ target' = [o \in Objs |-> IF o \in D THEN NoPath ELSE target[o]]
      /\ name' = [o \in Objs |-> IF o \in D THEN "" ELSE name[o]]
  BY Zenon DEF Destruct
<1>3. Alive' = Alive \ D /\ Root \notin D
  <2>1. \A x \in Objs : refs'[x] \in Nat /\ refs[x] \in Nat
    BY Zenon DEF TreeInv, HTypeOK
  <2> QED BY <2>1 DEF Alive, Live, Dead
<1>4. \A x \in Objs : (parent[x] # NONE /\ Dead(parent[x])) <=> parent[x] \in D
  BY Zenon, <1>1, HandlesAssumption
<1>5. D \in SUBSET Objs
  BY Zenon
<1> HIDE DEF D
<1>6. \A x \in Objs : /\ type'[x] = (IF x \in D THEN "none" ELSE type[x])
                      /\ parent'[x] = (IF x \in D \/ parent[x] \in D THEN NONE ELSE parent[x])
                      /\ x \notin D => name'[x] = name[x]
                      /\ list'[x] = (IF x \in D THEN <<>> ELSE WithoutAll(list[x], D))
  BY Zenon, <1>2, <1>4
<1>7. IsTree(Alive \ D, type', parent', list', name')
  <2>1. Pruned(type, parent, list, name, type', parent', list', name', D)
    BY Zenon, <1>5, <1>6 DEF Pruned
  <2> QED BY Zenon, <2>1, TreeDestructed DEF TreeInv, Tree
<1>8. Tree'
  BY Zenon, <1>3, <1>7 DEF Tree
<1>9. TreeTypes'
  <2>1. \A x \in Objs : list'[x] \in Seq(Objs)
    BY Zenon, <1>7 DEF IsTree
  <2>2. NoPath \in PathSet
    BY DEF NoPath, PathSet, Segments
  <2>3. list' \in [Objs -> Seq(Objs)] /\ name' = [o \in Objs |-> name'[o]]
    BY Zenon, <1>2, <2>1
  <2> QED BY Zenon, <1>1, <1>2, <2>2, <2>3 DEF TreeTypes
<1>10. RootStays'
  BY Zenon, <1>3, <1>6, ObjectsAssumption DEF TreeInv, RootStays
<1> QED BY Zenon, <1>8, <1>9, <1>10 DEF TreeInv

-----------------------------------------------------------------------------
(* A call that leaves references and may take a slot is Handles' first     *)
(* action.  A call that takes none does not depend on its access mask.     *)
LEMMA CallIsAcquire ==
  ASSUME HandlesInv, NEW p \in Procs, NEW o \in Objs, NEW fits \in BOOLEAN, NEW mask,
         mask \in AccessMasks \/ ~fits,
         NEW leaked \in Seq(Alive), NEW k, NEW kept \in BOOLEAN,
         pins' = PinsAfter(leaked, k, kept), Acquire(p, o, fits, mask)
  PROVE  HNext /\ HandlesInv'
<1>1. HTypeOK
  BY Zenon DEF HandlesInv
<1>2. pins' \in [Objs -> Nat] /\ \A x \in Objs : pins'[x] >= pins[x]
  BY Zenon, <1>1, PinsGrow
<1>3. HandlesInv'
  BY Zenon, <1>2, AcquireInv
<1>4. \E m \in AccessMasks : Acquire(p, o, fits, m)
  <2>1. CASE mask \in AccessMasks
    BY Zenon, <2>1
  <2>2. CASE ~fits
    <3>1. PICK m \in AccessMasks : TRUE
      BY Zenon, ObjectsAssumption
    <3>2. Acquire(p, o, fits, m)
      BY Zenon, <2>2 DEF Acquire
    <3> QED BY Zenon, <3>2
  <2> QED BY Zenon, <2>1, <2>2
<1> QED BY Zenon, <1>2, <1>3, <1>4 DEF HNext

(* Such a call for an object that is there changes no name.                *)
LEMMA CallOnOld ==
  ASSUME HandlesInv, TreeInv, NEW p \in Procs, NEW o \in Objs, NEW fits \in BOOLEAN, NEW mask,
         mask \in AccessMasks \/ ~fits, fits => o \in Alive,
         NEW leaked \in Seq(Alive), NEW k, NEW kept \in BOOLEAN, kept => k \in Alive,
         pins' = PinsAfter(leaked, k, kept), Acquire(p, o, fits, mask), UNCHANGED nvars
  PROVE  HNext /\ HandlesInv' /\ TreeInv'
<1>1. HNext /\ HandlesInv'
  BY Zenon, CallIsAcquire
<1>2. HTypeOK /\ HTypeOK' /\ Root \in Objs
  BY Zenon, <1>1, ObjectsAssumption DEF HandlesInv
<1>3. /\ pins' \in [Objs -> Nat] /\ \A x \in Objs : pins'[x] >= pins[x]
      /\ \A x \in Objs : x \in Alive \/ pins'[x] = pins[x] \/ (kept /\ x = k)
  BY Zenon, <1>2, PinsGrow
<1>4. \A x \in Objs : /\ Live(x) => refs'[x] > 0
                      /\ ~(fits /\ x = o) /\ pins'[x] = pins[x] => refs'[x] = refs[x]
  BY <1>2, <1>3, AcquireLive
<1>5. \A x \in Objs : refs'[x] > 0 <=> Live(x)
  BY Zenon, <1>3, <1>4 DEF Alive, Live
<1>6. TreeInv'
  BY Zenon, <1>2, <1>3, <1>5, NamesKept
<1> QED BY Zenon, <1>1, <1>6

(* Such a call for a new object, which keeps it in one way or the other.   *)
LEMMA CallOnNew ==
  ASSUME HandlesInv, TreeInv, NEW p \in Procs, NEW o \in Objs, NEW fits \in BOOLEAN, NEW mask,
         mask \in AccessMasks \/ ~fits, ~Live(o),
         NEW leaked \in Seq(Alive), NEW kept \in BOOLEAN, fits \/ kept,
         pins' = PinsAfter(leaked, o, kept), Acquire(p, o, fits, mask),
         NEW d \in Dirs \cup {NONE}, NEW n, NEW kind \in Kinds, NEW tgt \in PathSet,
         append(d, o, n, kind, tgt), d # NONE => NewName(d, n)
  PROVE  HNext /\ HandlesInv' /\ TreeInv'
<1>1. HNext /\ HandlesInv'
  BY Zenon, CallIsAcquire
<1>2. HTypeOK /\ HTypeOK' /\ Root \in Objs
  BY Zenon, <1>1, ObjectsAssumption DEF HandlesInv
<1>3. /\ pins' \in [Objs -> Nat] /\ \A x \in Objs : pins'[x] >= pins[x]
      /\ \A x \in Objs : x \in Alive \/ pins'[x] = pins[x] \/ (kept /\ x = o)
      /\ kept => pins'[o] > pins[o]
  BY Zenon, <1>2, PinsGrow
<1>4. \A x \in Objs : /\ Live(x) => refs'[x] > 0
                      /\ fits /\ x = o => refs'[x] > 0
                      /\ pins'[x] > pins[x] => refs'[x] > 0
                      /\ ~(fits /\ x = o) /\ pins'[x] = pins[x] => refs'[x] = refs[x]
  BY Zenon, <1>2, <1>3, AcquireLive
<1>5. refs'[o] > 0 /\ \A x \in Objs : x # o => (refs'[x] > 0 <=> Live(x))
  BY Zenon, <1>3, <1>4 DEF Alive, Live
<1>6. TreeInv'
  BY Zenon, <1>2, <1>3, <1>5, NamesAppended
<1> QED BY Zenon, <1>1, <1>6

-----------------------------------------------------------------------------
LEMMA NoPathIsPath == NoPath \in PathSet
BY DEF NoPath, PathSet, Segments

LEMMA TargetsArePaths ==
  ASSUME NEW kind, NEW tgt \in TargetOf(kind)
  PROVE  tgt \in PathSet
BY Zenon, NoPathIsPath, ObjectsAssumption DEF TargetOf, PathSet, Segments

LEMMA PathsArePaths == Paths \subseteq PathSet
BY Zenon, ObjectsAssumption DEF PathSet, Segments

(* object_from_handle finds directories that are there.                    *)
LEMMA BasesAreDirs ==
  ASSUME HandlesInv, NEW p, NEW base \in Bases(p)
  PROVE  base \in Dirs \cup {NONE}
<1>1. SUFFICES ASSUME base # NONE PROVE base \in Dirs
  BY Zenon
<1>2. PICK c \in Cells : base = table[c] /\ table[c] # NONE /\ type[table[c]] = "dir"
  BY Zenon, <1>1 DEF Bases
<1>3. table[c] \in Objs
  BY Zenon, <1>2 DEF HandlesInv, HTypeOK
<1>4. Live(table[c])
  BY Zenon, <1>2, InvSlotsLive DEF SlotsLive
<1> QED BY Zenon, <1>2, <1>3, <1>4 DEF Dirs, Alive

LEMMA GiveNewStep ==
  ASSUME HandlesInv, TreeInv, NEW p \in Procs, NEW o \in Objs, NEW w, w.leaked \in Seq(Alive),
         w.dir \in Dirs \cup {NONE}, w.dir # NONE => NewName(w.dir, w.last),
         NEW kind \in Kinds, NEW tgt \in PathSet, NEW attrs,
         NEW mask \in AccessMasks, GiveNew(p, o, w, kind, tgt, attrs, mask)
  PROVE  HNext /\ HandlesInv' /\ TreeInv'
<1> DEFINE fits == FreeSlots(p) # {}
           kept == fits /\ "PERMANENT" \in attrs
<1>1. /\ fits \in BOOLEAN /\ kept \in BOOLEAN /\ ~Live(o)
      /\ pins' = PinsAfter(w.leaked, o, kept)
      /\ Acquire(p, o, fits, mask)
      /\ IF fits THEN append(w.dir, o, w.last, kind, tgt) ELSE UNCHANGED nvars
      /\ ~fits => ~kept
  BY Zenon DEF GiveNew
<1> HIDE DEF fits, kept
<1>2. CASE fits
  <2>1. append(w.dir, o, w.last, kind, tgt) /\ (fits \/ kept)
    BY Zenon, <1>1, <1>2
  <2> QED BY Zenon, <1>1, <2>1, CallOnNew
<1>3. CASE ~fits
  <2>1. UNCHANGED nvars /\ (fits => o \in Alive) /\ (kept => o \in Alive)
    BY Zenon, <1>1, <1>3
  <2> QED BY Zenon, <1>1, <2>1, CallOnOld
<1> QED BY Zenon, <1>2, <1>3

LEMMA CreateNamedStep ==
  ASSUME HandlesInv, TreeInv, NEW p \in Procs, NEW kind \in Kinds, NEW path \in Paths,
         NEW base \in Bases(p), NEW tgt \in TargetOf(kind), NEW attrs, NEW mask \in AccessMasks,
         CreateNamed(p, kind, path, base, tgt, attrs, mask)
  PROVE  HNext /\ HandlesInv' /\ TreeInv'
<1> DEFINE w == Walk(path, base, attrs)
           exists == w.res = "object" \/ (w.res = "on_open" /\ w.obj # NONE /\ "OPENIF" \in attrs)
           new == w.res = "on_open" /\ w.obj = NONE
<1>1. Root \in Dirs /\ Root \in Objs
  BY Zenon, RootIsDir, ObjectsAssumption
<1>2. path \in PathSet /\ base \in Dirs \cup {NONE} /\ tgt \in PathSet
  BY Zenon, PathsArePaths, BasesAreDirs, TargetsArePaths
<1>3. Outcome(w)
  BY Zenon, <1>1, <1>2, WalkSafe
<1>4. \/ exists /\ GiveExisting(p, w, attrs, mask)
      \/ new /\ \E o \in Objs : GiveNew(p, o, w, kind, tgt, attrs, mask)
      \/ GiveNothing(p, w)
  BY Zenon DEF CreateNamed
<1> HIDE DEF w
<1>5. w.leaked \in Seq(Alive) /\ w.dir \in Dirs \cup {NONE}
  BY Zenon, <1>3 DEF Outcome
<1>6. CASE exists /\ GiveExisting(p, w, attrs, mask)
  <2>1. w.obj \in Alive /\ w.obj \in Objs
    BY Zenon, <1>3, <1>6 DEF Outcome, Alive
  <2> DEFINE fits == FreeSlots(p) # {}
             kept == fits /\ "PERMANENT" \in attrs
             o == w.obj
  <2>2. /\ fits \in BOOLEAN /\ kept \in BOOLEAN /\ UNCHANGED nvars
        /\ pins' = PinsAfter(w.leaked, o, kept)
        /\ Acquire(p, o, fits, mask)
    BY Zenon, <1>6 DEF GiveExisting
  <2>3. o \in Alive /\ o \in Objs
    BY Zenon, <2>1
  <2> HIDE DEF fits, kept, o
  <2> QED BY Zenon, <1>5, <2>2, <2>3, CallOnOld
<1>7. CASE new /\ \E o \in Objs : GiveNew(p, o, w, kind, tgt, attrs, mask)
  <2>1. w.dir # NONE => NewName(w.dir, w.last)
    BY Zenon, <1>3, <1>7 DEF Outcome
  <2> QED BY Zenon, <1>2, <1>5, <1>7, <2>1, GiveNewStep
<1>8. CASE GiveNothing(p, w)
  <2> DEFINE no == FALSE
             none == {}
  <2>1. /\ no \in BOOLEAN /\ UNCHANGED nvars /\ ~no
        /\ pins' = PinsAfter(w.leaked, NONE, no)
        /\ Acquire(p, Root, no, none)
    BY Zenon, <1>8 DEF GiveNothing
  <2> HIDE DEF no, none
  <2> QED BY Zenon, <1>1, <1>5, <2>1, CallOnOld
<1> QED BY Zenon, <1>4, <1>6, <1>7, <1>8

LEMMA CreateUnnamedStep ==
  ASSUME HandlesInv, TreeInv, NEW p \in Procs, NEW kind \in Kinds,
         NEW tgt \in TargetOf(kind), NEW attrs, NEW mask \in AccessMasks,
         CreateUnnamed(p, kind, tgt, attrs, mask)
  PROVE  HNext /\ HandlesInv' /\ TreeInv'
<1> DEFINE w == OnOpen(NONE, NONE, "", <<>>)
<1>1. w.leaked \in Seq(Alive) /\ w.dir \in Dirs \cup {NONE} /\ w.dir = NONE
  BY DEF OnOpen
<1>2. PICK o \in Objs : GiveNew(p, o, w, kind, tgt, attrs, mask)
  BY Zenon DEF CreateUnnamed
<1> HIDE DEF w
<1>3. tgt \in PathSet
  BY Zenon, TargetsArePaths
<1> QED BY Zenon, <1>1, <1>2, <1>3, GiveNewStep

LEMMA NtOpenStep ==
  ASSUME HandlesInv, TreeInv, NEW p \in Procs, NEW path \in Paths, NEW base \in Bases(p),
         NEW attrs, NEW accepted \in BOOLEAN, NEW mask \in AccessMasks,
         NtOpen(p, path, base, attrs, accepted, mask)
  PROVE  HNext /\ HandlesInv' /\ TreeInv'
<1> DEFINE w == Walk(path, base, attrs)
           found == \/ w.res = "object"
                    \/ /\ w.res = "on_open" /\ w.obj # NONE
                       /\ ~(type[w.obj] = "link" /\ "OPENLINK" \in attrs)
           fits == found /\ accepted /\ FreeSlots(p) # {}
           o == IF found THEN w.obj ELSE Root
           no == FALSE
<1>1. Root \in Dirs /\ Root \in Objs
  BY Zenon, RootIsDir, ObjectsAssumption
<1>2. path \in PathSet /\ base \in Dirs \cup {NONE}
  BY Zenon, PathsArePaths, BasesAreDirs
<1>3. Outcome(w)
  BY Zenon, <1>1, <1>2, WalkSafe
<1>4. /\ pins' = PinsAfter(w.leaked, NONE, no)
      /\ Acquire(p, o, fits, mask)
      /\ UNCHANGED nvars
      /\ fits \in BOOLEAN /\ no \in BOOLEAN /\ ~no
  BY Zenon DEF NtOpen
<1> HIDE DEF w, no
<1>5. w.leaked \in Seq(Alive) /\ (found => w.obj \in Alive /\ w.obj \in Objs)
  BY Zenon, <1>3 DEF Outcome, Alive
<1>6. o \in Objs /\ (fits => o \in Alive)
  BY Zenon, <1>1, <1>5
<1> HIDE DEF fits, o
<1> QED BY Zenon, <1>4, <1>5, <1>6, CallOnOld

LEMMA CreateKernelStep ==
  ASSUME HandlesInv, TreeInv, NEW kind \in {"dir", "link"}, NEW path \in Paths,
         NEW tgt \in TargetOf(kind), CreateKernel(kind, path, tgt)
  PROVE  HNext /\ HandlesInv' /\ TreeInv'
<1> DEFINE attrs == IF kind = "dir" THEN {"CASE_INSENSITIVE"} ELSE {}
           w == Walk(path, NONE, attrs)
           yes == TRUE
           no == FALSE
           none == {}
<1>1. Root \in Dirs
  BY Zenon, RootIsDir
<1>2. path \in PathSet /\ tgt \in PathSet /\ kind \in Kinds /\ NONE \in Dirs \cup {NONE}
  BY Zenon, PathsArePaths, TargetsArePaths DEF Kinds
<1>3. Outcome(w)
  BY Zenon, <1>1, <1>2, WalkSafe
<1>4. PICK o \in Objs, p \in Procs :
        /\ ~Live(o)
        /\ pins' = PinsAfter(w.leaked, o, yes)
        /\ append(w.dir, o, w.last, kind, tgt)
        /\ Acquire(p, o, no, none)
  BY Zenon DEF CreateKernel
<1>5. w.res = "on_open" /\ w.obj = NONE
  BY Zenon DEF CreateKernel
<1>6. yes \in BOOLEAN /\ no \in BOOLEAN /\ yes /\ ~no
  BY Zenon
<1> HIDE DEF w, yes, no, none
<1>7. w.leaked \in Seq(Alive) /\ w.dir \in Dirs \cup {NONE} /\ (w.dir # NONE => NewName(w.dir, w.last))
  BY Zenon, <1>3, <1>5 DEF Outcome
<1> QED BY Zenon, <1>2, <1>4, <1>6, <1>7, CallOnNew

-----------------------------------------------------------------------------
(* A step that drops references: what it takes to zero is destructed.  The *)
(* root is not, for the kernel's reference keeps its count above zero.     *)
LEMMA DropStep ==
  ASSUME HandlesInv, TreeInv, HNext, Drops, Destruct
  PROVE  HandlesInv' /\ TreeInv'
<1>1. HandlesInv'
  BY Zenon, StepInv
<1>2. HTypeOK' /\ pins' = pins /\ pins[Root] > 0 /\ Root \in Objs
  BY Zenon, <1>1, ObjectsAssumption DEF HandlesInv, Drops, TreeInv, RootStays
<1>3. (HandlesInv => \A o \in Objs : pins[o] > 0 => Live(o))'
  BY PinnedIsLive, PTL
<1>4. refs'[Root] > 0
  BY Zenon, <1>1, <1>2, <1>3 DEF Live
<1>5. TreeInv'
  BY Zenon, <1>2, <1>4, NamesDestructed DEF Drops
<1> QED BY Zenon, <1>1, <1>5

LEMMA CloseHandleStep ==
  ASSUME HandlesInv, TreeInv, NEW p \in Procs, NEW h \in HandleValues, CloseHandle(p, h)
  PROVE  HNext /\ HandlesInv' /\ TreeInv'
<1>1. HNext /\ Drops /\ Destruct
  BY Zenon, CloseDrops DEF CloseHandle
<1> QED BY Zenon, <1>1, DropStep

LEMMA DuplicateStep ==
  ASSUME HandlesInv, TreeInv, NEW sp \in Procs, NEW tp \in Procs, NEW h \in HandleValues,
         NEW mask \in AccessMasks, NEW close \in BOOLEAN, NEW delivered \in BOOLEAN,
         Duplicate(sp, h, tp, close, delivered, mask)
  PROVE  HNext /\ HandlesInv' /\ TreeInv'
<1>1. HNext /\ Drops /\ Destruct
  BY Zenon, DuplicateDrops DEF Duplicate
<1> QED BY Zenon, <1>1, DropStep

LEMMA EndProcessStep ==
  ASSUME HandlesInv, TreeInv, NEW p \in Procs, EndProcess(p)
  PROVE  HNext /\ HandlesInv' /\ TreeInv'
<1>1. HNext /\ Drops /\ Destruct
  BY Zenon, EndDrops DEF EndProcess
<1> QED BY Zenon, <1>1, DropStep

-----------------------------------------------------------------------------
LEMMA ObjectsInit == Init => HandlesInv /\ TreeInv /\ HInit
<1> SUFFICES ASSUME Init PROVE HandlesInv /\ TreeInv /\ HInit
  BY Zenon
<1>1. HInit
  BY Zenon DEF Init, HInit
<1>2. HandlesInv /\ HTypeOK
  BY Zenon, <1>1, InitInv DEF HandlesInv
<1>3. TreeTypes
  <2>1. \A o \in Objs : (IF o = Root THEN "dir" ELSE "none") \in Kinds \cup {"none"}
    BY Zenon DEF Kinds
  <2>2. <<>> \in Seq(Objs)
    OBVIOUS
  <2> QED BY Zenon, <2>1, <2>2, NoPathIsPath DEF Init, TreeTypes
<1>4. Root \in Objs
  BY Zenon, ObjectsAssumption
<1>5. \A o \in Objs : /\ type[o] = (IF o = Root THEN "dir" ELSE "none")
                      /\ refs[o] = (IF o = Root THEN 1 ELSE 0)
                      /\ parent[o] = NONE /\ list[o] = <<>> /\ pins[o] = refs[o]
  BY Zenon DEF Init
<1>6. Distinct(<<>>) /\ Elems(<<>>) = {}
  BY DEF Distinct, Elems
<1>7. Tree
  <2>1. \A o \in Objs : type[o] = "none" <=> o \notin Alive
    BY <1>5 DEF Alive, Live
  <2>2. \A o \in Objs : parent[o] = NONE /\ Elems(list[o]) = {}
    BY Zenon, <1>5, <1>6
  <2>3. \A d \in Objs : list[d] \in Seq(Objs) /\ Distinct(list[d])
    BY Zenon, <1>3, <1>5, <1>6 DEF TreeTypes
  <2> QED BY Zenon, <2>1, <2>2, <2>3 DEF Tree, IsTree
<1>8. RootStays
  BY <1>4, <1>5 DEF RootStays
<1> QED BY Zenon, <1>1, <1>2, <1>3, <1>7, <1>8 DEF TreeInv

LEMMA ObjectsStep ==
  HandlesInv /\ TreeInv /\ [Next]_vars => [HNext]_hvars /\ HandlesInv' /\ TreeInv'
<1> SUFFICES ASSUME HandlesInv, TreeInv, [Next]_vars
             PROVE  [HNext]_hvars /\ HandlesInv' /\ TreeInv'
  BY Zenon
<1>1. CASE \E p \in Procs, kind \in Kinds, attrs \in AttrSets, mask \in AccessMasks :
             \E tgt \in TargetOf(kind) :
               \/ \E path \in Paths, base \in Bases(p) :
                    CreateNamed(p, kind, path, base, tgt, attrs, mask)
               \/ CreateUnnamed(p, kind, tgt, attrs, mask)
  BY ZenonT(40), <1>1, CreateNamedStep, CreateUnnamedStep
<1>2. CASE \E p \in Procs, path \in Paths, attrs \in AttrSets, accepted \in BOOLEAN, mask \in AccessMasks :
             \E base \in Bases(p) : NtOpen(p, path, base, attrs, accepted, mask)
  BY Zenon, <1>2, NtOpenStep
<1>3. CASE \E kind \in {"dir", "link"}, path \in Paths :
             \E tgt \in TargetOf(kind) : CreateKernel(kind, path, tgt)
  BY Zenon, <1>3, CreateKernelStep
<1>4. CASE \E p \in Procs, h \in HandleValues : CloseHandle(p, h)
  BY Zenon, <1>4, CloseHandleStep
<1>5. CASE \E sp, tp \in Procs, h \in HandleValues, mask \in AccessMasks, close, delivered \in BOOLEAN :
             Duplicate(sp, h, tp, close, delivered, mask)
  BY ZenonT(40), <1>5, DuplicateStep
<1>6. CASE \E p \in Procs : EndProcess(p)
  BY Zenon, <1>6, EndProcessStep
<1>7. CASE UNCHANGED vars
  <2>1. UNCHANGED hvars /\ UNCHANGED nvars
    BY Zenon, <1>7 DEF vars
  <2>2. UNCHANGED refs /\ UNCHANGED pins
    BY Zenon, <2>1 DEF hvars
  <2>3. HandlesInv'
    BY Zenon, <2>1, StepInv
  <2>4. pins'[Root] >= pins[Root]
    <3>1. Root \in Objs
      BY Zenon, ObjectsAssumption
    <3>2. pins[Root] \in Nat
      BY Zenon, <3>1 DEF TreeInv, HTypeOK
    <3> QED BY <2>2, <3>2
  <2>5. \A x \in Objs : refs'[x] > 0 <=> Live(x)
    BY Zenon, <2>2 DEF Live
  <2>6. HTypeOK'
    BY Zenon, <2>3 DEF HandlesInv
  <2>7. TreeInv'
    BY Zenon, <2>1, <2>4, <2>5, <2>6, NamesKept
  <2> QED BY Zenon, <2>1, <2>3, <2>7
<1> QED BY Zenon, <1>1, <1>2, <1>3, <1>4, <1>5, <1>6, <1>7 DEF Next

LEMMA InvTree == TreeInv => TreeOK
<1> SUFFICES ASSUME TreeInv PROVE TreeOK
  BY Zenon
<1>1. \A o \in Objs : /\ type[o] \in Kinds \cup {"none"} /\ list[o] \in Seq(Objs)
                      /\ type[o] = "none" <=> refs[o] = 0
  BY DEF TreeInv, TreeTypes, HTypeOK, Tree, IsTree, Alive, Live
<1>2. ASSUME NEW o \in Objs, parent[o] # NONE
      PROVE  type[parent[o]] = "dir" /\ \E i \in 1 .. Len(list[parent[o]]) : list[parent[o]][i] = o
  <2>1. parent[o] \in Objs /\ type[parent[o]] = "dir" /\ o \in Elems(list[parent[o]])
    BY Zenon, <1>2 DEF TreeInv, Tree, IsTree
  <2>2. DOMAIN list[parent[o]] = 1 .. Len(list[parent[o]])
    BY <1>1, <2>1
  <2> QED BY Zenon, <2>1, <2>2 DEF Elems
<1>3. ASSUME NEW d \in Objs, NEW i \in 1 .. Len(list[d])
      PROVE  Live(list[d][i]) /\ parent[list[d][i]] = d
  <2>1. list[d][i] \in Elems(list[d])
    BY <1>1 DEF Elems
  <2> QED BY Zenon, <2>1 DEF TreeInv, Tree, IsTree, Alive
<1>4. ASSUME NEW d \in Objs, NEW i \in 1 .. Len(list[d]), NEW j \in 1 .. Len(list[d]),
             name[list[d][i]] = name[list[d][j]]
      PROVE  i = j
  <2>1. DOMAIN list[d] = 1 .. Len(list[d]) /\ list[d][i] \in Elems(list[d]) /\ list[d][j] \in Elems(list[d])
    BY <1>1 DEF Elems
  <2>2. list[d][i] = list[d][j]
    BY <1>4, <2>1 DEF TreeInv, Tree, IsTree
  <2> QED BY <2>1, <2>2 DEF TreeInv, Tree, IsTree, Distinct
<1>5. \A d \in Objs : Distinct(list[d])
  BY Zenon DEF TreeInv, Tree, IsTree
<1> QED BY Zenon, <1>1, <1>2, <1>3, <1>4, <1>5 DEF TreeInv, TreeOK, NamesUnique

(* The names stay a tree: whatever is created, opened through links,       *)
(* closed or deleted, and in whatever order, a directory's list and the    *)
(* parent pointers of its entries agree, neither leads to an object that   *)
(* has been deleted, and no two entries have the same name (objdir.cpp,    *)
(* symlink.cpp, object.cpp).                                               *)
THEOREM NamesAreATree == Spec => []TreeOK
BY ObjectsInit, ObjectsStep, InvTree, PTL DEF Spec

(* The object manager with its names, links and destructors implements the *)
(* handle tables and counts of module Handles, step by step.               *)
THEOREM ObjectsImplementHandles == Spec => HandlesSpec
BY ObjectsInit, ObjectsStep, PTL DEF Spec, HandlesSpec

(* So the count of every object is exact with names and links as well: the *)
(* only references that no handle accounts for are those of pins, the      *)
(* kernel's, permanent objects' and the targets that symlink_t::open never *)
(* releases.                                                               *)
THEOREM CountsAreExactWithNames == Spec => []RefsExact
BY ObjectsImplementHandles, CountsAreExact, PTL

-----------------------------------------------------------------------------
(* The objects whose name, by nm, matches n.                               *)
Matching(nm, n, ci) == {e \in Objs : compare(nm[e], n, ci)}

LEMMA LookupByHits ==
  ASSUME list \in [Objs -> Seq(Objs)], list' \in [Objs -> Seq(Objs)], NEW d \in Objs, NEW n, NEW ci
  PROVE  /\ LET H == Hits(list[d], Matching(name, n, ci))
            IN lookup(d, n, ci) = IF H = {} THEN NONE ELSE list[d][First(H)]
         /\ LET H == Hits(list'[d], Matching(name', n, ci))
            IN lookup(d, n, ci)' = IF H = {} THEN NONE ELSE list'[d][First(H)]
<1>1. {i \in DOMAIN list[d] : compare(name[list[d][i]], n, ci)} = Hits(list[d], Matching(name, n, ci))
  BY DEF Hits, Matching
<1>2. {i \in DOMAIN list'[d] : compare(name'[list'[d][i]], n, ci)} = Hits(list'[d], Matching(name', n, ci))
  BY DEF Hits, Matching
<1>3. LET H == Hits(list[d], Matching(name, n, ci))
      IN lookup(d, n, ci) = IF H = {} THEN NONE ELSE list[d][First(H)]
  BY Zenon, <1>1 DEF lookup
<1>4. LET H == Hits(list'[d], Matching(name', n, ci))
      IN lookup(d, n, ci)' = IF H = {} THEN NONE ELSE list'[d][First(H)]
  BY Zenon, <1>2 DEF lookup
<1> QED BY Zenon, <1>3, <1>4

(* Names change in two ways only.                                          *)
LEMMA NamesStep ==
  ASSUME [Next]_vars
  PROVE  \/ UNCHANGED nvars
         \/ Destruct
         \/ \E d, n, kind, tgt : \E o \in Objs : ~Live(o) /\ append(d, o, n, kind, tgt)
<1> DEFINE A == \E d, n, kind, tgt : \E o \in Objs : ~Live(o) /\ append(d, o, n, kind, tgt)
           B == UNCHANGED nvars \/ Destruct \/ A
<1> SUFFICES B
  BY Zenon
<1>1. ASSUME NEW p, NEW o \in Objs, NEW w, NEW kind, NEW tgt, NEW attrs, NEW mask,
             GiveNew(p, o, w, kind, tgt, attrs, mask)
      PROVE  A \/ UNCHANGED nvars
  BY Zenon, <1>1 DEF GiveNew
<1>2. ASSUME NEW p, NEW kind, NEW path, NEW base, NEW tgt, NEW attrs, NEW mask,
             CreateNamed(p, kind, path, base, tgt, attrs, mask)
      PROVE  A \/ UNCHANGED nvars
  BY Zenon, <1>1, <1>2 DEF CreateNamed, GiveExisting, GiveNothing
<1>3. ASSUME NEW p, NEW kind, NEW tgt, NEW attrs, NEW mask, CreateUnnamed(p, kind, tgt, attrs, mask)
      PROVE  A \/ UNCHANGED nvars
  BY Zenon, <1>1, <1>3 DEF CreateUnnamed
<1>4. ASSUME NEW kind, NEW path, NEW tgt, CreateKernel(kind, path, tgt) PROVE A
  BY Zenon, <1>4 DEF CreateKernel
<1>5. ASSUME NEW p, NEW path, NEW base, NEW attrs, NEW accepted, NEW mask,
             NtOpen(p, path, base, attrs, accepted, mask)
      PROVE  UNCHANGED nvars
  BY Zenon, <1>5 DEF NtOpen
<1>6. CASE UNCHANGED vars
  BY Zenon, <1>6 DEF vars
<1>7. ASSUME NEW p, NEW h, CloseHandle(p, h) PROVE Destruct
  BY Zenon, <1>7 DEF CloseHandle
<1>8. ASSUME NEW sp, NEW tp, NEW h, NEW close, NEW delivered, NEW mask,
             Duplicate(sp, h, tp, close, delivered, mask)
      PROVE  Destruct
  BY Zenon, <1>8 DEF Duplicate
<1>9. ASSUME NEW p, EndProcess(p) PROVE Destruct
  BY Zenon, <1>9 DEF EndProcess
<1> HIDE DEF A
<1>10. CASE \E p \in Procs, kind \in Kinds, attrs \in AttrSets, mask \in AccessMasks :
              \E tgt \in TargetOf(kind) :
                \/ \E path \in Paths, base \in Bases(p) :
                     CreateNamed(p, kind, path, base, tgt, attrs, mask)
                \/ CreateUnnamed(p, kind, tgt, attrs, mask)
  BY Zenon, <1>2, <1>3, <1>10
<1>11. CASE \E p \in Procs, path \in Paths, attrs \in AttrSets, accepted \in BOOLEAN, mask \in AccessMasks :
              \E base \in Bases(p) : NtOpen(p, path, base, attrs, accepted, mask)
  BY Zenon, <1>5, <1>11
<1>12. CASE \E kind \in {"dir", "link"}, path \in Paths :
              \E tgt \in TargetOf(kind) : CreateKernel(kind, path, tgt)
  BY Zenon, <1>4, <1>12
<1>13. CASE \/ \E p \in Procs, h \in HandleValues : CloseHandle(p, h)
            \/ \E p \in Procs : EndProcess(p)
  BY Zenon, <1>7, <1>9, <1>13
<1>14. CASE \E sp, tp \in Procs, h \in HandleValues, mask \in AccessMasks, close, delivered \in BOOLEAN :
              Duplicate(sp, h, tp, close, delivered, mask)
  BY Zenon, <1>8, <1>14
<1> HIDE DEF B
<1> QED BY Zenon, <1>6, <1>10, <1>11, <1>12, <1>13, <1>14 DEF Next

LEMMA LookupKept ==
  ASSUME TreeInv, TreeInv', [Next]_vars, NEW d \in Objs, NEW n, NEW ci,
         lookup(d, n, ci) # NONE, parent'[lookup(d, n, ci)] = d, list[d] # list'[d]
  PROVE  lookup(d, n, ci)' = lookup(d, n, ci)
<1> DEFINE s == list[d]
           r == list'[d]
           P == Matching(name, n, ci)
           Q == Matching(name', n, ci)
           found == lookup(d, n, ci)
<1>1. list \in [Objs -> Seq(Objs)] /\ list' \in [Objs -> Seq(Objs)]
  BY Zenon DEF TreeInv, TreeTypes
<1>2. s \in Seq(Objs) /\ r \in Seq(Objs)
  BY Zenon, <1>1
<1>3. Hits(s, P) # {} /\ found = s[First(Hits(s, P))]
  BY Zenon, <1>1, LookupByHits
<1>4. Hits(r, Q) # {} => lookup(d, n, ci)' = r[First(Hits(r, Q))]
  BY Zenon, <1>1, LookupByHits
<1>5. s # r /\ parent'[found] = d
  BY Zenon
<1> SUFFICES Hits(r, Q) # {} /\ r[First(Hits(r, Q))] = found
  BY Zenon, <1>4
<1>6. found \in Elems(s) /\ found \in Objs
  BY <1>2, <1>3, HitOfFirst DEF Elems
<1>7. CASE UNCHANGED nvars
  BY Zenon, <1>5, <1>7 DEF nvars
<1>8. ASSUME NEW e, NEW m, NEW kind, NEW tgt, NEW o \in Objs, ~Live(o), append(e, o, m, kind, tgt)
      PROVE  Hits(r, Q) # {} /\ r[First(Hits(r, Q))] = found
  <2>1. r = Append(s, o) /\ name' = [name EXCEPT ![o] = m]
    BY Zenon, <1>5, <1>8 DEF append
  <2>2. \A x \in Elems(s) : x # o /\ x \in Objs
    BY <1>8 DEF TreeInv, Tree, IsTree, Alive
  <2>3. \A x \in Elems(s) : name'[x] = name[x]
    BY Zenon, <2>1, <2>2 DEF TreeInv, TreeTypes
  <2>4. \A x \in Elems(s) : x \in P <=> x \in Q
    BY Zenon, <2>2, <2>3 DEF Matching
  <2> HIDE DEF s, r, P, Q, found
  <2>5. Hits(s, P) = Hits(s, Q)
    BY Zenon, <1>2, <2>4, SameHits
  <2>6. Hits(Append(s, o), Q) # {} /\ Append(s, o)[First(Hits(Append(s, o), Q))] = s[First(Hits(s, Q))]
    BY Zenon, <1>2, <1>3, <2>5, AppendFirst
  <2> QED BY Zenon, <1>3, <2>1, <2>5, <2>6
<1>9. CASE Destruct
  <2> DEFINE D == {c \in Objs : Dead(c)}
  <2>1. d \notin D /\ found \notin D
    <3>1. parent'[found] # NONE
      BY Zenon, <1>5, HandlesAssumption
    <3>2. \A o \in Objs : parent'[o] = (IF Dead(o) \/ (parent[o] # NONE /\ Dead(parent[o])) THEN NONE
                                         ELSE parent[o])
      BY Zenon, <1>9 DEF Destruct
    <3>3. ~Dead(found) /\ (parent[found] # NONE => ~Dead(parent[found]))
      BY Zenon, <1>6, <3>1, <3>2
    <3>4. parent[found] = d
      BY Zenon, <1>6 DEF TreeInv, Tree, IsTree
    <3> QED BY Zenon, <3>3, <3>4, HandlesAssumption
  <2>2. r = WithoutAll(s, D)
    BY Zenon, <1>9, <2>1 DEF Destruct
  <2>3. \A x \in Objs : x \notin D => name'[x] = name[x]
    BY Zenon, <1>9 DEF Destruct
  <2>4. Distinct(s)
    BY Zenon DEF TreeInv, Tree, IsTree
  <2> HIDE DEF D
  <2>5. Elems(r) = Elems(s) \ D
    <3> HIDE DEF s, r
    <3> QED BY Zenon, <1>2, <2>2, <2>4, WithoutAllElems
  <2>6. \A x \in Elems(r) : x \in Objs /\ x \notin D
    BY <1>2, <2>5 DEF Elems
  <2>7. \A x \in Elems(r) : x \in P <=> x \in Q
    BY Zenon, <2>3, <2>6 DEF Matching
  <2> HIDE DEF s, r, P, Q, found
  <2>8. Hits(r, P) = Hits(r, Q)
    BY Zenon, <1>2, <2>7, SameHits
  <2>9. Hits(r, P) # {} /\ r[First(Hits(r, P))] = s[First(Hits(s, P))]
    BY Zenon, <1>2, <1>3, <2>1, <2>2, WithoutAllFirst
  <2> QED BY Zenon, <1>3, <2>8, <2>9
<1> QED BY Zenon, <1>7, <1>8, <1>9, NamesStep

(* A name that a create or a deletion leaves in a directory goes on        *)
(* standing for the object that lookup found: append hides no entry behind *)
(* a new one, and unlinking an entry uncovers no other.                    *)
THEOREM NamesKeepTheirMeaning == Spec => LookupStable
<1> DEFINE Stable == \A d \in {x \in Objs : list[x] # list'[x]}, n \in Names, ci \in BOOLEAN :
                       LET found == lookup(d, n, ci)
                       IN found # NONE /\ parent'[found] = d => lookup(d, n, ci)' = found
<1>1. ASSUME TreeInv, TreeInv', [Next]_vars PROVE [Stable]_<<list, name>>
  BY Zenon, <1>1, LookupKept
<1>2. LookupStable <=> [][Stable]_<<list, name>>
  BY Zenon DEF LookupStable
<1> QED BY ObjectsInit, ObjectsStep, <1>1, <1>2, PTL DEF Spec
=============================================================================
