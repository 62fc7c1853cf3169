------------------------------ MODULE LpcProof ------------------------------
(***************************************************************************)
(* Proofs about module Lpc, for any number of servers, clients and ports:  *)
(* who is in the list of listeners, who is connecting, that the two ports  *)
(* of a connection point to each other, that a message finds a thread to   *)
(* fetch it, and that a reply is the one to the request it is given for.   *)
(*                                                                         *)
(* The state has four parts that different calls change: the listeners,    *)
(* the connecting threads, the ports in use and their pairing.  Each has a *)
(* predicate over what it speaks of, so that a lemma can say what one      *)
(* change does to it, whatever the call that makes it.                     *)
(***************************************************************************)
EXTENDS Lpc, TLAPS

(* The call that a listener belongs to.                                    *)
Kind(l) == IF l.connect THEN "listen" ELSE IF l.id = 0 THEN "receive" ELSE "request"

(* Listener l is the one of the call that its thread is blocked in.        *)
IsOf(l, cl) == /\ cl[l.thread].op = Kind(l)
               /\ cl[l.thread].id = l.id
               /\ l.id # 0 => l.port = cl[l.thread].port

(* No thread is in the list ls twice, and none of them is in the run list. *)
ListenersIn(ls, lk, cl) ==
  /\ \A i, j \in DOMAIN ls : ls[i].thread = ls[j].thread => i = j
  /\ \A i \in DOMAIN ls : ls[i].thread \notin lk /\ IsOf(ls[i], cl)

(* thread_t::port is set exactly while the thread is asleep in             *)
(* NtConnectPort.                                                          *)
ConnectingIn(lk, cl, tp) ==
  \A t \in Threads : /\ tp[t] # NONE => t \notin lk /\ cl[t].op = "connect" /\ tp[t] = cl[t].port
                     /\ t \notin lk /\ cl[t].op = "connect" => tp[t] # NONE

(* A port that a call or a thread's termination will use is there, and a   *)
(* port that is being connected has one user.                              *)
UsersIn(pt, cl, dp) ==
  /\ \A t \in Threads : /\ cl[t].port # NONE => pt[cl[t].port] # NONE
                        /\ cl[t].op \in {"connect", "request"} => cl[t].port # NONE
                        /\ dp[t] # NONE => pt[dp[t]] # NONE
  /\ \A t, u \in Threads : cl[t].op = "connect" => /\ dp[u] # cl[t].port
                                                   /\ u # t => cl[u].port # cl[t].port

(* The two ports of a connection point to each other.                      *)
PairedIn(pt) ==
  \A p \in Ports : pt[p] # NONE /\ pt[p].other # NONE =>
    /\ pt[pt[p].other] # NONE
    /\ pt[pt[p].other].other = p
    /\ pt[p].other # p

(* The inductive invariant.                                                *)
LpcInv == /\ TypeOK
          /\ ListenersIn(listeners, linked, call)
          /\ ConnectingIn(linked, call, tport)
          /\ UsersIn(port, call, diedPort)
          /\ PairedIn(port)

-----------------------------------------------------------------------------
(* The listeners *)

(* A listener that is started leaves the list.                             *)
LEMMA ListenerLeaves ==
  ASSUME NEW ls \in Seq(Listener), NEW lk, NEW cl, ListenersIn(ls, lk, cl),
         NEW at \in DOMAIN ls
  PROVE  /\ unlink(ls, at) \in Seq(Listener)
         /\ ListenersIn(unlink(ls, at), lk \cup {ls[at].thread}, cl)
<1> DEFINE r == unlink(ls, at)
<1>1. r \in Seq(Listener)
  BY Zenon, UnlinkElems
<1>2. PICK a \in [DOMAIN r -> DOMAIN ls \ {at}] :
             /\ \A i \in DOMAIN r : r[i] = ls[a[i]]
             /\ \A i, j \in DOMAIN r : i < j => a[i] < a[j]
  BY Zenon, UnlinkPlaces
<1> HIDE DEF r
<1>3. \A i \in DOMAIN r : a[i] \in DOMAIN ls /\ a[i] # at
  BY Zenon, <1>2
<1>4. \A i \in DOMAIN r : r[i].thread \notin lk \cup {ls[at].thread} /\ IsOf(r[i], cl)
  BY <1>2, <1>3 DEF ListenersIn
<1>5. ASSUME NEW i \in DOMAIN r, NEW j \in DOMAIN r, r[i].thread = r[j].thread
      PROVE  i = j
  <2>1. a[i] = a[j]
    BY <1>2, <1>3, <1>5 DEF ListenersIn
  <2>2. i \in Nat /\ j \in Nat /\ a[i] \in Nat
    BY <1>1, <1>3
  <2>3. ~(i < j) /\ ~(j < i)
    BY <1>2, <2>1, <2>2
  <2> QED BY <2>2, <2>3
<1> QED BY Zenon, <1>1, <1>4, <1>5 DEF ListenersIn, r

(* A thread that blocks joins the list.                                    *)
LEMMA ListenerJoins ==
  ASSUME NEW ls \in Seq(Listener), NEW lk, NEW cl, ListenersIn(ls, lk, cl),
         NEW l \in Listener, IsOf(l, cl), l.thread \notin lk,
         \A i \in DOMAIN ls : ls[i].thread # l.thread
  PROVE  Append(ls, l) \in Seq(Listener) /\ ListenersIn(Append(ls, l), lk, cl)
<1> DEFINE r == Append(ls, l)
<1>1. r \in Seq(Listener) /\ DOMAIN ls = 1 .. Len(ls) /\ DOMAIN r = 1 .. (Len(ls) + 1)
  OBVIOUS
<1>2. \A i \in DOMAIN ls : r[i] = ls[i]
  OBVIOUS
<1>3. r[Len(ls) + 1] = l
  OBVIOUS
<1> HIDE DEF r
<1>4. \A i \in DOMAIN r : i \in DOMAIN ls \/ i = Len(ls) + 1
  BY <1>1
<1>5. \A i \in DOMAIN r : r[i].thread \notin lk /\ IsOf(r[i], cl)
  BY Zenon, <1>2, <1>3, <1>4 DEF ListenersIn
<1>6. \A i, j \in DOMAIN r : r[i].thread = r[j].thread => i = j
  BY Zenon, <1>2, <1>3, <1>4 DEF ListenersIn
<1> QED BY Zenon, <1>1, <1>5, <1>6 DEF ListenersIn, r

LEMMA ListenersFewer ==
  ASSUME NEW ls, NEW lk, NEW cl, ListenersIn(ls, lk, cl), NEW lk2, lk2 \subseteq lk
  PROVE  ListenersIn(ls, lk2, cl)
BY Zenon DEF ListenersIn

(* What a thread in the run list does to its own call is nothing to the    *)
(* listeners.                                                              *)
LEMMA ListenersStay ==
  ASSUME NEW ls \in Seq(Listener), NEW lk, NEW cl, ListenersIn(ls, lk, cl),
         NEW t \in lk, NEW lk2, lk2 \subseteq lk,
         NEW cl2, \A u \in Threads \ {t} : cl2[u] = cl[u]
  PROVE  ListenersIn(ls, lk2, cl2) /\ \A i \in DOMAIN ls : ls[i].thread # t
<1>0. \A i \in DOMAIN ls : ls[i] \in Listener
  OBVIOUS
<1>1. \A i \in DOMAIN ls : ls[i].thread \in Threads /\ ls[i].thread \notin lk /\ IsOf(ls[i], cl)
  BY Zenon, <1>0 DEF ListenersIn, Listener
<1>2. \A i \in DOMAIN ls : ls[i].thread # t /\ cl2[ls[i].thread] = cl[ls[i].thread]
  BY Zenon, <1>1
<1>3. \A i \in DOMAIN ls : ls[i].thread \notin lk2 /\ IsOf(ls[i], cl2)
  BY Zenon, <1>1, <1>2 DEF IsOf
<1> QED BY Zenon, <1>2, <1>3 DEF ListenersIn

(* A thread in another call is no listener, and may be started.            *)
LEMMA ListenersElsewhere ==
  ASSUME NEW ls \in Seq(Listener), NEW lk, NEW cl, ListenersIn(ls, lk, cl),
         NEW u, cl[u].op = "connect"
  PROVE  ListenersIn(ls, lk \cup {u}, cl)
<1>1. \A i \in DOMAIN ls : ls[i].thread # u
  BY Zenon DEF ListenersIn, IsOf, Kind
<1> QED BY Zenon, <1>1 DEF ListenersIn

-----------------------------------------------------------------------------
(* The connecting threads *)

LEMMA ConnectingWake ==
  ASSUME NEW lk, NEW cl, NEW tp, ConnectingIn(lk, cl, tp),
         NEW w, \A u \in w : cl[u].op # "connect"
  PROVE  ConnectingIn(lk \cup w, cl, tp)
BY Zenon DEF ConnectingIn

(* A thread that runs is not connecting, and may start or end another call.*)
LEMMA ConnectingCall ==
  ASSUME NEW lk, NEW cl, NEW tp, ConnectingIn(lk, cl, tp),
         NEW t \in lk, NEW lk2, \A u \in Threads \ {t} : u \in lk2 <=> u \in lk,
         NEW cl2, cl2[t].op # "connect", \A u \in Threads \ {t} : cl2[u] = cl[u]
  PROVE  ConnectingIn(lk2, cl2, tp)
<1>1. SUFFICES ASSUME NEW v \in Threads
               PROVE  /\ tp[v] # NONE => v \notin lk2 /\ cl2[v].op = "connect" /\ tp[v] = cl2[v].port
                      /\ v \notin lk2 /\ cl2[v].op = "connect" => tp[v] # NONE
  BY Zenon DEF ConnectingIn
<1>2. CASE v = t
  BY Zenon, <1>2 DEF ConnectingIn
<1>3. CASE v # t
  BY Zenon, <1>3 DEF ConnectingIn
<1> QED BY Zenon, <1>2, <1>3

(* A connecting thread is answered.                                        *)
LEMMA ConnectingEnds ==
  ASSUME NEW lk, NEW cl, NEW tp, ConnectingIn(lk, cl, tp),
         NEW c \in Threads, NEW tp2, tp2[c] = NONE, \A u \in Threads \ {c} : tp2[u] = tp[u]
  PROVE  ConnectingIn(lk \cup {c}, cl, tp2)
<1>1. SUFFICES ASSUME NEW v \in Threads
               PROVE  /\ tp2[v] # NONE => /\ v \notin lk \cup {c}
                                          /\ cl[v].op = "connect" /\ tp2[v] = cl[v].port
                      /\ v \notin lk \cup {c} /\ cl[v].op = "connect" => tp2[v] # NONE
  BY Zenon DEF ConnectingIn
<1>2. CASE v = c
  BY Zenon, <1>2
<1>3. CASE v # c
  BY Zenon, <1>3 DEF ConnectingIn
<1> QED BY Zenon, <1>2, <1>3

(* A thread that is in no call leaves the run list.                        *)
LEMMA ConnectingDies ==
  ASSUME NEW lk, NEW cl, NEW tp, ConnectingIn(lk, cl, tp), NEW u, cl[u] = Idle
  PROVE  ConnectingIn(lk \ {u}, cl, tp)
<1>1. Idle.op # "connect"
  BY DEF Idle
<1> QED BY Zenon, <1>1 DEF ConnectingIn

-----------------------------------------------------------------------------
(* The ports in use *)

(* A thread returns from a call, or blocks in one that needs no port.      *)
LEMMA UsersCall ==
  ASSUME NEW pt, NEW cl, NEW dp, UsersIn(pt, cl, dp), NEW t \in Threads,
         NEW cl2, cl2[t].port = NONE, cl2[t].op \notin {"connect", "request"},
         \A u \in Threads \ {t} : cl2[u] = cl[u]
  PROVE  UsersIn(pt, cl2, dp)
<1>1. ASSUME NEW v \in Threads
      PROVE  /\ cl2[v].port # NONE => pt[cl2[v].port] # NONE
             /\ cl2[v].op \in {"connect", "request"} => cl2[v].port # NONE
             /\ dp[v] # NONE => pt[dp[v]] # NONE
  BY DEF UsersIn
<1>2. ASSUME NEW v \in Threads, NEW u \in Threads, cl2[v].op = "connect"
      PROVE  dp[u] # cl2[v].port /\ (u # v => cl2[u].port # cl2[v].port)
  <2>1. v # t /\ cl2[v] = cl[v] /\ cl[v].port # NONE
    BY Zenon, <1>2 DEF UsersIn
  <2>2. CASE u = t
    BY <1>2, <2>1, <2>2 DEF UsersIn
  <2>3. CASE u # t
    BY <1>2, <2>1, <2>3 DEF UsersIn
  <2> QED BY Zenon, <2>2, <2>3
<1> QED BY Zenon, <1>1, <1>2 DEF UsersIn

(* Ports come and are written to, but none goes.                           *)
LEMMA UsersPorts ==
  ASSUME NEW pt, NEW cl \in [Threads -> CallState],
         NEW dp \in [Threads -> Ports \cup {NONE}], UsersIn(pt, cl, dp),
         NEW pt2, \A p \in Ports : pt[p] # NONE => pt2[p] # NONE
  PROVE  UsersIn(pt2, cl, dp)
<1>1. \A t \in Threads : cl[t].port \in Ports \cup {NONE} /\ dp[t] \in Ports \cup {NONE}
  BY Zenon DEF CallState
<1> QED BY Zenon, <1>1 DEF UsersIn

(* A port that nobody uses goes.                                           *)
LEMMA UsersRelease ==
  ASSUME NEW pt, NEW cl \in [Threads -> CallState],
         NEW dp \in [Threads -> Ports \cup {NONE}], UsersIn(pt, cl, dp),
         NEW p \in Ports, \A u \in Threads : cl[u].port # p /\ dp[u] # p,
         NEW pt2, \A q \in Ports \ {p} : pt[q] # NONE => pt2[q] # NONE
  PROVE  UsersIn(pt2, cl, dp)
<1>1. \A t \in Threads : /\ cl[t].port \in (Ports \ {p}) \cup {NONE}
                         /\ dp[t] \in (Ports \ {p}) \cup {NONE}
  BY Zenon DEF CallState
<1> QED BY Zenon, <1>1 DEF UsersIn

(* A thread begins to use port p, to connect it or to send a request.      *)
LEMMA UsersBegin ==
  ASSUME NEW pt, NEW cl, NEW dp, UsersIn(pt, cl, dp), NEW t \in Threads,
         NEW p \in Ports, pt[p] # NONE, NEW op \in {"connect", "request"},
         \A u \in Threads : cl[u].port = p => cl[u].op # "connect",
         op = "connect" => \A u \in Threads : dp[u] # p /\ cl[u].port # p,
         NEW cl2, cl2[t].port = p, cl2[t].op = op, \A u \in Threads \ {t} : cl2[u] = cl[u],
         NONE \notin Ports
  PROVE  UsersIn(pt, cl2, dp)
<1>1. ASSUME NEW v \in Threads
      PROVE  /\ cl2[v].port # NONE => pt[cl2[v].port] # NONE
             /\ cl2[v].op \in {"connect", "request"} => cl2[v].port # NONE
             /\ dp[v] # NONE => pt[dp[v]] # NONE
  BY DEF UsersIn
<1>2. ASSUME NEW v \in Threads, NEW u \in Threads, cl2[v].op = "connect"
      PROVE  dp[u] # cl2[v].port /\ (u # v => cl2[u].port # cl2[v].port)
  <2>1. CASE v = t
    BY Zenon, <1>2, <2>1
  <2>2. CASE v # t
    <3>1. cl2[v] = cl[v] /\ cl[v].op = "connect" /\ cl[v].port # p
      BY Zenon, <1>2, <2>2
    <3> QED BY <1>2, <2>2, <3>1 DEF UsersIn
  <2> QED BY Zenon, <2>1, <2>2
<1> QED BY Zenon, <1>1, <1>2 DEF UsersIn

(* A thread registers its terminate port, or no longer has one.            *)
LEMMA UsersDied ==
  ASSUME NEW pt, NEW cl, NEW dp, UsersIn(pt, cl, dp), NEW t \in Threads, NEW p,
         p # NONE => pt[p] # NONE,
         \A u \in Threads : cl[u].op = "connect" => cl[u].port # p,
         NEW dp2, dp2[t] = p, \A u \in Threads \ {t} : dp2[u] = dp[u]
  PROVE  UsersIn(pt, cl, dp2)
<1>1. \A u \in Threads : dp2[u] = p \/ dp2[u] = dp[u]
  BY Zenon
<1> QED BY <1>1 DEF UsersIn

-----------------------------------------------------------------------------
(* The pairs *)

(* Writing received_msg leaves the rest of a port alone.                   *)
LEMMA HoldsPort ==
  ASSUME NEW o \in PortObject, NEW id \in Nat
  PROVE  Holds(o, id) \in PortObject /\ Holds(o, id).other = o.other /\ Holds(o, id) # NONE
<1>1. Holds(o, id) \in PortObject /\ Holds(o, id).other = o.other
  BY Zenon DEF Holds, PortObject
<1> QED BY Zenon, <1>1, LpcAssumption

LEMMA PairsSame ==
  ASSUME NEW pt \in [Ports -> {NONE} \cup PortObject], PairedIn(pt),
         NEW pt2, \A p \in Ports : /\ pt2[p] = NONE <=> pt[p] = NONE
                                   /\ pt[p] # NONE => pt2[p].other = pt[p].other
  PROVE  PairedIn(pt2)
<1>1. \A p \in Ports : pt[p] # NONE /\ pt[p].other # NONE => pt[p].other \in Ports
  BY Zenon DEF PortObject
<1> QED BY <1>1 DEF PairedIn

(* received_msg of port p is written.                                      *)
LEMMA PortHolds ==
  ASSUME NEW pt \in [Ports -> {NONE} \cup PortObject], PairedIn(pt),
         NEW p \in Ports, pt[p] # NONE, NEW id \in Nat
  PROVE  /\ [pt EXCEPT ![p] = Holds(@, id)] \in [Ports -> {NONE} \cup PortObject]
         /\ PairedIn([pt EXCEPT ![p] = Holds(@, id)])
         /\ \A q \in Ports : pt[q] # NONE => [pt EXCEPT ![p] = Holds(@, id)][q] # NONE
<1> DEFINE h == Holds(pt[p], id)
           pt2 == [pt EXCEPT ![p] = h]
<1>1. h \in PortObject /\ h.other = pt[p].other /\ h # NONE
  BY Zenon, HoldsPort
<1> HIDE DEF h
<1>2. pt2 \in [Ports -> {NONE} \cup PortObject] /\ pt2[p] = h /\ \A q \in Ports \ {p} : pt2[q] = pt[q]
  BY Zenon, <1>1
<1> HIDE DEF pt2
<1>3. \A q \in Ports : (pt2[q] = NONE <=> pt[q] = NONE) /\ (pt[q] # NONE => pt2[q].other = pt[q].other)
  BY Zenon, <1>1, <1>2
<1>4. PairedIn(pt2)
  BY Zenon, <1>3, PairsSame
<1> QED BY Zenon, <1>2, <1>3, <1>4 DEF h, pt2

(* A port without an other side comes or goes.                             *)
LEMMA PairsAlone ==
  ASSUME NEW pt \in [Ports -> {NONE} \cup PortObject], PairedIn(pt),
         NEW p \in Ports, pt[p] = NONE \/ pt[p].other = NONE,
         NEW pt2, pt2[p] = NONE \/ pt2[p].other = NONE, \A q \in Ports \ {p} : pt2[q] = pt[q]
  PROVE  PairedIn(pt2)
<1>1. SUFFICES ASSUME NEW q \in Ports, pt2[q] # NONE, pt2[q].other # NONE
               PROVE  /\ pt2[pt2[q].other] # NONE /\ pt2[pt2[q].other].other = q
                      /\ pt2[q].other # q
  BY Zenon DEF PairedIn
<1>2. q # p /\ pt2[q] = pt[q] /\ pt[q].other \in Ports
  BY Zenon, <1>1 DEF PortObject
<1>3. pt[pt[q].other] # NONE /\ pt[pt[q].other].other = q /\ pt[q].other # q /\ q # NONE
  BY Zenon, <1>1, <1>2, LpcAssumption DEF PairedIn
<1>4. pt[q].other # p
  BY Zenon, <1>3
<1> QED BY Zenon, <1>2, <1>3, <1>4

(* Two ports without an other side are connected.                          *)
LEMMA PairsJoin ==
  ASSUME NEW pt \in [Ports -> {NONE} \cup PortObject], PairedIn(pt),
         NEW p \in Ports, pt[p] = NONE \/ pt[p].other = NONE,
         NEW q \in Ports, pt[q] = NONE \/ pt[q].other = NONE, p # q,
         NEW pt2, pt2[p] # NONE, pt2[p].other = q, pt2[q] # NONE, pt2[q].other = p,
         \A r \in Ports \ {p, q} : pt2[r] = pt[r]
  PROVE  PairedIn(pt2)
<1>1. SUFFICES ASSUME NEW r \in Ports, pt2[r] # NONE, pt2[r].other # NONE
               PROVE  /\ pt2[pt2[r].other] # NONE /\ pt2[pt2[r].other].other = r
                      /\ pt2[r].other # r
  BY Zenon DEF PairedIn
<1>2. CASE r \in {p, q}
  BY Zenon, <1>2
<1>3. CASE r \notin {p, q}
  <2>1. pt2[r] = pt[r] /\ pt[r].other \in Ports
    BY <1>1, <1>3 DEF PortObject
  <2>2. pt[pt[r].other] # NONE /\ pt[pt[r].other].other = r /\ pt[r].other # r /\ r # NONE
    BY Zenon, <1>1, <2>1, LpcAssumption DEF PairedIn
  <2>3. pt[r].other \notin {p, q}
    BY Zenon, <2>2
  <2> QED BY Zenon, <2>1, <2>2, <2>3
<1> QED BY Zenon, <1>2, <1>3

(* One side of a connection goes, and the other is told.                   *)
LEMMA PairsPart ==
  ASSUME NEW pt \in [Ports -> {NONE} \cup PortObject], PairedIn(pt),
         NEW p \in Ports, pt[p] # NONE, NEW o \in Ports, pt[p].other = o,
         NEW pt2, pt2[p] = NONE, pt2[o].other = NONE, \A q \in Ports \ {p, o} : pt2[q] = pt[q]
  PROVE  PairedIn(pt2)
<1>1. pt[o] # NONE /\ pt[o].other = p
  BY Zenon, LpcAssumption DEF PairedIn
<1>2. SUFFICES ASSUME NEW r \in Ports, pt2[r] # NONE, pt2[r].other # NONE
               PROVE  /\ pt2[pt2[r].other] # NONE /\ pt2[pt2[r].other].other = r
                      /\ pt2[r].other # r
  BY Zenon DEF PairedIn
<1>3. r \notin {p, o} /\ pt2[r] = pt[r] /\ pt[r].other \in Ports
  BY <1>2 DEF PortObject
<1>4. pt[pt[r].other] # NONE /\ pt[pt[r].other].other = r /\ pt[r].other # r
  BY <1>2, <1>3 DEF PairedIn
<1>5. pt[r].other \notin {p, o}
  BY Zenon, <1>1, <1>3, <1>4
<1> QED BY Zenon, <1>3, <1>4, <1>5

-----------------------------------------------------------------------------
(* What the calls have in common *)

LEMMA CallSet ==
  ASSUME NEW cl \in [Threads -> CallState], NEW t \in Threads, NEW r \in CallState
  PROVE  /\ [cl EXCEPT ![t] = r] \in [Threads -> CallState]
         /\ [cl EXCEPT ![t] = r][t] = r
         /\ \A u \in Threads \ {t} : [cl EXCEPT ![t] = r][u] = cl[u]
BY Zenon

LEMMA RunningThread ==
  ASSUME LpcInv, NEW t \in Threads, Runs(t)
  PROVE  t \in linked /\ t \notin dead /\ call[t] = Idle /\ tport[t] = NONE /\ failed = "none"
<1>1. t \in linked /\ t \notin dead /\ call[t] = Idle /\ failed = "none"
  BY Zenon DEF Runs
<1>2. tport[t] = NONE
  BY Zenon, <1>1 DEF LpcInv, ConnectingIn
<1> QED BY Zenon, <1>1, <1>2

(* Thread t blocks, as listener l.                                         *)
LEMMA ListenerBlocks ==
  ASSUME NEW ls \in Seq(Listener), NEW lk, NEW cl, ListenersIn(ls, lk, cl),
         NEW t \in lk, NEW cl2, \A u \in Threads \ {t} : cl2[u] = cl[u],
         NEW l \in Listener, l.thread = t, IsOf(l, cl2)
  PROVE  Append(ls, l) \in Seq(Listener) /\ ListenersIn(Append(ls, l), lk \ {t}, cl2)
<1>1. lk \ {t} \subseteq lk
  BY Zenon
<1>2. ListenersIn(ls, lk \ {t}, cl2) /\ \A i \in DOMAIN ls : ls[i].thread # t
  BY <1>1, ListenersStay
<1> QED BY Zenon, <1>2, ListenerJoins

(* Thread t returns from the call that it was blocked in, and may leave    *)
(* the run list.                                                           *)
LEMMA CallEnds ==
  ASSUME NEW ls \in Seq(Listener), NEW lk, NEW cl \in [Threads -> CallState],
         NEW tp, NEW pt, NEW dp,
         ListenersIn(ls, lk, cl), ConnectingIn(lk, cl, tp), UsersIn(pt, cl, dp),
         NEW t \in Threads, t \in lk, NEW lk2, lk2 \in {lk, lk \ {t}}
  PROVE  /\ [cl EXCEPT ![t] = Idle] \in [Threads -> CallState]
         /\ ListenersIn(ls, lk2, [cl EXCEPT ![t] = Idle])
         /\ ConnectingIn(lk2, [cl EXCEPT ![t] = Idle], tp)
         /\ UsersIn(pt, [cl EXCEPT ![t] = Idle], dp)
<1> DEFINE cl2 == [cl EXCEPT ![t] = Idle]
<1>1. Idle \in CallState /\ Idle.op = "none" /\ Idle.port = NONE
  BY Zenon DEF CallState, Idle
<1>2. /\ cl2 \in [Threads -> CallState] /\ cl2[t] = Idle
      /\ \A u \in Threads \ {t} : cl2[u] = cl[u]
  BY Zenon, <1>1, CallSet
<1> HIDE DEF cl2
<1>3. lk2 \subseteq lk /\ \A u \in Threads \ {t} : u \in lk2 <=> u \in lk
  BY Zenon
<1>4. ListenersIn(ls, lk2, cl2)
  BY <1>2, <1>3, ListenersStay
<1>5. ConnectingIn(lk2, cl2, tp)
  BY <1>1, <1>2, <1>3, ConnectingCall
<1>6. UsersIn(pt, cl2, dp)
  BY Zenon, <1>1, <1>2, UsersCall
<1> QED BY Zenon, <1>2, <1>4, <1>5, <1>6 DEF cl2

(* A send_message has left the list ls and started the threads of w.       *)
Sent(lk, new) ==
  \E ls \in Seq(Listener), w \in SUBSET (Threads \ linked) :
    /\ listeners' = ls \o new /\ linked' = lk \cup w
    /\ ListenersIn(ls, linked \cup w, call)
    /\ ConnectingIn(linked \cup w, call, tport)

LEMMA SendKeeps ==
  ASSUME LpcInv, NEW m \in Message, NEW lk, NEW new, send_message(m, lk, new)
  PROVE  messages' \in Seq(Message) /\ Sent(lk, new)
<1>1. messages' \in Seq(Message)
  <2>1. messages \in Seq(Message)
    BY Zenon DEF LpcInv, TypeOK
  <2>2. messages' = Append(messages, m)
    BY Zenon DEF send_message
  <2> QED BY <2>1, <2>2
<1>2. listeners \in Seq(Listener) /\ ListenersIn(listeners, linked, call)
  BY Zenon DEF LpcInv, TypeOK
<1>3. CASE Wakeable(m) = {}
  <2>1. listeners' = listeners \o new /\ linked' = lk \cup {}
    BY Zenon, <1>3 DEF send_message
  <2>2. ListenersIn(listeners, linked \cup {}, call)
    BY Zenon, <1>2, ListenersFewer
  <2>3. {} \in SUBSET (Threads \ linked) /\ ConnectingIn(linked \cup {}, call, tport)
    BY Zenon, ConnectingWake DEF LpcInv
  <2> QED BY <1>1, <1>2, <2>1, <2>2, <2>3, Zenon DEF Sent
<1>4. CASE Wakeable(m) # {}
  <2>1. PICK i \in Wakeable(m) : /\ listeners' = unlink(listeners, i) \o new
                                 /\ linked' = lk \cup {listeners[i].thread}
    BY Zenon, <1>4 DEF send_message
  <2> DEFINE w == {listeners[i].thread}
  <2>2. i \in DOMAIN listeners /\ listeners[i].id = 0
    BY Zenon DEF Wakeable
  <2>3. listeners[i] \in Listener
    BY <1>2, <2>2
  <2>4. listeners[i].thread \in Threads \ linked
    BY Zenon, <1>2, <2>2, <2>3 DEF ListenersIn, Listener
  <2>5. call[listeners[i].thread].op # "connect"
    BY Zenon, <1>2, <2>2 DEF ListenersIn, IsOf, Kind
  <2>6. /\ unlink(listeners, i) \in Seq(Listener)
        /\ ListenersIn(unlink(listeners, i), linked \cup {listeners[i].thread}, call)
    BY Zenon, <1>2, <2>2, ListenerLeaves
  <2>7. ListenersIn(unlink(listeners, i), linked \cup w, call)
    BY Zenon, <2>6, ListenersFewer
  <2>8. w \in SUBSET (Threads \ linked) /\ ConnectingIn(linked \cup w, call, tport)
    BY Zenon, <2>4, <2>5, ConnectingWake DEF LpcInv
  <2> QED BY Zenon, <1>1, <2>1, <2>6, <2>7, <2>8 DEF Sent
<1> QED BY Zenon, <1>3, <1>4

(* A reply is delivered to listener i.                                     *)
LEMMA Answered ==
  ASSUME LpcInv, NEW id \in 1 .. MaxId, NEW i \in DOMAIN listeners, Answers(id, i), Deliver(i, id)
  PROVE  /\ port' \in [Ports -> {NONE} \cup PortObject]
         /\ PairedIn(port') /\ UsersIn(port', call, diedPort)
         /\ unlink(listeners, i) \in Seq(Listener)
         /\ Started(listeners[i].thread) \in SUBSET Threads
         /\ linked \subseteq Started(listeners[i].thread)
         /\ ListenersIn(unlink(listeners, i), Started(listeners[i].thread), call)
         /\ ConnectingIn(Started(listeners[i].thread), call, tport)
<1> DEFINE l == listeners[i]
<1>0. listeners \in Seq(Listener) /\ MaxId \in Nat
  BY Zenon, LpcAssumption DEF LpcInv, TypeOK
<1>1. l \in Listener /\ ~l.connect /\ l.id = id /\ id \in Nat /\ id # 0
  BY <1>0 DEF Answers, IsFirst
<1>2. l.thread \in Threads /\ l.port \in Ports \cup {NONE}
  BY Zenon, <1>1 DEF Listener
<1>3. call[l.thread].op = "request" /\ l.port = call[l.thread].port
  BY Zenon, <1>1 DEF LpcInv, ListenersIn, IsOf, Kind
<1>4. l.port \in Ports /\ port[l.port] # NONE
  BY Zenon, <1>2, <1>3 DEF LpcInv, UsersIn
<1> HIDE DEF l
<1>5. port \in [Ports -> {NONE} \cup PortObject] /\ PairedIn(port) /\ UsersIn(port, call, diedPort)
  BY Zenon DEF LpcInv, TypeOK
<1>6. port' = [port EXCEPT ![l.port] = Holds(@, id)]
  BY Zenon DEF Deliver, l
<1>7. /\ port' \in [Ports -> {NONE} \cup PortObject] /\ PairedIn(port')
      /\ \A q \in Ports : port[q] # NONE => port'[q] # NONE
  <2>1. id \in Nat /\ l.port \in Ports /\ port[l.port] # NONE
    BY Zenon, <1>1, <1>4
  <2> QED BY ZenonT(40), <1>5, <1>6, <2>1, PortHolds
<1>8. UsersIn(port', call, diedPort)
  BY Zenon, <1>5, <1>7, UsersPorts DEF LpcInv, TypeOK
<1>9. listeners \in Seq(Listener) /\ ListenersIn(listeners, linked, call)
  BY Zenon DEF LpcInv, TypeOK
<1>10. /\ unlink(listeners, i) \in Seq(Listener)
       /\ ListenersIn(unlink(listeners, i), linked \cup {l.thread}, call)
  BY Zenon, <1>9, ListenerLeaves DEF l
<1>11. ListenersIn(unlink(listeners, i), Started(l.thread), call)
  BY Zenon, <1>10, ListenersFewer DEF Started
<1>12. ConnectingIn(Started(l.thread), call, tport)
  BY Zenon, <1>3, ConnectingWake DEF LpcInv, Started
<1>13. Started(l.thread) \in SUBSET Threads /\ linked \subseteq Started(l.thread)
  BY Zenon, <1>2 DEF Started, LpcInv, TypeOK
<1> QED BY Zenon, <1>7, <1>8, <1>10, <1>11, <1>12, <1>13 DEF l

(* request_wait_reply after the wait.                                      *)
LEMMA RequestEnds ==
  ASSUME LpcInv, NEW t \in Threads, t \in linked, call[t].op = "request",
         EndRequest(call[t].port), Returns(t)
  PROVE  /\ failed' \in {"none", "noReply"}
         /\ port' \in [Ports -> {NONE} \cup PortObject]
         /\ PairedIn(port') /\ UsersIn(port', call', diedPort)
<1> DEFINE p == call[t].port
<1>1. p \in Ports /\ port[p] # NONE
  BY Zenon DEF LpcInv, TypeOK, UsersIn, CallState
<1>2. failed' \in {"none", "noReply"} /\ port' = [port EXCEPT ![p] = Holds(@, 0)]
  BY Zenon DEF EndRequest
<1>3. port \in [Ports -> {NONE} \cup PortObject] /\ PairedIn(port)
  BY Zenon DEF LpcInv, TypeOK
<1>4. call' \in [Threads -> CallState] /\ UsersIn(port, call', diedPort)
  BY Zenon, CallEnds DEF LpcInv, TypeOK, Returns
<1> HIDE DEF p
<1>5. /\ port' \in [Ports -> {NONE} \cup PortObject] /\ PairedIn(port')
      /\ \A q \in Ports : port[q] # NONE => port'[q] # NONE
  BY Zenon, <1>1, <1>2, <1>3, PortHolds
<1>6. UsersIn(port', call', diedPort)
  BY Zenon, <1>4, <1>5, UsersPorts DEF LpcInv, TypeOK
<1> QED BY Zenon, <1>2, <1>5, <1>6

(* The thread whose connection request is pending.                         *)
LEMMA PendingThread ==
  ASSUME LpcInv, NEW c \in Threads, NEW id, Pending(c, id)
  PROVE  /\ tport[c] \in Ports /\ call[c].op = "connect" /\ call[c].port = tport[c]
         /\ port[tport[c]] \in PortObject /\ port[tport[c]] # NONE /\ port[tport[c]].other = NONE
<1>1. tport[c] \in Ports /\ call[c].op = "connect" /\ call[c].port = tport[c]
  BY Zenon DEF LpcInv, TypeOK, ConnectingIn, Pending
<1>2. port[tport[c]] # NONE
  BY Zenon, <1>1, LpcAssumption DEF LpcInv, UsersIn
<1> QED BY Zenon, <1>1, <1>2 DEF LpcInv, TypeOK, Pending

-----------------------------------------------------------------------------
(* The calls, one by one *)

LEMMA RequestTaken ==
  ASSUME LpcInv, TakeRequest
  PROVE  messages' \in Seq(Message)
<1>1. PICK i \in DOMAIN messages : messages' = unlink(messages, i)
  BY Zenon DEF TakeRequest, ConnectRequests
<1> QED BY Zenon, <1>1, UnlinkElems DEF LpcInv, TypeOK

LEMMA ListenInv ==
  ASSUME LpcInv, NEW t \in Threads, NtListenPort(t)
  PROVE  LpcInv'
<1>1. t \in linked
  BY Zenon, RunningThread DEF NtListenPort
<1>2. CASE ConnectRequests # {}
  <2>1. messages' \in Seq(Message) /\ UNCHANGED <<listeners, linked, call>>
    BY Zenon, <1>2, RequestTaken DEF NtListenPort
  <2> QED BY Zenon, <2>1 DEF LpcInv, TypeOK, NtListenPort
<1>3. CASE ConnectRequests = {}
  <2> DEFINE l == [port |-> NONE, thread |-> t, connect |-> TRUE, id |-> 0]
             r == [op |-> "listen", port |-> NONE, id |-> 0]
  <2>1. /\ messages' = messages /\ listeners' = Append(listeners, l)
        /\ linked' = linked \ {t} /\ call' = [call EXCEPT ![t] = r]
    BY Zenon, <1>3 DEF NtListenPort, Blocks
  <2>2. l \in Listener /\ l.thread = t /\ l.id = 0
    BY Zenon DEF Listener
  <2>3. r \in CallState /\ r.op = "listen" /\ Kind(l) = "listen" /\ r.port = NONE /\ r.id = 0
    BY Zenon DEF CallState, Kind
  <2> HIDE DEF l, r
  <2>4. /\ call' \in [Threads -> CallState] /\ call'[t] = r
        /\ \A u \in Threads \ {t} : call'[u] = call[u]
    BY ZenonT(40), <2>1, <2>3, CallSet DEF LpcInv, TypeOK
  <2>5. IsOf(l, call')
    BY Zenon, <2>2, <2>3, <2>4 DEF IsOf
  <2>6. listeners' \in Seq(Listener) /\ ListenersIn(listeners', linked', call')
    BY Zenon, <1>1, <2>1, <2>2, <2>4, <2>5, ListenerBlocks DEF LpcInv, TypeOK
  <2>7. ConnectingIn(linked', call', tport)
    <3>1. call'[t].op # "connect" /\ \A u \in Threads \ {t} : u \in linked' <=> u \in linked
      BY Zenon, <2>1, <2>3, <2>4
    <3> QED BY <1>1, <2>4, <3>1, ConnectingCall DEF LpcInv
  <2>8. UsersIn(port, call', diedPort)
    BY Zenon, <2>3, <2>4, UsersCall DEF LpcInv
  <2> QED BY Zenon, <2>1, <2>4, <2>6, <2>7, <2>8 DEF LpcInv, TypeOK, NtListenPort
<1> QED BY Zenon, <1>2, <1>3

LEMMA ListenedInv ==
  ASSUME LpcInv, NEW t \in Threads, Listened(t)
  PROVE  LpcInv'
<1>1. t \in linked /\ linked' = linked /\ call' = [call EXCEPT ![t] = Idle]
  BY Zenon DEF Listened, Resumes, Returns
<1>2. messages' \in Seq(Message) /\ failed' \in {"none", "listen"}
  BY Zenon, RequestTaken DEF Listened, Resumes, LpcInv, TypeOK
<1>3. /\ call' \in [Threads -> CallState] /\ ListenersIn(listeners, linked', call')
      /\ ConnectingIn(linked', call', tport) /\ UsersIn(port, call', diedPort)
  BY Zenon, <1>1, CallEnds DEF LpcInv, TypeOK
<1> QED BY Zenon, <1>1, <1>2, <1>3 DEF LpcInv, TypeOK, Listened

LEMMA ReplyInv ==
  ASSUME LpcInv, NEW t \in Threads, NEW id \in 1 .. MaxId, NtReplyPort(t, id)
  PROVE  LpcInv'
<1>1. PICK i \in DOMAIN listeners : /\ Answers(id, i) /\ Deliver(i, id)
                                    /\ listeners' = unlink(listeners, i)
                                    /\ linked' = Started(listeners[i].thread)
  BY Zenon DEF NtReplyPort
<1>2. /\ port' \in [Ports -> {NONE} \cup PortObject]
      /\ PairedIn(port') /\ UsersIn(port', call, diedPort)
      /\ listeners' \in Seq(Listener) /\ linked' \in SUBSET Threads
      /\ ListenersIn(listeners', linked', call) /\ ConnectingIn(linked', call, tport)
  BY Zenon, <1>1, Answered
<1> QED BY Zenon, <1>2 DEF LpcInv, TypeOK, NtReplyPort

(* The receiving half of NtReplyWaitReceivePort, with the list and the run *)
(* list that the reply left.                                               *)
LEMMA ReceiveInv ==
  ASSUME LpcInv, NEW t \in Threads, NEW ls \in Seq(Listener), NEW lk \in SUBSET Threads, t \in lk,
         Receive(t, ls, lk), ListenersIn(ls, lk, call), ConnectingIn(lk, call, tport),
         port' \in [Ports -> {NONE} \cup PortObject], PairedIn(port'), UsersIn(port', call, diedPort)
  PROVE  LpcInv'
<1>1. CASE messages # <<>>
  <2>1. messages \in Seq(Message)
    BY Zenon DEF LpcInv, TypeOK
  <2>2. /\ messages' = Tail(messages) /\ listeners' = ls /\ linked' = lk /\ call' = call
    BY Zenon, <1>1 DEF Receive
  <2>3. messages' \in Seq(Message)
    BY Zenon, <1>1, <2>1, <2>2, TailElems
  <2> QED BY Zenon, <2>2, <2>3 DEF LpcInv, TypeOK, Receive
<1>2. CASE messages = <<>>
  <2> DEFINE l == [port |-> NONE, thread |-> t, connect |-> FALSE, id |-> 0]
             r == [op |-> "receive", port |-> NONE, id |-> 0]
  <2>1. /\ messages' = messages /\ listeners' = Append(ls, l)
        /\ linked' = lk \ {t} /\ call' = [call EXCEPT ![t] = r]
    BY Zenon, <1>2 DEF Receive, Blocks
  <2>2. l \in Listener /\ l.thread = t /\ l.id = 0
    BY Zenon DEF Listener
  <2>3. r \in CallState /\ r.op = "receive" /\ Kind(l) = "receive" /\ r.port = NONE /\ r.id = 0
    BY Zenon DEF CallState, Kind
  <2> HIDE DEF l, r
  <2>4. /\ call' \in [Threads -> CallState] /\ call'[t] = r
        /\ \A u \in Threads \ {t} : call'[u] = call[u]
    BY ZenonT(40), <2>1, <2>3, CallSet DEF LpcInv, TypeOK
  <2>5. IsOf(l, call')
    BY Zenon, <2>2, <2>3, <2>4 DEF IsOf
  <2>6. listeners' \in Seq(Listener) /\ ListenersIn(listeners', linked', call')
    BY Zenon, <2>1, <2>2, <2>4, <2>5, ListenerBlocks
  <2>7. ConnectingIn(linked', call', tport)
    <3>1. call'[t].op # "connect" /\ \A u \in Threads \ {t} : u \in linked' <=> u \in lk
      BY Zenon, <2>1, <2>3, <2>4
    <3> QED BY <2>4, <3>1, ConnectingCall
  <2>8. UsersIn(port', call', diedPort)
    BY Zenon, <2>3, <2>4, UsersCall
  <2> QED BY Zenon, <2>1, <2>4, <2>6, <2>7, <2>8 DEF LpcInv, TypeOK, Receive
<1> QED BY Zenon, <1>1, <1>2

LEMMA ReplyWaitReceiveInv ==
  ASSUME LpcInv, NEW t \in Threads, NEW id \in 0 .. MaxId, NtReplyWaitReceivePort(t, id)
  PROVE  LpcInv'
<1>1. t \in linked
  BY Zenon, RunningThread DEF NtReplyWaitReceivePort
<1>2. CASE id = 0 /\ Receive(t, listeners, linked) /\ UNCHANGED port
  BY Zenon, <1>1, <1>2, ReceiveInv DEF LpcInv, TypeOK
<1>3. ASSUME NEW i \in DOMAIN listeners, id # 0, Answers(id, i), Deliver(i, id),
             Receive(t, unlink(listeners, i), Started(listeners[i].thread))
      PROVE  LpcInv'
  <2>1. id \in 1 .. MaxId
    BY <1>3, LpcAssumption
  <2>2. /\ port' \in [Ports -> {NONE} \cup PortObject]
        /\ PairedIn(port') /\ UsersIn(port', call, diedPort)
        /\ unlink(listeners, i) \in Seq(Listener)
        /\ Started(listeners[i].thread) \in SUBSET Threads /\ t \in Started(listeners[i].thread)
        /\ ListenersIn(unlink(listeners, i), Started(listeners[i].thread), call)
        /\ ConnectingIn(Started(listeners[i].thread), call, tport)
    BY Zenon, <1>1, <1>3, <2>1, Answered
  <2> QED BY <1>3, <2>2, ReceiveInv
<1> QED BY Zenon, <1>2, <1>3 DEF NtReplyWaitReceivePort

LEMMA ReceivedInv ==
  ASSUME LpcInv, NEW t \in Threads, Received(t)
  PROVE  LpcInv'
<1>1. t \in linked /\ linked' = linked /\ call' = [call EXCEPT ![t] = Idle]
  BY Zenon DEF Received, Resumes, Returns
<1>2. messages' \in Seq(Message)
  BY Zenon, TailElems DEF Received, LpcInv, TypeOK
<1>3. /\ call' \in [Threads -> CallState] /\ ListenersIn(listeners, linked', call')
      /\ ConnectingIn(linked', call', tport) /\ UsersIn(port, call', diedPort)
  BY Zenon, <1>1, CallEnds DEF LpcInv, TypeOK
<1> QED BY Zenon, <1>1, <1>2, <1>3 DEF LpcInv, TypeOK, Received

(* The id of a message that is sent, and the next one.                     *)
LEMMA NewId ==
  ASSUME LpcInv, nextId <= MaxId
  PROVE  nextId \in Nat /\ nextId # 0 /\ nextId \in 0 .. MaxId /\ nextId + 1 \in 1 .. MaxId + 1
<1>1. nextId \in 1 .. MaxId + 1 /\ MaxId \in Nat
  BY Zenon, LpcAssumption DEF LpcInv, TypeOK
<1> QED BY <1>1

LEMMA MessageMade ==
  ASSUME LpcInv, nextId <= MaxId, NEW ty \in Types, NEW t \in Threads, NEW d \in Ports \cup {NONE}
  PROVE  NewMessage(ty, t, d) \in Message
BY Zenon, NewId DEF NewMessage, Message

(* A message of a sender that adds no listener.                            *)
LEMMA SendOnly ==
  ASSUME LpcInv, NEW m \in Message, NEW lk, send_message(m, lk, <<>>)
  PROVE  /\ messages' \in Seq(Message) /\ listeners' \in Seq(Listener)
         /\ \E w \in SUBSET (Threads \ linked) :
              /\ linked' = lk \cup w
              /\ ListenersIn(listeners', linked \cup w, call)
              /\ ConnectingIn(linked \cup w, call, tport)
<1>1. messages' \in Seq(Message) /\ Sent(lk, <<>>)
  BY Zenon, SendKeeps
<1>2. PICK ls \in Seq(Listener), w \in SUBSET (Threads \ linked) :
             /\ listeners' = ls \o <<>> /\ linked' = lk \cup w
             /\ ListenersIn(ls, linked \cup w, call)
             /\ ConnectingIn(linked \cup w, call, tport)
  BY Zenon, <1>1 DEF Sent
<1>3. ls \o <<>> = ls
  BY Zenon, ConcatElems
<1> QED BY Zenon, <1>1, <1>2, <1>3

LEMMA ConnectInv ==
  ASSUME LpcInv, NEW t \in Threads, NEW p \in Ports, NtConnectPort(t, p)
  PROVE  LpcInv'
<1> DEFINE o == [thread |-> t, other |-> NONE, received |-> 0, ident |-> NONE]
           r == [op |-> "connect", port |-> p, id |-> nextId]
<1>1. t \in linked /\ tport[t] = NONE /\ nextId <= MaxId /\ port[p] = NONE
  BY Zenon, RunningThread DEF NtConnectPort
<1>2. /\ failed' = "none" /\ nextId' = nextId + 1 /\ messageId' = [messageId EXCEPT ![t] = nextId]
      /\ port' = [port EXCEPT ![p] = o] /\ call' = [call EXCEPT ![t] = r]
      /\ tport' = [tport EXCEPT ![t] = p] /\ dead' = dead /\ diedPort' = diedPort
      /\ send_message(NewMessage("connect", t, NONE), linked \ {t}, <<>>)
  BY Zenon, <1>1 DEF NtConnectPort, Blocks
<1>3. o \in PortObject /\ o.other = NONE /\ o # NONE /\ p # NONE
  BY LpcAssumption DEF PortObject
<1>4. r \in CallState /\ r.op = "connect" /\ r.port = p
  BY Zenon, <1>1, NewId DEF CallState
<1> HIDE DEF o, r
<1>5. NewMessage("connect", t, NONE) \in Message
  BY Zenon, <1>1, MessageMade DEF Types
<1>6. /\ messages' \in Seq(Message) /\ listeners' \in Seq(Listener)
      /\ \E w \in SUBSET (Threads \ linked) :
           /\ linked' = (linked \ {t}) \cup w
           /\ ListenersIn(listeners', linked \cup w, call)
           /\ ConnectingIn(linked \cup w, call, tport)
  BY Zenon, <1>2, <1>5, SendOnly
<1>7. PICK w \in SUBSET (Threads \ linked) :
           /\ linked' = (linked \ {t}) \cup w
           /\ ListenersIn(listeners', linked \cup w, call)
           /\ ConnectingIn(linked \cup w, call, tport)
  BY Zenon, <1>6
<1>8. /\ t \in linked \cup w /\ t \notin linked' /\ linked' \subseteq linked \cup w
      /\ \A u \in Threads \ {t} : u \in linked' <=> u \in linked \cup w
      /\ linked' \in SUBSET Threads
  BY Zenon, <1>1, <1>7 DEF LpcInv, TypeOK
<1>9. /\ call' \in [Threads -> CallState] /\ call'[t] = r
      /\ \A u \in Threads \ {t} : call'[u] = call[u]
  BY ZenonT(40), <1>2, <1>4, CallSet DEF LpcInv, TypeOK
<1>10. ListenersIn(listeners', linked', call')
  BY SMTT(20), <1>6, <1>7, <1>8, <1>9, ListenersStay
<1>11. /\ tport' \in [Threads -> Ports \cup {NONE}] /\ tport'[t] = p
       /\ \A u \in Threads \ {t} : tport'[u] = tport[u]
  BY Zenon, <1>2 DEF LpcInv, TypeOK
<1>12. ConnectingIn(linked', call', tport')
  <2>1. /\ t \in linked \cup w /\ t \notin linked' /\ p # NONE
        /\ call'[t].op = "connect" /\ call'[t].port = p /\ tport'[t] = p
    BY Zenon, <1>3, <1>4, <1>8, <1>9, <1>11
  <2>2. SUFFICES ASSUME NEW v \in Threads
                 PROVE  /\ tport'[v] # NONE =>
                             v \notin linked' /\ call'[v].op = "connect" /\ tport'[v] = call'[v].port
                        /\ v \notin linked' /\ call'[v].op = "connect" => tport'[v] # NONE
    BY Zenon DEF ConnectingIn
  <2>3. CASE v = t
    BY Zenon, <2>1, <2>3
  <2>4. CASE v # t
    <3>1. call'[v] = call[v] /\ tport'[v] = tport[v] /\ (v \in linked' <=> v \in linked \cup w)
      BY Zenon, <1>8, <1>9, <1>11, <2>4
    <3> QED BY Zenon, <1>7, <3>1 DEF ConnectingIn
  <2> QED BY Zenon, <2>3, <2>4
<1>13. /\ port' \in [Ports -> {NONE} \cup PortObject] /\ port'[p] = o
       /\ \A q \in Ports \ {p} : port'[q] = port[q]
  BY Zenon, <1>2, <1>3 DEF LpcInv, TypeOK
<1>14. PairedIn(port')
  BY Zenon, <1>1, <1>3, <1>13, PairsAlone DEF LpcInv, TypeOK
<1>15. UsersIn(port', call, diedPort)
  BY Zenon, <1>1, <1>13, UsersPorts DEF LpcInv, TypeOK
<1>16. \A u \in Threads : diedPort[u] # p /\ call[u].port # p
  BY Zenon, <1>1, <1>3 DEF LpcInv, UsersIn
<1>17. UsersIn(port', call', diedPort)
  <2>1. port'[p] # NONE /\ "connect" \in {"connect", "request"} /\ NONE \notin Ports
    BY Zenon, <1>3, <1>13, LpcAssumption
  <2> QED BY <1>4, <1>9, <1>15, <1>16, <2>1, UsersBegin
<1>18. nextId' \in 1 .. MaxId + 1 /\ messageId' \in [Threads -> 0 .. MaxId]
  BY Zenon, <1>1, <1>2, NewId DEF LpcInv, TypeOK
<1> QED BY Zenon, <1>2, <1>6, <1>8, <1>9, <1>10, <1>11, <1>12, <1>13, <1>14, <1>17, <1>18 DEF LpcInv, TypeOK

(* ~port_t of a port that nobody uses any more, when the calls are cl.     *)
LEMMA DestroyKeeps ==
  ASSUME LpcInv, NEW t \in Threads, NEW p \in Ports, port[p] # NONE, NEW lk, Destroy(t, p, lk),
         NEW cl \in [Threads -> CallState], UsersIn(port, cl, diedPort),
         \A u \in Threads : cl[u].port # p /\ diedPort[u] # p
  PROVE  /\ port' \in [Ports -> {NONE} \cup PortObject]
         /\ PairedIn(port') /\ UsersIn(port', cl, diedPort)
         /\ messages' \in Seq(Message) /\ listeners' \in Seq(Listener) /\ nextId' \in 1 .. MaxId + 1
         /\ \E w \in SUBSET (Threads \ linked) :
              /\ linked' = lk \cup w
              /\ ListenersIn(listeners', linked \cup w, call)
              /\ ConnectingIn(linked \cup w, call, tport)
<1> DEFINE o == port[p].other
<1>2. port \in [Ports -> {NONE} \cup PortObject] /\ PairedIn(port)
  BY Zenon DEF LpcInv, TypeOK
<1>3. port[p] \in PortObject /\ o \in Ports \cup {NONE} /\ port[p].ident \in Ports \cup {NONE}
  BY Zenon, <1>2 DEF PortObject
<1>4. diedPort \in [Threads -> Ports \cup {NONE}]
  BY Zenon DEF LpcInv, TypeOK
<1>5. CASE o = NONE
  <2>1. /\ port' = [port EXCEPT ![p] = NONE] /\ linked' = lk \cup {}
        /\ UNCHANGED <<messages, listeners, nextId>>
    BY Zenon, <1>5 DEF Destroy
  <2>2. /\ port' \in [Ports -> {NONE} \cup PortObject] /\ port'[p] = NONE
        /\ \A q \in Ports \ {p} : port'[q] = port[q]
    BY Zenon, <1>2, <2>1
  <2>3. PairedIn(port')
    BY Zenon, <1>2, <1>5, <2>2, PairsAlone
  <2>4. UsersIn(port', cl, diedPort)
    <3>1. \A q \in Ports \ {p} : port[q] # NONE => port'[q] # NONE
      BY Zenon, <2>2
    <3> QED BY Zenon, <1>4, <3>1, UsersRelease
  <2>5. /\ messages' \in Seq(Message) /\ listeners' \in Seq(Listener) /\ nextId' \in 1 .. MaxId + 1
        /\ ListenersIn(listeners', linked \cup {}, call) /\ ConnectingIn(linked \cup {}, call, tport)
        /\ {} \in SUBSET (Threads \ linked)
    <3>1. linked \cup {} = linked
      BY Zenon
    <3> QED BY Zenon, <2>1, <3>1 DEF LpcInv, TypeOK
  <2> QED BY Zenon, <2>1, <2>2, <2>3, <2>4, <2>5
<1>6. CASE o # NONE
  <2> DEFINE b == [port[o] EXCEPT !.other = NONE]
  <2>1. /\ nextId <= MaxId /\ nextId' = nextId + 1
        /\ port' = [x \in Ports |-> CASE x = p -> NONE [] x = o -> b [] OTHER -> port[x]]
        /\ send_message(NewMessage("closed", t, port[p].ident), lk, <<>>)
    BY Zenon, <1>6 DEF Destroy
  <2>2. o \in Ports /\ o # p /\ port[o] \in PortObject
    BY Zenon, <1>2, <1>3, <1>6 DEF PairedIn
  <2>3. b \in PortObject /\ b.other = NONE /\ b # NONE
    <3>1. b \in PortObject /\ b.other = NONE
      BY Zenon, <2>2 DEF PortObject
    <3> QED BY Zenon, <3>1, LpcAssumption
  <2> HIDE DEF b
  <2>4. /\ port' \in [Ports -> {NONE} \cup PortObject] /\ port'[p] = NONE /\ port'[o] = b
        /\ \A q \in Ports \ {p, o} : port'[q] = port[q]
    BY Zenon, <1>2, <2>1, <2>2, <2>3
  <2>5. PairedIn(port')
    BY Zenon, <1>2, <2>2, <2>3, <2>4, PairsPart
  <2>6. UsersIn(port', cl, diedPort)
    <3>1. \A q \in Ports \ {p} : port[q] # NONE => port'[q] # NONE
      BY Zenon, <2>3, <2>4
    <3> QED BY Zenon, <1>4, <3>1, UsersRelease
  <2>7. NewMessage("closed", t, port[p].ident) \in Message
    BY Zenon, <1>3, <2>1, MessageMade DEF Types
  <2>8. /\ messages' \in Seq(Message) /\ listeners' \in Seq(Listener)
        /\ \E w \in SUBSET (Threads \ linked) :
             /\ linked' = lk \cup w
             /\ ListenersIn(listeners', linked \cup w, call)
             /\ ConnectingIn(linked \cup w, call, tport)
    BY Zenon, <2>1, <2>7, SendOnly
  <2>9. nextId' \in 1 .. MaxId + 1
    BY Zenon, <2>1, NewId
  <2> QED BY Zenon, <2>4, <2>5, <2>6, <2>8, <2>9
<1> QED BY Zenon, <1>5, <1>6

(* The same of the calls there are, after some threads were started.       *)
LEMMA CallEndsHere ==
  ASSUME NEW ls \in Seq(Listener), NEW lk, call \in [Threads -> CallState],
         ListenersIn(ls, lk, call), ConnectingIn(lk, call, tport), UsersIn(port, call, diedPort),
         NEW t \in Threads, t \in lk, NEW lk2, lk2 = lk \/ lk2 = lk \ {t}
  PROVE  /\ ListenersIn(ls, lk2, [call EXCEPT ![t] = Idle])
         /\ ConnectingIn(lk2, [call EXCEPT ![t] = Idle], tport)
<1>1. CASE lk2 = lk
  BY Zenon, <1>1, CallEnds
<1>2. CASE lk2 = lk \ {t}
  BY Zenon, <1>2, CallEnds
<1> QED BY Zenon, <1>1, <1>2

(* connect_port after the wait: a port that is released has no other user. *)
LEMMA ConnectEnds ==
  ASSUME LpcInv, NEW t \in Threads, t \in linked, call[t].op = "connect",
         NEW lk \in {linked, linked \ {t}}, NEW handle, EndConnect(t, call[t].port, lk, handle), Returns(t)
  PROVE  /\ failed' = "none" /\ call' \in [Threads -> CallState]
         /\ port' \in [Ports -> {NONE} \cup PortObject]
         /\ PairedIn(port') /\ UsersIn(port', call', diedPort)
         /\ messages' \in Seq(Message) /\ listeners' \in Seq(Listener) /\ nextId' \in 1 .. MaxId + 1
         /\ linked' \in SUBSET Threads
         /\ ListenersIn(listeners', linked', call') /\ ConnectingIn(linked', call', tport)
<1> DEFINE p == call[t].port
           New == /\ port' \in [Ports -> {NONE} \cup PortObject]
                  /\ PairedIn(port') /\ UsersIn(port', call', diedPort)
                  /\ messages' \in Seq(Message) /\ listeners' \in Seq(Listener)
                  /\ nextId' \in 1 .. MaxId + 1
           Run(w) == /\ linked' = lk \cup w
                     /\ ListenersIn(listeners', linked \cup w, call)
                     /\ ConnectingIn(linked \cup w, call, tport)
<1>1. p \in Ports /\ port[p] # NONE /\ port[p] \in PortObject
  BY Zenon DEF LpcInv, TypeOK, UsersIn, CallState
<1>2. failed' = "none"
  BY Zenon DEF EndConnect, LpcInv, ConnectingIn
<1>3. port \in [Ports -> {NONE} \cup PortObject] /\ PairedIn(port) /\ UsersIn(port, call, diedPort)
  BY Zenon DEF LpcInv, TypeOK
<1>4. call' \in [Threads -> CallState] /\ UsersIn(port, call', diedPort)
  BY Zenon, CallEnds DEF LpcInv, TypeOK, Returns
<1>5. \A u \in Threads : call'[u].port # p /\ diedPort[u] # p
  <2>1. call'[t].port = NONE /\ \A u \in Threads \ {t} : call'[u] = call[u]
    BY Zenon DEF LpcInv, TypeOK, Returns, Idle
  <2>2. p # NONE
    BY Zenon, <1>1, LpcAssumption
  <2> QED BY <1>3, <2>1, <2>2 DEF UsersIn
<1>7. diedPort \in [Threads -> Ports \cup {NONE}]
  BY Zenon DEF LpcInv, TypeOK
<1>8. New /\ \E w \in SUBSET (Threads \ linked) : Run(w)
  <2>1. CASE handle /\ port[p].other # NONE
    <3>1. /\ port' = [port EXCEPT ![p] = Holds(@, 0)] /\ linked' = lk \cup {}
          /\ UNCHANGED <<messages, listeners, nextId>>
      BY Zenon, <2>1 DEF EndConnect
    <3> HIDE DEF p
    <3>2. /\ port' \in [Ports -> {NONE} \cup PortObject] /\ PairedIn(port')
          /\ \A q \in Ports : port[q] # NONE => port'[q] # NONE
      BY ZenonT(40), <1>1, <1>3, <3>1, PortHolds
    <3>3. UsersIn(port', call', diedPort)
      BY Zenon, <1>4, <1>7, <3>2, UsersPorts
    <3>4. linked \cup {} = linked /\ {} \in SUBSET (Threads \ linked)
      BY Zenon
    <3>5. Run({})
      BY Zenon, <3>1, <3>4 DEF LpcInv
    <3> QED BY Zenon, <3>1, <3>2, <3>3, <3>4, <3>5 DEF LpcInv, TypeOK
  <2>2. CASE ~(handle /\ port[p].other # NONE)
    <3>1. Destroy(t, p, lk)
      BY Zenon, <2>2 DEF EndConnect
    <3> HIDE DEF p
    <3>2. /\ port' \in [Ports -> {NONE} \cup PortObject]
          /\ PairedIn(port') /\ UsersIn(port', call', diedPort)
          /\ messages' \in Seq(Message) /\ listeners' \in Seq(Listener) /\ nextId' \in 1 .. MaxId + 1
          /\ \E w \in SUBSET (Threads \ linked) :
               /\ linked' = lk \cup w
               /\ ListenersIn(listeners', linked \cup w, call)
               /\ ConnectingIn(linked \cup w, call, tport)
      BY ZenonT(60), <1>1, <1>4, <1>5, <3>1, DestroyKeeps
    <3> QED BY Zenon, <3>2
  <2> QED BY Zenon, <2>1, <2>2
<1>9. PICK w \in SUBSET (Threads \ linked) : Run(w)
  BY Zenon, <1>8
<1>10. /\ linked' \in {linked \cup w, (linked \cup w) \ {t}} /\ t \in linked \cup w
       /\ linked' \in SUBSET Threads
  <2>1. linked \in SUBSET Threads /\ linked' = lk \cup w
    BY Zenon, <1>9 DEF LpcInv, TypeOK
  <2> QED BY <2>1
<1>11. ListenersIn(listeners', linked', call') /\ ConnectingIn(linked', call', tport)
  <2>1. call \in [Threads -> CallState] /\ call' = [call EXCEPT ![t] = Idle]
    BY Zenon DEF LpcInv, TypeOK, Returns
  <2>2. listeners' \in Seq(Listener)
    BY Zenon, <1>8
  <2>3. /\ ListenersIn(listeners', linked \cup w, call) /\ ConnectingIn(linked \cup w, call, tport)
        /\ UsersIn(port, call, diedPort)
    BY Zenon, <1>3, <1>9
  <2> HIDE DEF Run
  <2>4. /\ ListenersIn(listeners', linked', [call EXCEPT ![t] = Idle])
        /\ ConnectingIn(linked', [call EXCEPT ![t] = Idle], tport)
    BY Zenon, <1>10, <2>1, <2>2, <2>3, CallEndsHere
  <2> QED BY Zenon, <2>1, <2>4
<1> QED BY Zenon, <1>2, <1>4, <1>8, <1>10, <1>11

LEMMA ConnectedInv ==
  ASSUME LpcInv, NEW t \in Threads, Connected(t)
  PROVE  LpcInv'
<1>1. PICK handle : EndConnect(t, call[t].port, linked, handle)
  BY Zenon DEF Connected
<1>2. t \in linked /\ call[t].op = "connect" /\ Returns(t) /\ UNCHANGED <<dead, messageId, tport, diedPort>>
  BY Zenon DEF Connected, Resumes
<1> QED BY Zenon, <1>1, <1>2, ConnectEnds DEF LpcInv, TypeOK

LEMMA RequestedInv ==
  ASSUME LpcInv, NEW t \in Threads, Requested(t)
  PROVE  LpcInv'
<1>1. t \in linked /\ linked' = linked /\ call' = [call EXCEPT ![t] = Idle] /\ call[t].op = "request"
  BY Zenon DEF Requested, Resumes, Returns
<1>2. /\ failed' \in {"none", "noReply"} /\ port' \in [Ports -> {NONE} \cup PortObject]
      /\ PairedIn(port') /\ UsersIn(port', call', diedPort)
  BY Zenon, <1>1, RequestEnds DEF Requested
<1>3. /\ call' \in [Threads -> CallState] /\ ListenersIn(listeners, linked', call')
      /\ ConnectingIn(linked', call', tport)
  BY Zenon, <1>1, CallEnds DEF LpcInv, TypeOK
<1> QED BY Zenon, <1>1, <1>2, <1>3 DEF LpcInv, TypeOK, Requested

(* A message of a sender that does not block.                              *)
LEMMA SendRuns ==
  ASSUME LpcInv, NEW m \in Message, send_message(m, linked, <<>>)
  PROVE  /\ messages' \in Seq(Message) /\ listeners' \in Seq(Listener) /\ linked' \in SUBSET Threads
         /\ ListenersIn(listeners', linked', call) /\ ConnectingIn(linked', call, tport)
<1>1. /\ messages' \in Seq(Message) /\ listeners' \in Seq(Listener)
      /\ \E w \in SUBSET (Threads \ linked) :
           /\ linked' = linked \cup w
           /\ ListenersIn(listeners', linked \cup w, call)
           /\ ConnectingIn(linked \cup w, call, tport)
  BY Zenon, SendOnly
<1> QED BY Zenon, <1>1 DEF LpcInv, TypeOK

LEMMA RefuseInv ==
  ASSUME LpcInv, NEW t \in Threads, NEW c \in Threads, NEW id, Refuse(t, c, id)
  PROVE  LpcInv'
<1>1. call[c].op = "connect"
  BY Zenon, PendingThread DEF Refuse
<1>2. /\ tport' \in [Threads -> Ports \cup {NONE}] /\ tport'[c] = NONE
      /\ \A u \in Threads \ {c} : tport'[u] = tport[u]
      /\ linked' = linked \cup {c} /\ linked' \in SUBSET Threads
  BY Zenon DEF LpcInv, TypeOK, Refuse, Started
<1>3. ConnectingIn(linked', call, tport')
  BY Zenon, <1>2, ConnectingEnds DEF LpcInv
<1>4. ListenersIn(listeners, linked', call)
  <2>1. ListenersIn(listeners, linked \cup {c}, call)
    BY Zenon, <1>1, ListenersElsewhere DEF LpcInv, TypeOK
  <2> QED BY <1>2, <2>1, ListenersFewer
<1> QED BY Zenon, <1>2, <1>3, <1>4 DEF LpcInv, TypeOK, Refuse

LEMMA AcceptInv ==
  ASSUME LpcInv, NEW t \in Threads, NEW c \in Threads, NEW id \in 1 .. MaxId, NEW q \in Ports,
         Accept(t, c, id, q)
  PROVE  LpcInv'
<1> DEFINE p == tport[c]
           a == [thread |-> t, other |-> p, received |-> 0, ident |-> NONE]
           b == [thread |-> port[p].thread, other |-> q, received |-> id, ident |-> q]
<1>1. p \in Ports /\ port[p] \in PortObject /\ port[p] # NONE /\ port[p].other = NONE
  BY Zenon, PendingThread DEF Accept
<1>2. port[q] = NONE /\ p # q /\ id \in Nat
  BY <1>1, LpcAssumption DEF Accept
<1>3. a \in PortObject /\ b \in PortObject /\ a.other = p /\ b.other = q
  BY Zenon, <1>1, <1>2 DEF PortObject
<1>4. port' = [x \in Ports |-> CASE x = q -> a [] x = p -> b [] OTHER -> port[x]]
  BY DEF Accept
<1>5. a # NONE /\ b # NONE
  BY Zenon, <1>3, LpcAssumption
<1>6. port \in [Ports -> {NONE} \cup PortObject] /\ PairedIn(port)
  BY Zenon DEF LpcInv, TypeOK
<1> HIDE DEF p, a, b
<1>7. port'[q] = a /\ port'[p] = b /\ \A x \in Ports \ {p, q} : port'[x] = port[x]
  BY Zenon, <1>1, <1>2, <1>4
<1>8. port' \in [Ports -> {NONE} \cup PortObject]
  BY Zenon, <1>3, <1>4, <1>6
<1>9. PairedIn(port')
  BY <1>1, <1>2, <1>3, <1>5, <1>6, <1>7, PairsJoin
<1>10. \A x \in Ports : port[x] # NONE => port'[x] # NONE
  BY Zenon, <1>5, <1>7
<1>11. UsersIn(port', call, diedPort)
  BY Zenon, <1>10, UsersPorts DEF LpcInv, TypeOK
<1> QED BY Zenon, <1>8, <1>9, <1>11 DEF LpcInv, TypeOK, Accept

LEMMA AcceptFailsInv ==
  ASSUME LpcInv, NEW t \in Threads, NEW c \in Threads, NEW id \in 1 .. MaxId, AcceptFails(t, c, id)
  PROVE  LpcInv'
<1>1. tport[c] \in Ports /\ port[tport[c]] # NONE /\ id \in Nat /\ nextId <= MaxId
  BY PendingThread, LpcAssumption DEF AcceptFails
<1>2. /\ port' \in [Ports -> {NONE} \cup PortObject] /\ PairedIn(port')
      /\ \A x \in Ports : port[x] # NONE => port'[x] # NONE
  <2>1. port \in [Ports -> {NONE} \cup PortObject] /\ PairedIn(port)
    BY Zenon DEF LpcInv, TypeOK
  <2>2. port' = [port EXCEPT ![tport[c]] = Holds(@, id)]
    BY Zenon DEF AcceptFails
  <2> QED BY Zenon, <1>1, <2>1, <2>2, PortHolds
<1>3. UsersIn(port', call, diedPort)
  BY Zenon, <1>2, UsersPorts DEF LpcInv, TypeOK
<1>4. NewMessage("closed", t, NONE) \in Message
  BY Zenon, <1>1, MessageMade DEF Types
<1>5. /\ messages' \in Seq(Message) /\ listeners' \in Seq(Listener) /\ linked' \in SUBSET Threads
      /\ ListenersIn(listeners', linked', call) /\ ConnectingIn(linked', call, tport)
  BY Zenon, <1>4, SendRuns DEF AcceptFails
<1>6. nextId' \in 1 .. MaxId + 1
  BY Zenon, <1>1, NewId DEF AcceptFails
<1> QED BY Zenon, <1>2, <1>3, <1>5, <1>6 DEF LpcInv, TypeOK, AcceptFails

LEMMA CompleteInv ==
  ASSUME LpcInv, NEW t \in Threads, NEW q \in Ports, NtCompleteConnectPort(t, q)
  PROVE  LpcInv'
<1> DEFINE c == Peer(q)
<1>1. port[q] \in PortObject /\ port[q].other \in Ports
  BY Zenon DEF LpcInv, TypeOK, NtCompleteConnectPort, Completable, PortObject
<1>2. port[port[q].other] \in PortObject
  BY Zenon, <1>1, LpcAssumption DEF LpcInv, TypeOK, PairedIn, NtCompleteConnectPort, Completable
<1>3. c \in Threads
  BY Zenon, <1>2 DEF Peer, PortObject
<1>4. tport[c] # NONE /\ tport' = [tport EXCEPT ![c] = NONE] /\ linked' = Started(c)
  BY Zenon DEF NtCompleteConnectPort, Completable
<1> HIDE DEF c
<1>5. call[c].op = "connect"
  BY Zenon, <1>3, <1>4 DEF LpcInv, ConnectingIn
<1>6. /\ tport' \in [Threads -> Ports \cup {NONE}] /\ tport'[c] = NONE
      /\ \A u \in Threads \ {c} : tport'[u] = tport[u]
      /\ linked' = linked \cup {c} /\ linked' \in SUBSET Threads
  BY Zenon, <1>3, <1>4 DEF LpcInv, TypeOK, Started
<1>7. ConnectingIn(linked', call, tport')
  BY Zenon, <1>3, <1>6, ConnectingEnds DEF LpcInv
<1>8. ListenersIn(listeners, linked', call)
  <2>1. ListenersIn(listeners, linked \cup {c}, call)
    BY Zenon, <1>5, ListenersElsewhere DEF LpcInv, TypeOK
  <2> QED BY <1>6, <2>1, ListenersFewer
<1> QED BY Zenon, <1>6, <1>7, <1>8 DEF LpcInv, TypeOK, NtCompleteConnectPort

LEMMA RequestPortInv ==
  ASSUME LpcInv, NEW t \in Threads, NEW p \in Ports, NtRequestPort(t, p)
  PROVE  LpcInv'
<1>1. nextId <= MaxId /\ port[p].ident \in Ports \cup {NONE}
  BY Zenon DEF LpcInv, TypeOK, NtRequestPort, Usable, PortObject
<1>2. NewMessage("datagram", t, port[p].ident) \in Message
  BY Zenon, <1>1, MessageMade DEF Types
<1>3. /\ messages' \in Seq(Message) /\ listeners' \in Seq(Listener) /\ linked' \in SUBSET Threads
      /\ ListenersIn(listeners', linked', call) /\ ConnectingIn(linked', call, tport)
  BY Zenon, <1>2, SendRuns DEF NtRequestPort
<1>4. nextId' \in 1 .. MaxId + 1 /\ messageId' \in [Threads -> 0 .. MaxId]
  BY Zenon, <1>1, NewId DEF LpcInv, TypeOK, NtRequestPort
<1> QED BY Zenon, <1>3, <1>4 DEF LpcInv, TypeOK, NtRequestPort

LEMMA RegisterInv ==
  ASSUME LpcInv, NEW t \in Threads, NEW p \in Ports, NtRegisterThreadTerminatePort(t, p)
  PROVE  LpcInv'
<1>1. /\ diedPort' \in [Threads -> Ports \cup {NONE}] /\ diedPort'[t] = p
      /\ \A u \in Threads \ {t} : diedPort'[u] = diedPort[u]
  BY Zenon DEF LpcInv, TypeOK, NtRegisterThreadTerminatePort
<1>2. port[p] # NONE /\ \A u \in Threads : call[u].op = "connect" => call[u].port # p
  BY Zenon DEF NtRegisterThreadTerminatePort, Usable
<1>3. UsersIn(port, call, diedPort')
  BY Zenon, <1>1, <1>2, UsersDied DEF LpcInv
<1> QED BY Zenon, <1>1, <1>3 DEF LpcInv, TypeOK, NtRegisterThreadTerminatePort

LEMMA RequestInv ==
  ASSUME LpcInv, NEW t \in Threads, NEW p \in Ports, NtRequestWaitReplyPort(t, p)
  PROVE  LpcInv'
<1> DEFINE l == [port |-> p, thread |-> t, connect |-> FALSE, id |-> nextId]
           r == [op |-> "request", port |-> p, id |-> nextId]
           m == NewMessage("request", t, port[p].ident)
<1>1. t \in linked /\ nextId <= MaxId /\ Usable(p)
  BY Zenon, RunningThread DEF NtRequestWaitReplyPort
<1>2. /\ failed' \in {"none", "received"} /\ nextId' = nextId + 1
      /\ messageId' = [messageId EXCEPT ![t] = nextId] /\ call' = [call EXCEPT ![t] = r]
      /\ send_message(m, linked \ {t}, <<l>>)
      /\ port' = port /\ dead' = dead /\ tport' = tport /\ diedPort' = diedPort
  BY Zenon DEF NtRequestWaitReplyPort, Blocks
<1>3. m \in Message
  <2>1. port[p].ident \in Ports \cup {NONE}
    BY Zenon, <1>1 DEF LpcInv, TypeOK, Usable, PortObject
  <2> QED BY Zenon, <1>1, <2>1, MessageMade DEF Types
<1>4. l \in Listener /\ l.thread = t /\ l.id = nextId /\ l.port = p /\ Kind(l) = "request"
  BY Zenon, <1>1, NewId DEF Listener, Kind
<1>5. r \in CallState /\ r.op = "request" /\ r.port = p /\ r.id = nextId
  BY Zenon, <1>1, NewId DEF CallState
<1> HIDE DEF l, r, m
<1>6. messages' \in Seq(Message) /\ Sent(linked \ {t}, <<l>>)
  BY Zenon, <1>2, <1>3, SendKeeps
<1>7. PICK ls \in Seq(Listener), w \in SUBSET (Threads \ linked) :
             /\ listeners' = ls \o <<l>> /\ linked' = (linked \ {t}) \cup w
             /\ ListenersIn(ls, linked \cup w, call)
             /\ ConnectingIn(linked \cup w, call, tport)
  BY Zenon, <1>6 DEF Sent
<1>8. listeners' = Append(ls, l)
  <2>1. ls \o <<l>> = Append(ls, l)
    BY Zenon, <1>4, ConcatElems
  <2> QED BY Zenon, <1>7, <2>1
<1>9. /\ t \in linked \cup w /\ linked' = (linked \cup w) \ {t} /\ linked' \in SUBSET Threads
      /\ \A u \in Threads \ {t} : u \in linked' <=> u \in linked \cup w
  BY Zenon, <1>1, <1>7 DEF LpcInv, TypeOK
<1>10. /\ call' \in [Threads -> CallState] /\ call'[t] = r
       /\ \A u \in Threads \ {t} : call'[u] = call[u]
  BY ZenonT(40), <1>2, <1>5, CallSet DEF LpcInv, TypeOK
<1>11. IsOf(l, call')
  BY Zenon, <1>4, <1>5, <1>10 DEF IsOf
<1>12. listeners' \in Seq(Listener) /\ ListenersIn(listeners', linked', call')
  <2>1. /\ Append(ls, l) \in Seq(Listener)
        /\ ListenersIn(Append(ls, l), (linked \cup w) \ {t}, call')
    BY Zenon, <1>4, <1>7, <1>9, <1>10, <1>11, ListenerBlocks
  <2> QED BY Zenon, <1>8, <1>9, <2>1
<1>13. ConnectingIn(linked', call', tport)
  <2>1. call'[t].op # "connect"
    BY Zenon, <1>5, <1>10
  <2> DEFINE k == linked \cup w
  <2>2. /\ ConnectingIn(k, call, tport) /\ t \in k
        /\ \A u \in Threads \ {t} : u \in linked' <=> u \in k
    BY Zenon, <1>7, <1>9
  <2> HIDE DEF k
  <2> QED BY <1>10, <2>1, <2>2, ConnectingCall
<1>14. UsersIn(port, call', diedPort)
  <2>1. /\ UsersIn(port, call, diedPort) /\ port[p] # NONE
        /\ \A u \in Threads : call[u].port = p => call[u].op # "connect"
    BY Zenon, <1>1 DEF LpcInv, Usable
  <2>2. /\ call'[t].port = p /\ call'[t].op = "request" /\ "request" \in {"connect", "request"}
        /\ ~("request" = "connect") /\ NONE \notin Ports
    BY Zenon, <1>5, <1>10, LpcAssumption
  <2> QED BY <1>10, <2>1, <2>2, UsersBegin
<1>15. nextId' \in 1 .. MaxId + 1 /\ messageId' \in [Threads -> 0 .. MaxId]
  BY Zenon, <1>1, <1>2, NewId DEF LpcInv, TypeOK
<1> QED BY Zenon, <1>2, <1>6, <1>9, <1>10, <1>12, <1>13, <1>14, <1>15 DEF LpcInv, TypeOK

LEMMA CloseInv ==
  ASSUME LpcInv, NEW t \in Threads, NEW p \in Ports, Close(t, p)
  PROVE  LpcInv'
<1>1. /\ port[p] # NONE /\ \A u \in Threads : call[u].port # p /\ diedPort[u] # p
      /\ Destroy(t, p, linked) /\ UNCHANGED <<dead, call, messageId, tport, diedPort, failed>>
  BY Zenon DEF Close
<1>2. call \in [Threads -> CallState] /\ UsersIn(port, call, diedPort)
  BY Zenon DEF LpcInv, TypeOK
<1>3. /\ port' \in [Ports -> {NONE} \cup PortObject]
      /\ PairedIn(port') /\ UsersIn(port', call, diedPort)
      /\ messages' \in Seq(Message) /\ listeners' \in Seq(Listener) /\ nextId' \in 1 .. MaxId + 1
      /\ \E w \in SUBSET (Threads \ linked) :
           /\ linked' = linked \cup w
           /\ ListenersIn(listeners', linked \cup w, call)
           /\ ConnectingIn(linked \cup w, call, tport)
  BY Zenon, <1>1, <1>2, DestroyKeeps
<1> QED BY Zenon, <1>1, <1>3 DEF LpcInv, TypeOK

LEMMA TerminateInv ==
  ASSUME LpcInv, NEW t \in Threads, NEW u \in Threads, Terminate(t, u)
  PROVE  LpcInv'
<1> DEFINE lk == IF t = u THEN linked \ {t} ELSE linked
<1>1. /\ diedPort' \in [Threads -> Ports \cup {NONE}] /\ diedPort'[u] = NONE
      /\ \A v \in Threads \ {u} : diedPort'[v] = diedPort[v]
      /\ dead' = dead \cup {u} /\ dead' \in SUBSET Threads
  BY Zenon DEF LpcInv, TypeOK, Terminate
<1>2. UsersIn(port, call, diedPort')
  <2>1. UsersIn(port, call, diedPort) /\ \A v \in Threads : call[v].op = "connect" => call[v].port # NONE
    BY Zenon DEF LpcInv, UsersIn
  <2> QED BY Zenon, <1>1, <2>1, UsersDied
<1>3. lk \subseteq linked /\ (lk = linked \/ (lk = linked \ {u} /\ u \in linked /\ call[u] = Idle))
  BY Zenon, RunningThread DEF Terminate
<1>4. CASE diedPort[u] = NONE
  <2>1. linked' = lk /\ UNCHANGED <<messages, listeners, nextId>>
    BY Zenon, <1>4 DEF Terminate
  <2> HIDE DEF lk
  <2>2. ConnectingIn(linked', call, tport)
    <3>1. ConnectingIn(linked, call, tport) /\ (call[u] = Idle => ConnectingIn(linked \ {u}, call, tport))
      BY Zenon, ConnectingDies DEF LpcInv
    <3> QED BY Zenon, <1>1, <1>3, <2>1, <3>1
  <2>3. ListenersIn(listeners, linked', call)
    BY Zenon, <1>3, <2>1, ListenersFewer DEF LpcInv
  <2>4. linked' \in SUBSET Threads
    BY Zenon, <1>3, <2>1 DEF LpcInv, TypeOK
  <2> QED BY Zenon, <1>1, <1>2, <2>1, <2>2, <2>3, <2>4 DEF LpcInv, TypeOK, Terminate
<1>5. CASE diedPort[u] # NONE
  <2> DEFINE m == NewMessage("died", u, port[diedPort[u]].ident)
  <2>1. nextId <= MaxId /\ nextId' = nextId + 1 /\ send_message(m, lk, <<>>)
    BY Zenon, <1>5 DEF Terminate
  <2>2. m \in Message
    <3>1. port[diedPort[u]] \in PortObject
      BY Zenon, <1>5 DEF LpcInv, TypeOK, UsersIn
    <3>2. port[diedPort[u]].ident \in Ports \cup {NONE}
      BY Zenon, <3>1 DEF PortObject
    <3> QED BY Zenon, <2>1, <3>2, MessageMade DEF Types
  <2> HIDE DEF lk, m
  <2>3. /\ messages' \in Seq(Message) /\ listeners' \in Seq(Listener)
        /\ \E w \in SUBSET (Threads \ linked) :
             /\ linked' = lk \cup w
             /\ ListenersIn(listeners', linked \cup w, call)
             /\ ConnectingIn(linked \cup w, call, tport)
    BY Zenon, <2>1, <2>2, SendOnly
  <2>4. PICK w \in SUBSET (Threads \ linked) :
             /\ linked' = lk \cup w
             /\ ListenersIn(listeners', linked \cup w, call)
             /\ ConnectingIn(linked \cup w, call, tport)
    BY Zenon, <2>3
  <2>5. linked' = linked \cup w \/ (linked' = (linked \cup w) \ {u} /\ call[u] = Idle)
    BY Zenon, <1>3, <2>4
  <2>6. ConnectingIn(linked', call, tport)
    <3>1. /\ ConnectingIn(linked \cup w, call, tport)
          /\ call[u] = Idle => ConnectingIn((linked \cup w) \ {u}, call, tport)
      BY Zenon, <2>4, ConnectingDies
    <3> QED BY Zenon, <1>1, <2>5, <3>1
  <2>7. ListenersIn(listeners', linked', call)
    BY <1>3, <2>4, ListenersFewer
  <2>8. linked' \in SUBSET Threads /\ nextId' \in 1 .. MaxId + 1
    BY Zenon, <1>3, <2>1, <2>4, NewId DEF LpcInv, TypeOK
  <2> QED BY Zenon, <1>1, <1>2, <2>3, <2>6, <2>7, <2>8 DEF LpcInv, TypeOK, Terminate
<1> QED BY Zenon, <1>4, <1>5

LEMMA DeadReturnsInv ==
  ASSUME LpcInv, NEW t \in Threads, DeadReturns(t)
  PROVE  LpcInv'
<1>1. /\ t \in linked /\ call' = [call EXCEPT ![t] = Idle] /\ failed = "none" /\ Returns(t)
      /\ UNCHANGED <<dead, messageId, tport, diedPort>>
  BY Zenon DEF DeadReturns, Returns
<1>2. CASE call[t].op = "connect"
  <2>1. EndConnect(t, call[t].port, linked \ {t}, FALSE)
    BY Zenon, <1>2 DEF DeadReturns
  <2> QED BY Zenon, <1>1, <1>2, <2>1, ConnectEnds DEF LpcInv, TypeOK
<1>3. CASE call[t].op # "connect"
  <2>1. linked' = linked \ {t} /\ UNCHANGED <<messages, listeners, nextId>>
    BY Zenon, <1>3 DEF DeadReturns
  <2>2. /\ call' \in [Threads -> CallState] /\ ListenersIn(listeners, linked', call')
        /\ ConnectingIn(linked', call', tport) /\ UsersIn(port, call', diedPort)
        /\ linked' \in SUBSET Threads
    BY Zenon, <1>1, <2>1, CallEnds DEF LpcInv, TypeOK
  <2>3. /\ failed' \in {"none", "noReply"} /\ port' \in [Ports -> {NONE} \cup PortObject]
        /\ PairedIn(port') /\ UsersIn(port', call', diedPort)
    <3>1. CASE call[t].op = "request"
      <4>1. EndRequest(call[t].port)
        BY Zenon, <3>1 DEF DeadReturns
      <4> QED BY Zenon, <1>1, <3>1, <4>1, RequestEnds
    <3>2. CASE call[t].op # "request"
      <4>1. port' = port /\ failed' = failed
        BY Zenon, <1>3, <3>2 DEF DeadReturns
      <4> QED BY Zenon, <1>1, <2>2, <4>1 DEF LpcInv, TypeOK
    <3> QED BY Zenon, <3>1, <3>2
  <2> QED BY Zenon, <1>1, <2>1, <2>2, <2>3 DEF LpcInv, TypeOK
<1> QED BY Zenon, <1>2, <1>3

-----------------------------------------------------------------------------
LEMMA InitInv == Init => LpcInv
<1> SUFFICES ASSUME Init PROVE LpcInv
  BY Zenon
<1>1. TypeOK
  <2>1. Idle \in CallState
    BY Zenon DEF Idle, CallState
  <2>2. 1 \in 1 .. MaxId + 1 /\ 0 \in 0 .. MaxId
    BY LpcAssumption
  <2> QED BY <2>1, <2>2 DEF Init, TypeOK
<1>2. ListenersIn(listeners, linked, call)
  BY DEF Init, ListenersIn
<1>3. ConnectingIn(linked, call, tport)
  BY Zenon DEF Init, ConnectingIn, Idle
<1>4. UsersIn(port, call, diedPort)
  BY Zenon DEF Init, UsersIn, Idle
<1>5. PairedIn(port)
  BY Zenon DEF Init, PairedIn
<1> QED BY Zenon, <1>1, <1>2, <1>3, <1>4, <1>5 DEF LpcInv

LEMMA NextInv ==
  ASSUME LpcInv, [Next]_vars
  PROVE  LpcInv'
<1>1. Servers \subseteq Threads /\ Clients \subseteq Threads
  BY Zenon DEF Threads
<1>2. ASSUME NEW t \in Servers, \/ NtListenPort(t) \/ Listened(t) \/ Received(t)
      PROVE  LpcInv'
  BY Zenon, <1>1, <1>2, ListenInv, ListenedInv, ReceivedInv
<1>3. ASSUME NEW t \in Servers, NEW id \in 1 .. MaxId, NtReplyPort(t, id)
      PROVE  LpcInv'
  BY Zenon, <1>1, <1>3, ReplyInv
<1>4. ASSUME NEW t \in Servers, NEW id \in 0 .. MaxId, NtReplyWaitReceivePort(t, id)
      PROVE  LpcInv'
  BY Zenon, <1>1, <1>4, ReplyWaitReceiveInv
<1>5. ASSUME NEW t \in Servers, NEW c \in Clients, NEW id \in 1 .. MaxId,
             \/ Refuse(t, c, id) \/ AcceptFails(t, c, id) \/ \E q \in Ports : Accept(t, c, id, q)
      PROVE  LpcInv'
  <2>1. t \in Threads /\ c \in Threads
    BY Zenon, <1>1
  <2> QED BY Zenon, <1>5, <2>1, RefuseInv, AcceptFailsInv, AcceptInv
<1>6. ASSUME NEW t \in Servers, NEW q \in Ports, NtCompleteConnectPort(t, q)
      PROVE  LpcInv'
  BY Zenon, <1>1, <1>6, CompleteInv
<1>7. ASSUME NEW t \in Clients, Connected(t) \/ Requested(t)
      PROVE  LpcInv'
  BY Zenon, <1>1, <1>7, ConnectedInv, RequestedInv
<1>8. ASSUME NEW t \in Clients, NEW p \in Ports,
             \/ NtConnectPort(t, p) \/ NtRegisterThreadTerminatePort(t, p)
             \/ NtRequestWaitReplyPort(t, p) \/ NtRequestPort(t, p)
      PROVE  LpcInv'
  BY Zenon, <1>1, <1>8, ConnectInv, RegisterInv, RequestInv, RequestPortInv
<1>9. ASSUME NEW t \in Threads, \/ DeadReturns(t) \/ (\E p \in Ports : Close(t, p))
                               \/ (\E u \in Threads : Terminate(t, u))
      PROVE  LpcInv'
  BY Zenon, <1>9, DeadReturnsInv, CloseInv, TerminateInv
<1>10. CASE UNCHANGED vars
  BY Zenon, <1>10 DEF vars, LpcInv, TypeOK
<1> QED BY Zenon, <1>2, <1>3, <1>4, <1>5, <1>6, <1>7, <1>8, <1>9, <1>10 DEF Next

(* In every state of every behaviour the list of listeners, the connecting *)
(* threads, the ports in use and their pairing fit together.               *)
THEOREM LpcCorrect == Spec => []LpcInv
<1>1. Init => LpcInv
  BY Zenon, InitInv
<1>2. LpcInv /\ [Next]_vars => LpcInv'
  BY Zenon, NextInv
<1> QED BY <1>1, <1>2, PTL DEF Spec

(* port_queue_t::listeners holds a thread at most once, for the call it is *)
(* blocked in, and no thread of the run list: the start() of send_message  *)
(* and of a reply is of a thread that is asleep, whatever other threads    *)
(* are terminated meanwhile.                                               *)
THEOREM ListenersAreBlocked == Spec => []ListenerIsBlocked
<1>1. LpcInv => ListenerIsBlocked
  BY Zenon DEF LpcInv, ListenersIn, IsOf, Kind, ListenerIsBlocked
<1> QED BY <1>1, LpcCorrect, PTL

(* thread_t::port is set exactly while a live thread is asleep in          *)
(* connect_port, and is the port of that call: an answer restarts a call   *)
(* at most once, whichever server gives it.                                *)
THEOREM ConnectingIsExact == Spec => []ConnectingThread
<1>1. LpcInv => ConnectingThread
  BY Zenon DEF LpcInv, ConnectingIn, ConnectingThread
<1> QED BY <1>1, LpcCorrect, PTL

(* The two ports of a connection point to each other until one is closed,  *)
(* and then neither points to a deleted port: ~port_t's other->other = 0.  *)
THEOREM ConnectionsArePaired == Spec => []PortsPaired
<1>1. LpcInv => PortsPaired
  BY Zenon DEF LpcInv, PairedIn, PortsPaired
<1> QED BY <1>1, LpcCorrect, PTL

(* Connections that are being made and connections that have been made are *)
(* sound together, whatever is accepted, completed, closed or terminated   *)
(* in between.                                                             *)
THEOREM ConnectionsAreSound == Spec => []ConnectionsSound
<1>1. ConnectingThread /\ PortsPaired => ConnectionsSound
  BY Zenon DEF ConnectionsSound
<1> QED BY <1>1, ConnectingIsExact, ConnectionsArePaired, PTL

(* The assertions of connect_port on thread_t::port, before and after its  *)
(* wait, never stop the kernel.                                            *)
THEOREM ConnectAsserts == Spec => [](failed # "connecting")
<1>1. LpcInv => failed # "connecting"
  BY Zenon DEF LpcInv, TypeOK
<1> QED BY <1>1, LpcCorrect, PTL
-----------------------------------------------------------------------------
(* The replies *)

(* Call c waits on port p for the answer to message id.                    *)
AwaitsAnswer(c, p, id) == c.op \in {"connect", "request"} /\ c.port = p /\ c.id = id

(* What a port has received is the answer to a call on that port in which  *)
(* some thread still is.                                                   *)
AnswersIn(pt, cl) ==
  \A p \in Ports : pt[p] # NONE /\ pt[p].received # 0 =>
    \E t \in Threads : AwaitsAnswer(cl[t], p, pt[p].received)

(* The MessageId of a connecting thread is the one of its call.            *)
IdsIn(cl, mi) == \A t \in Threads : cl[t].op = "connect" => mi[t] = cl[t].id

RepliesInv == LpcInv /\ AnswersIn(port, call) /\ IdsIn(call, messageId)

(* Port p holds what it held, or nothing.                                  *)
Quiet(p) == port'[p] # NONE /\ port'[p].received # 0 =>
              port[p] # NONE /\ port'[p].received = port[p].received

(* The calls that wait for an answer go on, and no port receives one.      *)
CallsQuiet == \A v \in Threads : call[v].op \in {"connect", "request"} => call'[v] = call[v]

LEMMA AnswersQuiet ==
  ASSUME AnswersIn(port, call), CallsQuiet, \A p \in Ports : Quiet(p)
  PROVE  AnswersIn(port', call')
<1> SUFFICES ASSUME NEW p \in Ports, port'[p] # NONE, port'[p].received # 0
             PROVE  \E t \in Threads : AwaitsAnswer(call'[t], p, port'[p].received)
  BY Zenon DEF AnswersIn
<1>1. port[p] # NONE /\ port'[p].received = port[p].received
  BY Zenon DEF Quiet
<1>2. PICK t \in Threads : AwaitsAnswer(call[t], p, port[p].received)
  BY Zenon, <1>1 DEF AnswersIn
<1> QED BY Zenon, <1>1, <1>2 DEF AwaitsAnswer, CallsQuiet

(* Port p receives the answer to a call on it, and nothing else changes.   *)
LEMMA AnswersGiven ==
  ASSUME AnswersIn(port, call), CallsQuiet, NEW p, \A q \in Ports \ {p} : Quiet(q),
         NEW v \in Threads, AwaitsAnswer(call[v], p, port'[p].received)
  PROVE  AnswersIn(port', call')
<1> SUFFICES ASSUME NEW q \in Ports, port'[q] # NONE, port'[q].received # 0
             PROVE  \E t \in Threads : AwaitsAnswer(call'[t], q, port'[q].received)
  BY Zenon DEF AnswersIn
<1>1. CASE q = p
  BY Zenon, <1>1 DEF AwaitsAnswer, CallsQuiet
<1>2. CASE q # p
  <2>1. port[q] # NONE /\ port'[q].received = port[q].received
    BY Zenon, <1>2 DEF Quiet
  <2>2. PICK t \in Threads : AwaitsAnswer(call[t], q, port[q].received)
    BY Zenon, <2>1 DEF AnswersIn
  <2> QED BY Zenon, <2>1, <2>2 DEF AwaitsAnswer, CallsQuiet
<1> QED BY Zenon, <1>1, <1>2

(* A call ends and takes what its port holds.                              *)
LEMMA AnswersTaken ==
  ASSUME AnswersIn(port, call), NEW t \in Threads, \A v \in Threads \ {t} : call'[v] = call[v],
         NEW p, call[t].port = p, port'[p] = NONE \/ port'[p].received = 0,
         \A q \in Ports \ {p} : Quiet(q)
  PROVE  AnswersIn(port', call')
<1> SUFFICES ASSUME NEW q \in Ports, port'[q] # NONE, port'[q].received # 0
             PROVE  \E u \in Threads : AwaitsAnswer(call'[u], q, port'[q].received)
  BY Zenon DEF AnswersIn
<1>1. q # p
  BY Zenon
<1>2. port[q] # NONE /\ port'[q].received = port[q].received
  BY Zenon, <1>1 DEF Quiet
<1>3. PICK u \in Threads : AwaitsAnswer(call[u], q, port[q].received)
  BY Zenon, <1>2 DEF AnswersIn
<1>4. u # t
  BY Zenon, <1>1, <1>3 DEF AwaitsAnswer
<1> QED BY Zenon, <1>2, <1>3, <1>4

(* Port p is written, and no other.                                        *)
LEMMA PortWritten ==
  ASSUME LpcInv, NEW p \in Ports, port[p] # NONE, NEW n, port' = [port EXCEPT ![p] = Holds(@, n)]
  PROVE  port'[p].received = n /\ \A q \in Ports \ {p} : Quiet(q)
<1>1. port[p] \in PortObject /\ port'[p] = Holds(port[p], n) /\ \A q \in Ports \ {p} : port'[q] = port[q]
  BY Zenon DEF LpcInv, TypeOK
<1>2. port'[p].received = n
  BY <1>1 DEF Holds, PortObject
<1> QED BY Zenon, <1>1, <1>2 DEF Quiet

(* ~port_t writes nothing into a port.                                     *)
LEMMA DestroyQuiet ==
  ASSUME LpcInv, NEW t, NEW p \in Ports, port[p] # NONE, NEW lk, Destroy(t, p, lk)
  PROVE  port'[p] = NONE /\ \A q \in Ports : Quiet(q)
<1> DEFINE o == port[p].other
<1>1. port \in [Ports -> {NONE} \cup PortObject] /\ PairedIn(port) /\ port[p] \in PortObject
  BY Zenon DEF LpcInv, TypeOK
<1>2. CASE o = NONE
  <2>1. port' = [port EXCEPT ![p] = NONE]
    BY Zenon, <1>2 DEF Destroy
  <2> QED BY Zenon, <1>1, <2>1 DEF Quiet
<1>3. CASE o # NONE
  <2> DEFINE b == [port[o] EXCEPT !.other = NONE]
  <2>1. port' = [x \in Ports |-> CASE x = p -> NONE [] x = o -> b [] OTHER -> port[x]]
    BY Zenon, <1>3 DEF Destroy
  <2>2. o \in Ports /\ o # p /\ port[o] # NONE /\ port[o] \in PortObject
    BY Zenon, <1>1, <1>3 DEF PairedIn, PortObject
  <2>3. b.received = port[o].received
    BY <2>2 DEF PortObject
  <2> HIDE DEF b
  <2>4. port'[p] = NONE /\ port'[o] = b /\ \A q \in Ports \ {p, o} : port'[q] = port[q]
    BY Zenon, <2>1, <2>2
  <2> QED BY Zenon, <2>2, <2>3, <2>4 DEF Quiet
<1> QED BY Zenon, <1>2, <1>3

(* A thread that is in no such call begins one, or ends another.           *)
LEMMA CallsElsewhere ==
  ASSUME LpcInv, NEW t \in Threads, call[t].op \notin {"connect", "request"},
         NEW r, call' = [call EXCEPT ![t] = r]
  PROVE  CallsQuiet
BY Zenon DEF LpcInv, TypeOK, CallsQuiet

LEMMA RunningElsewhere ==
  ASSUME LpcInv, NEW t \in Threads, Runs(t)
  PROVE  call[t].op \notin {"connect", "request"}
<1>1. call[t] = Idle
  BY Zenon, RunningThread
<1> QED BY <1>1 DEF Idle

LEMMA PortsQuiet ==
  ASSUME port' = port
  PROVE  \A p \in Ports : Quiet(p)
BY Zenon DEF Quiet

LEMMA ListenAnswers ==
  ASSUME LpcInv, AnswersIn(port, call), NEW t \in Threads, NtListenPort(t) \/ Listened(t) \/ Received(t)
  PROVE  AnswersIn(port', call')
<1>1. port' = port
  BY Zenon DEF NtListenPort, Listened, Received
<1>2. call[t].op \notin {"connect", "request"}
  BY RunningElsewhere DEF NtListenPort, Listened, Received, Resumes
<1>3. call' = call \/ \E r : call' = [call EXCEPT ![t] = r]
  BY Zenon DEF NtListenPort, Listened, Received, Blocks, Returns
<1>4. CallsQuiet
  BY Zenon, <1>2, <1>3, CallsElsewhere DEF CallsQuiet
<1> QED BY Zenon, <1>1, <1>4, AnswersQuiet, PortsQuiet

(* A reply with this id is for the call that listener i belongs to.        *)
LEMMA DeliverAnswers ==
  ASSUME LpcInv, AnswersIn(port, call), NEW id \in 1 .. MaxId, NEW i \in DOMAIN listeners,
         Answers(id, i), Deliver(i, id), CallsQuiet
  PROVE  AnswersIn(port', call')
<1> DEFINE l == listeners[i]
<1>0. listeners \in Seq(Listener) /\ MaxId \in Nat
  BY Zenon, LpcAssumption DEF LpcInv, TypeOK
<1>1. l \in Listener /\ ~l.connect /\ l.id = id /\ id # 0
  BY <1>0 DEF Answers, IsFirst
<1>2. l.thread \in Threads
  BY Zenon, <1>1 DEF Listener
<1>3. /\ call[l.thread].op = "request" /\ l.port = call[l.thread].port
      /\ call[l.thread].id = id
  BY Zenon, <1>1 DEF LpcInv, ListenersIn, IsOf, Kind
<1>4. l.port \in Ports /\ port[l.port] # NONE
  BY Zenon, <1>2, <1>3 DEF LpcInv, TypeOK, CallState, UsersIn
<1>5. port' = [port EXCEPT ![l.port] = Holds(@, id)]
  BY Zenon DEF Deliver
<1>6. AwaitsAnswer(call[l.thread], l.port, id)
  BY Zenon, <1>3 DEF AwaitsAnswer
<1> HIDE DEF l
<1>7. port'[l.port].received = id /\ \A q \in Ports \ {l.port} : Quiet(q)
  BY Zenon, <1>4, <1>5, PortWritten
<1> QED BY Zenon, <1>2, <1>6, <1>7, AnswersGiven

LEMMA ReplyAnswers ==
  ASSUME LpcInv, AnswersIn(port, call), NEW t \in Threads,
         \/ \E id \in 1 .. MaxId : NtReplyPort(t, id)
         \/ \E id \in 0 .. MaxId : NtReplyWaitReceivePort(t, id)
  PROVE  AnswersIn(port', call')
<1>1. CallsQuiet
  <2>1. call[t].op \notin {"connect", "request"}
    BY Zenon, RunningElsewhere DEF NtReplyPort, NtReplyWaitReceivePort
  <2>2. call' = call \/ \E r : call' = [call EXCEPT ![t] = r]
    BY Zenon DEF NtReplyPort, NtReplyWaitReceivePort, Receive, Blocks
  <2> QED BY Zenon, <2>1, <2>2, CallsElsewhere DEF CallsQuiet
<1>2. CASE port' = port
  BY Zenon, <1>1, <1>2, AnswersQuiet, PortsQuiet
<1>3. CASE \E id \in 1 .. MaxId, i \in DOMAIN listeners : Answers(id, i) /\ Deliver(i, id)
  BY Zenon, <1>1, <1>3, DeliverAnswers
<1>4. \A id \in 0 .. MaxId : id = 0 \/ id \in 1 .. MaxId
  BY LpcAssumption
<1> QED BY Zenon, <1>2, <1>3, <1>4 DEF NtReplyPort, NtReplyWaitReceivePort

LEMMA NewPortAnswers ==
  ASSUME LpcInv, AnswersIn(port, call), NEW t \in Threads, NEW p \in Ports, NtConnectPort(t, p)
  PROVE  AnswersIn(port', call')
<1> DEFINE o == [thread |-> t, other |-> NONE, received |-> 0, ident |-> NONE]
<1>1. CallsQuiet
  BY Zenon, RunningElsewhere, CallsElsewhere DEF NtConnectPort, Blocks
<1>2. port' = [port EXCEPT ![p] = o] /\ o.received = 0
  BY Zenon DEF NtConnectPort
<1> HIDE DEF o
<1>3. port'[p] = o /\ \A q \in Ports \ {p} : port'[q] = port[q]
  BY Zenon, <1>2 DEF LpcInv, TypeOK
<1>4. \A q \in Ports : Quiet(q)
  BY Zenon, <1>2, <1>3 DEF Quiet
<1> QED BY Zenon, <1>1, <1>4, AnswersQuiet

LEMMA AcceptAnswers ==
  ASSUME LpcInv, AnswersIn(port, call), IdsIn(call, messageId), NEW t \in Threads, NEW c \in Threads,
         NEW id, AcceptFails(t, c, id) \/ \E q \in Ports : Accept(t, c, id, q)
  PROVE  AnswersIn(port', call')
<1> DEFINE p == tport[c]
<1>1. /\ p \in Ports /\ call[c].op = "connect" /\ call[c].port = p
      /\ port[p] \in PortObject /\ port[p] # NONE
  BY Zenon, PendingThread DEF AcceptFails, Accept
<1>2. call[c].id = id
  BY Zenon, <1>1 DEF AcceptFails, Accept, Pending, IdsIn
<1>3. AwaitsAnswer(call[c], p, id)
  BY Zenon, <1>1, <1>2 DEF AwaitsAnswer
<1>4. CallsQuiet
  BY Zenon DEF AcceptFails, Accept, CallsQuiet
<1>5. CASE AcceptFails(t, c, id)
  <2>1. port' = [port EXCEPT ![p] = Holds(@, id)]
    BY Zenon, <1>5 DEF AcceptFails
  <2> HIDE DEF p
  <2>2. port'[p].received = id /\ \A q \in Ports \ {p} : Quiet(q)
    BY Zenon, <1>1, <2>1, PortWritten
  <2> QED BY Zenon, <1>3, <1>4, <2>2, AnswersGiven
<1>6. ASSUME NEW q \in Ports, Accept(t, c, id, q)
      PROVE  AnswersIn(port', call')
  <2> DEFINE a == [thread |-> t, other |-> p, received |-> 0, ident |-> NONE]
             b == [thread |-> port[p].thread, other |-> q, received |-> id, ident |-> q]
  <2>1. port' = [x \in Ports |-> CASE x = q -> a [] x = p -> b [] OTHER -> port[x]] /\ port[q] = NONE
    BY <1>6 DEF Accept
  <2>2. a.received = 0 /\ b.received = id /\ p # q
    BY Zenon, <1>1, <2>1
  <2> HIDE DEF p, a, b
  <2>3. port'[q] = a /\ port'[p] = b /\ \A x \in Ports \ {p, q} : port'[x] = port[x]
    BY Zenon, <1>1, <2>1, <2>2
  <2>4. \A x \in Ports \ {p} : Quiet(x)
    BY Zenon, <2>2, <2>3 DEF Quiet
  <2> QED BY Zenon, <1>3, <1>4, <2>2, <2>3, <2>4, AnswersGiven
<1> QED BY Zenon, <1>5, <1>6

LEMMA CloseAnswers ==
  ASSUME LpcInv, AnswersIn(port, call), NEW t \in Threads, NEW p \in Ports, Close(t, p)
  PROVE  AnswersIn(port', call')
<1>1. port[p] # NONE /\ Destroy(t, p, linked) /\ call' = call
  BY Zenon DEF Close
<1>2. CallsQuiet
  BY Zenon, <1>1 DEF CallsQuiet
<1> QED BY Zenon, <1>1, <1>2, DestroyQuiet, AnswersQuiet

LEMMA PlainAnswers ==
  ASSUME LpcInv, AnswersIn(port, call), NEW t \in Threads, NEW p,
         \/ \E c, id : Refuse(t, c, id)
         \/ NtCompleteConnectPort(t, p) \/ NtRegisterThreadTerminatePort(t, p)
         \/ NtRequestWaitReplyPort(t, p) \/ NtRequestPort(t, p)
         \/ \E u \in Threads : Terminate(t, u)
  PROVE  AnswersIn(port', call')
<1>1. port' = port /\ Runs(t)
  BY Zenon DEF Refuse, NtCompleteConnectPort, NtRegisterThreadTerminatePort,
     NtRequestWaitReplyPort, NtRequestPort, Terminate
<1>2. call' = call \/ \E r : call' = [call EXCEPT ![t] = r]
  BY Zenon DEF Refuse, NtCompleteConnectPort, NtRegisterThreadTerminatePort,
     NtRequestWaitReplyPort, NtRequestPort, Terminate, Blocks
<1>3. CallsQuiet
  BY Zenon, <1>1, <1>2, RunningElsewhere, CallsElsewhere DEF CallsQuiet
<1> QED BY Zenon, <1>1, <1>3, PortsQuiet, AnswersQuiet

(* The calls that end take what their port holds.                          *)
LEMMA EndAnswers ==
  ASSUME LpcInv, AnswersIn(port, call), NEW t \in Threads, Connected(t) \/ Requested(t) \/ DeadReturns(t)
  PROVE  AnswersIn(port', call')
<1> DEFINE p == call[t].port
<1>1. call' = [call EXCEPT ![t] = Idle] /\ \A v \in Threads \ {t} : call'[v] = call[v]
  BY Zenon DEF Connected, Requested, DeadReturns, Returns, LpcInv, TypeOK
<1>2. call[t].op \in {"connect", "request"} => p \in Ports /\ port[p] # NONE
  BY Zenon DEF LpcInv, TypeOK, CallState, UsersIn
<1>3. CASE EndRequest(p) /\ call[t].op = "request"
  <2>1. port' = [port EXCEPT ![p] = Holds(@, 0)] /\ p \in Ports /\ port[p] # NONE
    BY Zenon, <1>2, <1>3 DEF EndRequest
  <2> HIDE DEF p
  <2>2. port'[p].received = 0 /\ \A q \in Ports \ {p} : Quiet(q)
    BY Zenon, <2>1, PortWritten
  <2> QED BY Zenon, <1>1, <2>2, AnswersTaken DEF p
<1>4. CASE call[t].op = "connect" /\ \E lk, handle : EndConnect(t, p, lk, handle)
  <2>1. \/ port' = [port EXCEPT ![p] = Holds(@, 0)]
        \/ \E lk : Destroy(t, p, lk)
    BY Zenon, <1>4 DEF EndConnect
  <2>2. p \in Ports /\ port[p] # NONE
    BY Zenon, <1>2, <1>4
  <2> HIDE DEF p
  <2>3. (port'[p] = NONE \/ port'[p].received = 0) /\ \A q \in Ports \ {p} : Quiet(q)
    BY Zenon, <2>1, <2>2, PortWritten, DestroyQuiet
  <2> QED BY Zenon, <1>1, <2>3, AnswersTaken DEF p
<1>5. CASE port' = port /\ call[t].op \notin {"connect", "request"}
  BY Zenon, <1>1, <1>5, CallsElsewhere, PortsQuiet, AnswersQuiet
<1> QED BY Zenon, <1>3, <1>4, <1>5 DEF Connected, Requested, DeadReturns, Resumes

(* A thread takes a new message id only when it is in no call, or for the  *)
(* call that it begins.                                                    *)
LEMMA NextIds ==
  ASSUME LpcInv, IdsIn(call, messageId), [Next]_vars
  PROVE  IdsIn(call', messageId')
<1>0. /\ Servers \subseteq Threads /\ Clients \subseteq Threads
      /\ messageId \in [Threads -> 0 .. MaxId] /\ call \in [Threads -> CallState]
  BY Zenon DEF Threads, LpcInv, TypeOK
<1>1. CASE messageId' = messageId /\ call' = call
  BY Zenon, <1>1
<1>2. ASSUME NEW t \in Threads, NEW r, r.op # "connect", call' = [call EXCEPT ![t] = r],
             \A v \in Threads \ {t} : messageId'[v] = messageId[v]
      PROVE  IdsIn(call', messageId')
  <2>1. call'[t] = r /\ \A v \in Threads \ {t} : call'[v] = call[v]
    BY Zenon, <1>0, <1>2
  <2> QED BY Zenon, <1>2, <2>1 DEF IdsIn
<1>3. Idle.op # "connect" /\ \A p, id : /\ [op |-> "listen", port |-> p, id |-> id].op # "connect"
                                        /\ [op |-> "receive", port |-> p, id |-> id].op # "connect"
                                        /\ [op |-> "request", port |-> p, id |-> id].op # "connect"
  BY DEF Idle
<1>4. ASSUME NEW t \in Servers,
             \/ NtListenPort(t) \/ Listened(t) \/ Received(t)
             \/ \E id \in 1 .. MaxId : NtReplyPort(t, id)
             \/ \E id \in 0 .. MaxId : NtReplyWaitReceivePort(t, id)
      PROVE  IdsIn(call', messageId')
  <2>1. /\ messageId' = messageId
        /\ \/ call' = call \/ call' = [call EXCEPT ![t] = Idle]
           \/ call' = [call EXCEPT ![t] = [op |-> "listen", port |-> NONE, id |-> 0]]
           \/ call' = [call EXCEPT ![t] = [op |-> "receive", port |-> NONE, id |-> 0]]
    BY Zenon, <1>4 DEF NtListenPort, Listened, Received, NtReplyPort, NtReplyWaitReceivePort,
       Receive, Blocks, Returns
  <2> QED BY Zenon, <1>0, <1>1, <1>2, <1>3, <2>1
<1>5. ASSUME NEW t \in Threads, Connected(t) \/ Requested(t) \/ DeadReturns(t)
      PROVE  IdsIn(call', messageId')
  <2>1. messageId' = messageId /\ call' = [call EXCEPT ![t] = Idle]
    BY Zenon, <1>5 DEF Connected, Requested, DeadReturns, Returns
  <2> QED BY Zenon, <1>2, <1>3, <2>1
<1>6. ASSUME NEW t \in Threads, NEW p \in Ports, NtConnectPort(t, p)
      PROVE  IdsIn(call', messageId')
  <2> DEFINE r == [op |-> "connect", port |-> p, id |-> nextId]
  <2>1. messageId' = [messageId EXCEPT ![t] = nextId] /\ call' = [call EXCEPT ![t] = r] /\ r.id = nextId
    BY Zenon, <1>6 DEF NtConnectPort, Blocks
  <2> HIDE DEF r
  <2>2. messageId'[t] = call'[t].id
    BY Zenon, <1>0, <2>1
  <2>3. \A v \in Threads \ {t} : messageId'[v] = messageId[v] /\ call'[v] = call[v]
    BY Zenon, <1>0, <2>1
  <2> QED BY Zenon, <2>2, <2>3 DEF IdsIn
<1>7. ASSUME NEW t \in Threads, NEW p \in Ports, NtRequestWaitReplyPort(t, p)
      PROVE  IdsIn(call', messageId')
  <2>1. /\ messageId' = [messageId EXCEPT ![t] = nextId]
        /\ call' = [call EXCEPT ![t] = [op |-> "request", port |-> p, id |-> nextId]]
    BY Zenon, <1>7 DEF NtRequestWaitReplyPort, Blocks
  <2>2. \A v \in Threads \ {t} : messageId'[v] = messageId[v]
    BY Zenon, <1>0, <2>1
  <2> QED BY Zenon, <1>2, <1>3, <2>1, <2>2
<1>8. ASSUME NEW t \in Threads, NEW p \in Ports, NtRequestPort(t, p)
      PROVE  IdsIn(call', messageId')
  <2>1. messageId' = [messageId EXCEPT ![t] = nextId] /\ call' = call /\ Runs(t)
    BY Zenon, <1>8 DEF NtRequestPort
  <2>2. call[t].op # "connect" /\ \A v \in Threads \ {t} : messageId'[v] = messageId[v]
    BY Zenon, <1>0, <2>1, RunningElsewhere
  <2> QED BY Zenon, <2>1, <2>2 DEF IdsIn
<1>9. ASSUME NEW t \in Threads, NEW p, NEW u, NEW c, NEW id,
             \/ Refuse(t, c, id) \/ AcceptFails(t, c, id) \/ Accept(t, c, id, p)
             \/ NtCompleteConnectPort(t, p) \/ NtRegisterThreadTerminatePort(t, p)
             \/ Close(t, p) \/ Terminate(t, u)
      PROVE  IdsIn(call', messageId')
  BY Zenon, <1>1, <1>9 DEF Refuse, AcceptFails, Accept, NtCompleteConnectPort,
     NtRegisterThreadTerminatePort, Close, Terminate
<1>10. CASE UNCHANGED vars
  BY Zenon, <1>1, <1>10 DEF vars
<1> QED BY Zenon, <1>0, <1>4, <1>5, <1>6, <1>7, <1>8, <1>9, <1>10 DEF Next

LEMMA RepliesInvStep ==
  ASSUME RepliesInv, [Next]_vars
  PROVE  RepliesInv'
<1>1. LpcInv /\ AnswersIn(port, call) /\ IdsIn(call, messageId) /\ LpcInv' /\ IdsIn(call', messageId')
  BY Zenon, NextInv, NextIds DEF RepliesInv
<1>2. Servers \subseteq Threads /\ Clients \subseteq Threads
  BY Zenon DEF Threads
<1>3. SUFFICES AnswersIn(port', call')
  BY Zenon, <1>1 DEF RepliesInv
<1>4. ASSUME NEW t \in Servers,
             \/ NtListenPort(t) \/ Listened(t) \/ Received(t)
             \/ \E id \in 1 .. MaxId : NtReplyPort(t, id)
             \/ \E id \in 0 .. MaxId : NtReplyWaitReceivePort(t, id)
      PROVE  AnswersIn(port', call')
  BY Zenon, <1>1, <1>2, <1>4, ListenAnswers, ReplyAnswers
<1>5. ASSUME NEW t \in Servers,
             \/ \E c \in Clients, id \in 1 .. MaxId : Refuse(t, c, id) \/ AcceptFails(t, c, id)
                                                      \/ \E q \in Ports : Accept(t, c, id, q)
             \/ \E q \in Ports : NtCompleteConnectPort(t, q)
      PROVE  AnswersIn(port', call')
  BY Zenon, <1>1, <1>2, <1>5, AcceptAnswers, PlainAnswers
<1>6. ASSUME NEW t \in Clients,
             \/ Connected(t) \/ Requested(t)
             \/ \E p \in Ports : \/ NtConnectPort(t, p) \/ NtRegisterThreadTerminatePort(t, p)
                                 \/ NtRequestWaitReplyPort(t, p) \/ NtRequestPort(t, p)
      PROVE  AnswersIn(port', call')
  BY Zenon, <1>1, <1>2, <1>6, EndAnswers, NewPortAnswers, PlainAnswers
<1>7. ASSUME NEW t \in Threads, \/ DeadReturns(t) \/ (\E p \in Ports : Close(t, p))
                               \/ (\E u \in Threads : Terminate(t, u))
      PROVE  AnswersIn(port', call')
  BY Zenon, <1>1, <1>7, EndAnswers, CloseAnswers, PlainAnswers
<1>8. CASE UNCHANGED vars
  BY Zenon, <1>1, <1>8 DEF vars
<1> QED BY Zenon, <1>4, <1>5, <1>6, <1>7, <1>8 DEF Next

(* What request_wait_reply returns is the reply to a request that is       *)
(* outstanding on its port, so to its own if no other thread has one       *)
(* there: for any number of clients and servers, however they share ports, *)
(* whoever replies, and whoever is terminated while it waits.              *)
THEOREM RepliesMatch == Spec => ReplyMatchesRequest
<1> DEFINE Matched == \A t \in Clients : Requested(t) /\ failed' = "none" =>
                        \E u \in Threads :
                          call[u] = [op |-> "request", port |-> call[t].port, id |-> port[call[t].port].received]
<1>1. Init => RepliesInv
  <2> SUFFICES ASSUME Init PROVE RepliesInv
    BY Zenon
  <2>1. LpcInv
    BY Zenon, InitInv
  <2>2. AnswersIn(port, call)
    BY Zenon DEF Init, AnswersIn
  <2>3. IdsIn(call, messageId)
    <3>1. Idle.op # "connect"
      BY DEF Idle
    <3> QED BY Zenon, <3>1 DEF Init, IdsIn
  <2> QED BY Zenon, <2>1, <2>2, <2>3 DEF RepliesInv
<1>2. RepliesInv /\ [Next]_vars => RepliesInv'
  BY Zenon, RepliesInvStep
<1>3. ASSUME RepliesInv PROVE Matched
  <2> SUFFICES ASSUME NEW t \in Clients, Requested(t), failed' = "none"
               PROVE  \E u \in Threads :
                        call[u] = [op |-> "request", port |-> call[t].port, id |-> port[call[t].port].received]
    BY Zenon
  <2> DEFINE p == call[t].port
  <2>1. t \in Threads /\ call[t].op = "request" /\ EndRequest(p)
    BY Zenon DEF Threads, Requested, Resumes
  <2>2. p \in Ports /\ port[p] # NONE /\ port[p].received # 0
    <3>1. p \in Ports /\ port[p] # NONE
      BY Zenon, <1>3, <2>1 DEF RepliesInv, LpcInv, TypeOK, CallState, UsersIn
    <3>2. port[p].received # 0
      BY <2>1 DEF EndRequest
    <3> QED BY Zenon, <3>1, <3>2
  <2>3. PICK u \in Threads : AwaitsAnswer(call[u], p, port[p].received)
    BY Zenon, <1>3, <2>2 DEF RepliesInv, AnswersIn
  <2>4. call[u].op = "request"
    <3>1. CASE call[u].op = "connect"
      <4>1. u # t
        BY <2>1, <3>1
      <4> QED BY Zenon, <1>3, <2>1, <2>3, <3>1, <4>1 DEF RepliesInv, LpcInv, UsersIn, AwaitsAnswer
    <3> QED BY Zenon, <2>3, <3>1 DEF AwaitsAnswer
  <2>5. call[u] \in CallState
    BY Zenon, <1>3 DEF RepliesInv, LpcInv, TypeOK
  <2>6. call[u] = [op |-> call[u].op, port |-> call[u].port, id |-> call[u].id]
    BY <2>5 DEF CallState
  <2> QED BY Zenon, <2>3, <2>4, <2>6 DEF AwaitsAnswer
<1>4. RepliesInv => [Matched]_vars
  BY Zenon, <1>3
<1>5. Spec => [][Matched]_vars
  <2> HIDE DEF Matched
  <2> QED BY <1>1, <1>2, <1>4, PTL DEF Spec
<1> QED BY Zenon, <1>5 DEF ReplyMatchesRequest

-----------------------------------------------------------------------------
(* The messages and those who fetch them *)

Fetching(c) == c.op \in {"listen", "receive"}

(* A thread of the list ls is asleep in NtReplyWaitReceivePort.            *)
Asleep(ls) == \E i \in DOMAIN ls : ls[i].id = 0 /\ ~ls[i].connect

(* Only servers fetch messages, and none of them is terminated.            *)
ServersFetch == /\ \A t \in Servers : t \notin dead
                /\ \A t \in Threads : Fetching(call[t]) => t \in Servers

MessageInv == LpcInv /\ ServersFetch /\ NoMessageForgotten

(* The fetchers W of n messages become the fetchers W2 of n2 messages: no  *)
(* fetcher is lost but with a message, no message comes but with a fetcher.*)
Fetch(W, n, W2, n2) ==
  \/ W \subseteq W2 /\ n2 <= n
  \/ \E t \in W : W \ {t} \subseteq W2 /\ n2 < n
  \/ \E t \in W2 : t \notin W /\ W \subseteq W2 /\ n2 = n + 1

(* What a step does to the messages while a receiver is asleep.            *)
MessageStep ==
  failed' = "none" /\ Asleep(listeners') /\ messages' # <<>> =>
    Asleep(listeners) /\ Fetch(Woken, Len(messages), Woken', Len(messages'))

LEMMA AsleepFewer ==
  ASSUME NEW ls \in Seq(Listener), NEW at \in DOMAIN ls, Asleep(unlink(ls, at))
  PROVE  Asleep(ls)
<1>1. PICK a \in [DOMAIN unlink(ls, at) -> DOMAIN ls \ {at}] :
             /\ \A i \in DOMAIN unlink(ls, at) : unlink(ls, at)[i] = ls[a[i]]
             /\ \A i, j \in DOMAIN unlink(ls, at) : i < j => a[i] < a[j]
  BY Zenon, UnlinkPlaces
<1> QED BY Zenon, <1>1 DEF Asleep

(* The new listener waits for something else.                              *)
LEMMA AsleepOther ==
  ASSUME NEW ls \in Seq(Listener), NEW l \in Listener, l.id # 0 \/ l.connect, Asleep(Append(ls, l))
  PROVE  Asleep(ls)
<1>1. \A i \in DOMAIN Append(ls, l) : /\ i \in DOMAIN ls \/ i = Len(ls) + 1
                                      /\ i \in DOMAIN ls => Append(ls, l)[i] = ls[i]
  BY SMTT(20)
<1>2. Append(ls, l)[Len(ls) + 1] = l
  BY SMTT(20)
<1> QED BY Zenon, <1>1, <1>2 DEF Asleep

(* No fetcher is lost, and no message comes.                               *)
LEMMA MessagesKeep ==
  ASSUME Asleep(listeners') => Asleep(listeners), Len(messages') <= Len(messages),
         \A u \in linked : Fetching(call[u]) => u \in linked' /\ call'[u] = call[u]
  PROVE  MessageStep
<1>1. Woken \subseteq Woken'
  BY Zenon DEF Woken, Fetching
<1> QED BY Zenon, <1>1 DEF MessageStep, Fetch

LEMMA MessagesSame ==
  ASSUME LpcInv, messages' = messages, Asleep(listeners') => Asleep(listeners),
         \A u \in linked : Fetching(call[u]) => u \in linked' /\ call'[u] = call[u]
  PROVE  MessageStep
<1>1. messages \in Seq(Message)
  BY Zenon DEF LpcInv, TypeOK
<1>2. Len(messages') <= Len(messages)
  BY SMTT(20), <1>1
<1> QED BY Zenon, <1>2, MessagesKeep

(* One more message: if a receiver was asleep, a thread has been started.  *)
LEMMA MessageSent ==
  ASSUME LpcInv, ServersFetch, NEW m \in Message, NEW lk, NEW new, send_message(m, lk, new),
         new = <<>> \/ \E l \in Listener : l.id # 0 /\ new = <<l>>,
         lk \subseteq linked,
         \A u \in linked : Fetching(call[u]) => u \in lk,
         \A u \in Threads : Fetching(call[u]) => call'[u] = call[u]
  PROVE  MessageStep
<1>1. listeners \in Seq(Listener) /\ ListenersIn(listeners, linked, call) /\ linked \subseteq Threads
  BY Zenon DEF LpcInv, TypeOK
<1>2. ASSUME NEW ls \in Seq(Listener), Asleep(ls \o new)
      PROVE  Asleep(ls)
  <2>1. CASE new = <<>>
    BY Zenon, <1>2, <2>1, ConcatElems
  <2>2. CASE \E l \in Listener : l.id # 0 /\ new = <<l>>
    <3>1. PICK l \in Listener : l.id # 0 /\ ls \o new = Append(ls, l)
      BY Zenon, <2>2, ConcatElems
    <3> QED BY Zenon, <1>2, <3>1, AsleepOther
  <2> QED BY Zenon, <2>1, <2>2
<1>3. Woken \subseteq Woken'
  <2>1. lk \subseteq linked'
    BY Zenon DEF send_message
  <2> QED BY Zenon, <1>1, <2>1 DEF Woken, Fetching
<1>4. CASE Wakeable(m) = {}
  <2>1. ~Asleep(listeners)
    BY Zenon, <1>4 DEF Asleep, Wakeable
  <2>2. listeners' = listeners \o new
    BY Zenon, <1>4 DEF send_message
  <2> QED BY Zenon, <1>1, <1>2, <2>1, <2>2 DEF MessageStep
<1>5. CASE Wakeable(m) # {}
  <2>1. PICK i \in Wakeable(m) : /\ listeners' = unlink(listeners, i) \o new
                                 /\ linked' = lk \cup {listeners[i].thread}
    BY Zenon, <1>5 DEF send_message
  <2> DEFINE v == listeners[i].thread
  <2>2. i \in DOMAIN listeners /\ listeners[i].id = 0
    BY Zenon DEF Wakeable
  <2>3. listeners[i] \in Listener
    BY SMTT(20), <1>1, <2>2
  <2>4. v \in Threads /\ v \notin linked /\ Fetching(call[v])
    BY Zenon, <1>1, <2>2, <2>3 DEF ListenersIn, IsOf, Kind, Listener, Fetching
  <2>5. v \in linked' /\ call'[v] = call[v]
    BY Zenon, <2>1, <2>4 DEF ServersFetch
  <2>6. v \in Woken' /\ v \notin Woken
    BY Zenon, <2>4, <2>5 DEF Woken, Fetching
  <2>7. Asleep(listeners') => Asleep(listeners)
    <3>1. unlink(listeners, i) \in Seq(Listener)
      BY Zenon, <1>1, <2>2, UnlinkElems
    <3> QED BY Zenon, <1>1, <1>2, <2>1, <2>2, <3>1, AsleepFewer
  <2>8. Len(messages') = Len(messages) + 1
    <3>1. messages \in Seq(Message) /\ messages' = Append(messages, m)
      BY Zenon DEF LpcInv, TypeOK, send_message
    <3> QED BY SMTT(20), <3>1
  <2> QED BY Zenon, <1>3, <2>6, <2>7, <2>8 DEF MessageStep, Fetch
<1> QED BY Zenon, <1>4, <1>5

(* A thread that is in another call changes it.                            *)
LEMMA CallOther ==
  ASSUME LpcInv, NEW t \in Threads, ~Fetching(call[t]), NEW r, call' = [call EXCEPT ![t] = r]
  PROVE  \A u \in Threads : Fetching(call[u]) => call'[u] = call[u]
BY Zenon DEF LpcInv, TypeOK

LEMMA RunningFetches ==
  ASSUME LpcInv, NEW t \in Threads, Runs(t)
  PROVE  ~Fetching(call[t]) /\ failed = "none"
<1>1. call[t] = Idle /\ failed = "none"
  BY Zenon, RunningThread
<1>2. ~Fetching(Idle)
  BY SMTT(20) DEF Fetching, Idle
<1> QED BY Zenon, <1>1, <1>2

(* A message is gone, and with it at most one fetcher.                     *)
LEMMA MessageTaken ==
  ASSUME LpcInv, NEW t, t \in Woken, Len(messages') < Len(messages),
         listeners' = listeners, linked' = linked,
         \A u \in Threads \ {t} : call'[u] = call[u]
  PROVE  MessageStep
<1>1. linked \subseteq Threads
  BY Zenon DEF LpcInv, TypeOK
<1>2. Woken \ {t} \subseteq Woken'
  BY Zenon, <1>1 DEF Woken
<1> QED BY Zenon, <1>2 DEF MessageStep, Fetch

LEMMA RequestTakenLen ==
  ASSUME LpcInv, TakeRequest
  PROVE  Len(messages') < Len(messages) /\ Len(messages') <= Len(messages)
<1>1. PICK i \in DOMAIN messages : messages' = unlink(messages, i)
  BY Zenon DEF TakeRequest, ConnectRequests
<1>2. messages \in Seq(Message)
  BY Zenon DEF LpcInv, TypeOK
<1>3. Len(messages') = Len(messages) - 1
  BY Zenon, <1>1, <1>2, UnlinkElems
<1> QED BY SMTT(20), <1>2, <1>3

LEMMA ListenMessages ==
  ASSUME LpcInv, NEW t \in Threads, NtListenPort(t)
  PROVE  MessageStep
<1>1. ~Fetching(call[t]) /\ linked \subseteq Threads /\ listeners \in Seq(Listener)
  BY Zenon, RunningFetches DEF NtListenPort, LpcInv, TypeOK
<1>2. CASE ConnectRequests # {}
  <2>1. TakeRequest /\ UNCHANGED <<listeners, linked, call>>
    BY Zenon, <1>2 DEF NtListenPort
  <2> QED BY Zenon, <2>1, RequestTakenLen, MessagesKeep
<1>3. CASE ConnectRequests = {}
  <2> DEFINE l == [port |-> NONE, thread |-> t, connect |-> TRUE, id |-> 0]
  <2>1. /\ messages' = messages /\ listeners' = Append(listeners, l) /\ linked' = linked \ {t}
        /\ call' = [call EXCEPT ![t] = [op |-> "listen", port |-> NONE, id |-> 0]]
    BY Zenon, <1>3 DEF NtListenPort, Blocks
  <2>2. l \in Listener /\ l.connect
    BY Zenon DEF Listener
  <2> HIDE DEF l
  <2>3. Asleep(listeners') => Asleep(listeners)
    BY Zenon, <1>1, <2>1, <2>2, AsleepOther
  <2>4. \A u \in Threads : Fetching(call[u]) => call'[u] = call[u]
    BY Zenon, <1>1, <2>1, CallOther
  <2>5. \A u \in linked : Fetching(call[u]) => u \in linked' /\ call'[u] = call[u]
    BY Zenon, <1>1, <2>1, <2>4
  <2> QED BY Zenon, <2>1, <2>3, <2>5, MessagesSame
<1> QED BY Zenon, <1>2, <1>3

LEMMA ListenedMessages ==
  ASSUME LpcInv, NEW t \in Threads, Listened(t)
  PROVE  MessageStep
<1>1. CASE ConnectRequests = {}
  BY Zenon, <1>1 DEF Listened, MessageStep
<1>2. CASE ConnectRequests # {}
  <2>1. TakeRequest /\ listeners' = listeners /\ linked' = linked /\ t \in Woken
    BY Zenon, <1>2 DEF Listened, Resumes, Woken
  <2>2. \A u \in Threads \ {t} : call'[u] = call[u]
    BY Zenon DEF Listened, Returns, LpcInv, TypeOK
  <2> QED BY Zenon, <2>1, <2>2, RequestTakenLen, MessageTaken
<1> QED BY Zenon, <1>1, <1>2

LEMMA ReceivedMessages ==
  ASSUME LpcInv, NEW t \in Threads, Received(t)
  PROVE  MessageStep
<1>1. CASE messages = <<>>
  BY Zenon, <1>1 DEF Received, MessageStep
<1>2. CASE messages # <<>>
  <2>1. messages' = Tail(messages) /\ listeners' = listeners /\ linked' = linked /\ t \in Woken
    BY Zenon, <1>2 DEF Received, Resumes, Woken
  <2>2. \A u \in Threads \ {t} : call'[u] = call[u]
    BY Zenon DEF Received, Returns, LpcInv, TypeOK
  <2>3. messages \in Seq(Message)
    BY Zenon DEF LpcInv, TypeOK
  <2>4. Len(messages') < Len(messages)
    BY SMTT(20), <1>2, <2>1, <2>3
  <2> QED BY Zenon, <2>1, <2>2, <2>4, MessageTaken
<1> QED BY Zenon, <1>1, <1>2

(* The receiving half of NtReplyWaitReceivePort blocks only when there is  *)
(* no message.                                                             *)
LEMMA ReceiveMessages ==
  ASSUME LpcInv, NEW t \in Threads, NEW ls, NEW lk, Receive(t, ls, lk),
         Asleep(ls) => Asleep(listeners), linked \subseteq lk
  PROVE  MessageStep
<1>1. CASE messages # <<>>
  <2>1. messages' = Tail(messages) /\ listeners' = ls /\ linked' = lk /\ call' = call
    BY Zenon, <1>1 DEF Receive
  <2>2. messages \in Seq(Message)
    BY Zenon DEF LpcInv, TypeOK
  <2>3. Len(messages') <= Len(messages)
    BY SMTT(20), <1>1, <2>1, <2>2
  <2> QED BY Zenon, <2>1, <2>3, MessagesKeep
<1>2. CASE messages = <<>>
  BY Zenon, <1>2 DEF Receive, MessageStep
<1> QED BY Zenon, <1>1, <1>2

LEMMA ReplyMessages ==
  ASSUME LpcInv, NEW t \in Threads, NEW id,
         NtReplyPort(t, id) \/ NtReplyWaitReceivePort(t, id)
  PROVE  MessageStep
<1>1. listeners \in Seq(Listener)
  BY Zenon DEF LpcInv, TypeOK
<1>2. \A i \in DOMAIN listeners : /\ Asleep(unlink(listeners, i)) => Asleep(listeners)
                                  /\ linked \subseteq Started(listeners[i].thread)
  BY Zenon, <1>1, AsleepFewer DEF Started
<1>3. CASE NtReplyPort(t, id)
  <2>1. /\ messages' = messages /\ call' = call /\ linked \subseteq linked'
        /\ Asleep(listeners') => Asleep(listeners)
    BY Zenon, <1>2, <1>3 DEF NtReplyPort
  <2> QED BY Zenon, <2>1, MessagesSame
<1>4. CASE NtReplyWaitReceivePort(t, id)
  BY Zenon, <1>2, <1>4, ReceiveMessages DEF NtReplyWaitReceivePort
<1> QED BY Zenon, <1>3, <1>4

(* Calls that leave messages and listeners alone and take no fetcher out   *)
(* of the run list.                                                        *)
LEMMA ConnectMessages ==
  ASSUME LpcInv, NEW t \in Threads,
         \/ \E c \in Clients, id \in 1 .. MaxId :
              Refuse(t, c, id) \/ \E q \in Ports : Accept(t, c, id, q)
         \/ \E q \in Ports : NtCompleteConnectPort(t, q) \/ NtRegisterThreadTerminatePort(t, q)
  PROVE  MessageStep
<1>1. messages' = messages /\ listeners' = listeners /\ call' = call /\ linked \subseteq linked'
  BY Zenon DEF Refuse, Accept, NtCompleteConnectPort, NtRegisterThreadTerminatePort, Started
<1> QED BY Zenon, <1>1, MessagesSame

(* A port is released: there may be a close message.                       *)
LEMMA DestroyMessages ==
  ASSUME LpcInv, ServersFetch, NEW t \in Threads, ~Fetching(call[t]), NEW p \in Ports, port[p] # NONE,
         NEW lk \in {linked, linked \ {t}}, Destroy(t, p, lk),
         \A u \in Threads : Fetching(call[u]) => call'[u] = call[u]
  PROVE  MessageStep
<1>1. /\ port[p].ident \in Ports \cup {NONE} /\ "closed" \in Types /\ linked \subseteq Threads
      /\ lk \subseteq linked /\ \A u \in linked : Fetching(call[u]) => u \in lk
  BY Zenon DEF LpcInv, TypeOK, PortObject, Types
<1>2. CASE port[p].other = NONE
  <2>1. messages' = messages /\ listeners' = listeners /\ linked' = lk
    BY Zenon, <1>2 DEF Destroy
  <2> QED BY Zenon, <1>1, <2>1, MessagesSame
<1>3. CASE port[p].other # NONE
  <2>1. nextId <= MaxId /\ send_message(NewMessage("closed", t, port[p].ident), lk, <<>>)
    BY Zenon, <1>3 DEF Destroy
  <2>2. NewMessage("closed", t, port[p].ident) \in Message
    BY Zenon, <1>1, <2>1, MessageMade
  <2> QED BY Zenon, <1>1, <2>1, <2>2, MessageSent
<1> QED BY Zenon, <1>2, <1>3

LEMMA EndMessages ==
  ASSUME LpcInv, ServersFetch, NEW t \in Threads,
         Connected(t) \/ Requested(t) \/ DeadReturns(t)
  PROVE  MessageStep
<1>1. call' = [call EXCEPT ![t] = Idle] /\ linked \subseteq Threads
  BY Zenon DEF Connected, Requested, DeadReturns, Returns, LpcInv, TypeOK
<1>2. ~Fetching(call[t])
  <2>1. CASE Connected(t) \/ Requested(t)
    BY SMTT(20), <2>1 DEF Connected, Requested, Resumes, Fetching
  <2>2. CASE DeadReturns(t)
    BY Zenon, <2>2 DEF DeadReturns, ServersFetch
  <2> QED BY Zenon, <2>1, <2>2
<1>3. \A u \in Threads : Fetching(call[u]) => call'[u] = call[u]
  BY Zenon, <1>1, <1>2, CallOther
<1>4. CASE messages' = messages /\ listeners' = listeners /\ \A u \in linked \ {t} : u \in linked'
  BY Zenon, <1>1, <1>2, <1>3, <1>4, MessagesSame
<1>5. CASE call[t].op = "connect" /\ \E lk \in {linked, linked \ {t}} : Destroy(t, call[t].port, lk)
  <2>1. call[t].port \in Ports /\ port[call[t].port] # NONE
    BY Zenon, <1>5 DEF LpcInv, TypeOK, CallState, UsersIn
  <2> QED BY Zenon, <1>2, <1>3, <1>5, <2>1, DestroyMessages
<1> QED BY Zenon, <1>4, <1>5 DEF Connected, Requested, DeadReturns, EndConnect, Resumes

(* Calls that send a message and do not block.                             *)
LEMMA SendMessages ==
  ASSUME LpcInv, ServersFetch, NEW t \in Threads, Runs(t), nextId <= MaxId, call' = call,
         NEW ty \in Types, NEW u \in Threads, NEW d \in Ports \cup {NONE},
         NEW lk \in {linked, linked \ {t}}, send_message(NewMessage(ty, u, d), lk, <<>>)
  PROVE  MessageStep
<1>1. NewMessage(ty, u, d) \in Message
  BY Zenon, MessageMade
<1>2. lk \subseteq linked /\ \A v \in linked : Fetching(call[v]) => v \in lk
  BY Zenon, RunningFetches
<1> QED BY Zenon, <1>1, <1>2, MessageSent

LEMMA RequestPortMessages ==
  ASSUME LpcInv, ServersFetch, NEW t \in Threads, NEW p \in Ports, NtRequestPort(t, p)
  PROVE  MessageStep
<1>1. port[p].ident \in Ports \cup {NONE}
  BY Zenon DEF LpcInv, TypeOK, NtRequestPort, Usable, PortObject
<1>2. /\ Runs(t) /\ nextId <= MaxId /\ call' = call /\ "datagram" \in Types
      /\ send_message(NewMessage("datagram", t, port[p].ident), linked, <<>>)
  BY Zenon DEF NtRequestPort, Types
<1> QED BY Zenon, <1>1, <1>2, SendMessages

LEMMA AcceptFailsMessages ==
  ASSUME LpcInv, ServersFetch, NEW t \in Threads, NEW c, NEW id, AcceptFails(t, c, id)
  PROVE  MessageStep
<1>1. /\ Runs(t) /\ nextId <= MaxId /\ call' = call /\ "closed" \in Types
      /\ send_message(NewMessage("closed", t, NONE), linked, <<>>)
  BY Zenon DEF AcceptFails, Types
<1> QED BY Zenon, <1>1, SendMessages

LEMMA CloseMessages ==
  ASSUME LpcInv, ServersFetch, NEW t \in Threads, NEW p \in Ports, Close(t, p)
  PROVE  MessageStep
<1>1. port[p] # NONE /\ Runs(t) /\ call' = call /\ Destroy(t, p, linked)
  BY Zenon DEF Close
<1>2. ~Fetching(call[t])
  BY Zenon, <1>1, RunningFetches
<1> QED BY Zenon, <1>1, <1>2, DestroyMessages

LEMMA TerminateMessages ==
  ASSUME LpcInv, ServersFetch, NEW t \in Threads, NEW u \in Threads, Terminate(t, u)
  PROVE  MessageStep
<1> DEFINE lk == IF t = u THEN linked \ {t} ELSE linked
<1>1. Runs(t) /\ call' = call /\ lk \in {linked, linked \ {t}} /\ "died" \in Types
  BY Zenon DEF Terminate, Types
<1>2. CASE diedPort[u] = NONE
  <2>1. messages' = messages /\ listeners' = listeners /\ linked' = lk
    BY Zenon, <1>2 DEF Terminate
  <2>2. \A v \in linked : Fetching(call[v]) => v \in linked'
    BY Zenon, <1>1, <2>1, RunningFetches
  <2> QED BY Zenon, <1>1, <2>1, <2>2, MessagesSame
<1>3. CASE diedPort[u] # NONE
  <2>1. /\ nextId <= MaxId
        /\ send_message(NewMessage("died", u, port[diedPort[u]].ident), lk, <<>>)
    BY Zenon, <1>3 DEF Terminate
  <2>2. port[diedPort[u]] \in PortObject
    BY Zenon, <1>3 DEF LpcInv, TypeOK, UsersIn
  <2>3. port[diedPort[u]].ident \in Ports \cup {NONE}
    BY Zenon, <2>2 DEF PortObject
  <2> HIDE DEF lk
  <2> QED BY ZenonT(40), <1>1, <2>1, <2>3, SendMessages
<1> QED BY Zenon, <1>2, <1>3

LEMMA ConnectPortMessages ==
  ASSUME LpcInv, ServersFetch, NEW t \in Threads, NEW p \in Ports, NtConnectPort(t, p)
  PROVE  MessageStep
<1>1. /\ nextId <= MaxId /\ "connect" \in Types /\ NONE \in Ports \cup {NONE}
      /\ call' = [call EXCEPT ![t] = [op |-> "connect", port |-> p, id |-> nextId]]
      /\ send_message(NewMessage("connect", t, NONE), linked \ {t}, <<>>)
  BY Zenon DEF NtConnectPort, Blocks, Types
<1>2. ~Fetching(call[t])
  BY Zenon, RunningFetches DEF NtConnectPort
<1>3. NewMessage("connect", t, NONE) \in Message
  BY Zenon, <1>1, MessageMade
<1>4. \A u \in Threads : Fetching(call[u]) => call'[u] = call[u]
  BY Zenon, <1>1, <1>2, CallOther
<1>5. linked \ {t} \subseteq linked /\ \A u \in linked : Fetching(call[u]) => u \in linked \ {t}
  BY Zenon, <1>2
<1> QED BY Zenon, <1>1, <1>3, <1>4, <1>5, MessageSent

LEMMA RequestMessages ==
  ASSUME LpcInv, ServersFetch, NEW t \in Threads, NEW p \in Ports, NtRequestWaitReplyPort(t, p)
  PROVE  MessageStep
<1> DEFINE l == [port |-> p, thread |-> t, connect |-> FALSE, id |-> nextId]
           d == port[p].ident
<1>1. /\ nextId <= MaxId /\ "request" \in Types
      /\ call' = [call EXCEPT ![t] = [op |-> "request", port |-> p, id |-> nextId]]
      /\ send_message(NewMessage("request", t, d), linked \ {t}, <<l>>)
  BY Zenon DEF NtRequestWaitReplyPort, Blocks, Types
<1>2. ~Fetching(call[t])
  BY Zenon, RunningFetches DEF NtRequestWaitReplyPort
<1>3. d \in Ports \cup {NONE}
  BY Zenon DEF LpcInv, TypeOK, NtRequestWaitReplyPort, Usable, PortObject
<1>4. l \in Listener /\ l.id # 0
  BY Zenon, <1>1, NewId DEF Listener
<1> HIDE DEF l, d
<1>5. NewMessage("request", t, d) \in Message
  BY Zenon, <1>1, <1>3, MessageMade
<1>6. \A u \in Threads : Fetching(call[u]) => call'[u] = call[u]
  BY Zenon, <1>1, <1>2, CallOther
<1>7. linked \ {t} \subseteq linked /\ \A u \in linked : Fetching(call[u]) => u \in linked \ {t}
  BY Zenon, <1>2
<1>8. <<l>> = <<>> \/ \E k \in Listener : k.id # 0 /\ <<l>> = <<k>>
  BY Zenon, <1>4
<1> QED BY Zenon, <1>1, <1>5, <1>6, <1>7, <1>8, MessageSent

LEMMA NextMessages ==
  ASSUME LpcInv, ServersFetch, Next
  PROVE  MessageStep
<1>1. Servers \subseteq Threads /\ Clients \subseteq Threads
  BY Zenon DEF Threads
<1>2. ASSUME NEW t \in Servers,
             \/ NtListenPort(t) \/ Listened(t) \/ Received(t)
             \/ \E id \in 1 .. MaxId : NtReplyPort(t, id)
             \/ \E id \in 0 .. MaxId : NtReplyWaitReceivePort(t, id)
      PROVE  MessageStep
  BY Zenon, <1>1, <1>2, ListenMessages, ListenedMessages, ReceivedMessages, ReplyMessages
<1>3. ASSUME NEW t \in Servers,
             \/ \E c \in Clients, id \in 1 .. MaxId : Refuse(t, c, id) \/ AcceptFails(t, c, id)
                                                      \/ \E q \in Ports : Accept(t, c, id, q)
             \/ \E q \in Ports : NtCompleteConnectPort(t, q)
      PROVE  MessageStep
  BY Zenon, <1>1, <1>3, ConnectMessages, AcceptFailsMessages
<1>4. ASSUME NEW t \in Clients,
             \/ Connected(t) \/ Requested(t)
             \/ \E p \in Ports : \/ NtConnectPort(t, p) \/ NtRegisterThreadTerminatePort(t, p)
                                 \/ NtRequestWaitReplyPort(t, p) \/ NtRequestPort(t, p)
      PROVE  MessageStep
  BY Zenon, <1>1, <1>4, EndMessages, ConnectMessages, ConnectPortMessages, RequestMessages,
     RequestPortMessages
<1>5. ASSUME NEW t \in Threads, \/ DeadReturns(t) \/ (\E p \in Ports : Close(t, p))
                               \/ (\E u \in Threads : Terminate(t, u))
      PROVE  MessageStep
  BY Zenon, <1>5, EndMessages, CloseMessages, TerminateMessages
<1> QED BY Zenon, <1>2, <1>3, <1>4, <1>5 DEF Next

(* Only a server begins to fetch messages.                                 *)
LEMMA NextServers ==
  ASSUME LpcInv, ServersFetch, [Next]_vars, Killable \cap Servers = {}
  PROVE  ServersFetch'
<1>1. CASE call' = call /\ dead' = dead
  BY Zenon, <1>1 DEF ServersFetch
<1>2. ASSUME NEW u \in Killable, call' = call, dead' = dead \cup {u}
      PROVE  ServersFetch'
  BY Zenon, <1>2 DEF ServersFetch
<1>3. ASSUME NEW t \in Threads, NEW r, t \in Servers \/ ~Fetching(r),
             call' = [call EXCEPT ![t] = r], dead' = dead
      PROVE  ServersFetch'
  <2>1. call'[t] = r /\ \A u \in Threads \ {t} : call'[u] = call[u]
    BY Zenon, <1>3 DEF LpcInv, TypeOK
  <2> QED BY Zenon, <1>3, <2>1 DEF ServersFetch
<1>4. ~Fetching(Idle)
  BY SMTT(20) DEF Fetching, Idle
<1>5. \A p, id : /\ ~Fetching([op |-> "connect", port |-> p, id |-> id])
                 /\ ~Fetching([op |-> "request", port |-> p, id |-> id])
  BY SMTT(20) DEF Fetching
<1>6. Servers \subseteq Threads /\ Clients \subseteq Threads
  BY Zenon DEF Threads
<1>7. ASSUME NEW t \in Servers,
             \/ NtListenPort(t) \/ Listened(t) \/ Received(t)
             \/ \E id \in 1 .. MaxId : NtReplyPort(t, id)
             \/ \E id \in 0 .. MaxId : NtReplyWaitReceivePort(t, id)
      PROVE  ServersFetch'
  <2>1. \/ call' = call /\ dead' = dead
        \/ \E r : call' = [call EXCEPT ![t] = r] /\ dead' = dead
    BY Zenon, <1>7 DEF NtListenPort, Listened, Received, NtReplyPort, NtReplyWaitReceivePort,
       Receive, Blocks, Returns
  <2> QED BY Zenon, <1>1, <1>3, <1>6, <2>1
<1>8. ASSUME NEW t \in Servers,
             \/ \E c \in Clients, id \in 1 .. MaxId : Refuse(t, c, id) \/ AcceptFails(t, c, id)
                                                      \/ \E q \in Ports : Accept(t, c, id, q)
             \/ \E q \in Ports : NtCompleteConnectPort(t, q)
      PROVE  ServersFetch'
  BY Zenon, <1>1, <1>8 DEF Refuse, AcceptFails, Accept, NtCompleteConnectPort
<1>9. ASSUME NEW t \in Threads,
             \/ Connected(t) \/ Requested(t) \/ DeadReturns(t)
             \/ \E p \in Ports : NtConnectPort(t, p) \/ NtRequestWaitReplyPort(t, p)
      PROVE  ServersFetch'
  <2>1. CASE Connected(t) \/ Requested(t) \/ DeadReturns(t)
    <3>1. call' = [call EXCEPT ![t] = Idle] /\ dead' = dead
      BY Zenon, <2>1 DEF Connected, Requested, DeadReturns, Returns
    <3> QED BY Zenon, <1>3, <1>4, <3>1
  <2>2. ASSUME NEW p \in Ports, NtConnectPort(t, p) \/ NtRequestWaitReplyPort(t, p)
        PROVE  ServersFetch'
    <3>1. /\ \/ call' = [call EXCEPT ![t] = [op |-> "connect", port |-> p, id |-> nextId]]
             \/ call' = [call EXCEPT ![t] = [op |-> "request", port |-> p, id |-> nextId]]
          /\ dead' = dead
      BY Zenon, <2>2 DEF NtConnectPort, NtRequestWaitReplyPort, Blocks
    <3> QED BY Zenon, <1>3, <1>5, <3>1
  <2> QED BY Zenon, <1>9, <2>1, <2>2
<1>10. ASSUME NEW t \in Threads, NEW p \in Ports,
              NtRegisterThreadTerminatePort(t, p) \/ NtRequestPort(t, p) \/ Close(t, p)
       PROVE  ServersFetch'
  BY Zenon, <1>1, <1>10 DEF NtRegisterThreadTerminatePort, NtRequestPort, Close
<1>11. ASSUME NEW t \in Threads, NEW u \in Threads, Terminate(t, u)
       PROVE  ServersFetch'
  BY Zenon, <1>2, <1>11 DEF Terminate
<1>12. CASE UNCHANGED vars
  BY Zenon, <1>1, <1>12 DEF vars
<1> QED BY Zenon, <1>6, <1>7, <1>8, <1>9, <1>10, <1>11, <1>12 DEF Next

(* The kernel runs until something stops it.                               *)
LEMMA NextRuns == Next => failed = "none"
<1>1. ASSUME NEW t, NEW id, NtListenPort(t) \/ Listened(t) \/ Received(t) \/ NtReplyPort(t, id)
                            \/ NtReplyWaitReceivePort(t, id) \/ Connected(t) \/ Requested(t)
      PROVE  failed = "none"
  BY Zenon, <1>1 DEF NtListenPort, Listened, Received, NtReplyPort, NtReplyWaitReceivePort,
     Connected, Requested, Runs, Resumes
<1>2. ASSUME NEW t, NEW c, NEW id, NEW q, \/ Refuse(t, c, id) \/ AcceptFails(t, c, id)
                                          \/ Accept(t, c, id, q) \/ NtCompleteConnectPort(t, q)
      PROVE  failed = "none"
  BY Zenon, <1>2 DEF Refuse, AcceptFails, Accept, NtCompleteConnectPort, Runs
<1>3. ASSUME NEW t, NEW p, \/ NtConnectPort(t, p) \/ NtRegisterThreadTerminatePort(t, p)
                           \/ NtRequestWaitReplyPort(t, p) \/ NtRequestPort(t, p) \/ Close(t, p)
      PROVE  failed = "none"
  BY Zenon, <1>3 DEF NtConnectPort, NtRegisterThreadTerminatePort, NtRequestWaitReplyPort,
     NtRequestPort, Close, Runs
<1>4. ASSUME NEW t, NEW u, DeadReturns(t) \/ Terminate(t, u)
      PROVE  failed = "none"
  BY Zenon, <1>4 DEF DeadReturns, Terminate, Runs
<1> QED BY Zenon, <1>1, <1>2, <1>3, <1>4 DEF Next

INSTANCE FiniteSetTheorems

LEMMA FetchCount ==
  ASSUME NEW S, IsFiniteSet(S), NEW W \in SUBSET S, NEW W2 \in SUBSET S,
         NEW n \in Nat, NEW n2 \in Nat, n <= Cardinality(W), Fetch(W, n, W2, n2)
  PROVE  n2 <= Cardinality(W2)
<1>1. IsFiniteSet(W) /\ IsFiniteSet(W2)
  BY Zenon, FS_Subset
<1>2. Cardinality(W) \in Nat /\ Cardinality(W2) \in Nat
  BY Zenon, <1>1, FS_CardinalityType
<1>3. CASE W \subseteq W2 /\ n2 <= n
  <2>1. Cardinality(W) <= Cardinality(W2)
    BY Zenon, <1>1, <1>3, FS_Subset
  <2> QED BY SMTT(20), <1>2, <1>3, <2>1
<1>4. ASSUME NEW t \in W, W \ {t} \subseteq W2, n2 < n
      PROVE  n2 <= Cardinality(W2)
  <2>1. Cardinality(W \ {t}) = Cardinality(W) - 1
    BY Zenon, <1>1, <1>4, FS_RemoveElement
  <2>2. Cardinality(W \ {t}) <= Cardinality(W2)
    BY Zenon, <1>1, <1>4, FS_Subset
  <2> QED BY SMTT(20), <1>2, <1>4, <2>1, <2>2
<1>5. ASSUME NEW t \in W2, t \notin W, W \subseteq W2, n2 = n + 1
      PROVE  n2 <= Cardinality(W2)
  <2>1. Cardinality(W \cup {t}) = Cardinality(W) + 1
    BY Zenon, <1>1, <1>5, FS_AddElement
  <2>2. Cardinality(W \cup {t}) <= Cardinality(W2)
    BY Zenon, <1>1, <1>5, FS_Subset
  <2> QED BY SMTT(20), <1>2, <1>5, <2>1, <2>2
<1> QED BY Zenon, <1>3, <1>4, <1>5 DEF Fetch

LEMMA MessageInvStep ==
  ASSUME MessageInv, [Next]_vars, Killable \cap Servers = {}, IsFiniteSet(Servers)
  PROVE  MessageInv'
<1>1. LpcInv /\ ServersFetch /\ LpcInv' /\ ServersFetch'
  BY Zenon, NextInv, NextServers DEF MessageInv
<1>2. CASE UNCHANGED vars
  BY Zenon, <1>1, <1>2 DEF MessageInv, NoMessageForgotten, Woken, vars
<1>3. CASE Next
  <2>1. /\ messages \in Seq(Message) /\ messages' \in Seq(Message)
        /\ linked \subseteq Threads /\ linked' \subseteq Threads
    BY Zenon, <1>1 DEF LpcInv, TypeOK
  <2>2. Woken \in SUBSET Servers /\ Woken' \in SUBSET Servers
    BY Zenon, <1>1, <2>1 DEF Woken, Fetching, ServersFetch
  <2>3. Len(messages) \in Nat /\ Len(messages') \in Nat /\ (messages' = <<>> => Len(messages') = 0)
    BY SMTT(20), <2>1
  <2>4. SUFFICES ASSUME failed' = "none", Asleep(listeners')
                 PROVE  Len(messages') <= Cardinality(Woken')
    BY Zenon, <1>1 DEF MessageInv, NoMessageForgotten, Asleep
  <2>5. CASE messages' = <<>>
    <3>1. Cardinality(Woken') \in Nat
      BY Zenon, <2>2, FS_Subset, FS_CardinalityType
    <3> QED BY SMTT(20), <2>3, <2>5, <3>1
  <2>6. CASE messages' # <<>>
    <3>1. Asleep(listeners) /\ Fetch(Woken, Len(messages), Woken', Len(messages'))
      BY Zenon, <1>1, <1>3, <2>4, <2>6, NextMessages DEF MessageStep
    <3>2. failed = "none"
      BY Zenon, <1>3, NextRuns
    <3>3. Len(messages) <= Cardinality(Woken)
      BY Zenon, <3>1, <3>2 DEF MessageInv, NoMessageForgotten, Asleep
    <3> QED BY Zenon, <2>2, <2>3, <3>1, <3>3, FetchCount
  <2> QED BY Zenon, <2>5, <2>6
<1> QED BY Zenon, <1>2, <1>3

(* While a thread is asleep in NtReplyWaitReceivePort, send_message has    *)
(* started a thread for every message in the queue, for any number of      *)
(* servers that are not terminated and whatever the clients do: a started  *)
(* thread that finds its message taken has left it to another.             *)
THEOREM MessagesAreFetched ==
  ASSUME Killable \cap Servers = {}, IsFiniteSet(Servers)
  PROVE  Spec => []NoMessageForgotten
<1>1. Init => MessageInv
  <2> SUFFICES ASSUME Init PROVE MessageInv
    BY SMTT(20)
  <2>1. LpcInv
    BY Zenon, InitInv
  <2>2. ServersFetch
    BY SMTT(20) DEF Init, ServersFetch, Fetching, Idle
  <2>3. NoMessageForgotten
    BY SMTT(20) DEF Init, NoMessageForgotten
  <2> QED BY Zenon, <2>1, <2>2, <2>3 DEF MessageInv
<1>2. MessageInv /\ [Next]_vars => MessageInv'
  BY Zenon, MessageInvStep
<1>3. MessageInv => NoMessageForgotten
  BY Zenon DEF MessageInv
<1> QED BY <1>1, <1>2, <1>3, PTL DEF Spec
=============================================================================
