-------------------------- MODULE CompletionProof ---------------------------
(***************************************************************************)
(* Proofs about module Completion: no packet and no waiter of an I/O       *)
(* completion port is lost or doubled, for any number of threads, ports    *)
(* and packets.                                                            *)
(*                                                                         *)
(* The invariants speak of three structures: the packets, the waiters and  *)
(* the listed ports.  Each is given here a predicate over its parts, so    *)
(* that a lemma can say what one list operation does to it, whatever the   *)
(* system call that performs it.                                           *)
(***************************************************************************)
EXTENDS Completion, TLAPS

PacketsIn(q, g, n) ==
  /\ \A p \in Ports : Distinct(q[p])
  /\ \A p1, p2 \in Ports : p1 # p2 => Elems(q[p1]) \cap Elems(q[p2]) = {}
  /\ \A p \in Ports, t \in Threads : g[t] \notin Elems(q[p])
  /\ \A t, u \in Threads : g[t] = g[u] /\ t # u => g[t] = NONE
  /\ \A k \in Packets : k \in n <=> \/ \E p \in Ports : k \in Elems(q[p])
                                    \/ \E t \in Threads : g[t] = k

WaitersIn(w, wo, g, st, ln) ==
  /\ \A p \in Ports, t \in Threads : t \in Elems(w[p]) <=> wo[t] = p /\ g[t] = NONE
  /\ \A p \in Ports : Distinct(w[p])
  /\ \A t \in Threads : /\ wo[t] # NONE => st[t] # "Running"
                        /\ wo[t] # NONE /\ t \in ln => g[t] # NONE
                        /\ wo[t] = NONE => g[t] = NONE

PortsIn(id, w) == /\ Distinct(id)
                  /\ \A p \in Elems(id) : w[p] # <<>>

WorkIn(q, w, id, op) ==
  \A p \in op : q[p] # <<>> /\ w[p] # <<>> => p \in Elems(id)

(* The inductive invariant.                                                *)
CompletionInv == /\ TypeOK
                 /\ PacketInOnePlace
                 /\ WaiterIsBlocked
                 /\ ListedPortHasWaiter
                 /\ WorkIsListed

-----------------------------------------------------------------------------
(* Packets *)

(* set puts a new packet at the end of one queue.                          *)
LEMMA PacketQueued ==
  ASSUME NEW q \in [Ports -> Seq(Packets)], NEW g \in [Threads -> Packets \cup {NONE}],
         NEW n \in SUBSET Packets, PacketsIn(q, g, n),
         NEW p \in Ports, NEW k \in Packets, k \notin n
  PROVE  PacketsIn([q EXCEPT ![p] = Append(@, k)], g, n \cup {k})
<1> DEFINE r == [q EXCEPT ![p] = Append(@, k)]
<1>1. r[p] = Append(q[p], k) /\ \A o \in Ports \ {p} : r[o] = q[o]
  BY Zenon
<1> HIDE DEF r
<1>2. /\ \A o \in Ports : k \notin Elems(q[o])
      /\ \A t \in Threads : g[t] # k
  BY Zenon DEF PacketsIn
<1>3. Elems(r[p]) = Elems(q[p]) \cup {k} /\ Distinct(r[p])
  BY <1>1, <1>2, AppendElems DEF PacketsIn
<1> QED BY SMTT(20), <1>1, <1>2, <1>3 DEF PacketsIn, r

(* start_waiter moves the first packet of a queue into a hand that is      *)
(* empty.                                                                  *)
LEMMA PacketHanded ==
  ASSUME NEW q \in [Ports -> Seq(Packets)], NEW g \in [Threads -> Packets \cup {NONE}],
         NEW n \in SUBSET Packets, PacketsIn(q, g, n),
         NEW p \in Ports, q[p] # <<>>, NEW t \in Threads, g[t] = NONE
  PROVE  PacketsIn([q EXCEPT ![p] = Tail(@)], [g EXCEPT ![t] = Head(q[p])], n)
<1> DEFINE r == [q EXCEPT ![p] = Tail(@)]
           k == Head(q[p])
           h == [g EXCEPT ![t] = k]
<1>1. r[p] = Tail(q[p]) /\ \A o \in Ports \ {p} : r[o] = q[o]
  BY Zenon
<1>2. h[t] = k /\ \A u \in Threads \ {t} : h[u] = g[u]
  BY Zenon
<1>3. /\ k \in Packets /\ k \in Elems(q[p])
      /\ Elems(r[p]) = Elems(q[p]) \ {k} /\ Distinct(r[p])
  BY <1>1, TailElems DEF PacketsIn
<1> HIDE DEF r, h, k
<1>4. k # NONE
  BY Zenon, <1>3, CompletionAssumption
<1>5. /\ \A o \in Ports \ {p} : k \notin Elems(q[o])
      /\ \A u \in Threads : g[u] # k
  BY <1>3 DEF PacketsIn
<1>6. /\ \A o \in Ports : Distinct(r[o])
      /\ \A p1, p2 \in Ports : p1 # p2 => Elems(r[p1]) \cap Elems(r[p2]) = {}
  BY ZenonT(40), <1>1, <1>3 DEF PacketsIn
<1>7. \A o \in Ports : k \notin Elems(r[o]) /\ Elems(r[o]) \subseteq Elems(q[o])
  BY Zenon, <1>1, <1>3, <1>5
<1>8. /\ \A o \in Ports, u \in Threads : h[u] \notin Elems(r[o])
      /\ \A u, v \in Threads : h[u] = h[v] /\ u # v => h[u] = NONE
  BY <1>2, <1>5, <1>7 DEF PacketsIn
<1>9. ASSUME NEW j \in Packets
      PROVE  j \in n <=> \/ \E o \in Ports : j \in Elems(r[o])
                        \/ \E u \in Threads : h[u] = j
  <2>1. CASE j = k
    BY Zenon, <2>1, <1>2, <1>3 DEF PacketsIn
  <2>2. CASE j # k
    <3>1. \A o \in Ports : j \in Elems(r[o]) <=> j \in Elems(q[o])
      BY Zenon, <2>2, <1>1, <1>3
    <3>2. \A u \in Threads : h[u] = j <=> g[u] = j
      BY Zenon, <2>2, <1>2, CompletionAssumption
    <3> QED BY Zenon, <3>1, <3>2 DEF PacketsIn
  <2> QED BY Zenon, <2>1, <2>2
<1>10. PacketsIn(r, h, n)
  BY Zenon, <1>6, <1>8, <1>9 DEF PacketsIn
<1> QED BY Zenon, <1>10 DEF r, h, k

(* remove takes the first packet of a queue and deletes it.                *)
LEMMA PacketTaken ==
  ASSUME NEW q \in [Ports -> Seq(Packets)], NEW g \in [Threads -> Packets \cup {NONE}],
         NEW n \in SUBSET Packets, PacketsIn(q, g, n),
         NEW p \in Ports, q[p] # <<>>
  PROVE  PacketsIn([q EXCEPT ![p] = Tail(@)], g, n \ {Head(q[p])})
<1> DEFINE r == [q EXCEPT ![p] = Tail(@)]
           k == Head(q[p])
<1>1. r[p] = Tail(q[p]) /\ \A o \in Ports \ {p} : r[o] = q[o]
  BY Zenon
<1>2. /\ k \in Packets /\ k \in Elems(q[p])
      /\ Elems(r[p]) = Elems(q[p]) \ {k} /\ Distinct(r[p])
  BY Zenon, <1>1, TailElems DEF PacketsIn
<1> HIDE DEF r, k
<1>3. /\ \A o \in Ports \ {p} : k \notin Elems(q[o])
      /\ \A u \in Threads : g[u] # k
  BY <1>2 DEF PacketsIn
<1>4. \A j \in Packets, o \in Ports : j \in Elems(r[o]) <=> j \in Elems(q[o]) /\ j # k
  BY Zenon, <1>1, <1>2, <1>3
<1>5. \A o \in Ports : Distinct(r[o]) /\ Elems(r[o]) \subseteq Elems(q[o])
  BY Zenon, <1>1, <1>2 DEF PacketsIn
<1>6. /\ \A p1, p2 \in Ports : p1 # p2 => Elems(r[p1]) \cap Elems(r[p2]) = {}
      /\ \A o \in Ports, t \in Threads : g[t] \notin Elems(r[o])
  BY ZenonT(40), <1>5 DEF PacketsIn
<1>7. PacketsIn(r, g, n \ {k})
  BY Zenon, <1>3, <1>4, <1>5, <1>6 DEF PacketsIn
<1> QED BY Zenon, <1>7 DEF r, k

(* remove, or the end of the thread, deletes the packet that was handed    *)
(* over.                                                                   *)
LEMMA PacketDeleted ==
  ASSUME NEW q \in [Ports -> Seq(Packets)], NEW g \in [Threads -> Packets \cup {NONE}],
         NEW n \in SUBSET Packets, PacketsIn(q, g, n), NEW t \in Threads
  PROVE  PacketsIn(q, [g EXCEPT ![t] = NONE], n \ {g[t]})
<1> DEFINE h == [g EXCEPT ![t] = NONE]
<1>1. h[t] = NONE /\ \A u \in Threads \ {t} : h[u] = g[u]
  BY Zenon
<1> HIDE DEF h
<1>2. \A o \in Ports : NONE \notin Elems(q[o])
  BY CompletionAssumption DEF Elems
<1>3. \A k \in Packets : (\E u \in Threads : h[u] = k) <=> (\E u \in Threads : g[u] = k) /\ k # g[t]
  BY <1>1, CompletionAssumption DEF PacketsIn
<1>4. PacketsIn(q, h, n \ {g[t]})
  BY <1>1, <1>2, <1>3 DEF PacketsIn
<1> QED BY Zenon, <1>4 DEF h

-----------------------------------------------------------------------------
(* Waiters *)

(* completion_waiter_t::stop: a running thread joins a list and stops.     *)
LEMMA WaiterJoins ==
  ASSUME NEW w \in [Ports -> Seq(Threads)], NEW wo \in [Threads -> Ports \cup {NONE}],
         NEW g \in [Threads -> Packets \cup {NONE}],
         NEW st \in [Threads -> {"Running", "Wait", "Terminated"}],
         NEW ln \in SUBSET Threads, WaitersIn(w, wo, g, st, ln),
         NEW t \in Threads, st[t] = "Running", NEW p \in Ports
  PROVE  WaitersIn([w EXCEPT ![p] = Append(@, t)], [wo EXCEPT ![t] = p], g,
                   [st EXCEPT ![t] = "Wait"], ln \ {t})
<1> DEFINE r == [w EXCEPT ![p] = Append(@, t)]
           wp == [wo EXCEPT ![t] = p]
           sp == [st EXCEPT ![t] = "Wait"]
<1>1. /\ r[p] = Append(w[p], t) /\ \A o \in Ports \ {p} : r[o] = w[o]
      /\ wp[t] = p /\ \A u \in Threads \ {t} : wp[u] = wo[u]
      /\ sp[t] = "Wait" /\ \A u \in Threads \ {t} : sp[u] = st[u]
  BY Zenon
<1> HIDE DEF r, wp, sp
<1>2. wo[t] = NONE /\ g[t] = NONE
  BY Zenon DEF WaitersIn
<1>3. \A o \in Ports : t \notin Elems(w[o])
  BY <1>2, CompletionAssumption DEF WaitersIn
<1>4. Elems(r[p]) = Elems(w[p]) \cup {t} /\ Distinct(r[p])
  BY <1>1, <1>3, AppendElems DEF WaitersIn
<1>5. ASSUME NEW o \in Ports, NEW u \in Threads
      PROVE  u \in Elems(r[o]) <=> wp[u] = o /\ g[u] = NONE
  <2>1. CASE u = t
    BY Zenon, <2>1, <1>1, <1>2, <1>3, <1>4
  <2>2. CASE u # t
    <3>1. u \in Elems(r[o]) <=> u \in Elems(w[o])
      BY Zenon, <2>2, <1>1, <1>4
    <3> QED BY <3>1, <2>2, <1>1 DEF WaitersIn
  <2> QED BY Zenon, <2>1, <2>2
<1>6. \A o \in Ports : Distinct(r[o])
  BY Zenon, <1>1, <1>4 DEF WaitersIn
<1>7. ASSUME NEW u \in Threads
      PROVE  /\ wp[u] # NONE => sp[u] # "Running"
             /\ wp[u] # NONE /\ u \in ln \ {t} => g[u] # NONE
             /\ wp[u] = NONE => g[u] = NONE
  <2>1. CASE u = t
    BY Zenon, <2>1, <1>1, <1>2
  <2>2. CASE u # t
    BY Zenon, <2>2, <1>1 DEF WaitersIn
  <2> QED BY Zenon, <2>1, <2>2
<1>8. WaitersIn(r, wp, g, sp, ln \ {t})
  BY Zenon, <1>5, <1>6, <1>7 DEF WaitersIn
<1> QED BY Zenon, <1>8 DEF r, wp, sp

(* start_waiter gives the first waiter of a port a packet and starts it,   *)
(* or does not if it has been terminated.                                  *)
LEMMA WaiterServedKeeps ==
  ASSUME NEW w, NEW wo, NEW g, NEW st, NEW ln, WaitersIn(w, wo, g, st, ln),
         NEW p \in Ports, NEW t \in Threads, t \in Elems(w[p]),
         NEW r, Elems(r[p]) = Elems(w[p]) \ {t}, Distinct(r[p]),
         \A o \in Ports \ {p} : r[o] = w[o],
         NEW h, h[t] # NONE, \A u \in Threads \ {t} : h[u] = g[u],
         NEW l2, l2 \subseteq ln \cup {t}
  PROVE  WaitersIn(r, wo, h, st, l2)
<1>1. \A o \in Ports \ {p} : r[o] = w[o]
  BY Zenon
<1>2. /\ t \in Threads /\ t \in Elems(w[p])
      /\ Elems(r[p]) = Elems(w[p]) \ {t} /\ Distinct(r[p])
  BY Zenon
<1>3. h[t] # NONE /\ \A u \in Threads \ {t} : h[u] = g[u]
  BY Zenon
<1>4. wo[t] = p /\ g[t] = NONE
  BY Zenon, <1>2 DEF WaitersIn
<1>5. \A o \in Ports \ {p} : t \notin Elems(w[o])
  BY Zenon, <1>2, <1>4 DEF WaitersIn
<1>6. ASSUME NEW o \in Ports, NEW u \in Threads
      PROVE  u \in Elems(r[o]) <=> wo[u] = o /\ h[u] = NONE
  <2>1. CASE u = t
    BY Zenon, <2>1, <1>1, <1>2, <1>3, <1>4, <1>5
  <2>2. CASE u # t
    <3>1. u \in Elems(r[o]) <=> u \in Elems(w[o])
      BY Zenon, <2>2, <1>1, <1>2
    <3> QED BY Zenon, <3>1, <2>2, <1>3 DEF WaitersIn
  <2> QED BY Zenon, <2>1, <2>2
<1>7. \A o \in Ports : Distinct(r[o])
  BY Zenon, <1>1, <1>2 DEF WaitersIn
<1>8. \A u \in Threads : u \in l2 => u \in ln \/ u = t
  BY Zenon
<1>9. ASSUME NEW u \in Threads
      PROVE  /\ wo[u] # NONE => st[u] # "Running"
             /\ wo[u] # NONE /\ u \in l2 => h[u] # NONE
             /\ wo[u] = NONE => h[u] = NONE
  <2>1. CASE u = t
    BY Zenon, <2>1, <1>3, <1>4, CompletionAssumption DEF WaitersIn
  <2>2. CASE u # t
    BY Zenon, <2>2, <1>3, <1>8 DEF WaitersIn
  <2> QED BY Zenon, <2>1, <2>2
<1>10. WaitersIn(r, wo, h, st, l2)
  BY Zenon, <1>6, <1>7, <1>9 DEF WaitersIn
<1> QED BY Zenon, <1>10

(* A thread whose fiber runs again, and is in remove(), has left the list. *)
LEMMA WaiterLeaves ==
  ASSUME NEW w \in [Ports -> Seq(Threads)], NEW wo \in [Threads -> Ports \cup {NONE}],
         NEW g \in [Threads -> Packets \cup {NONE}],
         NEW st \in [Threads -> {"Running", "Wait", "Terminated"}],
         NEW ln \in SUBSET Threads, WaitersIn(w, wo, g, st, ln),
         NEW t \in ln, NEW l2 \in SUBSET ln, NEW x
  PROVE  WaitersIn(w, [wo EXCEPT ![t] = NONE], [g EXCEPT ![t] = NONE],
                   [st EXCEPT ![t] = x], l2)
<1> DEFINE wp == [wo EXCEPT ![t] = NONE]
           h == [g EXCEPT ![t] = NONE]
           sp == [st EXCEPT ![t] = x]
<1>1. /\ wp[t] = NONE /\ \A u \in Threads \ {t} : wp[u] = wo[u]
      /\ h[t] = NONE /\ \A u \in Threads \ {t} : h[u] = g[u]
      /\ \A u \in Threads \ {t} : sp[u] = st[u]
  BY Zenon
<1> HIDE DEF wp, h, sp
<1>2. \A o \in Ports : t \notin Elems(w[o])
  BY CompletionAssumption DEF WaitersIn
<1>3. WaitersIn(w, wp, h, sp, l2)
  BY SMTT(20), <1>1, <1>2, CompletionAssumption DEF WaitersIn
<1> QED BY Zenon, <1>3 DEF wp, h, sp

-----------------------------------------------------------------------------
(* Listed ports *)

(* A port that is unlinked with its last waiter leaves the others listed.  *)
LEMMA PortUnlisted ==
  ASSUME NEW id \in Seq(Ports), NEW w \in [Ports -> Seq(Threads)], PortsIn(id, w),
         NEW p \in Ports, NEW left, left = Tail(w[p]),
         NEW r, r[p] = left, \A o \in Ports \ {p} : r[o] = w[o]
  PROVE  /\ Unlisted(p, left, id) \in Seq(Ports)
         /\ PortsIn(Unlisted(p, left, id), r)
         /\ \A o \in Ports : o \in Elems(id) =>
              o \in Elems(Unlisted(p, left, id)) \/ (o = p /\ left = <<>>)
<1>1. r[p] = left /\ \A o \in Ports \ {p} : r[o] = w[o]
  BY Zenon
<1>2. \A o \in Elems(id) : o \in Ports
  BY DEF Elems
<1>3. CASE left = <<>>
  <2>1. Unlisted(p, left, id) = Without(id, p)
    BY Zenon, <1>3 DEF Unlisted
  <2>2. /\ Without(id, p) \in Seq(Ports) /\ Distinct(Without(id, p))
        /\ Elems(Without(id, p)) = Elems(id) \ {p}
    BY Zenon, WithoutElems DEF PortsIn
  <2> QED BY Zenon, <1>1, <1>2, <1>3, <2>1, <2>2 DEF PortsIn
<1>4. CASE left # <<>>
  <2>1. Unlisted(p, left, id) = id
    BY Zenon, <1>4 DEF Unlisted
  <2> QED BY Zenon, <1>1, <1>2, <1>4, <2>1 DEF PortsIn
<1> QED BY Zenon, <1>3, <1>4

-----------------------------------------------------------------------------
(* The steps that several system calls share *)

(* The lists of completion.cpp are well formed and agree with one another, *)
(* when g and wo are what the threads hold and wait for, st their states,  *)
(* n the allocated packets, q and w the lists of the ports, id the listed  *)
(* ports and ln the run list.                                              *)
Consistent(st, ln, wo, g, q, w, id, n) ==
  /\ st \in [Threads -> {"Running", "Wait", "Terminated"}]
  /\ ln \in SUBSET Threads
  /\ wo \in [Threads -> Ports \cup {NONE}]
  /\ g \in [Threads -> Packets \cup {NONE}]
  /\ q \in [Ports -> Seq(Packets)]
  /\ w \in [Ports -> Seq(Threads)]
  /\ id \in Seq(Ports)
  /\ n \in SUBSET Packets
  /\ PacketsIn(q, g, n)
  /\ WaitersIn(w, wo, g, st, ln)
  /\ PortsIn(id, w)

(* start_waiter keeps every list consistent, whether or not there is a     *)
(* packet for the waiter.                                                  *)
LEMMA StartWaiterKeeps ==
  ASSUME NEW p \in Ports, NEW qs, NEW ws, NEW ids, NEW run, NEW n, NEW wo, NEW st, NEW op
  PROVE  /\ Consistent(st, run, wo, got, qs, ws, ids, n) /\ op \subseteq Ports
         /\ WorkIn(qs, ws, ids, op \ {p})
         /\ p \in Elems(ids) \/ qs[p] = <<>> \/ Tail(qs[p]) = <<>>
         /\ ws[p] # <<>> /\ start_waiter(p, qs, ws, ids, run)
         => /\ Consistent(st, linked', wo, got', queue', waiters', idle', n)
            /\ WorkIn(queue', waiters', idle', op)
            /\ failed' \in {"none", "packet"}
<1>a. SUFFICES ASSUME Consistent(st, run, wo, got, qs, ws, ids, n), op \subseteq Ports,
                      WorkIn(qs, ws, ids, op \ {p}),
                      p \in Elems(ids) \/ qs[p] = <<>> \/ Tail(qs[p]) = <<>>,
                      ws[p] # <<>>, start_waiter(p, qs, ws, ids, run)
               PROVE  /\ Consistent(st, linked', wo, got', queue', waiters', idle', n)
                      /\ WorkIn(queue', waiters', idle', op)
                      /\ failed' \in {"none", "packet"}
  BY Zenon
<1>b. ws[p] # <<>>
  BY Zenon, <1>a
<1>1. CASE qs[p] = <<>>
  <2>1. /\ linked' = run /\ got' = got /\ queue' = qs /\ waiters' = ws /\ idle' = ids
        /\ failed' = "packet"
    BY Zenon, <1>a, <1>1 DEF start_waiter
  <2> QED BY Zenon, <1>a, <1>1, <2>1 DEF WorkIn
<1>2. CASE qs[p] # <<>>
  <2>6. PICK t, k, left : t = Head(ws[p]) /\ k = Head(qs[p]) /\ left = Tail(ws[p])
    BY Zenon
  <2>1. /\ queue' = [qs EXCEPT ![p] = Tail(@)]
        /\ got' = [got EXCEPT ![t] = k]
        /\ waiters' = [ws EXCEPT ![p] = Tail(@)]
        /\ idle' = Unlisted(p, left, ids)
        /\ linked' = run \cup {t}
        /\ failed' = "none"
    BY Zenon, <1>a, <1>2, <2>6 DEF start_waiter
  <2>2. /\ ws \in [Ports -> Seq(Threads)] /\ wo \in [Threads -> Ports \cup {NONE}]
        /\ got \in [Threads -> Packets \cup {NONE}] /\ run \in SUBSET Threads
        /\ st \in [Threads -> {"Running", "Wait", "Terminated"}]
        /\ WaitersIn(ws, wo, got, st, run)
    BY Zenon, <1>a DEF Consistent
  <2>3. qs \in [Ports -> Seq(Packets)] /\ n \in SUBSET Packets /\ PacketsIn(qs, got, n)
    BY Zenon, <1>a DEF Consistent
  <2>4. ids \in Seq(Ports) /\ PortsIn(ids, ws)
    BY Zenon, <1>a DEF Consistent
  <2>5. /\ k \in Packets /\ Tail(qs[p]) \in Seq(Packets)
        /\ t \in Threads /\ left \in Seq(Threads)
    BY Zenon, <1>b, <1>2, <2>2, <2>3, <2>6, TailElems
  <2>7. linked' \in SUBSET Threads /\ linked' \subseteq run \cup {t}
    BY Zenon, <2>1, <2>2, <2>5
  <2>8. waiters'[p] = left /\ \A o \in Ports \ {p} : waiters'[o] = ws[o]
    BY Zenon, <2>1, <2>2, <2>6
  <2>9. queue'[p] = Tail(qs[p]) /\ \A o \in Ports \ {p} : queue'[o] = qs[o]
    BY Zenon, <2>1, <2>3
  <2>10. got[t] = NONE /\ WaitersIn(waiters', wo, got', st, linked')
    <3>1. got'[t] = k /\ \A u \in Threads \ {t} : got'[u] = got[u]
      BY Zenon, <2>1, <2>2, <2>5
    <3>2. /\ t \in Elems(ws[p]) /\ Distinct(waiters'[p])
          /\ Elems(waiters'[p]) = Elems(ws[p]) \ {t}
      <4>1. Distinct(ws[p])
        BY Zenon, <2>2 DEF WaitersIn
      <4> QED BY <1>b, <2>2, <2>6, <2>8, <4>1, TailElems
    <3>3. got[t] = NONE
      BY Zenon, <2>2, <2>5, <3>2 DEF WaitersIn
    <3>4. WaitersIn(waiters', wo, got', st, linked')
      <4>1. WaitersIn(ws, wo, got, st, run) /\ t \in Threads /\ got'[t] # NONE
        BY Zenon, <2>2, <2>5, <3>1, CompletionAssumption
      <4> QED BY <2>7, <2>8, <3>1, <3>2, <4>1, WaiterServedKeeps
    <3> QED BY Zenon, <3>3, <3>4
  <2>11. PacketsIn(queue', got', n)
    BY Zenon, <1>2, <2>1, <2>2, <2>3, <2>5, <2>6, <2>10, PacketHanded
  <2>u. /\ idle' \in Seq(Ports) /\ PortsIn(idle', waiters')
        /\ \A o \in Ports : o \in Elems(ids) => o \in Elems(idle') \/ (o = p /\ left = <<>>)
    <3>1. idle' = Unlisted(p, left, ids)
      BY Zenon, <2>1
    <3> QED BY Zenon, <2>2, <2>4, <2>6, <2>8, <3>1, PortUnlisted
  <2>12. /\ queue' \in [Ports -> Seq(Packets)] /\ waiters' \in [Ports -> Seq(Threads)]
         /\ got' \in [Threads -> Packets \cup {NONE}]
    BY Zenon, <2>1, <2>2, <2>3, <2>5, <2>6
  <2>13. Consistent(st, linked', wo, got', queue', waiters', idle', n)
    BY Zenon, <2>2, <2>3, <2>7, <2>10, <2>11, <2>u, <2>12 DEF Consistent
  <2>14. WorkIn(queue', waiters', idle', op)
    BY Zenon, <1>a, <1>2, <2>6, <2>8, <2>9, <2>u DEF WorkIn
  <2> QED BY Zenon, <2>1, <2>13, <2>14
<1> QED BY Zenon, <1>1, <1>2

(* set_state of thread t, and the stop() that follows: if t was the last   *)
(* to run, the first listed port serves its first waiter, which exists.    *)
LEMMA SetStateKeeps ==
  ASSUME NEW t \in Threads, NEW ws, NEW ids, NEW n, NEW wo, NEW st, NEW op,
         Consistent(st, linked \ {t}, wo, got, queue, ws, ids, n), op \subseteq Ports,
         WorkIn(queue, ws, ids, op), failed = "none", set_state(t, ws, ids)
  PROVE  /\ Consistent(st, linked', wo, got', queue', waiters', idle', n)
         /\ WorkIn(queue', waiters', idle', op)
         /\ failed' \in {"none", "packet"}
<1>1. CASE Active # {t} \/ ids = <<>>
  BY Zenon, <1>1 DEF set_state
<1>2. CASE ~(Active # {t} \/ ids = <<>>)
  <2>1. Head(ids) \in Ports /\ Head(ids) \in Elems(ids)
    BY Zenon, <1>2, TailElems DEF Consistent
  <2>2. ws[Head(ids)] # <<>>
    BY Zenon, <2>1 DEF PortsIn, Consistent
  <2>3. start_waiter(Head(ids), queue, ws, ids, linked \ {t})
    BY Zenon, <1>2, <2>2 DEF set_state
  <2>4. WorkIn(queue, ws, ids, op \ {Head(ids)})
    BY Zenon DEF WorkIn
  <2> QED BY Zenon, <2>1, <2>2, <2>3, <2>4, StartWaiterKeeps
<1> QED BY Zenon, <1>1, <1>2

-----------------------------------------------------------------------------
(* The inductive invariant, put together from its parts.                   *)
Parts == /\ Consistent(state, linked, waitsOn, got, queue, waiters, idle, sent)
         /\ open \subseteq Ports
         /\ WorkIn(queue, waiters, idle, open)
         /\ failed \in {"none", "packet", "queue", "linked"}

(* The parts make up the invariants of module Completion.                  *)
LEMMA PartsAreInvariants ==
  CompletionInv <=> Parts
BY Zenon DEF CompletionInv, Parts, TypeOK, PacketInOnePlace, WaiterIsBlocked, ListedPortHasWaiter,
       WorkIsListed, Consistent, PacketsIn, WaitersIn, PortsIn, WorkIn, Distinct

(* A new kernel has no packet, no waiter and no listed port.               *)
LEMMA InitParts ==
  Init => Parts
<1> SUFFICES ASSUME Init PROVE Parts
  BY Zenon
<1> USE DEF Init
<1>1. /\ \A p \in Ports : queue[p] = <<>> /\ waiters[p] = <<>>
      /\ \A t \in Threads : waitsOn[t] = NONE /\ got[t] = NONE /\ state[t] = "Running"
  BY Zenon
<1>2. Elems(<<>>) = {} /\ Distinct(<<>>)
  BY DEF Elems, Distinct
<1>3. PacketsIn(queue, got, sent)
  BY Zenon, <1>1, <1>2, CompletionAssumption DEF PacketsIn
<1>4. WaitersIn(waiters, waitsOn, got, state, linked)
  BY Zenon, <1>1, <1>2, CompletionAssumption DEF WaitersIn
<1>5. PortsIn(idle, waiters) /\ WorkIn(queue, waiters, idle, open)
  BY Zenon, <1>1, <1>2 DEF PortsIn, WorkIn
<1>6. /\ queue \in [Ports -> Seq(Packets)] /\ waiters \in [Ports -> Seq(Threads)]
      /\ idle \in Seq(Ports)
  OBVIOUS
<1> QED BY Zenon, <1>3, <1>4, <1>5, <1>6 DEF Parts, Consistent

(* port_wait_idle lists the port, once.                                    *)
LEMMA ListedPort ==
  ASSUME NEW w, idle \in Seq(Ports), NEW p \in Ports, PortsIn(idle, w), w[p] # <<>>
  PROVE  /\ Listed(p) \in Seq(Ports) /\ PortsIn(Listed(p), w)
         /\ Elems(Listed(p)) = Elems(idle) \cup {p}
<1>1. CASE p \in Elems(idle)
  BY Zenon, <1>1 DEF Listed
<1>2. CASE p \notin Elems(idle)
  <2>1. Listed(p) = Append(idle, p)
    BY Zenon, <1>2 DEF Listed
  <2>2. /\ Append(idle, p) \in Seq(Ports) /\ Elems(Append(idle, p)) = Elems(idle) \cup {p}
        /\ Distinct(Append(idle, p))
    BY <1>2, AppendElems DEF PortsIn
  <2> QED BY Zenon, <2>1, <2>2 DEF PortsIn
<1> QED BY Zenon, <1>1, <1>2

(* NtSetIoCompletion keeps the invariant.                                  *)
LEMMA SetKeeps ==
  ASSUME Parts, NEW t \in Threads, NEW p \in Ports, NEW k \in Packets, set(t, p, k)
  PROVE  Parts'
<1> DEFINE qs == [queue EXCEPT ![p] = Append(@, k)]
<1>1. /\ queue \in [Ports -> Seq(Packets)] /\ got \in [Threads -> Packets \cup {NONE}]
      /\ sent \in SUBSET Packets /\ PacketsIn(queue, got, sent)
      /\ waiters \in [Ports -> Seq(Threads)] /\ idle \in Seq(Ports) /\ PortsIn(idle, waiters)
  BY Zenon DEF Parts, Consistent
<1>2. k \notin sent /\ sent' = sent \cup {k} /\ UNCHANGED <<state, waitsOn, open>>
  BY Zenon DEF set
<1>3. PacketsIn(qs, got, sent \cup {k})
  BY Zenon, <1>1, <1>2, PacketQueued
<1>4. /\ qs[p] = Append(queue[p], k) /\ qs \in [Ports -> Seq(Packets)]
      /\ \A o \in Ports \ {p} : qs[o] = queue[o]
  BY Zenon, <1>1, AppendElems
<1>5. \/ /\ waiters[p] = <<>> \/ Cardinality(Active) >= Limit[p]
         /\ queue' = qs
         /\ idle' = IF waiters[p] = <<>> THEN idle ELSE Listed(p)
         /\ UNCHANGED <<linked, got, waiters, failed>>
      \/ /\ waiters[p] # <<>> /\ queue[p] = <<>>
         /\ start_waiter(p, qs, waiters, idle, linked)
      \/ /\ waiters[p] # <<>> /\ queue[p] # <<>>
         /\ failed' = "queue"
         /\ queue' = qs
         /\ UNCHANGED <<linked, got, waiters, idle>>
  BY Zenon DEF set
<1> HIDE DEF qs
<1>6. ASSUME NEW ids \in Seq(Ports), PortsIn(ids, waiters)
      PROVE  Consistent(state, linked, waitsOn, got, qs, waiters, ids, sent')
  BY Zenon, <1>2, <1>3, <1>4, <1>6 DEF Parts, Consistent
<1>7. CASE /\ waiters[p] = <<>> \/ Cardinality(Active) >= Limit[p]
           /\ queue' = qs
           /\ idle' = IF waiters[p] = <<>> THEN idle ELSE Listed(p)
           /\ UNCHANGED <<linked, got, waiters, failed>>
  <2>1. /\ idle' \in Seq(Ports) /\ PortsIn(idle', waiters)
        /\ Elems(idle) \subseteq Elems(idle')
        /\ waiters[p] # <<>> => p \in Elems(idle')
    <3>1. CASE waiters[p] = <<>>
      BY Zenon, <1>1, <1>7, <3>1
    <3>2. CASE waiters[p] # <<>>
      BY Zenon, <1>1, <1>7, <3>2, ListedPort
    <3> QED BY Zenon, <3>1, <3>2
  <2>2. Consistent(state, linked, waitsOn, got, qs, waiters, idle', sent')
    BY Zenon, <1>6, <2>1
  <2>3. WorkIn(queue', waiters', idle', open')
    BY Zenon, <1>2, <1>4, <1>7, <2>1 DEF Parts, WorkIn
  <2> QED BY Zenon, <1>2, <1>7, <2>2, <2>3 DEF Parts
<1>8. CASE /\ waiters[p] # <<>> /\ queue[p] = <<>>
           /\ start_waiter(p, qs, waiters, idle, linked)
  <2>1. Consistent(state, linked, waitsOn, got, qs, waiters, idle, sent')
    BY Zenon, <1>1, <1>6
  <2>2. WorkIn(qs, waiters, idle, open \ {p})
    BY Zenon, <1>4 DEF Parts, WorkIn
  <2>3. Tail(qs[p]) = <<>>
    BY <1>4, <1>8
  <2>4. /\ Consistent(state, linked', waitsOn, got', queue', waiters', idle', sent')
        /\ WorkIn(queue', waiters', idle', open) /\ failed' \in {"none", "packet"}
    BY Zenon, <1>8, <2>1, <2>2, <2>3, StartWaiterKeeps DEF Parts
  <2> QED BY Zenon, <1>2, <2>4 DEF Parts
<1>9. CASE /\ waiters[p] # <<>> /\ queue[p] # <<>>
           /\ failed' = "queue"
           /\ queue' = qs
           /\ UNCHANGED <<linked, got, waiters, idle>>
  <2>1. Consistent(state, linked, waitsOn, got, qs, waiters, idle, sent')
    BY Zenon, <1>1, <1>6
  <2>2. WorkIn(qs, waiters, idle, open)
    BY Zenon, <1>4, <1>9 DEF Parts, WorkIn
  <2> QED BY Zenon, <1>2, <1>9, <2>1, <2>2 DEF Parts
<1> QED BY Zenon, <1>5, <1>7, <1>8, <1>9

(* A thread that runs is in no waiter list and holds no packet.            *)
LEMMA RunningThread ==
  ASSUME Parts, NEW t \in Threads, state[t] = "Running"
  PROVE  waitsOn[t] = NONE /\ got[t] = NONE
BY Zenon DEF Parts, Consistent, WaitersIn

(* The lists agree after a running thread has joined the waiters of p.     *)
LEMMA JoinConsistent ==
  ASSUME Consistent(state, linked, waitsOn, got, queue, waiters, idle, sent),
         NEW t \in Threads, NEW p \in Ports, state[t] = "Running", NEW ids \in Seq(Ports),
         NEW ws, ws = [waiters EXCEPT ![p] = Append(@, t)], PortsIn(ids, ws),
         state' = [state EXCEPT ![t] = "Wait"], waitsOn' = [waitsOn EXCEPT ![t] = p]
  PROVE  Consistent(state', linked \ {t}, waitsOn', got, queue, ws, ids, sent)
<1>1. /\ waiters \in [Ports -> Seq(Threads)] /\ waitsOn \in [Threads -> Ports \cup {NONE}]
      /\ got \in [Threads -> Packets \cup {NONE}] /\ linked \in SUBSET Threads
      /\ state \in [Threads -> {"Running", "Wait", "Terminated"}]
      /\ WaitersIn(waiters, waitsOn, got, state, linked)
  BY Zenon DEF Consistent
<1>2. WaitersIn(ws, waitsOn', got, state', linked \ {t})
  BY Zenon, <1>1, WaiterJoins
<1>3. ws \in [Ports -> Seq(Threads)]
  BY Zenon, <1>1, AppendElems
<1>4. /\ waitsOn' \in [Threads -> Ports \cup {NONE}]
      /\ state' \in [Threads -> {"Running", "Wait", "Terminated"}]
  BY Zenon, <1>1
<1> QED BY Zenon, <1>2, <1>3, <1>4 DEF Consistent

(* A thread that blocks in remove() keeps the invariant, if the port was   *)
(* listed when it has a packet.                                            *)
LEMMA BlockKeeps ==
  ASSUME Parts, NEW t \in Threads, NEW p \in Ports, Runs(t), NEW ids \in Seq(Ports),
         PortsIn(ids, [waiters EXCEPT ![p] = Append(@, t)]),
         Elems(idle) \subseteq Elems(ids), queue[p] = <<>> \/ p \in Elems(ids), Block(t, p, ids)
  PROVE  Parts'
<1> DEFINE ws == [waiters EXCEPT ![p] = Append(@, t)]
<1>1. /\ state' = [state EXCEPT ![t] = "Wait"] /\ waitsOn' = [waitsOn EXCEPT ![t] = p]
      /\ set_state(t, ws, ids) /\ UNCHANGED <<open, sent>>
  BY Zenon DEF Block
<1>2. PortsIn(ids, ws)
  BY Zenon
<1>3. Consistent(state', linked \ {t}, waitsOn', got, queue, ws, ids, sent)
  BY Zenon, <1>1, <1>2, JoinConsistent DEF Parts, Runs
<1>4. \A o \in Ports \ {p} : ws[o] = waiters[o]
  BY Zenon DEF Parts, Consistent
<1> HIDE DEF ws
<1>5. WorkIn(queue, ws, ids, open)
  BY Zenon, <1>4 DEF Parts, WorkIn
<1>6. /\ Consistent(state', linked', waitsOn', got', queue', waiters', idle', sent)
      /\ WorkIn(queue', waiters', idle', open) /\ failed' \in {"none", "packet"}
  BY Zenon, <1>1, <1>3, <1>5, SetStateKeeps DEF Parts, Runs
<1> QED BY Zenon, <1>1, <1>6 DEF Parts

(* A port that has waiters keeps them when another joins.                  *)
LEMMA JoinKeepsPorts ==
  ASSUME NEW id, NEW t \in Threads, NEW p \in Ports, waiters \in [Ports -> Seq(Threads)],
         id \in Seq(Ports), PortsIn(id, waiters)
  PROVE  /\ PortsIn(id, [waiters EXCEPT ![p] = Append(@, t)])
         /\ [waiters EXCEPT ![p] = Append(@, t)][p] # <<>>
<1> DEFINE ws == [waiters EXCEPT ![p] = Append(@, t)]
<1>1. ws[p] # <<>> /\ \A o \in Ports \ {p} : ws[o] = waiters[o]
  BY Zenon, AppendElems
<1> HIDE DEF ws
<1>2. \A o \in Elems(id) : o \in Ports
  BY DEF Elems
<1>3. PortsIn(id, ws)
  BY Zenon, <1>1, <1>2 DEF PortsIn
<1> QED BY Zenon, <1>1, <1>3 DEF ws

(* NtRemoveIoCompletion keeps the invariant.                               *)
LEMMA RemoveKeeps ==
  ASSUME Parts, NEW t \in Threads, NEW p \in Ports, remove(t, p)
  PROVE  Parts'
<1> DEFINE ws == [waiters EXCEPT ![p] = Append(@, t)]
<1>1. /\ queue \in [Ports -> Seq(Packets)] /\ got \in [Threads -> Packets \cup {NONE}]
      /\ sent \in SUBSET Packets /\ PacketsIn(queue, got, sent)
      /\ waiters \in [Ports -> Seq(Threads)] /\ idle \in Seq(Ports) /\ PortsIn(idle, waiters)
  BY Zenon DEF Parts, Consistent
<1>2. Runs(t)
  BY Zenon DEF remove
<1>3. PortsIn(idle, ws) /\ ws[p] # <<>>
  BY Zenon, <1>1, JoinKeepsPorts
<1>4. CASE queue[p] = <<>> /\ Block(t, p, idle)
  BY Zenon, <1>1, <1>2, <1>3, <1>4, BlockKeeps
<1>5. CASE Block(t, p, Listed(p))
  <2>1. /\ Listed(p) \in Seq(Ports) /\ PortsIn(Listed(p), ws)
        /\ Elems(Listed(p)) = Elems(idle) \cup {p}
    <3> HIDE DEF ws
    <3> QED BY Zenon, <1>1, <1>3, ListedPort
  <2> QED BY Zenon, <1>2, <1>5, <2>1, BlockKeeps
<1>6. CASE /\ queue[p] # <<>>
           /\ queue' = [queue EXCEPT ![p] = Tail(@)]
           /\ sent' = sent \ {Head(queue[p])}
           /\ UNCHANGED <<state, linked, waitsOn, got, waiters, idle, open, failed>>
  <2>1. PacketsIn(queue', got, sent')
    BY Zenon, <1>1, <1>6, PacketTaken
  <2>2. queue' \in [Ports -> Seq(Packets)] /\ sent' \in SUBSET Packets
    BY Zenon, <1>1, <1>6, TailElems
  <2>3. Consistent(state, linked, waitsOn, got, queue', waiters, idle, sent')
    BY Zenon, <2>1, <2>2 DEF Parts, Consistent
  <2>4. \A o \in Ports : queue'[o] # <<>> => queue[o] # <<>>
    BY Zenon, <1>1, <1>6
  <2>5. WorkIn(queue', waiters, idle, open)
    BY Zenon, <2>4 DEF Parts, WorkIn
  <2> QED BY Zenon, <1>6, <2>3, <2>5 DEF Parts
<1> QED BY Zenon, <1>4, <1>5, <1>6 DEF remove

(* The lists agree after a running thread has stopped elsewhere, or ended. *)
LEMMA StopConsistent ==
  ASSUME Parts, NEW t \in Threads, Runs(t), NEW x \in {"Wait", "Terminated"},
         state' = [state EXCEPT ![t] = x]
  PROVE  Consistent(state', linked \ {t}, waitsOn, got, queue, waiters, idle, sent)
<1>1. waitsOn[t] = NONE /\ state \in [Threads -> {"Running", "Wait", "Terminated"}]
  BY Zenon, RunningThread DEF Runs, Parts, Consistent
<1>2. /\ state' \in [Threads -> {"Running", "Wait", "Terminated"}]
      /\ \A u \in Threads \ {t} : state'[u] = state[u]
  BY Zenon, <1>1
<1>3. WaitersIn(waiters, waitsOn, got, state', linked \ {t})
  BY Zenon, <1>1, <1>2 DEF Parts, Consistent, WaitersIn
<1> QED BY Zenon, <1>2, <1>3 DEF Parts, Consistent

(* A running thread that blocks elsewhere, or ends, keeps the invariant.   *)
LEMMA StopKeeps ==
  ASSUME Parts, NEW t \in Threads, Runs(t), NEW x \in {"Wait", "Terminated"},
         state' = [state EXCEPT ![t] = x], set_state(t, waiters, idle),
         UNCHANGED <<waitsOn, open, sent>>
  PROVE  Parts'
<1>1. Consistent(state', linked \ {t}, waitsOn, got, queue, waiters, idle, sent)
  BY Zenon, StopConsistent
<1>2. /\ Consistent(state', linked', waitsOn, got', queue', waiters', idle', sent)
      /\ WorkIn(queue', waiters', idle', open) /\ failed' \in {"none", "packet"}
  BY Zenon, <1>1, SetStateKeeps DEF Parts, Runs
<1> QED BY Zenon, <1>2 DEF Parts

(* A thread that runs again, or whose fiber ends, keeps the invariant.     *)
LEMMA LeaveKeeps ==
  ASSUME Parts, NEW t \in linked, NEW x \in {"Running", "Terminated"},
         state' = [state EXCEPT ![t] = x], linked' \in SUBSET linked,
         waitsOn' = [waitsOn EXCEPT ![t] = NONE], got' = [got EXCEPT ![t] = NONE],
         sent' = sent \ {got[t]}, UNCHANGED <<queue, waiters, idle, open, failed>>
  PROVE  Parts'
<1>1. /\ waiters \in [Ports -> Seq(Threads)] /\ waitsOn \in [Threads -> Ports \cup {NONE}]
      /\ got \in [Threads -> Packets \cup {NONE}] /\ linked \in SUBSET Threads
      /\ state \in [Threads -> {"Running", "Wait", "Terminated"}]
      /\ queue \in [Ports -> Seq(Packets)] /\ sent \in SUBSET Packets
      /\ PacketsIn(queue, got, sent) /\ WaitersIn(waiters, waitsOn, got, state, linked)
  BY Zenon DEF Parts, Consistent
<1>2. PacketsIn(queue, got', sent')
  BY Zenon, <1>1, PacketDeleted
<1>3. WaitersIn(waiters, waitsOn', got', state', linked')
  BY Zenon, <1>1, WaiterLeaves
<1>4. /\ state' \in [Threads -> {"Running", "Wait", "Terminated"}] /\ linked' \in SUBSET Threads
      /\ waitsOn' \in [Threads -> Ports \cup {NONE}] /\ sent' \in SUBSET Packets
      /\ got' \in [Threads -> Packets \cup {NONE}]
  BY Zenon, <1>1
<1>5. Consistent(state', linked', waitsOn', got', queue, waiters, idle, sent')
  BY Zenon, <1>2, <1>3, <1>4 DEF Parts, Consistent
<1> QED BY Zenon, <1>5 DEF Parts

(* Every step keeps the invariant.                                         *)
LEMMA NextParts ==
  Parts /\ [Next]_vars => Parts'
<1> SUFFICES ASSUME Parts, [Next]_vars PROVE Parts'
  BY Zenon
<1>1. ASSUME NEW t \in Threads, NEW p \in Ports, NEW k \in Packets, set(t, p, k) PROVE Parts'
  BY Zenon, <1>1, SetKeeps
<1>2. ASSUME NEW t \in Threads, NEW p \in Ports, remove(t, p) PROVE Parts'
  BY Zenon, <1>2, RemoveKeeps
<1>3. ASSUME NEW t \in Threads, NEW p \in Ports, Close(t, p) PROVE Parts'
  BY Zenon, <1>3 DEF Close, Parts, WorkIn
<1>4. ASSUME NEW t \in Threads, Sleep(t) PROVE Parts'
  BY Zenon, <1>4, StopKeeps DEF Sleep
<1>5. ASSUME NEW t \in Threads, ExitThread(t) PROVE Parts'
  BY Zenon, <1>5, StopKeeps DEF ExitThread
<1>6. ASSUME NEW t \in Threads, Wake(t) PROVE Parts'
  <2>1. linked' \in SUBSET Threads
    BY Zenon, <1>6 DEF Wake, Parts, Consistent
  <2>2. WaitersIn(waiters, waitsOn, got, state, linked')
    BY Zenon, <1>6 DEF Wake, Parts, Consistent, WaitersIn
  <2> QED BY Zenon, <1>6, <2>1, <2>2 DEF Wake, Parts, Consistent
<1>7. ASSUME NEW t \in Threads, Resumed(t) PROVE Parts'
  BY Zenon, <1>7, LeaveKeeps DEF Resumed
<1>8. ASSUME NEW t \in Threads, FiberExit(t) PROVE Parts'
  <2>1. state' = [state EXCEPT ![t] = "Terminated"]
    BY Zenon, <1>8 DEF FiberExit, Parts, Consistent
  <2> QED BY Zenon, <1>8, <2>1, LeaveKeeps DEF FiberExit
<1>9. ASSUME NEW t \in Threads, NEW u \in Threads, Kill(t, u) PROVE Parts'
  <2>1. /\ state' \in [Threads -> {"Running", "Wait", "Terminated"}]
        /\ state'[u] = "Terminated" /\ \A v \in Threads \ {u} : state'[v] = state[v]
    BY Zenon, <1>9 DEF Kill, Parts, Consistent
  <2>2. WaitersIn(waiters, waitsOn, got, state', linked)
    BY Zenon, <2>1 DEF Parts, Consistent, WaitersIn
  <2> QED BY Zenon, <1>9, <2>1, <2>2 DEF Kill, Parts, Consistent
<1>10. CASE UNCHANGED vars
  BY Zenon, <1>10 DEF vars, Parts
<1> QED
  BY Zenon, <1>1, <1>2, <1>3, <1>4, <1>5, <1>6, <1>7, <1>8, <1>9, <1>10 DEF Next

-----------------------------------------------------------------------------
(* Whatever the order of set, remove, waits, terminations and closes, the  *)
(* lists of completion.cpp agree: the five invariants hold together.       *)
THEOREM CompletionCorrect ==
  Spec => []CompletionInv
<1>1. Init => CompletionInv
  BY Zenon, InitParts, PartsAreInvariants
<1>2. CompletionInv /\ [Next]_vars => CompletionInv'
  <2>1. CompletionInv' <=> Parts'
    BY Zenon DEF CompletionInv, Parts, TypeOK, PacketInOnePlace, WaiterIsBlocked, ListedPortHasWaiter,
           WorkIsListed, Consistent, PacketsIn, WaitersIn, PortsIn, WorkIn, Distinct
  <2> QED BY Zenon, <2>1, NextParts, PartsAreInvariants
<1> QED BY <1>1, <1>2, PTL DEF Spec

(* No packet is lost, doubled or shared between set and remove.            *)
THEOREM PacketsAreConserved ==
  Spec => []PacketInOnePlace
<1>1. CompletionInv => PacketInOnePlace
  BY Zenon DEF CompletionInv
<1> QED BY <1>1, CompletionCorrect, PTL

(* remove() leaves the waiter list exactly when it is given a packet.      *)
THEOREM WaitersAreBlocked ==
  Spec => []WaiterIsBlocked
<1>1. CompletionInv => WaiterIsBlocked
  BY Zenon DEF CompletionInv
<1> QED BY <1>1, CompletionCorrect, PTL

(* No port with a packet and a waiter is off waiting_thread_ports.         *)
THEOREM ReadyPortsAreListed ==
  Spec => []WorkIsListed
<1>1. CompletionInv => WorkIsListed
  BY Zenon DEF CompletionInv
<1> QED BY <1>1, CompletionCorrect, PTL

(* assert( waiter ) of completion_port_impl_t::check_waiters never fails.  *)
THEOREM CheckWaitersAssert ==
  Spec => [](failed # "waiter")
<1>1. CompletionInv => failed # "waiter"
  BY Zenon DEF CompletionInv, TypeOK
<1> QED BY <1>1, CompletionCorrect, PTL

-----------------------------------------------------------------------------
(* Unless a thread terminates another, a terminated thread waits on no     *)
(* port and is off the run list: no packet is given to one.                *)
DeadAreGone ==
  \A t \in Threads : state[t] = "Terminated" => waitsOn[t] = NONE /\ t \notin linked

OnlyWaitersStart(t, wo) == \A u \in linked' : u \in linked \ {t} \/ wo[u] # NONE

(* The last running thread that stops leaves a fiber to run, or no port    *)
(* with work.                                                              *)
LEMMA LastStops ==
  ASSUME NEW t \in Threads, NEW ws, NEW ids, NEW n, NEW wo, NEW st, failed = "none",
         Consistent(st, linked \ {t}, wo, got, queue, ws, ids, n), open \subseteq Ports,
         state[t] = "Running", WorkIn(queue, ws, ids, open), set_state(t, ws, ids)
  PROVE  /\ \/ Active # {t} \/ linked' # {} \/ failed' # "none"
            \/ \A p \in open : queue'[p] = <<>> \/ waiters'[p] = <<>>
         /\ OnlyWaitersStart(t, wo)
<1>1. CASE Active # {t} \/ ids = <<>>
  <2>1. Elems(<<>>) = {}
    BY DEF Elems
  <2>2. queue' = queue /\ waiters' = ws /\ linked' = linked \ {t}
    BY Zenon, <1>1 DEF set_state
  <2>3. CASE Active # {t}
    BY Zenon, <2>2, <2>3 DEF OnlyWaitersStart
  <2>4. CASE ids = <<>>
    BY Zenon, <2>1, <2>2, <2>4 DEF WorkIn, OnlyWaitersStart
  <2> QED BY Zenon, <1>1, <2>3, <2>4
<1>2. CASE ~(Active # {t} \/ ids = <<>>)
  <2> DEFINE p == Head(ids)
             u == Head(ws[p])
  <2>1. p \in Ports /\ p \in Elems(ids)
    BY Zenon, <1>2, TailElems DEF Consistent
  <2>2. ws[p] # <<>> /\ ws \in [Ports -> Seq(Threads)]
    BY Zenon, <2>1 DEF PortsIn, Consistent
  <2>3. start_waiter(p, queue, ws, ids, linked \ {t})
    BY Zenon, <1>2, <2>2 DEF set_state
  <2>4. u \in Threads /\ u \in Elems(ws[p])
    BY Zenon, <2>1, <2>2, TailElems
  <2>5. wo[u] = p /\ p # NONE
    BY <2>1, <2>4, CompletionAssumption DEF Consistent, WaitersIn
  <2>7. \/ failed' = "packet" /\ linked' = linked \ {t}
        \/ linked' = (linked \ {t}) \cup {u}
    BY Zenon, <2>3 DEF start_waiter
  <2> QED BY Zenon, <2>4, <2>5, <2>7 DEF OnlyWaitersStart
<1> QED BY Zenon, <1>1, <1>2

(* A thread that stops running keeps both facts.                           *)
LEMMA StopIdle ==
  ASSUME Parts, DeadAreGone, NEW t \in Threads, Runs(t), NEW x \in {"Wait", "Terminated"},
         NEW ws, NEW ids, NEW wo, wo \in [Threads -> Ports \cup {NONE}],
         \A u \in Threads \ {t} : wo[u] = waitsOn[u], x = "Terminated" => wo[t] = NONE,
         Consistent(state', linked \ {t}, wo, got, queue, ws, ids, sent),
         WorkIn(queue, ws, ids, open), state' = [state EXCEPT ![t] = x], waitsOn' = wo,
         set_state(t, ws, ids), UNCHANGED open
  PROVE  DeadAreGone' /\ NoIdleWithWork'
<1>1. /\ state \in [Threads -> {"Running", "Wait", "Terminated"}]
      /\ open \subseteq Ports /\ state[t] = "Running" /\ failed = "none"
  BY Zenon DEF Parts, Consistent, Runs
<1>2. state'[t] = x /\ \A u \in Threads \ {t} : state'[u] = state[u]
  BY Zenon, <1>1
<1>4. /\ \/ Active # {t} \/ linked' # {} \/ failed' # "none"
         \/ \A p \in open : queue'[p] = <<>> \/ waiters'[p] = <<>>
      /\ OnlyWaitersStart(t, wo)
  <2>1. \/ Active # {t} \/ linked' # {} \/ failed' # "none"
        \/ \A p \in open : queue'[p] = <<>> \/ waiters'[p] = <<>>
    BY Zenon, <1>1, LastStops
  <2>2. OnlyWaitersStart(t, wo)
    BY Zenon, <1>1, LastStops
  <2> QED BY Zenon, <2>1, <2>2
<1>5. DeadAreGone'
  <2> SUFFICES ASSUME NEW u \in Threads, state'[u] = "Terminated"
               PROVE  waitsOn'[u] = NONE /\ u \notin linked'
    BY Zenon DEF DeadAreGone
  <2>1. CASE u = t
    BY Zenon, <1>2, <1>4, <2>1 DEF OnlyWaitersStart
  <2>2. CASE u # t
    <3>1. waitsOn[u] = NONE /\ u \notin linked
      BY Zenon, <1>2, <2>2 DEF DeadAreGone
    <3> QED BY Zenon, <1>4, <2>2, <3>1 DEF OnlyWaitersStart
  <2> QED BY Zenon, <2>1, <2>2
<1>6. Active # {t} => Active' # {}
  <2>1. t \in Active
    BY Zenon, <1>1 DEF Active
  <2>2. ASSUME NEW u \in Active, u # t PROVE u \in Active'
    BY Zenon, <1>2, <2>2 DEF Active
  <2> QED BY Zenon, <2>1, <2>2
<1>7. NoIdleWithWork'
  BY Zenon, <1>4, <1>6 DEF NoIdleWithWork
<1> QED BY Zenon, <1>5, <1>7

(* As StopIdle, for a thread that blocks in remove().                      *)
LEMMA BlockIdle ==
  ASSUME Parts, DeadAreGone, NEW t \in Threads, NEW p \in Ports, Runs(t), NEW ids \in Seq(Ports),
         PortsIn(ids, [waiters EXCEPT ![p] = Append(@, t)]),
         Elems(idle) \subseteq Elems(ids), queue[p] = <<>> \/ p \in Elems(ids), Block(t, p, ids)
  PROVE  DeadAreGone' /\ NoIdleWithWork'
<1> DEFINE ws == [waiters EXCEPT ![p] = Append(@, t)]
<1>1. /\ state' = [state EXCEPT ![t] = "Wait"] /\ waitsOn' = [waitsOn EXCEPT ![t] = p]
      /\ set_state(t, ws, ids) /\ UNCHANGED open
  BY Zenon DEF Block
<1>2. PortsIn(ids, ws)
  BY Zenon
<1>3. Consistent(state', linked \ {t}, waitsOn', got, queue, ws, ids, sent)
  BY Zenon, <1>1, <1>2, JoinConsistent DEF Parts, Runs
<1>4. waitsOn' \in [Threads -> Ports \cup {NONE}] /\ \A u \in Threads \ {t} : waitsOn'[u] = waitsOn[u]
  BY Zenon, <1>1 DEF Parts, Consistent
<1>5. \A o \in Ports \ {p} : ws[o] = waiters[o]
  BY Zenon DEF Parts, Consistent
<1> HIDE DEF ws
<1>6. WorkIn(queue, ws, ids, open)
  BY Zenon, <1>5 DEF Parts, WorkIn
<1> QED BY Zenon, <1>1, <1>3, <1>4, <1>6, StopIdle

(* As StopIdle, for a thread that blocks elsewhere or ends.                *)
LEMMA StopHereIdle ==
  ASSUME Parts, DeadAreGone, NEW t \in Threads, Runs(t), NEW x \in {"Wait", "Terminated"},
         state' = [state EXCEPT ![t] = x], set_state(t, waiters, idle), UNCHANGED <<waitsOn, open>>
  PROVE  DeadAreGone' /\ NoIdleWithWork'
<1>1. Consistent(state', linked \ {t}, waitsOn, got, queue, waiters, idle, sent)
  BY Zenon, StopConsistent
<1>2. waitsOn[t] = NONE /\ waitsOn \in [Threads -> Ports \cup {NONE}]
  BY Zenon, RunningThread DEF Runs, Parts, Consistent
<1> QED BY Zenon, <1>1, <1>2, StopIdle DEF Parts

(* A step of a thread that goes on running leaves the system not idle.     *)
LEMMA RunningNotIdle ==
  ASSUME NEW t \in Threads, state'[t] = "Running"
  PROVE  NoIdleWithWork'
BY Zenon DEF NoIdleWithWork, Active

(* When no thread terminates another, whenever nothing runs and nothing is *)
(* about to, no open port has both a packet and a waiter: set_state has    *)
(* handed out what there was before the last thread stopped.               *)
THEOREM IdleWithoutWork ==
  ASSUME Killable = {}
  PROVE  Spec => []NoIdleWithWork
<1> DEFINE Inv == Parts /\ DeadAreGone /\ NoIdleWithWork
<1>1. Init => Inv
  <2> SUFFICES ASSUME Init PROVE Inv
    BY Zenon
  <2>1. Parts
    BY Zenon, InitParts
  <2>2. DeadAreGone /\ NoIdleWithWork
    BY Zenon DEF Init, DeadAreGone, NoIdleWithWork
  <2> QED BY Zenon, <2>1, <2>2
<1>2. Inv /\ [Next]_vars => Inv'
  <2> SUFFICES ASSUME Parts, DeadAreGone, NoIdleWithWork, [Next]_vars
               PROVE  DeadAreGone' /\ NoIdleWithWork'
    BY Zenon, NextParts
  <2>0. /\ state \in [Threads -> {"Running", "Wait", "Terminated"}]
        /\ waitsOn \in [Threads -> Ports \cup {NONE}]
        /\ waiters \in [Ports -> Seq(Threads)] /\ idle \in Seq(Ports) /\ PortsIn(idle, waiters)
        /\ Consistent(state, linked, waitsOn, got, queue, waiters, idle, sent)
        /\ WorkIn(queue, waiters, idle, open)
    BY Zenon DEF Parts, Consistent
  <2>1. ASSUME NEW t \in Threads, NEW p \in Ports, NEW k \in Packets, set(t, p, k)
        PROVE  DeadAreGone' /\ NoIdleWithWork'
    <3>1. UNCHANGED <<state, waitsOn>> /\ state[t] = "Running"
      BY Zenon, <2>1 DEF set, Runs
    <3>2. CASE UNCHANGED linked
      BY Zenon, <3>1, <3>2, RunningNotIdle DEF DeadAreGone
    <3>3. CASE /\ waiters[p] # <<>>
               /\ start_waiter(p, [queue EXCEPT ![p] = Append(@, k)], waiters, idle, linked)
      <4> DEFINE u == Head(waiters[p])
      <4>0. u \in Threads /\ u \in Elems(waiters[p])
        BY Zenon, <2>0, <3>3, TailElems
      <4>2. waitsOn[u] = p /\ p # NONE
        BY <2>0, <4>0, CompletionAssumption DEF Consistent, WaitersIn
      <4>3. state[u] # "Terminated"
        BY Zenon, <4>0, <4>2 DEF DeadAreGone
      <4>1. \/ linked' = linked
            \/ state[u] # "Terminated" /\ linked' = linked \cup {u}
        BY Zenon, <3>3, <4>3 DEF start_waiter
      <4> QED BY Zenon, <3>1, <4>1, RunningNotIdle DEF DeadAreGone
    <3> QED BY Zenon, <2>1, <3>2, <3>3 DEF set
  <2>2. ASSUME NEW t \in Threads, NEW p \in Ports, remove(t, p)
        PROVE  DeadAreGone' /\ NoIdleWithWork'
    <3>1. Runs(t) /\ p \in open
      BY Zenon, <2>2 DEF remove
    <3>2. CASE UNCHANGED <<state, linked, waitsOn>>
      BY Zenon, <3>1, <3>2, RunningNotIdle DEF DeadAreGone, Runs
    <3>3. CASE queue[p] = <<>> /\ Block(t, p, idle)
      BY Zenon, <2>0, <3>1, <3>3, BlockIdle, JoinKeepsPorts
    <3>4. CASE Block(t, p, Listed(p))
      <4> DEFINE ws == [waiters EXCEPT ![p] = Append(@, t)]
      <4>1. PortsIn(idle, ws) /\ ws[p] # <<>>
        BY Zenon, <2>0, JoinKeepsPorts
      <4>2. /\ Listed(p) \in Seq(Ports) /\ PortsIn(Listed(p), ws)
            /\ Elems(Listed(p)) = Elems(idle) \cup {p}
        <5> HIDE DEF ws
        <5> QED BY Zenon, <2>0, <4>1, ListedPort
      <4> QED BY Zenon, <3>1, <3>4, <4>2, BlockIdle
    <3> QED BY Zenon, <2>2, <3>2, <3>3, <3>4 DEF remove
  <2>3. ASSUME NEW t \in Threads, NEW p \in Ports, Close(t, p)
        PROVE  DeadAreGone' /\ NoIdleWithWork'
    BY Zenon, <2>3, RunningNotIdle DEF Close, Runs, DeadAreGone
  <2>4. ASSUME NEW t \in Threads, Sleep(t)
        PROVE  DeadAreGone' /\ NoIdleWithWork'
    <3>1. /\ Runs(t) /\ state' = [state EXCEPT ![t] = "Wait"] /\ set_state(t, waiters, idle)
          /\ UNCHANGED <<waitsOn, open>>
      BY Zenon, <2>4 DEF Sleep
    <3> QED BY Zenon, <2>0, <3>1, StopHereIdle
  <2>5. ASSUME NEW t \in Threads, ExitThread(t)
        PROVE  DeadAreGone' /\ NoIdleWithWork'
    <3>1. /\ Runs(t) /\ state' = [state EXCEPT ![t] = "Terminated"] /\ set_state(t, waiters, idle)
          /\ UNCHANGED <<waitsOn, open>>
      BY Zenon, <2>5 DEF ExitThread
    <3> QED BY Zenon, <2>0, <3>1, StopHereIdle
  <2>6. ASSUME NEW t \in Threads, Wake(t)
        PROVE  DeadAreGone' /\ NoIdleWithWork'
    BY Zenon, <2>6 DEF Wake, DeadAreGone, NoIdleWithWork
  <2>7. ASSUME NEW t \in Threads, Resumed(t)
        PROVE  DeadAreGone' /\ NoIdleWithWork'
    <3>1. state'[t] = "Running" /\ \A u \in Threads \ {t} : state'[u] = state[u]
      BY Zenon, <2>0, <2>7 DEF Resumed
    <3>2. \A u \in Threads \ {t} : waitsOn'[u] = waitsOn[u]
      BY Zenon, <2>0, <2>7 DEF Resumed
    <3> QED BY Zenon, <2>7, <3>1, <3>2, RunningNotIdle DEF Resumed, DeadAreGone
  <2>8. ASSUME NEW t \in Threads, FiberExit(t)
        PROVE  DeadAreGone' /\ NoIdleWithWork'
    BY Zenon, <2>8 DEF FiberExit, DeadAreGone
  <2>9. ASSUME NEW t \in Threads, NEW u \in Threads, Kill(t, u)
        PROVE  DeadAreGone' /\ NoIdleWithWork'
    BY Zenon, <2>9 DEF Kill
  <2>10. CASE UNCHANGED vars
    BY Zenon, <2>10 DEF vars, DeadAreGone, NoIdleWithWork, Active
  <2> QED
    BY Zenon, <2>1, <2>2, <2>3, <2>4, <2>5, <2>6, <2>7, <2>8, <2>9, <2>10 DEF Next
<1> QED BY <1>1, <1>2, PTL DEF Spec
=============================================================================
