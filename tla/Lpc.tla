-------------------------------- MODULE Lpc ---------------------------------
(***************************************************************************)
(* Local procedure calls: kernel/port.cpp.  A named port, the ports that   *)
(* clients connect to it and the ports that accept them all share one      *)
(* queue of messages and one list of blocked listeners.                    *)
(*                                                                         *)
(* A system call is one action up to the point where it blocks; the        *)
(* action that finishes it when the thread's fiber runs again has a name   *)
(* in -ed.  Message contents, sections and the copies to user space are    *)
(* left out.  An assertion that fails, or a null pointer that is followed, *)
(* stops the kernel: failed names it.                                      *)
(*                                                                         *)
(* Threads are user threads; terminate() of a kernel thread (kthread.cpp)  *)
(* starts it instead of leaving it blocked, which is not modelled.         *)
(* No port is deleted while a thread is inside a call on it or has it      *)
(* registered as its terminate port.                                       *)
(***************************************************************************)
EXTENDS Naturals, Sequences, FiniteSets, Lists

CONSTANTS Servers,   \* threads that listen, receive, accept and reply
          Clients,   \* threads that connect and send requests
          Killable,  \* threads that may be terminated
          Ports,     \* port objects other than the named port
          NONE,
          MaxId      \* bound: message ids that are given out

Threads == Servers \cup Clients

(* A port_t: the thread that made it, the other side of the connection,    *)
(* the id of received_msg, 0 for none, and the port that its messages are  *)
(* for.                                                                    *)
PortObject == [thread : Threads, other : Ports \cup {NONE}, received : Nat, ident : Ports \cup {NONE}]

ASSUME LpcAssumption == /\ Killable \subseteq Threads
                        /\ NONE \notin Ports \cup Threads \cup PortObject
                        /\ MaxId \in Nat

VARIABLES messages,   \* port_queue_t::messages
          listeners,  \* port_queue_t::listeners
          nextId,     \* unique_message_id, from 1
          port,       \* the port objects, NONE where there is none
          linked,     \* the threads whose fiber is in the run list
          dead,       \* the terminated threads
          call,       \* the call that a thread is blocked in
          messageId,  \* thread_t::MessageId
          tport,      \* thread_t::port: the port a thread connects
          diedPort,   \* thread_impl_t::terminate_port
          failed      \* what stopped the kernel, or "none"

vars == <<messages, listeners, nextId, port, linked, dead, call, messageId, tport, diedPort, failed>>

Types == {"connect", "request", "datagram", "closed", "died"}
Message == [type : Types, id : Nat, from : Threads, dest : Ports \cup {NONE}]
Listener == [port : Ports \cup {NONE}, thread : Threads, connect : BOOLEAN, id : Nat]
CallState == [op : {"none", "listen", "receive", "connect", "request"}, port : Ports \cup {NONE}, id : Nat]
Idle == [op |-> "none", port |-> NONE, id |-> 0]

(* Every variable has its type.  Of what can stop the kernel, "connecting" *)
(* (the assertions of connect_port on thread_t::port) never does.          *)
TypeOK ==
  /\ messages \in Seq(Message)
  /\ listeners \in Seq(Listener)
  /\ nextId \in 1 .. MaxId + 1
  /\ port \in [Ports -> {NONE} \cup PortObject]
  /\ linked \in SUBSET Threads /\ dead \in SUBSET Threads
  /\ call \in [Threads -> CallState]
  /\ messageId \in [Threads -> 0 .. MaxId]
  /\ tport \in [Threads -> Ports \cup {NONE}]
  /\ diedPort \in [Threads -> Ports \cup {NONE}]
  /\ failed \in {"none", "listen", "received", "noReply"}

Init ==
  /\ messages = <<>> /\ listeners = <<>> /\ nextId = 1
  /\ port = [p \in Ports |-> NONE]
  /\ linked = Threads /\ dead = {}
  /\ call = [t \in Threads |-> Idle]
  /\ messageId = [t \in Threads |-> 0]
  /\ tport = [t \in Threads |-> NONE]
  /\ diedPort = [t \in Threads |-> NONE]
  /\ failed = "none"

-----------------------------------------------------------------------------
IsFirst(S, i) == i \in S /\ \A j \in S : i <= j

(* fiber_t::start.  It is not virtual, so the pointers of port.cpp do not  *)
(* reach the test of thread_impl_t::start: a terminated thread is started  *)
(* like any other, and finishes its call in DeadReturns.                   *)
Started(t) == linked \cup {t}

(* Mutant: a connection request wakes no receiver.                         *)
Wakeable_same_kind(m) ==
  {i \in DOMAIN listeners :
     listeners[i].id = 0 /\ (listeners[i].connect <=> m.type = "connect")}

(* The listeners that a message may wake.                                  *)
Wakeable(m) ==
  {i \in DOMAIN listeners :
     listeners[i].id = 0 /\ (listeners[i].connect => m.type = "connect")}

(* Mutant: the listener is started and stays in the list.                  *)
send_message_stays(m, lk, new) ==
  /\ messages' = Append(messages, m)
  /\ listeners' = listeners \o new
  /\ linked' = lk \cup {listeners[i].thread : i \in {j \in Wakeable(m) : IsFirst(Wakeable(m), j)}}

(* port_t::send_message: queue the message, start the first listener that  *)
(* it may wake.  A sender that blocks after it is not in the run list lk,  *)
(* and new is the listener that it adds, if any.                           *)
send_message(m, lk, new) ==
  /\ messages' = Append(messages, m)
  /\ IF Wakeable(m) = {}
     THEN listeners' = listeners \o new /\ linked' = lk
     ELSE \E i \in Wakeable(m) :
            /\ IsFirst(Wakeable(m), i)
            /\ listeners' = unlink(listeners, i) \o new
            /\ linked' = lk \cup {listeners[i].thread}

ConnectRequests == {i \in DOMAIN messages : messages[i].type = "connect"}

NewMessage(ty, t, d) == [type |-> ty, id |-> nextId, from |-> t, dest |-> d]

(* A terminated thread that is still in the run list does not return to    *)
(* user mode and makes no calls.                                           *)
Runs(t) == failed = "none" /\ t \in linked \ dead /\ call[t] = Idle

(* The fiber of a blocked thread has been started, and now runs.           *)
Resumes(t, op) == failed = "none" /\ t \in linked \ dead /\ call[t].op = op

Blocks(t, op, p, id) == call' = [call EXCEPT ![t] = [op |-> op, port |-> p, id |-> id]]
Returns(t) == call' = [call EXCEPT ![t] = Idle]

-----------------------------------------------------------------------------
(* Take the first connection request off the queue.                        *)
TakeRequest == \E i \in ConnectRequests : /\ IsFirst(ConnectRequests, i)
                                          /\ messages' = unlink(messages, i)

(* NtListenPort, up to the wait.                                           *)
NtListenPort(t) ==
  /\ Runs(t)
  /\ IF ConnectRequests # {}
     THEN TakeRequest /\ UNCHANGED <<listeners, linked, call>>
     ELSE /\ listeners' = Append(listeners, [port |-> NONE, thread |-> t, connect |-> TRUE, id |-> 0])
          /\ linked' = linked \ {t}
          /\ Blocks(t, "listen", NONE, 0)
          /\ UNCHANGED messages
  /\ UNCHANGED <<nextId, port, dead, messageId, tport, diedPort, failed>>

Listened(t) ==
  /\ Resumes(t, "listen")
  /\ IF ConnectRequests = {}
     THEN failed' = "listen" /\ UNCHANGED messages
     ELSE TakeRequest /\ UNCHANGED failed
  /\ Returns(t)
  /\ UNCHANGED <<listeners, nextId, port, linked, dead, messageId, tport, diedPort>>

(* Mutant: the reply goes to whoever waits, whatever the id.               *)
Answers_any(id, i) == IsFirst({j \in DOMAIN listeners : listeners[j].id # 0}, i)

(* Listener i is the one that a reply with this id is for.                 *)
Answers(id, i) ==
  IsFirst({j \in DOMAIN listeners : ~listeners[j].connect /\ listeners[j].id = id}, i)

(* Port object o with another received_msg.                                *)
Holds(o, id) == [o EXCEPT !.received = id]

(* The port of listener i receives a reply.                                *)
Deliver(i, id) == port' = [port EXCEPT ![listeners[i].port] = Holds(@, id)]

(* NtReplyPort of a reply that somebody waits for.                         *)
NtReplyPort(t, id) ==
  /\ Runs(t)
  /\ \E i \in DOMAIN listeners :
       /\ Answers(id, i)
       /\ Deliver(i, id)
       /\ listeners' = unlink(listeners, i)
       /\ linked' = Started(listeners[i].thread)
  /\ UNCHANGED <<messages, nextId, dead, call, messageId, tport, diedPort, failed>>

(* The receiving half of NtReplyWaitReceivePort, up to the wait.           *)
Receive(t, ls, lk) ==
  /\ IF messages # <<>>
     THEN /\ messages' = Tail(messages)
          /\ listeners' = ls /\ linked' = lk
          /\ UNCHANGED call
     ELSE /\ listeners' = Append(ls, [port |-> NONE, thread |-> t, connect |-> FALSE, id |-> 0])
          /\ linked' = lk \ {t}
          /\ Blocks(t, "receive", NONE, 0)
          /\ UNCHANGED messages
  /\ UNCHANGED <<nextId, dead, messageId, tport, diedPort, failed>>

(* NtReplyWaitReceivePort, with id 0 for no reply.                         *)
NtReplyWaitReceivePort(t, id) ==
  /\ Runs(t)
  /\ \/ id = 0 /\ Receive(t, listeners, linked) /\ UNCHANGED port
     \/ \E i \in DOMAIN listeners :
          /\ id # 0 /\ Answers(id, i)
          /\ Deliver(i, id)
          /\ Receive(t, unlink(listeners, i), Started(listeners[i].thread))

(* Without a message the call returns STATUS_THREAD_IS_TERMINATING.        *)
Received(t) ==
  /\ Resumes(t, "receive")
  /\ messages' = IF messages = <<>> THEN <<>> ELSE Tail(messages)
  /\ Returns(t)
  /\ UNCHANGED <<listeners, nextId, port, linked, dead, messageId, tport, diedPort, failed>>

-----------------------------------------------------------------------------
(* NtConnectPort with the new port p, up to the wait.                      *)
NtConnectPort(t, p) ==
  /\ Runs(t)
  /\ nextId <= MaxId /\ port[p] = NONE
  /\ nextId' = nextId + 1
  /\ messageId' = [messageId EXCEPT ![t] = nextId]
  /\ port' = [port EXCEPT ![p] = [thread |-> t, other |-> NONE, received |-> 0, ident |-> NONE]]
  /\ send_message(NewMessage("connect", t, NONE), linked \ {t}, <<>>)
  /\ failed' = IF tport[t] = NONE THEN "none" ELSE "connecting"
  /\ tport' = [tport EXCEPT ![t] = p]
  /\ Blocks(t, "connect", p, nextId)
  /\ UNCHANGED <<dead, diedPort>>

(* ~port_t of port p by thread t, when the run list is lk: it tells the    *)
(* other side, and queues a close message.                                 *)
Destroy(t, p, lk) ==
  LET o == port[p].other
  IN IF o = NONE
     THEN /\ port' = [port EXCEPT ![p] = NONE]
          /\ linked' = lk
          /\ UNCHANGED <<messages, listeners, nextId>>
     ELSE /\ nextId <= MaxId /\ nextId' = nextId + 1
          /\ port' = [x \in Ports |-> CASE x = p -> NONE
                                        [] x = o -> [port[o] EXCEPT !.other = NONE]
                                        [] OTHER -> port[x]]
          /\ send_message(NewMessage("closed", t, port[p].ident), lk, <<>>)

(* connect_port after the wait.  Without an other side the connection was  *)
(* refused, and without a handle (the table is full, or copy_to_user       *)
(* refuses a terminated thread) it is given up: the port is released.      *)
EndConnect(t, p, lk, handle) ==
  /\ failed' = IF tport[t] = NONE THEN "none" ELSE "connecting"
  /\ IF handle /\ port[p].other # NONE
     THEN /\ port' = [port EXCEPT ![p] = Holds(@, 0)]
          /\ linked' = lk
          /\ UNCHANGED <<messages, listeners, nextId>>
     ELSE Destroy(t, p, lk)

Connected(t) ==
  /\ Resumes(t, "connect")
  /\ \E handle \in BOOLEAN : EndConnect(t, call[t].port, linked, handle)
  /\ Returns(t)
  /\ UNCHANGED <<dead, messageId, tport, diedPort>>

(* The checks of NtAcceptConnectPort: thread c waits for the answer to     *)
(* connection request id.                                                  *)
Pending(c, id) ==
  messageId[c] = id /\ tport[c] # NONE /\ port[tport[c]].other = NONE

(* NtAcceptConnectPort: refuse; accept with the new port q; or fail to map *)
(* a section and delete the new port, which sends a close message.         *)
Refuse(t, c, id) ==
  /\ Runs(t) /\ Pending(c, id)
  /\ tport' = [tport EXCEPT ![c] = NONE]
  /\ linked' = Started(c)
  /\ UNCHANGED <<messages, listeners, nextId, port, dead, call, messageId, diedPort, failed>>

Accept(t, c, id, q) ==
  /\ Runs(t) /\ Pending(c, id) /\ port[q] = NONE
  /\ port' = [p \in Ports |->
       CASE p = q -> [thread |-> t, other |-> tport[c], received |-> 0, ident |-> NONE]
         [] p = tport[c] -> [thread |-> port[p].thread, other |-> q, received |-> id, ident |-> q]
         [] OTHER -> port[p]]
  /\ UNCHANGED <<messages, listeners, nextId, linked, dead, call, messageId, tport, diedPort, failed>>

AcceptFails(t, c, id) ==
  /\ Runs(t) /\ Pending(c, id) /\ nextId <= MaxId
  /\ nextId' = nextId + 1
  /\ port' = [port EXCEPT ![tport[c]] = Holds(@, id)]
  /\ send_message(NewMessage("closed", t, NONE), linked, <<>>)
  /\ UNCHANGED <<dead, call, messageId, tport, diedPort, failed>>

(* The thread that NtCompleteConnectPort restarts: the one of the other    *)
(* side, if it is connecting.                                              *)
Peer(q) == port[port[q].other].thread

Completable(q) == port[q] # NONE /\ port[q].other # NONE /\ tport[Peer(q)] # NONE

(* Mutant: t->port is not cleared, and the thread may be restarted twice.  *)
NtCompleteConnectPort_twice(t, q) ==
  /\ Runs(t) /\ Completable(q)
  /\ linked' = Started(Peer(q))
  /\ UNCHANGED <<messages, listeners, nextId, port, dead, call, messageId, tport, diedPort, failed>>

(* complete_connect_port *)
NtCompleteConnectPort(t, q) ==
  /\ Runs(t) /\ Completable(q)
  /\ tport' = [tport EXCEPT ![Peer(q)] = NONE]
  /\ linked' = Started(Peer(q))
  /\ UNCHANGED <<messages, listeners, nextId, port, dead, call, messageId, diedPort, failed>>

-----------------------------------------------------------------------------
(* A thread may use a port that is connected; none is inside connect_port. *)
Usable(p) == port[p] # NONE /\ \A u \in Threads : ~(call[u].op = "connect" /\ call[u].port = p)

(* NtRequestWaitReplyPort, up to the wait.                                 *)
NtRequestWaitReplyPort(t, p) ==
  /\ Runs(t)
  /\ nextId <= MaxId /\ Usable(p)
  /\ nextId' = nextId + 1
  /\ messageId' = [messageId EXCEPT ![t] = nextId]
  /\ send_message(NewMessage("request", t, port[p].ident), linked \ {t},
                  <<[port |-> p, thread |-> t, connect |-> FALSE, id |-> nextId]>>)
  /\ failed' = IF port[p].received = 0 THEN "none" ELSE "received"
  /\ Blocks(t, "request", p, nextId)
  /\ UNCHANGED <<port, dead, tport, diedPort>>

(* request_wait_reply after the wait: the reply is read without a test.    *)
EndRequest(p) ==
  /\ failed' = IF port[p].received = 0 THEN "noReply" ELSE "none"
  /\ port' = [port EXCEPT ![p] = Holds(@, 0)]

Requested(t) ==
  /\ Resumes(t, "request")
  /\ EndRequest(call[t].port)
  /\ Returns(t)
  /\ UNCHANGED <<messages, listeners, nextId, linked, dead, messageId, tport, diedPort>>

(* NtRequestPort *)
NtRequestPort(t, p) ==
  /\ Runs(t)
  /\ nextId <= MaxId /\ Usable(p)
  /\ nextId' = nextId + 1
  /\ messageId' = [messageId EXCEPT ![t] = nextId]
  /\ send_message(NewMessage("datagram", t, port[p].ident), linked, <<>>)
  /\ UNCHANGED <<port, dead, call, tport, diedPort, failed>>

(* The last reference to a port goes.                                      *)
Close(t, p) ==
  /\ Runs(t)
  /\ port[p] # NONE
  /\ \A u \in Threads : call[u].port # p /\ diedPort[u] # p
  /\ Destroy(t, p, linked)
  /\ UNCHANGED <<dead, call, messageId, tport, diedPort, failed>>

(* NtRegisterThreadTerminatePort *)
NtRegisterThreadTerminatePort(t, p) ==
  /\ Runs(t) /\ Usable(p)
  /\ diedPort' = [diedPort EXCEPT ![t] = p]
  /\ UNCHANGED <<messages, listeners, nextId, port, linked, dead, call, messageId, tport, failed>>

(* thread_impl_t::terminate, by the thread itself or another one, with     *)
(* send_terminate_message.  A listener_t of the thread stays in its list.  *)
Terminate(t, u) ==
  LET lk == IF t = u THEN linked \ {t} ELSE linked
  IN /\ Runs(t)
     /\ u \in Killable \ dead
     /\ dead' = dead \cup {u}
     /\ diedPort' = [diedPort EXCEPT ![u] = NONE]
     /\ IF diedPort[u] = NONE
        THEN linked' = lk /\ UNCHANGED <<messages, listeners, nextId>>
        ELSE /\ nextId <= MaxId /\ nextId' = nextId + 1
             /\ send_message(NewMessage("died", u, port[diedPort[u]].ident), lk, <<>>)
     /\ UNCHANGED <<port, call, messageId, tport, failed>>

(* A terminated thread that is in the run list finishes its call, in which *)
(* it takes no message and gets no handle, and leaves the run list.        *)
DeadReturns(t) ==
  /\ failed = "none" /\ t \in dead \cap linked
  /\ Returns(t)
  /\ CASE call[t].op = "connect" -> EndConnect(t, call[t].port, linked \ {t}, FALSE)
       [] call[t].op = "request" -> /\ EndRequest(call[t].port)
                                    /\ linked' = linked \ {t}
                                    /\ UNCHANGED <<messages, listeners, nextId>>
       [] OTHER -> /\ linked' = linked \ {t}
                   /\ UNCHANGED <<messages, listeners, nextId, port, failed>>
  /\ UNCHANGED <<dead, messageId, tport, diedPort>>

Next ==
  \/ \E t \in Servers :
       \/ NtListenPort(t) \/ Listened(t) \/ Received(t)
       \/ \E id \in 1 .. MaxId : NtReplyPort(t, id)
       \/ \E id \in 0 .. MaxId : NtReplyWaitReceivePort(t, id)
       \/ \E c \in Clients, id \in 1 .. MaxId :
            \/ Refuse(t, c, id) \/ AcceptFails(t, c, id)
            \/ \E q \in Ports : Accept(t, c, id, q)
       \/ \E q \in Ports : NtCompleteConnectPort(t, q)
  \/ \E t \in Clients :
       \/ Connected(t) \/ Requested(t)
       \/ \E p \in Ports : \/ NtConnectPort(t, p)
                           \/ NtRegisterThreadTerminatePort(t, p)
                           \/ NtRequestWaitReplyPort(t, p) \/ NtRequestPort(t, p)
  \/ \E t \in Threads : \/ DeadReturns(t)
                        \/ \E p \in Ports : Close(t, p)
                        \/ \E u \in Threads : Terminate(t, u)

Spec == Init /\ [][Next]_vars

-----------------------------------------------------------------------------
Woken == {t \in linked : call[t].op \in {"listen", "receive"}}

(* Threads asleep in NtReplyWaitReceivePort never leave messages lying: as *)
(* long as one is in the list, there are at most as many messages as there *)
(* are threads that have been started to fetch one, although such a thread *)
(* may find that another has fetched its message.  (A server that is       *)
(* terminated breaks this: only clients may be killed where it is checked.)*)
NoMessageForgotten ==
  failed = "none" => \A i \in DOMAIN listeners :
    listeners[i].id = 0 /\ ~listeners[i].connect => Len(messages) <= Cardinality(Woken)

(* A thread is in the list of listeners at most once, for the call it is   *)
(* blocked in, and is then not in the run list: start() asserts that.      *)
ListenerIsBlocked ==
  /\ \A i, j \in DOMAIN listeners : listeners[i].thread = listeners[j].thread => i = j
  /\ \A i \in DOMAIN listeners :
       LET l == listeners[i]
       IN /\ l.thread \notin linked
          /\ call[l.thread].op = IF l.connect THEN "listen"
                                 ELSE IF l.id = 0 THEN "receive" ELSE "request"
          /\ call[l.thread].id = l.id

(* thread_t::port is set exactly while the thread, terminated or not, is   *)
(* asleep in NtConnectPort, to the port of that call; so each call is      *)
(* restarted at most once, and the assertions of connect_port hold.        *)
(* (Whose answer restarts it is the subject of CompletesOwn.)              *)
ConnectingThread ==
  \A t \in Threads :
    /\ tport[t] # NONE <=> call[t].op = "connect" /\ t \notin linked
    /\ tport[t] # NONE => tport[t] = call[t].port

(* The two ports of a connection point to each other.                      *)
PortsPaired ==
  \A p \in Ports : port[p] # NONE /\ port[p].other # NONE =>
    /\ port[port[p].other] # NONE
    /\ port[port[p].other].other = p
    /\ port[p].other # p

(* The connections: who is being connected, and what has been connected.   *)
ConnectionsSound == ConnectingThread /\ PortsPaired

(* However many threads share a port, the reply that a request returns is  *)
(* the reply to a request that is outstanding on that port, so to its own  *)
(* if no other is: never one that an earlier call left behind, nor one for *)
(* another port.  (With two requests on one port the replies may be        *)
(* swapped, and the second is then not there: OneReplyAtATime.)            *)
ReplyMatchesRequest ==
  [][\A t \in Clients : Requested(t) /\ failed' = "none" =>
       LET p == call[t].port
       IN \E u \in Threads :
            call[u] = [op |-> "request", port |-> p, id |-> port[p].received]]_vars

-----------------------------------------------------------------------------
(* port_t::listen: "Block until somebody connects to this port".  As long  *)
(* as a thread is asleep in NtListenPort there are at most as many         *)
(* connection requests as threads that have been started.  With three      *)
(* servers it is false: a request may start a receiver that fetches an     *)
(* older message, and the listener sleeps on.                              *)
NoRequestForgotten ==
  failed = "none" => \A i \in DOMAIN listeners :
    listeners[i].connect => Cardinality(ConnectRequests) <= Cardinality(Woken)

(* port_t::listen: assert(msg).                                            *)
ListenFindsRequest == failed # "listen"

(* request_wait_reply: assert( received_msg == 0 ), and the reply that is  *)
(* read without a test.                                                    *)
OneReplyAtATime == failed \notin {"received", "noReply"}

(* connect_port: "failing to fill the "other" port is a connection         *)
(* refusal".  A thread that NtCompleteConnectPort would restart is waiting *)
(* for the very connection that the port has accepted.                     *)
CompletesOwn == \A q \in Ports : Completable(q) => tport[Peer(q)] = port[q].other

(* A receiver that has been started finds a message.                       *)
ReceiverFindsMessage == [][\A t \in Servers : Received(t) => messages # <<>>]_vars

(* ~port_queue_t: assert( listeners.empty() ).  When no other port is left *)
(* and no live thread is inside a call, closing the last handle of the     *)
(* named port deletes the queue, so there must be no listener then.        *)
QueueDeletable ==
  (\A p \in Ports : port[p] = NONE) /\ (\A t \in Threads \ dead : call[t] = Idle)
    => listeners = <<>>
=============================================================================
