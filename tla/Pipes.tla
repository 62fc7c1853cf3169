------------------------------- MODULE Pipes --------------------------------
(***************************************************************************)
(* Named pipes (kernel/namedpipe.cpp, reached through NtReadFile,          *)
(* NtWriteFile, NtFsControlFile and NtOpenFile of file.cpp) and the        *)
(* plug-and-play kernel thread that listens on one (kthread.cpp).          *)
(*                                                                         *)
(* There are two names: the users' pipe, and \ntsvcs with the instance of  *)
(* the kernel thread.  A thread runs until a call blocks it                *)
(* (thread_t::wait) and goes on behind that wait when somebody has started *)
(* its fiber; in between, other threads run.  Messages of a direction are  *)
(* numbered as they are written.                                           *)
(***************************************************************************)
EXTENDS Integers, Sequences, FiniteSets

CONSTANTS Threads,     \* user threads; all share the handles
          Pnp,         \* plug_and_play_t
          Servers,     \* addresses of pipe_server_t objects, each used once
          PnpServer,   \* the one that the kernel thread makes
          Clients,     \* addresses of pipe_client_t objects, each used once
          NONE,
          MaxInstances,\* MaxInstances of the first NtCreateNamedPipeFile
          MaxIn, MaxOut \* bounds on the messages that clients and servers write

All == Threads \cup {Pnp}
Names == {"user", "ntsvcs"}
NameOf(s) == IF s = PnpServer THEN "ntsvcs" ELSE "user"

VARIABLES kernel,    \* "up", "assert" or "undefined" (a pointer to a deleted object was used)
          down,      \* shutdown_kthread has been called
          insts,     \* pipe_container_t::num_instances of the users' pipe
          servers,   \* pipe_container_t::servers, of both names
          srv,       \* the fields of each pipe_server_t, and what was written and read
          cli,       \* the fields of each pipe_client_t
          th         \* each thread: its fiber, whether it was terminated, and the wait it is in

pvars == <<kernel, down, insts, servers, srv, cli, th>>

-----------------------------------------------------------------------------
NoOp == [kind |-> "none", obj |-> NONE]
Op(kind, obj) == [kind |-> kind, obj |-> obj]

NewServer == [life |-> "new", state |-> "idle", client |-> NONE, thread |-> NONE,
              received |-> <<>>, sent |-> <<>>, in |-> 0, out |-> 0, taken |-> 0, given |-> 0]
NewClient == [life |-> "new", server |-> NONE, thread |-> NONE]

Runs(t) == kernel = "up" /\ th[t].fiber = "running"
IsLive(rec, x) == x # NONE /\ rec[x].life = "live"

(* thread_t::wait                                                          *)
Waits(t, kind, obj) == [th EXCEPT ![t] = [@ EXCEPT !.fiber = "blocked", !.op = Op(kind, obj)]]

(* fiber_t::start asserts that the fiber is not linked.                    *)
Startable(t) == th[t].fiber = "blocked"
Started(threads, t) == [threads EXCEPT ![t].fiber = "ready"]
Fails(why) == kernel' = why /\ UNCHANGED <<down, insts, servers, srv, cli, th>>

-----------------------------------------------------------------------------
(* pipe_container_t::create_server                                         *)
create_server(s) ==
  /\ insts < MaxInstances
  /\ insts' = insts + 1
  /\ srv[s].life = "new"
  /\ srv' = [srv EXCEPT ![s].life = "live"]
  /\ servers' = Append(servers, s)

(* NtCreateNamedPipeFile with good arguments and room for the handle (else *)
(* the new instance is deleted at once).                                   *)
NtCreateNamedPipeFile(t) ==
  /\ Runs(t)
  /\ \E s \in Servers \ {PnpServer} : create_server(s)
  /\ UNCHANGED <<kernel, down, cli, th>>

(* The container of a name outlives its instances: the reference that its  *)
(* creation left is never released.                                        *)
Exists(n) == \E s \in Servers : NameOf(s) = n /\ srv[s].life # "new"

(* pipe_container_t::find_idle_server                                      *)
find_idle_server(n) ==
  LET waiting == SelectSeq(servers, LAMBDA s : NameOf(s) = n /\ srv[s].state = "wait_connect")
  IN IF waiting = <<>> THEN NONE ELSE Head(waiting)

(* NtOpenFile on the pipe: pipe_container_t::create_client.  If there is   *)
(* no room for the handle the client is deleted again, connected or not.   *)
OpenClient(t, n, fits) ==
  /\ Runs(t) /\ Exists(n)
  /\ \E c \in Clients :
       /\ cli[c].life = "new"
       /\ LET s == find_idle_server(n)
              life == IF fits THEN "live" ELSE "dead"
          IN IF s = NONE
             THEN /\ cli' = [cli EXCEPT ![c].life = life]
                  /\ UNCHANGED <<kernel, down, insts, servers, srv, th>>
             ELSE IF Startable(srv[s].thread)
             THEN /\ srv' = [srv EXCEPT ![s] = [@ EXCEPT !.client = c, !.state = "connected", !.thread = NONE]]
                  /\ cli' = [cli EXCEPT ![c] = [@ EXCEPT !.life = life, !.server = s]]
                  /\ th' = Started(th, srv[s].thread)
                  /\ UNCHANGED <<kernel, down, insts, servers>>
             ELSE Fails("assert")

(* pipe_server_t::connect.  do_connect looks through a list of clients     *)
(* that nothing is ever put on.                                            *)
Listen(t, s) ==
  /\ Runs(t) /\ IsLive(srv, s) /\ srv[s].state = "idle"
  /\ srv' = [srv EXCEPT ![s] = [@ EXCEPT !.state = "wait_connect", !.thread = t]]
  /\ th' = Waits(t, "listen", s)
  /\ UNCHANGED <<kernel, down, insts, servers, cli>>

(* Mutant: the client keeps its pointer to the server.                     *)
Disconnect_half(t, s) ==
  /\ Runs(t) /\ IsLive(srv, s) /\ srv[s].state = "connected"
  /\ srv' = [srv EXCEPT ![s] = [@ EXCEPT !.client = NONE, !.state = "disconnected"]]
  /\ UNCHANGED <<kernel, down, insts, servers, cli, th>>

(* pipe_server_t::disconnect                                               *)
Disconnect(t, s) ==
  /\ Runs(t) /\ IsLive(srv, s) /\ srv[s].state = "connected"
  /\ IF IsLive(cli, srv[s].client)
     THEN /\ cli' = [cli EXCEPT ![srv[s].client].server = NONE]
          /\ srv' = [srv EXCEPT ![s] = [@ EXCEPT !.client = NONE, !.state = "disconnected"]]
          /\ UNCHANGED <<kernel, down, insts, servers, th>>
     ELSE Fails("undefined")

-----------------------------------------------------------------------------
(* Mutant: the message is unlinked before it is copied.                    *)
TakeReceived_early(s, copied) ==
  srv' = IF srv[s].received # <<>>
         THEN [srv EXCEPT ![s] = [@ EXCEPT !.received = Tail(@), !.taken = IF copied THEN @ + 1 ELSE @]]
         ELSE srv

(* The rest of pipe_server_t::read: without a message it returns nothing,  *)
(* if the copy fails the message stays.                                    *)
TakeReceived(s, copied) ==
  srv' = IF srv[s].received # <<>> /\ copied
         THEN [srv EXCEPT ![s] = [@ EXCEPT !.received = Tail(@), !.taken = @ + 1]]
         ELSE srv

TakeSent(s, copied) ==
  srv' = IF srv[s].sent # <<>> /\ copied
         THEN [srv EXCEPT ![s] = [@ EXCEPT !.sent = Tail(@), !.given = @ + 1]]
         ELSE srv

(* pipe_server_t::read                                                     *)
ServerRead(t, s, copied) ==
  /\ Runs(t) /\ IsLive(srv, s) /\ srv[s].state = "connected" /\ srv[s].thread = NONE
  /\ IF srv[s].received = <<>>
     THEN /\ srv' = [srv EXCEPT ![s].thread = t]
          /\ th' = Waits(t, "server_read", s)
     ELSE TakeReceived(s, copied) /\ UNCHANGED th
  /\ UNCHANGED <<kernel, down, insts, servers, cli>>

(* pipe_client_t::read and the end of transceive                           *)
ClientReads(t, c, copied) ==
  LET s == cli[c].server
  IN IF srv[s].sent = <<>>
     THEN /\ cli' = [cli EXCEPT ![c].thread = t]
          /\ th' = Waits(t, "client_read", c)
          /\ UNCHANGED <<kernel, down, insts, servers, srv>>
     ELSE TakeSent(s, copied) /\ UNCHANGED <<kernel, down, insts, servers, cli, th>>

ClientRead(t, c, copied) ==
  /\ Runs(t) /\ IsLive(cli, c) /\ cli[c].server # NONE /\ cli[c].thread = NONE
  /\ IF ~IsLive(srv, cli[c].server) THEN Fails("undefined")
     ELSE srv[cli[c].server].state = "connected" /\ ClientReads(t, c, copied)

(* Mutant: the reader is not started.                                      *)
queue_message_from_client_nowake(s) ==
  /\ srv' = [srv EXCEPT ![s] = [@ EXCEPT !.received = Append(@, srv[s].in + 1), !.in = @ + 1]]
  /\ th' = th

(* pipe_server_t::queue_message_from_client; the new messages of s and the *)
(* threads after it.                                                       *)
queue_message_from_client(s) ==
  /\ srv' = [srv EXCEPT ![s] = [@ EXCEPT !.received = Append(@, srv[s].in + 1), !.in = @ + 1, !.thread = NONE]]
  /\ th' = IF srv[s].thread = NONE THEN th ELSE Started(th, srv[s].thread)

(* pipe_client_t::write                                                    *)
ClientWrite(t, c) ==
  /\ Runs(t) /\ IsLive(cli, c) /\ cli[c].server # NONE
  /\ LET s == cli[c].server
     IN IF ~IsLive(srv, s) THEN Fails("undefined")
        ELSE /\ srv[s].state = "connected" /\ srv[s].in < MaxIn
             /\ IF srv[s].thread # NONE /\ ~Startable(srv[s].thread) THEN Fails("assert")
                ELSE /\ queue_message_from_client(s)
                     /\ UNCHANGED <<kernel, down, insts, servers, cli>>

(* pipe_client_t::transceive: the write, which may start the server's      *)
(* reader, and at once the read.                                           *)
Transceive(t, c, copied) ==
  /\ Runs(t) /\ IsLive(cli, c) /\ IsLive(srv, cli[c].server)
  /\ LET s == cli[c].server
         reader == srv[s].thread
         woken == IF reader = NONE THEN th ELSE Started(th, reader)
         blocks == cli[c].thread = NONE /\ srv[s].sent = <<>>
         takes == cli[c].thread = NONE /\ srv[s].sent # <<>> /\ copied
     IN /\ srv[s].state = "connected" /\ srv[s].in < MaxIn
        /\ reader # NONE => Startable(reader)
        /\ srv' = [srv EXCEPT ![s] = [@ EXCEPT
                     !.received = Append(@, srv[s].in + 1), !.in = @ + 1, !.thread = NONE,
                     !.sent = IF takes THEN Tail(@) ELSE @, !.given = IF takes THEN @ + 1 ELSE @]]
        /\ cli' = [cli EXCEPT ![c].thread = IF blocks THEN t ELSE @]
        /\ th' = IF blocks THEN [woken EXCEPT ![t].fiber = "blocked", ![t].op = Op("client_read", c)] ELSE woken
        /\ UNCHANGED <<kernel, down, insts, servers>>

(* pipe_server_t::write does not look at the state:                        *)
(* queue_message_to_client asserts it.                                     *)
ServerWrite(t, s) ==
  /\ Runs(t) /\ IsLive(srv, s) /\ srv[s].out < MaxOut
  /\ LET c == srv[s].client
     IN IF srv[s].state # "connected" THEN Fails("assert")
        ELSE IF ~IsLive(cli, c) THEN Fails("undefined")
        ELSE IF cli[c].thread # NONE /\ ~Startable(cli[c].thread) THEN Fails("assert")
        ELSE /\ srv' = [srv EXCEPT ![s] = [@ EXCEPT !.sent = Append(@, srv[s].out + 1), !.out = @ + 1]]
             /\ cli' = [cli EXCEPT ![c].thread = NONE]
             /\ th' = IF cli[c].thread = NONE THEN th ELSE Started(th, cli[c].thread)
             /\ UNCHANGED <<kernel, down, insts, servers>>

(* pipe_device_t::wait_server_available: nobody ends this wait.            *)
WaitServer(t, n) ==
  /\ Runs(t) /\ Exists(n) /\ find_idle_server(n) = NONE
  /\ th' = Waits(t, "wait_server", NONE)
  /\ UNCHANGED <<kernel, down, insts, servers, srv, cli>>

-----------------------------------------------------------------------------
(* NtClose of the last handle: ~pipe_server_t, pipe_container_t::unlink.   *)
(* The client is not told, and neither is a thread that waits in it.       *)
CloseServer(t, s) ==
  /\ Runs(t) /\ IsLive(srv, s) /\ s # PnpServer
  /\ srv' = [srv EXCEPT ![s] = [@ EXCEPT !.life = "dead", !.received = <<>>]]
  /\ servers' = SelectSeq(servers, LAMBDA x : x # s)
  /\ insts' = insts - 1
  /\ UNCHANGED <<kernel, down, cli, th>>

CloseClient(t, c) ==
  /\ Runs(t) /\ IsLive(cli, c)
  /\ cli' = [cli EXCEPT ![c].life = "dead"]
  /\ UNCHANGED <<kernel, down, insts, servers, srv, th>>

(* thread_impl_t::terminate by a running thread: a thread that waits stays *)
(* where it is.                                                            *)
Terminate(t) ==
  /\ kernel = "up" /\ (\E k \in Threads : Runs(k)) /\ ~th[t].terminated
  /\ th' = [th EXCEPT ![t] = [@ EXCEPT !.terminated = TRUE, !.fiber = IF @ = "running" THEN "exited" ELSE @]]
  /\ UNCHANGED <<kernel, down, insts, servers, srv, cli>>

-----------------------------------------------------------------------------
(* What a thread that was started does after its wait: terminated it       *)
(* leaves, otherwise come the asserts, then the rest of the call.          *)
Leaves(t) == [th EXCEPT ![t] = [@ EXCEPT !.fiber = "exited", !.op = NoOp]]
Returns(t) == [th EXCEPT ![t] = [@ EXCEPT !.fiber = "running", !.op = NoOp]]

others == <<kernel, down, insts, servers>>

(* pipe_server_t::connect, pipe_server_t::read and pipe_client_t::read.    *)
ListenEnds(t, s) ==
  IF ~IsLive(srv, s) THEN Fails("undefined")
  ELSE IF srv[s].thread # NONE \/ srv[s].state # "connected" THEN Fails("assert")
  ELSE /\ th' = IF t = Pnp THEN Waits(t, "stop", NONE) ELSE Returns(t)
       /\ UNCHANGED <<others, srv, cli>>

ServerReadEnds(t, s, copied) ==
  IF ~IsLive(srv, s) THEN Fails("undefined")
  ELSE IF srv[s].thread # NONE THEN Fails("assert")
  ELSE TakeReceived(s, copied) /\ th' = Returns(t) /\ UNCHANGED <<others, cli>>

ClientReadEnds(t, c, copied) ==
  IF ~IsLive(cli, c) THEN Fails("undefined")
  ELSE IF cli[c].thread # NONE THEN Fails("assert")
  ELSE IF ~IsLive(srv, cli[c].server) THEN Fails("undefined")
  ELSE TakeSent(cli[c].server, copied) /\ th' = Returns(t) /\ UNCHANGED <<others, cli>>

Resume(t, copied) ==
  LET op == th[t].op
  IN /\ kernel = "up" /\ th[t].fiber = "ready"
     /\ \/ th[t].terminated /\ th' = Leaves(t) /\ UNCHANGED <<others, srv, cli>>
        \/ ~th[t].terminated /\ op.kind = "listen" /\ ListenEnds(t, op.obj)
        \/ ~th[t].terminated /\ op.kind = "server_read" /\ ServerReadEnds(t, op.obj, copied)
        \/ ~th[t].terminated /\ op.kind = "client_read" /\ ClientReadEnds(t, op.obj, copied)

(* plug_and_play_t::run up to its wait: create the instance, and listen.   *)
PnpRuns ==
  /\ Runs(Pnp)
  /\ srv' = [srv EXCEPT ![PnpServer] = [@ EXCEPT !.life = "live", !.state = "wait_connect", !.thread = Pnp]]
  /\ servers' = Append(servers, PnpServer)
  /\ th' = Waits(Pnp, "listen", PnpServer)
  /\ UNCHANGED <<kernel, down, insts, cli>>

(* Mutant: kernel_thread_t::terminate does not start the thread.           *)
Shutdown_nostart ==
  /\ kernel = "up" /\ ~down
  /\ \A t \in All : th[t].fiber \in {"blocked", "exited"}
  /\ down' = TRUE
  /\ th' = [th EXCEPT ![Pnp].terminated = TRUE]
  /\ UNCHANGED <<kernel, insts, servers, srv, cli>>

(* shutdown_kthread, after schedule() found that no other fiber runs:      *)
(* kernel_thread_t::terminate starts the thread wherever it waits.         *)
Shutdown ==
  /\ kernel = "up" /\ ~down
  /\ \A t \in All : th[t].fiber \in {"blocked", "exited"}
  /\ down' = TRUE
  /\ IF Startable(Pnp)
     THEN /\ th' = [Started(th, Pnp) EXCEPT ![Pnp].terminated = TRUE]
          /\ UNCHANGED <<kernel, insts, servers, srv, cli>>
     ELSE kernel' = "assert" /\ UNCHANGED <<insts, servers, srv, cli, th>>

-----------------------------------------------------------------------------
PInit ==
  /\ kernel = "up" /\ down = FALSE /\ insts = 0 /\ servers = <<>>
  /\ srv = [s \in Servers |-> NewServer]
  /\ cli = [c \in Clients |-> NewClient]
  /\ th = [t \in All |-> [fiber |-> "running", terminated |-> FALSE, op |-> NoOp]]

Calls(t) ==
  \/ NtCreateNamedPipeFile(t)
  \/ \E n \in Names, fits \in BOOLEAN : OpenClient(t, n, fits)
  \/ \E n \in Names : WaitServer(t, n)
  \/ \E s \in Servers \ {PnpServer}, copied \in BOOLEAN :
       \/ Listen(t, s) \/ Disconnect(t, s) \/ ServerRead(t, s, copied)
       \/ ServerWrite(t, s) \/ CloseServer(t, s)
  \/ \E c \in Clients, copied \in BOOLEAN :
       \/ ClientRead(t, c, copied) \/ ClientWrite(t, c) \/ Transceive(t, c, copied)
       \/ CloseClient(t, c)

PNext ==
  \/ \E t \in Threads : Calls(t) \/ Terminate(t)
  \/ \E t \in All, copied \in BOOLEAN : Resume(t, copied)
  \/ PnpRuns
  \/ Shutdown

PipesSpec == PInit /\ [][PNext]_pvars /\ WF_pvars(\E copied \in BOOLEAN : Resume(Pnp, copied))

-----------------------------------------------------------------------------
Numbers(a, b) == [i \in 1 .. b - a |-> a + i]

(* Both ends of a connection point at each other as long as both exist, a  *)
(* server that awaits a connection has the thread that listens (which      *)
(* create_client starts without looking), only the instances that exist    *)
(* are counted, and no more than were allowed (create_server, set_client,  *)
(* connect, disconnect, unlink).                                           *)
PipesPaired == kernel = "up" =>
  /\ \A s \in Servers : srv[s].life = "live" =>
       /\ srv[s].state = "connected" /\ IsLive(cli, srv[s].client) => cli[srv[s].client].server = s
       /\ srv[s].state = "wait_connect" =>
            /\ srv[s].thread # NONE
            /\ th[srv[s].thread].op = Op("listen", s) \/ th[srv[s].thread].terminated
  /\ \A c \in Clients : IsLive(cli, c) /\ IsLive(srv, cli[c].server) =>
       srv[cli[c].server].state = "connected" /\ srv[cli[c].server].client = c
  /\ insts = Cardinality({s \in Servers \ {PnpServer} : srv[s].life = "live"})
  /\ insts <= MaxInstances

(* What waits in an instance is exactly what was written and not yet read, *)
(* in the order it was written: no message is lost, repeated or overtaken, *)
(* whichever readers are interrupted, raced or terminated (read, write,    *)
(* transceive, the queue_message functions).                               *)
MessagesInOrder ==
  \A s \in Servers : srv[s].life = "live" =>
    /\ srv[s].received = Numbers(srv[s].taken, srv[s].in)
    /\ srv[s].sent = Numbers(srv[s].given, srv[s].out)

(* Nobody sleeps beside a message: a thread that waits to read is the one  *)
(* the instance would start, and there is nothing to read.                 *)
ReaderNotForgotten == kernel = "up" =>
  \A t \in Threads : th[t].fiber = "blocked" =>
    /\ th[t].op.kind = "server_read" /\ IsLive(srv, th[t].op.obj) =>
         srv[th[t].op.obj].thread = t /\ srv[th[t].op.obj].received = <<>>
    /\ th[t].op.kind = "client_read" /\ IsLive(cli, th[t].op.obj) =>
         /\ cli[th[t].op.obj].thread = t
         /\ IsLive(srv, cli[th[t].op.obj].server) => srv[cli[th[t].op.obj].server].sent = <<>>

(* shutdown_kthread's loop ends: the kernel thread leaves wherever it was. *)
ShutdownEnds == down ~> (th[Pnp].fiber = "exited")

(* The assertion that pipe_server_t::read makes after its wait.            *)
ReaderIsAlone ==
  \A t \in Threads :
    /\ kernel = "up" /\ th[t].fiber = "ready" /\ ~th[t].terminated
    /\ th[t].op.kind = "server_read" /\ IsLive(srv, th[t].op.obj)
    => srv[th[t].op.obj].thread = NONE
=============================================================================
