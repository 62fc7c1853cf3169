--------------------------------- MODULE MCIo ---------------------------------
(***************************************************************************)
(* Input and output between threads: completion ports (Completion) and     *)
(* named pipes (Pipes).  A behaviour is one of one of the two.             *)
(***************************************************************************)
EXTENDS Completion

VARIABLES which,   \* the part that this behaviour is one of
          kernel, down, insts, servers, srv, cli, th

CONSTANTS p1

(* Two ports with different limits; one thread may be terminated.          *)
LimitMixed == [p \in Ports |-> IF p = p1 THEN 1 ELSE 2]

Pi == INSTANCE Pipes WITH Threads <- {"t1", "t2"}, Pnp <- "k", Servers <- {"s1", "sk"}, PnpServer <- "sk",
                          Clients <- {"c1"}, NONE <- "none", MaxInstances <- 1, MaxIn <- 2, MaxOut <- 1

MCInit ==
  /\ which \in {"completion", "pipes"}
  /\ Init
  /\ Pi!PInit

completionvars == <<state, linked, waitsOn, got, queue, waiters, idle, open,
                     sent, failed>>
pipesvars == <<kernel, down, insts, servers, srv, cli, th>>
mcvars == <<which, completionvars, pipesvars>>

MCNext ==
  \/ which = "completion" /\ Next /\ UNCHANGED <<which, pipesvars>>
  \/ which = "pipes" /\ Pi!PNext /\ UNCHANGED <<which, completionvars>>

(* A woken thread gets its turn, the kernel's pipe thread too.             *)
MCFair == /\ \A t \in Threads : WF_vars(Resumed(t))
          /\ WF_pipesvars(which = "pipes" /\ \E copied \in BOOLEAN : Pi!Resume("k", copied))

MCSpec == MCInit /\ [][MCNext]_mcvars /\ MCFair

-------------------------------------------------------------------------------
(* The two ends of a pipe point at each other, and what waits in it is     *)
(* what was written and not yet read, in order, whichever readers are      *)
(* interrupted, raced or terminated; nobody sleeps beside a message: a     *)
(* thread that waits to read is the one the instance would start, and      *)
(* there is nothing to read (namedpipe.cpp: create_client, disconnect,     *)
(* read, write, transceive).                                               *)
PipesDeliver == Pi!PipesPaired /\ Pi!MessagesInOrder /\ Pi!ReaderNotForgotten

(* Nobody who is owed a turn waits for ever: a thread at a completion port *)
(* that has packets gets one (WaiterServed of Completion), and the kernel  *)
(* thread of the plug and play pipe leaves when shutdown_kthread asks it   *)
(* to, wherever it was (ShutdownEnds of Pipes).                            *)
WaitersGetTheirTurn == WaiterServed /\ Pi!ShutdownEnds
===============================================================================
