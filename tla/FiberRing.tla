----------------------------- MODULE FiberRing ------------------------------
(***************************************************************************)
(* What the run list of kernel/fiber.cpp promises: the runnable fibers are *)
(* a queue whose head executes.  A yield sends the head to the back, a     *)
(* start puts a fiber second in the queue, a stop drops the head, and the  *)
(* main fiber never leaves.                                                *)
(***************************************************************************)
EXTENDS Naturals, Sequences

CONSTANTS Main, Threads

VARIABLE ring

Init == ring = <<Main>>

Yield == ring' = Append(Tail(ring), Head(ring))

Start(f) == /\ \A i \in DOMAIN ring : ring[i] # f
            /\ ring' = <<Head(ring), f>> \o Tail(ring)

Stop == /\ Head(ring) # Main
        /\ ring' = Tail(ring)

Next == Yield \/ Stop \/ \E f \in Threads : Start(f)

Spec == Init /\ [][Next]_ring
=============================================================================
