------------------------------- MODULE MCLpc -------------------------------
(* Instances of Lpc for TLC.                                               *)
EXTENDS Lpc, TLC

(* Ports, servers and clients are interchangeable names.                   *)
Symmetry == Permutations(Ports) \cup Permutations(Servers) \cup Permutations(Clients)
=============================================================================
