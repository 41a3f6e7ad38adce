-------------------------------- MODULE MCCCM --------------------------------
(* Instances of CCM for TLC.                                               *)
EXTENDS CCM

CONSTANTS c1, s1, s2, a1, a2, machine, n1, k1, h1, shared

OneCluster == [s \in Service |-> c1]

(* a1 is free, a2 an address a user has acquired; they share a pool, being *)
(* ephemeral addresses of one network.                                     *)
Acquired == [a \in Address |-> IF a = a2 THEN [type |-> "ephemeral", tags |-> {}] ELSE Free]

OnePool == [a \in Address |-> shared]
=============================================================================
