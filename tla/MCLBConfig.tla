----------------------------- MODULE MCLBConfig -----------------------------
(* Instances of LBConfig for TLC.                                          *)
EXTENDS LBConfig, TLC

CONSTANTS n1, n2, k1, k2, h1, h2, a1, a2, a3, static, ephemeral, worker

(* a1 and a2 are addresses of one network, of different types; a3 is in a  *)
(* network that is not one of the cluster's.                               *)
TwoTypes == [a \in Address |-> CASE a = a1 -> static
                                 [] a = a2 -> ephemeral
                                 [] OTHER  -> None]

(* a1 and a2 share a pool. *)
OneType == [a \in Address |-> IF a = a3 THEN static ELSE ephemeral]

(* Values the model treats alike. *)
Alike == Permutations(Node) \cup Permutations(ASN) \cup Permutations(Host)
=============================================================================
