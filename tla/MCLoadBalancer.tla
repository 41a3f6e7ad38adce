--------------------------- MODULE MCLoadBalancer ---------------------------
(* Instances of LoadBalancer for TLC.                                      *)
EXTENDS LoadBalancer, TLC

CONSTANTS c1, s1, s2, a1, a2, a3, a4, machine

OneCluster == [s \in Service |-> CHOOSE c \in Cluster : TRUE]

ServiceSymmetry == Permutations(Service)

(* A static address of the project, and one of a machine.                  *)
WithStatic == [a \in Address |-> IF a = a4 THEN [type |-> "static", tags |-> {}]
                                           ELSE Free]
WithMachine == [a \in Address |->
                  CASE a = a3 -> [type |-> "ephemeral", tags |-> {machine}]
                    [] a = a2 -> [type |-> "static", tags |-> {}]
                    [] OTHER  -> Free]
=============================================================================
