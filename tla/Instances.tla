----------------------------- MODULE Instances ------------------------------
(***************************************************************************)
(* What metal-ccm tells the node controllers of k8s.io/cloud-provider      *)
(* about the machine of a node (pkg/controllers/instances), and what these *)
(* controllers do with the answer: one gives a new node its provider id    *)
(* and addresses, the other deletes a node whose machine no longer exists. *)
(***************************************************************************)
EXTENDS MetalService

VARIABLE node   \* the API server: the nodes of the cluster

(* id stands for spec.providerID, labels for those that come from tags.    *)
NodeObject == [there : BOOLEAN, id : Machine \cup {None}, labels : TagMap]
NoNode == [there |-> FALSE, id |-> None, labels |-> NoTags]

Nodes == {n \in Node : node[n].there}

(* The machine a node runs on is still the node's. *)
HasMachine(n) == IF node[n].id = None
                 THEN \E m \in Machine : machine[m].host = n
                 ELSE machine[node[n].id].host = n

-----------------------------------------------------------------------------
(* Answers are pairs of a value and whether there was an error.            *)

(* Mutant: a machine that is not found does not exist. *)
InstanceExistsNoError(found) == [exists |-> found # None /\ found.host # None,
                                 err    |-> FALSE]

(* InstanceExists: what the lookup found says whether there is an          *)
(* allocation; an error of the lookup is passed on.                        *)
InstanceExists(found) == [exists |-> found # None /\ found.host # None,
                          err    |-> found = None]

(* The node lifecycle controller asks about a node that is not ready, and  *)
(* deletes it if its machine does not exist.  A node is not ready when its *)
(* machine is gone, and may be for any other reason (a fault).             *)
MonitorNode(n) ==
  LET answer == InstanceExists(MachineByID("controllers", node[n].id))
  IN /\ node[n].there
     /\ \/ Fault
        \/ ~HasMachine(n) /\ UNCHANGED faults
     /\ CacheByID("controllers", node[n].id)
     /\ node' = IF ~answer.err /\ ~answer.exists
                THEN [node EXCEPT ![n] = NoNode] ELSE node
     /\ UNCHANGED <<machine, metalUp, changes>>

(* InstanceMetadata: the provider id is made of the id of the machine that *)
(* was found; type and addresses are read off it, too.                     *)
InstanceMetadata(found) == [id  |-> IF found = None THEN None ELSE found.id,
                            err |-> found = None]

(* The cloud node controller initializes a node: the provider id of the    *)
(* machine that has its name by then is the node's for good.               *)
InitializeNode(n) ==
  LET answer == InstanceMetadata(GetMachineFromNode("controllers", n, None))
  IN /\ node[n].there
     /\ node[n].id = None
     /\ CacheFromNode("controllers", n, None)
     /\ node' = IF answer.err THEN node ELSE [node EXCEPT ![n].id = answer.id]
     /\ UNCHANGED <<machine, metalUp, faults, changes>>

-----------------------------------------------------------------------------
(* Nodes come and go.                                                      *)

(* The kubelet of a machine registers its node.  Booting takes longer than *)
(* an answer is cached: none from before the allocation is left.           *)
Booted(n) ==
  \E m \in Machine :
    /\ machine[m].host = n
    /\ \A c \in Client : byHost[c][n] # None => byHost[c][n].id = m

RegisterNode(n) ==
  /\ ~node[n].there
  /\ Booted(n)
  /\ node' = [node EXCEPT ![n] = [NoNode EXCEPT !.there = TRUE]]
  /\ UNCHANGED metalVars

(* Whoever takes a machine from the cluster (Gardener's machine controller *)
(* manager, an operator) removes its node.                                 *)
RemoveNode(n) ==
  /\ node[n].there
  /\ ~HasMachine(n)
  /\ node' = [node EXCEPT ![n] = NoNode]
  /\ UNCHANGED metalVars
=============================================================================
