---------------------------- MODULE Housekeeping ----------------------------
(***************************************************************************)
(* The housekeeper of metal-ccm (pkg/controllers/housekeeping): it makes   *)
(* the tags of machines labels of their nodes, marks machines with the     *)
(* cluster's tag and SSH key, and ends the process when the metal-api has  *)
(* not been healthy for too long.  Each of these has a ticker of its own;  *)
(* the tag sync is also started by the node informer when a node is added, *)
(* so two of them may run at once.                                         *)
(*                                                                         *)
(* One step of a sync is one lookup or one update; the metal-api, caches,  *)
(* nodes and machines change in between.  Load balancer config syncing is  *)
(* part of LBConfig.                                                       *)
(***************************************************************************)
EXTENDS Instances

CONSTANTS
  ClusterKey,     \* the key of the cluster tag
  ClusterID,      \* the cluster's value of it
  Excluded,       \* keys that do not become labels
  KeyConfigured,  \* whether the process is given an SSH public key
  MaxAPIErrors,   \* failed health checks that are tolerated (60 in the code)
  Cluster,        \* the nodes of the cluster at the start
  Removed         \* whether somebody removes the nodes of machines taken away

ASSUME KeyAssumption == ClusterKey \in Key /\ Excluded \subseteq Key
ASSUME ClusterAssumption == ClusterID \in Value
ASSUME ConfiguredAssumption == KeyConfigured \in BOOLEAN
ASSUME ErrorAssumption == MaxAPIErrors \in Nat
ASSUME NodeAssumption == Cluster \in [Node -> NodeObject]
ASSUME RemovedAssumption == Removed \in BOOLEAN

VARIABLES
  running,     \* whether the process runs or is about to start
  sync,        \* the tag syncs in progress, by who runs them
  recent,      \* whether lastTagSync is less than SyncTagsMinimalInterval ago
  added,       \* nodes whose addition waits for the informer's AddFunc
  apiErrors    \* metalAPIErrors

vars == <<machine, metalUp, byID, byHost, faults, changes, node,
          running, sync, recent, added, apiErrors>>

hkVars == <<running, sync, recent, added, apiErrors>>

(* The goroutines that may run syncMachineTagsToNodeLabels. *)
Runner == {"ticker", "informer"}

(* What GetNodes returns of a node. *)
NodeInfo == [name : Node, id : Machine \cup {None}]

(* A sync: the nodes listed that are not done with, those whose machine is *)
(* still to be looked up, and machineTags.                                 *)
Sync == [step : {"idle", "sync", "mark"},
         list : SUBSET NodeInfo, todo : SUBSET NodeInfo,
         tags : [Node -> TagMap \cup {None}]]

NoSync == [step |-> "idle", list |-> {}, todo |-> {}, tags |-> EmptyByHost]

(* Nodes are listed in an order that stays the same. *)
First(nodes) == CHOOSE n \in nodes : TRUE

TypeOK ==
  /\ MetalTypeOK
  /\ node \in [Node -> NodeObject]
  /\ running \in BOOLEAN
  /\ sync \in [Runner -> Sync]
  /\ recent \in BOOLEAN
  /\ added \subseteq Node
  /\ apiErrors \in 0..MaxAPIErrors

(* metal-ccm starts for the first time, or anew after an upgrade. *)
Init ==
  /\ machine = Inventory
  /\ metalUp = TRUE
  /\ byID = [c \in Client |-> EmptyByID]
  /\ byHost = [c \in Client |-> EmptyByHost]
  /\ node = Cluster
  /\ faults = 0 /\ changes = 0
  /\ running = FALSE
  /\ sync = [r \in Runner |-> NoSync]
  /\ recent = FALSE
  /\ added = {}
  /\ apiErrors = 0

-----------------------------------------------------------------------------
(* The process.                                                            *)

(* NewCloud refuses to start while the metal-api is not healthy; the       *)
(* informer then tells about every node there is.                          *)
Start ==
  /\ ~running /\ metalUp
  /\ running' = TRUE
  /\ added' = Nodes
  /\ UNCHANGED <<metalVars, node, sync, recent, apiErrors>>

(* With the process end the caches and all local state. *)
Stop ==
  /\ running' = FALSE
  /\ sync' = [r \in Runner |-> NoSync]
  /\ recent' = FALSE
  /\ added' = {}
  /\ apiErrors' = 0
  /\ byID' = [c \in Client |-> EmptyByID]
  /\ byHost' = [c \in Client |-> EmptyByHost]
  /\ UNCHANGED <<machine, metalUp, changes, node>>

Crash == running /\ Fault /\ Stop

(* Mutant: a failed check does not count when the metal-api is not reached. *)
CheckUncounted ==
  /\ running
  /\ apiErrors' = 0
  /\ UNCHANGED <<metalVars, node, running, sync, recent, added>>

(* Mutant: it ends one failed check too late. *)
CheckLate ==
  /\ running
  /\ apiErrors' = IF metalUp THEN 0 ELSE apiErrors + 1
  /\ UNCHANGED <<metalVars, node, running, sync, recent, added>>

(* checkMetalAPIHealth: klog.Fatalf ends the process on one failed check   *)
(* too many in a row.                                                      *)
CheckMetalAPIHealth ==
  /\ running
  /\ \/ /\ metalUp
        /\ apiErrors' = 0
        /\ UNCHANGED <<metalVars, node, running, sync, recent, added>>
     \/ /\ ~metalUp /\ apiErrors < MaxAPIErrors
        /\ apiErrors' = apiErrors + 1
        /\ UNCHANGED <<metalVars, node, running, sync, recent, added>>
     \/ /\ ~metalUp /\ apiErrors = MaxAPIErrors
        /\ Stop /\ UNCHANGED faults

-----------------------------------------------------------------------------
(* syncMachineTagsToNodeLabels.                                            *)

Listed == {[name |-> n, id |-> node[n].id] : n \in Nodes}

SetSync(r, s) == sync' = [sync EXCEPT ![r] = s]

StartTagSync(r) ==
  /\ running
  /\ sync[r].step = "idle"
  /\ SetSync(r, [NoSync EXCEPT !.step = "sync", !.list = Listed, !.todo = Listed])

(* SyncTagsInterval has passed. *)
Tick == StartTagSync("ticker") /\ UNCHANGED <<metalVars, node, running, recent, added, apiErrors>>

(* AddFunc: nothing is done if the last sync ended a moment ago.  It reads *)
(* lastTagSync while the ticker's sync may be writing it, so that it may   *)
(* find any time in it then.                                               *)
TornRead == sync["ticker"].step = "sync" /\ sync["ticker"].list = {}

NodeAdded(n) ==
  /\ running /\ sync["informer"].step = "idle"
  /\ n \in added
  /\ added' = added \ {n}
  /\ \/ (~recent \/ TornRead) /\ StartTagSync("informer")
     \/ (recent \/ TornRead) /\ UNCHANGED sync
  /\ UNCHANGED <<metalVars, node, running, recent, apiErrors>>

(* SyncTagsMinimalInterval has passed since the last sync. *)
Elapse == recent /\ recent' = FALSE
          /\ UNCHANGED <<metalVars, node, running, sync, added, apiErrors>>

(* getMachineTags looks up the machine of every listed node.  The first    *)
(* error ends the sync; the tags go by the hostname of the machine.        *)
GetMachine(r) ==
  LET n == First(sync[r].todo)
      found == MachineByID("housekeeper", n.id)
  IN /\ sync[r].todo # {}
     /\ CacheByID("housekeeper", n.id)
     /\ SetSync(r, IF found = None THEN NoSync
                   ELSE [sync[r] EXCEPT !.todo = @ \ {n}, !.tags[found.host] = found.tags])
     /\ UNCHANGED <<machine, metalUp, faults, changes, node, running, recent, added, apiErrors>>

(* buildLabelsFromMachineTags. *)
BuildLabels(tags) == [k \in Key |-> IF k \in Excluded THEN None ELSE tags[k]]

(* Mutant: labels a node has are kept as they are. *)
CopyMissing(labels, new) == [k \in Key |-> IF labels[k] = None THEN new[k] ELSE labels[k]]

(* maps.Copy: labels whose tag is gone stay. *)
Copy(labels, new) == [k \in Key |-> IF new[k] = None THEN labels[k] ELSE new[k]]

(* Mutants: a cluster tag is added only if there is none; always. *)
UnmarkedMissing(tags) == tags[ClusterKey] = None
UnmarkedAlways(tags) == TRUE

(* The cluster tag is missing, or that of another cluster. *)
Unmarked(tags) == tags[ClusterKey] # ClusterID

(* All machines are looked up. *)
Labelling(r) == sync[r].step = "sync" /\ sync[r].todo = {}

NextNode(s, n) == [s EXCEPT !.step = "sync", !.list = @ \ {n}]

(* UpdateNodeLabelsWithBackoff: the node is read and written back, again   *)
(* if it has changed in between.  An error skips the node, as does a       *)
(* hostname no machine had.                                                *)
UpdateNodeLabels(r) ==
  LET n == First(sync[r].list)
      tags == sync[r].tags[n.name]
  IN /\ Labelling(r) /\ sync[r].list # {}
     /\ \/ /\ tags # None /\ node[n.name].there
           /\ node' = [node EXCEPT ![n.name].labels = Copy(@, BuildLabels(tags))]
           /\ SetSync(r, IF Unmarked(tags) THEN [sync[r] EXCEPT !.step = "mark"]
                                           ELSE NextNode(sync[r], n))
           /\ UNCHANGED faults
        \/ /\ tags = None \/ ~node[n.name].there
           /\ SetSync(r, NextNode(sync[r], n))
           /\ UNCHANGED <<node, faults>>
        \/ /\ tags # None /\ Fault
           /\ SetSync(r, NextNode(sync[r], n))
           /\ UNCHANGED node
     /\ UNCHANGED <<machine, metalUp, caches, changes, running, recent, added, apiErrors>>

(* The machine is looked up again, and the tags found by getMachineTags    *)
(* are written with the cluster tag appended.  An error skips it.          *)
MarkMachine(r) ==
  LET n == First(sync[r].list)
      found == GetMachineFromNode("housekeeper", n.name, n.id)
      tags == [sync[r].tags[n.name] EXCEPT ![ClusterKey] = ClusterID]
  IN /\ sync[r].step = "mark"
     /\ CacheFromNode("housekeeper", n.name, n.id)
     /\ IF found # None /\ metalUp THEN UpdateMachineTags(found.id, tags)
                                   ELSE UNCHANGED machine
     /\ SetSync(r, NextNode(sync[r], n))
     /\ UNCHANGED <<metalUp, faults, changes, node, running, recent, added, apiErrors>>

EndTagSync(r) ==
  /\ Labelling(r) /\ sync[r].list = {}
  /\ SetSync(r, NoSync)
  /\ recent' = TRUE
  /\ UNCHANGED <<metalVars, node, running, added, apiErrors>>

TagSync(r) == GetMachine(r) \/ UpdateNodeLabels(r) \/ MarkMachine(r) \/ EndTagSync(r)

-----------------------------------------------------------------------------
(* syncSSHKeys: one round of its loop.  Every error goes on to the next    *)
(* node, so the rounds are independent of each other.  Without a key to    *)
(* write there are none (startSSHKeysSynching).                            *)
SyncSSHKey(n) ==
  LET found == GetMachineFromNode("housekeeper", n, node[n].id)
  IN /\ running /\ KeyConfigured
     /\ node[n].there
     /\ CacheFromNode("housekeeper", n, node[n].id)
     /\ machine' = IF found # None /\ ~found.key /\ metalUp /\ machine[found.id].host # None
                   THEN [machine EXCEPT ![found.id].key = TRUE] ELSE machine
     /\ UNCHANGED <<metalUp, faults, changes, node, hkVars>>

-----------------------------------------------------------------------------

Register(n) == /\ RegisterNode(n)
               /\ added' = IF running THEN added \cup {n} ELSE added
               /\ UNCHANGED <<running, sync, recent, apiErrors>>

Remove(n) == /\ Removed /\ RemoveNode(n)
             /\ UNCHANGED hkVars

(* The node controllers run in the same process. *)
Initialize(n) == running /\ InitializeNode(n) /\ UNCHANGED hkVars
Monitor(n) == running /\ MonitorNode(n) /\ UNCHANGED hkVars

Users ==
  \E m \in Machine :
    \/ FreeMachine(m)
    \/ \E tags \in Tagging : \/ SetTags(m, tags)
                            \/ \E n \in Node : AllocateMachine(m, n, tags)

Expire(c) == \/ \E m \in Machine : ExpireByID(c, m)
             \/ \E n \in Node : ExpireByHost(c, n)

Outside == Outage \/ Recover \/ Users \/ \E c \in Client : Expire(c)

Housekeeper ==
  \/ CheckMetalAPIHealth \/ Tick \/ Elapse
  \/ \E r \in Runner : TagSync(r)
  \/ \E n \in Node : NodeAdded(n) \/ SyncSSHKey(n)

Next ==
  \/ Start \/ Crash \/ Housekeeper
  \/ Outside /\ UNCHANGED <<node, hkVars>>
  \/ \E n \in Node : Register(n) \/ Remove(n) \/ Initialize(n) \/ Monitor(n)

Spec == Init /\ [][Next]_vars

(* The process is started again, tickers tick, calls are answered, entries *)
(* expire, and what is outside goes on: kubelets register, the node        *)
(* controllers work, nodes are removed if anybody does.  That the          *)
(* metal-api comes back is no part of it, nor that users do anything.      *)
Fairness ==
  /\ WF_vars(Start) /\ WF_vars(CheckMetalAPIHealth) /\ WF_vars(Tick)
  /\ \A r \in Runner : WF_vars(TagSync(r))
  /\ \A c \in Client :
       /\ \A m \in Machine : WF_vars(ExpireByID(c, m) /\ UNCHANGED <<node, hkVars>>)
       /\ \A n \in Node : WF_vars(ExpireByHost(c, n) /\ UNCHANGED <<node, hkVars>>)
  /\ \A n \in Node : /\ WF_vars(SyncSSHKey(n)) /\ WF_vars(Register(n))
                     /\ WF_vars(Remove(n)) /\ WF_vars(Initialize(n))
                     /\ WF_vars(Monitor(n))

FairSpec == Spec /\ Fairness

-----------------------------------------------------------------------------
(* Safety.                                                                 *)

(* An outage of the metal-api, an outdated answer or a restart makes the   *)
(* cluster lose no node whose machine is still its own: an error of the    *)
(* lookup is not taken for "does not exist" (instances.go:138, 167).       *)
NodesSurvive ==
  [][\A n \in Nodes : HasMachine(n) => node'[n].there]_vars

(* Where nothing the housekeeper knows lacks the cluster tag: no machine,  *)
(* no cached answer, no list of tags a sync works with.                    *)
Carries(tags) == tags[ClusterKey] = ClusterID

AllMarked ==
  /\ \A m \in Machine : machine[m].host # None => Carries(machine[m].tags)
  /\ \A m \in Machine : LET entry == byID["housekeeper"][m]
                         IN entry # None => Carries(entry.tags)
  /\ \A r \in Runner, n \in Node : LET tags == sync[r].tags[n]
                                  IN tags # None => Carries(tags)

(* "Check if machine has a cluster tag, if not add it" (tags.go:77): once  *)
(* every machine has it and no older copy is around, the housekeeper does  *)
(* not touch the tags of machines any more, and what users have changed    *)
(* meanwhile is not overwritten.                                           *)
QuietOnceMarked ==
  [][AllMarked /\ UNCHANGED changes =>
       AllMarked' /\ \A m \in Machine : machine'[m].tags = machine[m].tags]_vars

-----------------------------------------------------------------------------
(* Liveness.                                                               *)

InLine(n) ==
  /\ node[n].id # None
  /\ \A k \in Key \ Excluded :
       LET tag == machine[node[n].id].tags[k] IN tag # None => node[n].labels[k] = tag

(* "Synchronizes tags of machines in this project to labels of that node"  *)
(* (tags.go:28): if the metal-api comes back, every node has the tags its  *)
(* machine has by now as labels in the end, although one node without a    *)
(* machine fails the sync of all, an added node may be ignored, two syncs  *)
(* may run at once, and each works on answers up to a minute old.          *)
EventuallyLabelled == <>[]metalUp => []<>(\A n \in Nodes : InLine(n))

Marked(m) == Carries(machine[m].tags) /\ (KeyConfigured => machine[m].key)

(* So does every machine of a node carry the cluster's tag and SSH key, if *)
(* there is one.                                                           *)
EventuallyMarked ==
  <>[]metalUp => []<>(\A n \in Nodes : node[n].id # None /\ Marked(node[n].id))

(* "metal-api was not healthy for more than 60 times, panic"               *)
(* (health.go:39): if it stays so, the process ends for good.              *)
UnhealthyEnds == <>[]~metalUp => <>[]~running
=============================================================================
