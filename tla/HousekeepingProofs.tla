-------------------------- MODULE HousekeepingProofs --------------------------
(***************************************************************************)
(* Theorems about Housekeeping, for any nodes, machines, tags and bounds.  *)
(* On top of the types, the invariant says what the caches hold            *)
(* (AllocatedCached) and why a sync is about to write the tags of a        *)
(* machine (MarkPending).                                                  *)
(***************************************************************************)
EXTENDS Housekeeping, TLAPS

USE NoneAssumption, InventoryAssumption, TaggingAssumption, BoundAssumption,
    KeyAssumption, ClusterAssumption, ErrorAssumption, NodeAssumption

(* No cached machine lacks an allocation: the fetch function has refused it. *)
AllocatedCached ==
  \A c \in Client, m \in Machine : byID[c][m] # None => byID[c][m].host # None

(* The tags that are about to be written back were seen without the cluster *)
(* tag.  Without this a sync could write what is no list of tags.          *)
MarkPending ==
  \A r \in Runner :
    sync[r].step = "mark" =>
      LET n == First(sync[r].list)
      IN /\ sync[r].list # {} /\ sync[r].todo = {}
         /\ sync[r].tags[n.name] # None
         /\ Unmarked(sync[r].tags[n.name])

HKInv == TypeOK /\ AllocatedCached /\ MarkPending

-----------------------------------------------------------------------------
(* Operators.                                                              *)

LEMMA FirstOf == ASSUME NEW S, S # {} PROVE First(S) \in S
BY DEF First

LEMMA NoTagsType == NoTags \in TagMap
BY DEF NoTags, TagMap

LEMMA NoNodeType == NoNode \in NodeObject
BY NoTagsType DEF NoNode, NodeObject

LEMMA EmptyType == /\ EmptyByID \in [Machine -> Response \cup {None}]
                   /\ EmptyByHost \in [Node -> Response \cup {None}]
                   /\ EmptyByHost \in [Node -> TagMap \cup {None}]
BY DEF EmptyByID, EmptyByHost

LEMMA NoSyncType == NoSync \in Sync
BY EmptyType DEF NoSync, Sync

LEMMA FoundByID ==
  ASSUME MetalTypeOK, AllocatedCached, NEW c \in Client, NEW m \in Machine \cup {None}
  PROVE  /\ MachineByID(c, m) \in Response \cup {None}
         /\ MachineByID(c, m) # None => MachineByID(c, m).host # None
BY DEF MetalTypeOK, AllocatedCached, MachineByID, FindMachine

LEMMA FoundByHost ==
  ASSUME MetalTypeOK, NEW c \in Client, NEW n \in Node
  PROVE  MachineByHost(c, n) \in Response \cup {None}
BY DEF MetalTypeOK, MachineByHost, FindMachines

LEMMA FoundFromNode ==
  ASSUME MetalTypeOK, AllocatedCached, NEW c \in Client, NEW n \in Node,
         NEW m \in Machine \cup {None}
  PROVE  GetMachineFromNode(c, n, m) \in Response \cup {None}
BY FoundByID, FoundByHost DEF GetMachineFromNode

LEMMA KeptType ==
  ASSUME NEW c \in Client, NEW found \in Response \cup {None}
  PROVE  /\ Kept(c, found) \in Response \cup {None}
         /\ Kept(c, found) # None => found # None /\ Kept(c, found).host = found.host
         /\ c = "housekeeper" => Kept(c, found) = found
<1>1. CASE c = "controllers" /\ found # None
  <2>1. /\ [found EXCEPT !.tags = NoTags, !.key = FALSE] \in Response
        /\ [found EXCEPT !.tags = NoTags, !.key = FALSE].host = found.host
    BY <1>1, NoTagsType DEF Response
  <2> QED
    BY <1>1, <2>1 DEF Kept
<1>2. CASE ~(c = "controllers" /\ found # None)
  BY <1>2 DEF Kept
<1> QED
  BY <1>1, <1>2

CacheTyped == /\ byID' \in [Client -> [Machine -> Response \cup {None}]]
              /\ byHost' \in [Client -> [Node -> Response \cup {None}]]
              /\ AllocatedCached'

LEMMA CachesByID ==
  ASSUME MetalTypeOK, AllocatedCached, NEW c \in Client, NEW m \in Machine \cup {None},
         CacheByID(c, m)
  PROVE  CacheTyped
<1>1. CASE m = None
  BY <1>1 DEF CacheByID, CacheTyped, MetalTypeOK, AllocatedCached
<1>2. CASE m # None
  <2> DEFINE entry == Kept(c, MachineByID(c, m))
  <2>1. entry \in Response \cup {None} /\ (entry # None => entry.host # None)
    BY FoundByID, KeptType
  <2>2. byID' = [byID EXCEPT ![c][m] = entry] /\ UNCHANGED byHost /\ m \in Machine
    BY <1>2 DEF CacheByID
  <2> HIDE DEF entry
  <2> QED
    BY <2>1, <2>2 DEF CacheTyped, MetalTypeOK, AllocatedCached
<1> QED
  BY <1>1, <1>2

LEMMA CachesFromNode ==
  ASSUME MetalTypeOK, AllocatedCached, NEW c \in Client, NEW n \in Node,
         NEW m \in Machine \cup {None}, CacheFromNode(c, n, m)
  PROVE  CacheTyped
<1>1. CASE m # None
  BY <1>1, CachesByID DEF CacheFromNode
<1>2. CASE m = None
  <2> DEFINE entry == Kept(c, MachineByHost(c, n))
  <2>1. entry \in Response \cup {None}
    BY FoundByHost, KeptType
  <2>2. byHost' = [byHost EXCEPT ![c][n] = entry] /\ UNCHANGED byID
    BY <1>2 DEF CacheFromNode
  <2> HIDE DEF entry
  <2> QED
    BY <2>1, <2>2 DEF CacheTyped, MetalTypeOK, AllocatedCached
<1> QED
  BY <1>1, <1>2

-----------------------------------------------------------------------------
(* What the parts of a step have to show.                                  *)

LEMMA InvParts ==
  ASSUME HKInv
  PROVE  /\ TypeOK /\ MetalTypeOK /\ AllocatedCached /\ MarkPending
         /\ machine \in [Machine -> Response] /\ metalUp \in BOOLEAN
         /\ byID \in [Client -> [Machine -> Response \cup {None}]]
         /\ byHost \in [Client -> [Node -> Response \cup {None}]]
         /\ faults \in 0..MaxFaults /\ changes \in 0..MaxChanges
         /\ node \in [Node -> NodeObject] /\ running \in BOOLEAN
         /\ sync \in [Runner -> Sync] /\ recent \in BOOLEAN
         /\ added \subseteq Node /\ apiErrors \in 0..MaxAPIErrors
BY DEF HKInv, TypeOK, MetalTypeOK

LEMMA FaultType ==
  ASSUME HKInv, Fault \/ UNCHANGED faults PROVE faults' \in 0..MaxFaults
BY InvParts DEF Fault

LEMMA InvFrom ==
  ASSUME CacheTyped, MarkPending', machine' \in [Machine -> Response],
         metalUp' \in BOOLEAN, faults' \in 0..MaxFaults, changes' \in 0..MaxChanges,
         node' \in [Node -> NodeObject], running' \in BOOLEAN,
         sync' \in [Runner -> Sync], recent' \in BOOLEAN,
         added' \subseteq Node, apiErrors' \in 0..MaxAPIErrors
  PROVE  HKInv'
BY DEF CacheTyped, HKInv, TypeOK, MetalTypeOK

LEMMA SameCaches == ASSUME HKInv, UNCHANGED caches PROVE CacheTyped
BY InvParts DEF caches, CacheTyped, AllocatedCached

LEMMA SameSync == ASSUME HKInv, UNCHANGED sync PROVE MarkPending'
BY InvParts DEF MarkPending

(* A sync takes a step. *)
LEMMA NewSync ==
  ASSUME HKInv, NEW r \in Runner, NEW s \in Sync, SetSync(r, s), s.step # "mark"
  PROVE  sync' \in [Runner -> Sync] /\ MarkPending'
BY InvParts DEF SetSync, MarkPending

LEMMA MetalVars ==
  ASSUME HKInv, UNCHANGED metalVars
  PROVE  /\ CacheTyped /\ machine' \in [Machine -> Response] /\ metalUp' \in BOOLEAN
         /\ faults' \in 0..MaxFaults /\ changes' \in 0..MaxChanges
BY InvParts, SameCaches DEF metalVars, caches

LEMMA HkVars ==
  ASSUME HKInv, UNCHANGED hkVars
  PROVE  /\ MarkPending' /\ running' \in BOOLEAN /\ sync' \in [Runner -> Sync]
         /\ recent' \in BOOLEAN /\ added' \subseteq Node /\ apiErrors' \in 0..MaxAPIErrors
BY InvParts, SameSync DEF hkVars

LEMMA InitInv == Init => HKInv
<1> SUFFICES ASSUME Init PROVE HKInv
  OBVIOUS
<1>a. 0 \in 0..MaxFaults /\ 0 \in 0..MaxChanges /\ 0 \in 0..MaxAPIErrors
  BY BoundAssumption, ErrorAssumption
<1>b. /\ byID \in [Client -> [Machine -> Response \cup {None}]]
      /\ byHost \in [Client -> [Node -> Response \cup {None}]]
      /\ sync \in [Runner -> Sync]
  BY EmptyType, NoSyncType DEF Init
<1>c. MetalTypeOK
  BY <1>a, <1>b DEF Init, MetalTypeOK
<1>1. TypeOK
  BY <1>a, <1>b, <1>c DEF Init, TypeOK
<1>2. AllocatedCached /\ MarkPending
  BY DEF Init, AllocatedCached, MarkPending, EmptyByID, NoSync
<1> QED
  BY <1>1, <1>2 DEF HKInv

-----------------------------------------------------------------------------
(* The actions.                                                            *)

LEMMA StopInv ==
  ASSUME HKInv, Stop, Fault \/ UNCHANGED faults PROVE HKInv'
<1>1. CacheTyped
  BY EmptyType DEF Stop, CacheTyped, AllocatedCached, EmptyByID
<1>2. MarkPending' /\ sync' \in [Runner -> Sync]
  BY NoSyncType DEF Stop, MarkPending, NoSync
<1>3. faults' \in 0..MaxFaults
  BY FaultType
<1>4. /\ machine' \in [Machine -> Response] /\ metalUp' \in BOOLEAN
      /\ changes' \in 0..MaxChanges /\ node' \in [Node -> NodeObject]
  BY InvParts DEF Stop
<1>5. running' \in BOOLEAN /\ recent' \in BOOLEAN /\ added' \subseteq Node
  BY Zenon DEF Stop
<1>6. apiErrors' \in 0..MaxAPIErrors
  <2>1. apiErrors' = 0
    BY Zenon DEF Stop
  <2> QED
    BY <2>1, ErrorAssumption
<1> QED
  BY <1>1, <1>2, <1>3, <1>4, <1>5, <1>6, InvFrom

LEMMA CheckInv ==
  ASSUME HKInv, CheckMetalAPIHealth PROVE HKInv'
<1>1. CASE Stop /\ UNCHANGED faults
  BY <1>1, StopInv
<1>2. CASE /\ UNCHANGED <<metalVars, node, running, sync, recent, added>>
           /\ apiErrors' \in 0..MaxAPIErrors
  BY <1>2, MetalVars, SameSync, InvFrom, InvParts
<1>3. CASE /\ UNCHANGED <<metalVars, node, running, sync, recent, added>>
           /\ \/ apiErrors' = 0
              \/ apiErrors < MaxAPIErrors /\ apiErrors' = apiErrors + 1
  <2>1. apiErrors' \in 0..MaxAPIErrors
    BY <1>3, InvParts
  <2> QED
    BY <1>2, <1>3, <2>1
<1> QED
  BY <1>1, <1>3 DEF CheckMetalAPIHealth

LEMMA StartTagSyncInv ==
  ASSUME HKInv, NEW r \in Runner, StartTagSync(r)
  PROVE  sync' \in [Runner -> Sync] /\ MarkPending'
<1> DEFINE s == [NoSync EXCEPT !.step = "sync", !.list = Listed, !.todo = Listed]
<1>1. Listed \subseteq NodeInfo
  BY InvParts DEF Listed, Nodes, NodeInfo, NodeObject
<1>2. s \in Sync /\ s.step # "mark"
  BY <1>1, EmptyType DEF NoSync, Sync
<1>3. SetSync(r, s)
  BY DEF StartTagSync
<1> HIDE DEF s
<1> QED
  BY <1>2, <1>3, NewSync

LEMMA TickInv == ASSUME HKInv, Tick \/ Elapse \/ Start PROVE HKInv'
<1>1. CASE Tick
  BY <1>1, StartTagSyncInv, MetalVars, InvFrom, InvParts DEF Tick, Runner
<1>2. CASE Elapse
  BY <1>2, MetalVars, SameSync, InvFrom, InvParts DEF Elapse
<1>3. CASE Start
  BY <1>3, MetalVars, SameSync, InvFrom, InvParts DEF Start, Nodes
<1> QED
  BY <1>1, <1>2, <1>3

LEMMA NodeAddedInv ==
  ASSUME HKInv, NEW n \in Node, NodeAdded(n) PROVE HKInv'
<1>1. /\ UNCHANGED <<metalVars, node, running, recent, apiErrors>> /\ added' \subseteq Node
      /\ StartTagSync("informer") \/ UNCHANGED sync
  BY InvParts DEF NodeAdded
<1>2. sync' \in [Runner -> Sync] /\ MarkPending'
  BY <1>1, StartTagSyncInv, SameSync, InvParts DEF Runner
<1> QED
  BY <1>1, <1>2, MetalVars, InvFrom, InvParts

LEMMA GetMachineInv ==
  ASSUME HKInv, NEW r \in Runner, GetMachine(r) PROVE HKInv'
<1> DEFINE n == First(sync[r].todo)
           found == MachineByID("housekeeper", n.id)
           s == IF found = None THEN NoSync
                ELSE [sync[r] EXCEPT !.todo = @ \ {n}, !.tags[found.host] = found.tags]
<1>1. sync[r] \in Sync /\ n \in NodeInfo
  BY FirstOf, InvParts DEF GetMachine, Sync
<1>2. n.id \in Machine \cup {None}
  BY <1>1 DEF NodeInfo
<1>3. found \in Response \cup {None}
  BY <1>2, FoundByID, InvParts DEF Client
<1>4. CacheTyped
  BY <1>2, CachesByID, InvParts DEF GetMachine, Client
<1>5. sync[r].step # "mark"
  BY InvParts DEF GetMachine, MarkPending
<1>6. s \in Sync /\ s.step # "mark"
  <2>1. CASE found = None
    BY <2>1, NoSyncType DEF NoSync
  <2>2. CASE found # None
    <3>1. found.tags \in TagMap
      BY <1>3, <2>2 DEF Response
    <3>2. [sync[r].tags EXCEPT ![found.host] = found.tags] \in [Node -> TagMap \cup {None}]
      BY <1>1, <3>1 DEF Sync
    <3> QED
      BY <1>1, <1>5, <2>2, <3>2 DEF Sync
  <2> QED
    BY <2>1, <2>2
<1>7. SetSync(r, s)
  BY DEF GetMachine
<1>8. sync' \in [Runner -> Sync] /\ MarkPending'
  <2> HIDE DEF s
  <2> QED
    BY <1>6, <1>7, NewSync
<1> QED
  BY <1>4, <1>8, InvFrom, InvParts DEF GetMachine

LEMMA BuiltLabels ==
  ASSUME NEW tags \in TagMap, NEW labels \in TagMap
  PROVE  Copy(labels, BuildLabels(tags)) \in TagMap
BY DEF Copy, BuildLabels, TagMap

(* The head of a list, and the sync once it is done with it. *)
LEMMA NextNodeType ==
  ASSUME HKInv, NEW r \in Runner, sync[r].list # {}
  PROVE  LET n == First(sync[r].list)
         IN /\ sync[r] \in Sync /\ n \in sync[r].list /\ n \in NodeInfo
            /\ n.name \in Node /\ n.id \in Machine \cup {None}
            /\ sync[r].tags[n.name] \in TagMap \cup {None}
            /\ NextNode(sync[r], n) \in Sync
            /\ NextNode(sync[r], n).step # "mark"
<1> DEFINE n == First(sync[r].list)
<1>1. sync[r] \in Sync
  BY InvParts
<1>2. n \in sync[r].list
  BY FirstOf
<1>3. n \in NodeInfo /\ n.name \in Node /\ n.id \in Machine \cup {None}
  BY <1>1, <1>2 DEF Sync, NodeInfo
<1> HIDE DEF n
<1>4. NextNode(sync[r], n) \in Sync /\ NextNode(sync[r], n).step # "mark"
  BY <1>1 DEF NextNode, Sync
<1> QED
  BY <1>1, <1>2, <1>3, <1>4 DEF Sync, n

LEMMA UpdateNodeLabelsInv ==
  ASSUME HKInv, NEW r \in Runner, UpdateNodeLabels(r) PROVE HKInv'
<1> DEFINE n == First(sync[r].list)
           tags == sync[r].tags[n.name]
           marking == [sync[r] EXCEPT !.step = "mark"]
           next == NextNode(sync[r], n)
<1>1. sync[r].list # {} /\ sync[r].todo = {} /\ sync[r].step = "sync"
  BY DEF UpdateNodeLabels, Labelling
<1>2. /\ sync[r] \in Sync /\ n.name \in Node /\ tags \in TagMap \cup {None}
      /\ next \in Sync /\ next.step # "mark"
  BY <1>1, NextNodeType
<1>3. CacheTyped /\ faults' \in 0..MaxFaults
  BY SameCaches, FaultType DEF UpdateNodeLabels
<1>4. node' \in [Node -> NodeObject]
  <2>1. CASE tags # None /\ node' = [node EXCEPT ![n.name].labels = Copy(@, BuildLabels(tags))]
    <3>1. node[n.name] \in NodeObject
      BY <1>2, InvParts
    <3>2. Copy(node[n.name].labels, BuildLabels(tags)) \in TagMap
      BY <1>2, <2>1, <3>1, BuiltLabels DEF NodeObject
    <3>3. [node[n.name] EXCEPT !.labels = Copy(node[n.name].labels, BuildLabels(tags))]
            \in NodeObject
      BY <3>1, <3>2 DEF NodeObject
    <3> HIDE DEF n, tags
    <3> QED
      BY <2>1, <3>3, InvParts
  <2>2. CASE UNCHANGED node
    BY <2>2, InvParts
  <2> QED
    BY <2>1, <2>2 DEF UpdateNodeLabels
<1>5. sync' \in [Runner -> Sync] /\ MarkPending'
  <2>1. \/ SetSync(r, next)
        \/ SetSync(r, marking) /\ tags # None /\ Unmarked(tags)
    BY DEF UpdateNodeLabels
  <2>2. CASE SetSync(r, next)
    <3> HIDE DEF next
    <3> QED
      BY <1>2, <2>2, NewSync
  <2>3. CASE SetSync(r, marking) /\ tags # None /\ Unmarked(tags)
    <3>1. /\ marking \in Sync /\ marking.list = sync[r].list
          /\ marking.todo = {} /\ marking.tags = sync[r].tags
      BY <1>1, <1>2 DEF Sync
    <3> HIDE DEF marking
    <3>2. sync' \in [Runner -> Sync] /\ sync'[r] = marking
          /\ \A q \in Runner \ {r} : sync'[q] = sync[q]
      BY <2>3, <3>1, InvParts DEF SetSync
    <3> QED
      BY <1>1, <2>3, <3>1, <3>2, InvParts DEF MarkPending
  <2> QED
    BY <2>1, <2>2, <2>3
<1> QED
  BY <1>3, <1>4, <1>5, InvFrom, InvParts DEF UpdateNodeLabels

(* One field of one machine changes. *)
LEMMA MachineWith ==
  ASSUME HKInv, NEW m \in Machine, NEW new \in Response,
         machine' = [machine EXCEPT ![m] = new]
  PROVE  machine' \in [Machine -> Response]
BY InvParts

LEMMA UpdatedTags ==
  ASSUME HKInv, NEW m \in Machine, NEW tags \in TagMap, UpdateMachineTags(m, tags)
  PROVE  machine' \in [Machine -> Response]
<1>1. [machine[m] EXCEPT !.tags = tags] \in Response
  <2>1. machine[m] \in Response
    BY InvParts
  <2> QED
    BY <2>1 DEF Response
<1>2. \/ UNCHANGED machine
      \/ machine' = [machine EXCEPT ![m] = [machine[m] EXCEPT !.tags = tags]]
  BY DEF UpdateMachineTags
<1> QED
  BY <1>1, <1>2, MachineWith, InvParts

LEMMA MarkMachineInv ==
  ASSUME HKInv, NEW r \in Runner, MarkMachine(r) PROVE HKInv'
<1> DEFINE n == First(sync[r].list)
           found == GetMachineFromNode("housekeeper", n.name, n.id)
           tags == [sync[r].tags[n.name] EXCEPT ![ClusterKey] = ClusterID]
           next == NextNode(sync[r], n)
<1>1. sync[r].list # {} /\ sync[r].tags[n.name] # None
  BY InvParts DEF MarkMachine, MarkPending
<1>2. /\ n.name \in Node /\ n.id \in Machine \cup {None}
      /\ sync[r].tags[n.name] \in TagMap /\ next \in Sync /\ next.step # "mark"
  BY <1>1, NextNodeType
<1>3. CacheTyped
  BY <1>2, CachesFromNode, InvParts DEF MarkMachine, Client
<1>4. found \in Response \cup {None}
  BY <1>2, FoundFromNode, InvParts DEF Client
<1>5. tags \in TagMap
  BY <1>2, KeyAssumption, ClusterAssumption DEF TagMap
<1>6. machine' \in [Machine -> Response]
  <2>1. CASE found # None /\ metalUp
    <3>1. found.id \in Machine /\ UpdateMachineTags(found.id, tags)
      BY <1>4, <2>1 DEF MarkMachine, Response
    <3> HIDE DEF tags, found
    <3> QED
      BY <1>5, <3>1, UpdatedTags
  <2>2. CASE ~(found # None /\ metalUp)
    BY <2>2, InvParts DEF MarkMachine
  <2> QED
    BY <2>1, <2>2
<1>7. sync' \in [Runner -> Sync] /\ MarkPending'
  <2>1. SetSync(r, next)
    BY DEF MarkMachine
  <2> HIDE DEF next
  <2> QED
    BY <1>2, <2>1, NewSync
<1> QED
  BY <1>3, <1>6, <1>7, InvFrom, InvParts DEF MarkMachine

LEMMA EndTagSyncInv ==
  ASSUME HKInv, NEW r \in Runner, EndTagSync(r) PROVE HKInv'
<1>1. NoSync \in Sync /\ NoSync.step # "mark" /\ SetSync(r, NoSync)
  BY NoSyncType DEF NoSync, EndTagSync
<1> QED
  BY <1>1, NewSync, MetalVars, InvFrom, InvParts DEF EndTagSync

LEMMA SyncSSHKeyInv ==
  ASSUME HKInv, NEW n \in Node, SyncSSHKey(n) PROVE HKInv'
<1> DEFINE found == GetMachineFromNode("housekeeper", n, node[n].id)
<1>1. node[n].id \in Machine \cup {None}
  BY InvParts DEF NodeObject
<1>2. CacheTyped
  BY <1>1, CachesFromNode, InvParts DEF SyncSSHKey, Client
<1>3. found \in Response \cup {None}
  BY <1>1, FoundFromNode, InvParts DEF Client
<1>4. machine' \in [Machine -> Response]
  <2>1. CASE found # None
    <3>1. found.id \in Machine
      BY <1>3, <2>1 DEF Response
    <3>a. machine[found.id] \in Response
      BY <3>1, InvParts
    <3>2. [machine[found.id] EXCEPT !.key = TRUE] \in Response
      BY <3>a DEF Response
    <3>3. \/ UNCHANGED machine
          \/ machine' = [machine EXCEPT ![found.id] = [machine[found.id] EXCEPT !.key = TRUE]]
      BY DEF SyncSSHKey
    <3> HIDE DEF found
    <3> QED
      BY <3>1, <3>2, <3>3, MachineWith, InvParts
  <2>2. CASE found = None
    BY <2>2, InvParts DEF SyncSSHKey
  <2> QED
    BY <2>1, <2>2
<1> QED
  BY <1>2, <1>4, HkVars, InvFrom, InvParts DEF SyncSSHKey
-----------------------------------------------------------------------------
(* The nodes and the metal-api.                                            *)

LEMMA NodeWith ==
  ASSUME HKInv, NEW n \in Node, NEW new \in NodeObject,
         node' = [node EXCEPT ![n] = new]
  PROVE  node' \in [Node -> NodeObject]
BY InvParts

LEMMA RegisterInv ==
  ASSUME HKInv, NEW n \in Node, Register(n) \/ Remove(n) PROVE HKInv'
<1>1. [NoNode EXCEPT !.there = TRUE] \in NodeObject /\ NoNode \in NodeObject
  BY NoNodeType DEF NodeObject
<1>2. \/ node' = [node EXCEPT ![n] = [NoNode EXCEPT !.there = TRUE]]
      \/ node' = [node EXCEPT ![n] = NoNode]
  BY DEF Register, RegisterNode, Remove, RemoveNode
<1>3. node' \in [Node -> NodeObject]
  BY <1>1, <1>2, NodeWith
<1>4. UNCHANGED <<metalVars, running, sync, recent, apiErrors>> /\ added' \subseteq Node
  BY InvParts DEF Register, RegisterNode, Remove, RemoveNode, hkVars
<1> QED
  BY <1>3, <1>4, MetalVars, SameSync, InvFrom, InvParts

LEMMA InitializeInv ==
  ASSUME HKInv, NEW n \in Node, Initialize(n) PROVE HKInv'
<1> DEFINE found == GetMachineFromNode("controllers", n, None)
<1>1. CacheTyped
  BY CachesFromNode, InvParts DEF Initialize, InitializeNode, Client
<1>2. found \in Response \cup {None}
  BY FoundFromNode, InvParts DEF Client
<1>3. node' \in [Node -> NodeObject]
  <2>1. CASE found # None
    <3>1. found.id \in Machine /\ node[n] \in NodeObject
      BY <1>2, <2>1, InvParts DEF Response
    <3>2. node' = [node EXCEPT ![n] = [node[n] EXCEPT !.id = found.id]]
      BY <2>1 DEF Initialize, InitializeNode, InstanceMetadata
    <3> HIDE DEF found
    <3>3. [node[n] EXCEPT !.id = found.id] \in NodeObject
      BY <3>1 DEF NodeObject
    <3> QED
      BY <3>2, <3>3, NodeWith
  <2>2. CASE found = None
    BY <2>2, InvParts DEF Initialize, InitializeNode, InstanceMetadata
  <2> QED
    BY <2>1, <2>2
<1> QED
  BY <1>1, <1>3, HkVars, InvFrom, InvParts DEF Initialize, InitializeNode

LEMMA MonitorInv ==
  ASSUME HKInv, NEW n \in Node, Monitor(n) PROVE HKInv'
<1>1. node[n].id \in Machine \cup {None}
  BY InvParts DEF NodeObject
<1>2. CacheTyped
  BY <1>1, CachesByID, InvParts DEF Monitor, MonitorNode, Client
<1>3. node' \in [Node -> NodeObject]
  <2>1. UNCHANGED node \/ node' = [node EXCEPT ![n] = NoNode]
    BY DEF Monitor, MonitorNode
  <2> QED
    BY <2>1, NoNodeType, NodeWith, InvParts
<1>4. faults' \in 0..MaxFaults
  BY FaultType DEF Monitor, MonitorNode
<1> QED
  BY <1>2, <1>3, <1>4, HkVars, InvFrom, InvParts DEF Monitor, MonitorNode

LEMMA CrashInv == ASSUME HKInv, Crash PROVE HKInv'
BY StopInv DEF Crash

LEMMA OutageInv ==
  ASSUME HKInv, Outage \/ Recover, UNCHANGED <<node, hkVars>> PROVE HKInv'
<1>1. CacheTyped /\ faults' \in 0..MaxFaults
  BY SameCaches, FaultType DEF Outage, Recover
<1>2. UNCHANGED <<machine, changes>> /\ metalUp' \in BOOLEAN
  BY DEF Outage, Recover
<1> QED
  BY <1>1, <1>2, HkVars, InvFrom, InvParts

LEMMA ExpireInv ==
  ASSUME HKInv, NEW c \in Client, Expire(c), UNCHANGED <<node, hkVars>> PROVE HKInv'
<1>1. CacheTyped
  <2>1. CASE \E m \in Machine : ExpireByID(c, m)
    BY <2>1, InvParts DEF ExpireByID, CacheTyped, AllocatedCached
  <2>2. CASE \E n \in Node : ExpireByHost(c, n)
    BY <2>2, InvParts DEF ExpireByHost, CacheTyped, AllocatedCached
  <2> QED
    BY <2>1, <2>2 DEF Expire
<1>2. UNCHANGED <<machine, metalUp, faults, changes>>
  BY DEF Expire, ExpireByID, ExpireByHost
<1> QED
  BY <1>1, <1>2, HkVars, InvFrom, InvParts

LEMMA ChangeInv ==
  ASSUME HKInv, NEW m \in Machine, NEW new \in Response, ChangeMachine(m, new),
         UNCHANGED <<node, hkVars>>
  PROVE  HKInv' /\ changes' # changes
<1>1. CacheTyped /\ machine' \in [Machine -> Response]
  BY SameCaches, MachineWith DEF ChangeMachine
<1>2. changes' \in 0..MaxChanges /\ changes' # changes
  BY InvParts, BoundAssumption DEF ChangeMachine
<1>3. UNCHANGED <<metalUp, faults>>
  BY DEF ChangeMachine
<1> QED
  BY <1>1, <1>2, <1>3, HkVars, InvFrom, InvParts

LEMMA UsersInv ==
  ASSUME HKInv, Users, UNCHANGED <<node, hkVars>>
  PROVE  HKInv' /\ changes' # changes
<1>1. CASE \E m \in Machine : FreeMachine(m)
  <2>1. PICK m \in Machine : FreeMachine(m)
    BY <1>1
  <2>2. Unallocated(m) \in Response
    BY NoTagsType DEF Unallocated, Response
  <2> QED
    BY <2>1, <2>2, ChangeInv DEF FreeMachine
<1>2. CASE \E m \in Machine, tags \in Tagging : SetTags(m, tags)
  <2>1. PICK m \in Machine, tags \in Tagging : SetTags(m, tags)
    BY <1>2
  <2>2. [machine[m] EXCEPT !.tags = tags] \in Response
    BY InvParts, TaggingAssumption DEF Response
  <2> QED
    BY <2>1, <2>2, ChangeInv DEF SetTags
<1>3. CASE \E m \in Machine, tags \in Tagging, n \in Node : AllocateMachine(m, n, tags)
  <2>1. PICK m \in Machine, tags \in Tagging, n \in Node : AllocateMachine(m, n, tags)
    BY <1>3
  <2>2. [Unallocated(m) EXCEPT !.host = n, !.tags = tags] \in Response
    BY TaggingAssumption, NoTagsType DEF Unallocated, Response
  <2> QED
    BY <2>1, <2>2, ChangeInv DEF AllocateMachine
<1> QED
  BY <1>1, <1>2, <1>3 DEF Users

LEMMA NextInv == HKInv /\ [Next]_vars => HKInv'
<1> SUFFICES ASSUME HKInv, [Next]_vars PROVE HKInv'
  OBVIOUS
<1>1. CASE Start \/ Tick \/ Elapse
  BY <1>1, TickInv
<1>2. CASE Crash
  BY <1>2, CrashInv
<1>3. CASE CheckMetalAPIHealth
  BY <1>3, CheckInv
<1>4. CASE \E r \in Runner : TagSync(r)
  BY <1>4, GetMachineInv, UpdateNodeLabelsInv, MarkMachineInv, EndTagSyncInv DEF TagSync
<1>5. CASE \E n \in Node : NodeAdded(n) \/ SyncSSHKey(n)
  BY <1>5, NodeAddedInv, SyncSSHKeyInv
<1>6. CASE Outside /\ UNCHANGED <<node, hkVars>>
  BY <1>6, OutageInv, UsersInv, ExpireInv DEF Outside
<1>7. CASE \E n \in Node : Register(n) \/ Remove(n) \/ Initialize(n) \/ Monitor(n)
  BY <1>7, RegisterInv, InitializeInv, MonitorInv
<1>8. CASE UNCHANGED vars
  BY <1>8, MetalVars, HkVars, InvFrom, InvParts DEF vars, metalVars, hkVars
<1> QED
  BY <1>1, <1>2, <1>3, <1>4, <1>5, <1>6, <1>7, <1>8 DEF Next, Housekeeper

(* The invariant holds in every reachable state.                           *)
THEOREM HKInvHolds == Spec => []HKInv
BY InitInv, NextInv, PTL DEF Spec

(* Every variable of the housekeeper, its machines, caches and nodes has   *)
(* values of its type: above all, a sync never writes anything that is no  *)
(* list of tags, although it works with what it looked up before.          *)
THEOREM TypeOKHolds == Spec => []TypeOK
<1>1. HKInv => TypeOK
  BY DEF HKInv
<1> QED
  BY <1>1, HKInvHolds, PTL

-----------------------------------------------------------------------------
(* Nodes that keep their machine.                                          *)

LEMMA MonitorKeeps ==
  ASSUME HKInv, NEW n \in Node, Monitor(n) PROVE UNCHANGED node
<1> DEFINE found == MachineByID("controllers", node[n].id)
<1>1. node[n].id \in Machine \cup {None}
  BY InvParts DEF NodeObject
<1>2. found # None => found.host # None
  BY <1>1, FoundByID, InvParts DEF Client
<1>3. LET answer == InstanceExists(found) IN answer.err \/ answer.exists
  BY <1>2 DEF InstanceExists
<1> QED
  BY <1>3 DEF Monitor, MonitorNode

LEMMA StaysThere ==
  ASSUME HKInv, [Next]_vars, NEW n \in Node, node[n].there, HasMachine(n)
  PROVE  node'[n].there
<1>1. CASE UNCHANGED node
  BY <1>1
<1>2. ASSUME NEW r \in Runner, UpdateNodeLabels(r) PROVE node'[n].there
  <2> DEFINE name == First(sync[r].list).name
  <2>1. \/ UNCHANGED node
        \/ \E new : node' = [node EXCEPT ![name].labels = new]
    BY <1>2 DEF UpdateNodeLabels
  <2>2. name \in Node
    BY <1>2, NextNodeType DEF UpdateNodeLabels
  <2> HIDE DEF name
  <2>3. ASSUME NEW new, node' = [node EXCEPT ![name].labels = new]
        PROVE  node'[n].there
    <3>1. node'[n] = node[n] \/ node'[n] = [node[n] EXCEPT !.labels = new]
      BY <2>2, <2>3, InvParts
    <3>2. node[n] \in NodeObject
      BY InvParts
    <3> QED
      BY <3>1, <3>2 DEF NodeObject
  <2> QED
    BY <2>1, <2>3
<1>3. ASSUME NEW q \in Node, Register(q) PROVE node'[n].there
  BY <1>3, InvParts DEF Register, RegisterNode
<1>4. ASSUME NEW q \in Node, Remove(q) PROVE node'[n].there
  BY <1>4, InvParts DEF Remove, RemoveNode
<1>5. ASSUME NEW q \in Node, Initialize(q) PROVE node'[n].there
  <2>1. \/ UNCHANGED node
        \/ \E id : node' = [node EXCEPT ![q].id = id]
    BY <1>5 DEF Initialize, InitializeNode
  <2> QED
    BY <2>1, InvParts DEF NodeObject
<1>6. ASSUME NEW q \in Node, Monitor(q) PROVE node'[n].there
  BY <1>1, <1>6, MonitorKeeps
<1>7. CASE Start \/ Crash \/ CheckMetalAPIHealth \/ Tick \/ Elapse
  BY <1>1, <1>7 DEF Start, Crash, Stop, CheckMetalAPIHealth, Tick, Elapse
<1>8. ASSUME NEW r \in Runner, GetMachine(r) \/ MarkMachine(r) \/ EndTagSync(r)
      PROVE  node'[n].there
  BY <1>1, <1>8 DEF GetMachine, MarkMachine, EndTagSync
<1>9. ASSUME NEW q \in Node, NodeAdded(q) \/ SyncSSHKey(q) PROVE node'[n].there
  BY <1>1, <1>9 DEF NodeAdded, SyncSSHKey
<1>10. CASE (Outside /\ UNCHANGED <<node, hkVars>>) \/ UNCHANGED vars
  BY <1>1, <1>10 DEF vars
<1> QED
  BY <1>2, <1>3, <1>4, <1>5, <1>6, <1>7, <1>8, <1>9, <1>10
  DEF Next, Housekeeper, TagSync

(* Neither an outage of the metal-api, nor an outdated answer, nor a       *)
(* restart costs the cluster a node whose machine is still its own         *)
(* (InstanceExists passes an error of the lookup on).  It needs that no    *)
(* cached answer lacks an allocation.                                      *)
THEOREM NodesSurviveHolds == Spec => NodesSurvive
<1>1. HKInv /\ [Next]_vars =>
        [\A n \in Nodes : HasMachine(n) => node'[n].there]_vars
  BY StaysThere DEF Nodes
<1> QED
  BY <1>1, HKInvHolds, PTL DEF Spec, NodesSurvive

-----------------------------------------------------------------------------
(* Once everything is marked.                                              *)

SameTags == \A m \in Machine : /\ machine'[m].tags = machine[m].tags
                               /\ machine'[m].host = machine[m].host

CacheMarked == \A m \in Machine : LET entry == byID["housekeeper"][m]
                                   IN entry # None => Carries(entry.tags)

SyncMarked == \A r \in Runner, n \in Node : LET tags == sync[r].tags[n]
                                             IN tags # None => Carries(tags)

Quiet == AllMarked' /\ \A m \in Machine : machine'[m].tags = machine[m].tags

LEMMA MarkedParts == AllMarked => CacheMarked /\ SyncMarked
BY Zenon DEF AllMarked, CacheMarked, SyncMarked

LEMMA QuietFrom ==
  ASSUME AllMarked, SameTags, CacheMarked', SyncMarked' PROVE Quiet
BY DEF Quiet, AllMarked, SameTags, CacheMarked, SyncMarked

(* What a lookup by id finds carries the tag, and so does what it caches. *)
LEMMA FoundMarked ==
  ASSUME HKInv, AllMarked, NEW m \in Machine \cup {None}
  PROVE  LET found == MachineByID("housekeeper", m)
         IN found # None => Carries(found.tags)
BY InvParts DEF AllMarked, MachineByID, FindMachine

LEMMA CacheByIDMarked ==
  ASSUME HKInv, AllMarked, NEW c \in Client, NEW m \in Machine \cup {None},
         CacheByID(c, m)
  PROVE  CacheMarked'
<1>1. CASE m = None \/ c # "housekeeper"
  BY <1>1, InvParts, MarkedParts DEF CacheByID, CacheMarked
<1>2. CASE m # None /\ c = "housekeeper"
  <2> DEFINE found == MachineByID("housekeeper", m)
  <2>1. found \in Response \cup {None} /\ (found # None => Carries(found.tags))
    BY FoundMarked, FoundByID, InvParts DEF Client
  <2>2. Kept(c, found) = found
    BY <1>2, <2>1, KeptType
  <2>3. byID' = [byID EXCEPT !["housekeeper"][m] = found]
    BY <1>2, <2>2 DEF CacheByID
  <2> HIDE DEF found
  <2> QED
    BY <1>2, <2>1, <2>3, InvParts, MarkedParts DEF CacheMarked, Client
<1> QED
  BY <1>1, <1>2

LEMMA CacheFromNodeMarked ==
  ASSUME HKInv, AllMarked, NEW c \in Client, NEW n \in Node,
         NEW m \in Machine \cup {None}, CacheFromNode(c, n, m)
  PROVE  CacheMarked'
<1>1. CASE m # None
  BY <1>1, CacheByIDMarked DEF CacheFromNode
<1>2. CASE m = None
  BY <1>2, MarkedParts DEF CacheFromNode, CacheMarked
<1> QED
  BY <1>1, <1>2

LEMMA SameMarked ==
  ASSUME AllMarked PROVE /\ UNCHANGED byID => CacheMarked'
                         /\ UNCHANGED sync => SyncMarked'
                         /\ UNCHANGED machine => SameTags
BY MarkedParts DEF CacheMarked, SyncMarked, SameTags

(* A sync takes a step and what it works with does not change. *)
LEMMA SameTagsMarked ==
  ASSUME HKInv, AllMarked, NEW r \in Runner, NEW s, SetSync(r, s),
         s.tags = sync[r].tags \/ s.tags = EmptyByHost
  PROVE  SyncMarked'
<1>1. sync'[r] = s /\ \A q \in Runner \ {r} : sync'[q] = sync[q]
  BY InvParts DEF SetSync
<1> QED
  BY <1>1, MarkedParts DEF SyncMarked, EmptyByHost

LEMMA StoppedMarked ==
  ASSUME Stop PROVE CacheMarked' /\ SyncMarked' /\ UNCHANGED machine
BY DEF Stop, CacheMarked, SyncMarked, EmptyByID, EmptyByHost, NoSync, Client

LEMMA StartedMarked ==
  ASSUME HKInv, AllMarked, NEW r \in Runner, StartTagSync(r) PROVE SyncMarked'
<1> DEFINE s == [NoSync EXCEPT !.step = "sync", !.list = Listed, !.todo = Listed]
<1>1. SetSync(r, s) /\ s.tags = EmptyByHost
  BY DEF StartTagSync, NoSync
<1> HIDE DEF s
<1> QED
  BY <1>1, SameTagsMarked

LEMMA GetMachineMarked ==
  ASSUME HKInv, AllMarked, NEW r \in Runner, GetMachine(r) PROVE Quiet
<1> DEFINE n == First(sync[r].todo)
           found == MachineByID("housekeeper", n.id)
           s == [sync[r] EXCEPT !.todo = @ \ {n}, !.tags[found.host] = found.tags]
<1>1. sync[r] \in Sync /\ n.id \in Machine \cup {None}
  BY FirstOf, InvParts DEF GetMachine, Sync, NodeInfo
<1>2. CacheMarked'
  BY <1>1, CacheByIDMarked DEF GetMachine, Client
<1>3. SyncMarked'
  <2>1. CASE found = None
    <3>1. SetSync(r, NoSync) /\ NoSync.tags = EmptyByHost
      BY <2>1 DEF GetMachine, NoSync
    <3> QED
      BY <3>1, SameTagsMarked
  <2>2. CASE found # None
    <3>1. SetSync(r, s) /\ Carries(found.tags)
      BY <1>1, <2>2, FoundMarked DEF GetMachine
    <3>2. s.tags = [sync[r].tags EXCEPT ![found.host] = found.tags]
      BY <1>1 DEF Sync
    <3> HIDE DEF s
    <3>3. sync'[r] = s /\ \A q \in Runner \ {r} : sync'[q] = sync[q]
      BY <3>1, InvParts DEF SetSync
    <3>4. \A p \in Node : s.tags[p] # None => Carries(s.tags[p])
      BY <1>1, <3>1, <3>2, MarkedParts DEF SyncMarked, Sync
    <3> QED
      BY <3>3, <3>4, MarkedParts DEF SyncMarked
  <2> QED
    BY <2>1, <2>2
<1> QED
  BY <1>2, <1>3, SameMarked, QuietFrom DEF GetMachine

LEMMA UpdateNodeLabelsMarked ==
  ASSUME HKInv, AllMarked, NEW r \in Runner, UpdateNodeLabels(r) PROVE Quiet
<1> DEFINE n == First(sync[r].list)
           marking == [sync[r] EXCEPT !.step = "mark"]
           next == NextNode(sync[r], n)
<1>1. marking.tags = sync[r].tags /\ next.tags = sync[r].tags
  BY InvParts DEF NextNode, Sync
<1>2. SetSync(r, marking) \/ SetSync(r, next)
  BY DEF UpdateNodeLabels
<1> HIDE DEF marking, next
<1>3. SyncMarked'
  BY <1>1, <1>2, SameTagsMarked
<1> QED
  BY <1>3, SameMarked, QuietFrom DEF UpdateNodeLabels, caches

(* No sync is about to write tags, as none has found tags without the one. *)
LEMMA NoneIsMarking ==
  ASSUME HKInv, AllMarked, NEW r \in Runner PROVE ~MarkMachine(r)
<1> SUFFICES ASSUME MarkMachine(r) PROVE FALSE
  OBVIOUS
<1> DEFINE n == First(sync[r].list)
<1>1. /\ sync[r].list # {} /\ sync[r].tags[n.name] # None
      /\ Unmarked(sync[r].tags[n.name])
  BY InvParts DEF MarkMachine, MarkPending
<1>2. n.name \in Node
  BY <1>1, NextNodeType
<1> HIDE DEF n
<1> QED
  BY <1>1, <1>2, MarkedParts DEF SyncMarked, Unmarked, Carries

LEMMA EndTagSyncMarked ==
  ASSUME HKInv, AllMarked, NEW r \in Runner, EndTagSync(r) PROVE Quiet
<1>1. SyncMarked'
  BY SameTagsMarked DEF EndTagSync, NoSync
<1> QED
  BY <1>1, SameMarked, QuietFrom DEF EndTagSync, metalVars

LEMMA SyncSSHKeyMarked ==
  ASSUME HKInv, AllMarked, NEW n \in Node, SyncSSHKey(n) PROVE Quiet
<1>1. CacheMarked'
  BY CacheFromNodeMarked, InvParts DEF SyncSSHKey, Client, NodeObject
<1>2. SameTags
  <2>1. UNCHANGED machine \/ \E m : machine' = [machine EXCEPT ![m].key = TRUE]
    BY DEF SyncSSHKey
  <2> QED
    BY <2>1, InvParts DEF SameTags, Response
<1> QED
  BY <1>1, <1>2, SameMarked, QuietFrom DEF SyncSSHKey, hkVars

LEMMA OutsideMarked ==
  ASSUME HKInv, AllMarked, Outside, UNCHANGED <<node, hkVars>>, UNCHANGED changes
  PROVE  Quiet
<1>1. ~Users
  BY UsersInv
<1>2. CASE Outage \/ Recover
  BY <1>2, SameMarked, QuietFrom DEF Outage, Recover, caches, hkVars
<1>3. ASSUME NEW c \in Client, Expire(c) PROVE Quiet
  <2>1. UNCHANGED machine /\ UNCHANGED sync
    BY <1>3 DEF Expire, ExpireByID, ExpireByHost, hkVars
  <2>2. CacheMarked'
    BY <1>3, MarkedParts, InvParts DEF Expire, ExpireByID, ExpireByHost, CacheMarked, Client
  <2> QED
    BY <2>1, <2>2, SameMarked, QuietFrom
<1> QED
  BY <1>1, <1>2, <1>3 DEF Outside

LEMMA StepQuiet ==
  ASSUME HKInv, [Next]_vars, AllMarked, UNCHANGED changes PROVE Quiet
<1>1. CASE UNCHANGED vars
  BY <1>1, SameMarked, QuietFrom DEF vars
<1>2. CASE Stop
  BY <1>2, StoppedMarked, SameMarked, QuietFrom
<1>3. CASE Start \/ Elapse \/ UNCHANGED <<metalVars, node, running, sync, recent, added>>
  BY <1>3, SameMarked, QuietFrom DEF Start, Elapse, metalVars
<1>4. CASE Tick
  BY <1>4, StartedMarked, SameMarked, QuietFrom DEF Tick, metalVars, Runner
<1>5. ASSUME NEW n \in Node, NodeAdded(n) PROVE Quiet
  BY <1>5, StartedMarked, SameMarked, QuietFrom DEF NodeAdded, metalVars, Runner
<1>6. ASSUME NEW r \in Runner, TagSync(r) PROVE Quiet
  BY <1>6, GetMachineMarked, UpdateNodeLabelsMarked, NoneIsMarking, EndTagSyncMarked
  DEF TagSync
<1>7. ASSUME NEW n \in Node, Register(n) \/ Remove(n) PROVE Quiet
  BY <1>7, SameMarked, QuietFrom
  DEF Register, RegisterNode, Remove, RemoveNode, metalVars, hkVars
<1>8. ASSUME NEW n \in Node, Initialize(n) PROVE Quiet
  <2>1. CacheMarked'
    BY <1>8, CacheFromNodeMarked DEF Initialize, InitializeNode, Client
  <2> QED
    BY <1>8, <2>1, SameMarked, QuietFrom DEF Initialize, InitializeNode, hkVars
<1>9. ASSUME NEW n \in Node, Monitor(n) PROVE Quiet
  <2>1. CacheMarked'
    BY <1>9, CacheByIDMarked, InvParts DEF Monitor, MonitorNode, Client, NodeObject
  <2> QED
    BY <1>9, <2>1, SameMarked, QuietFrom DEF Monitor, MonitorNode, hkVars
<1>10. CheckMetalAPIHealth =>
         Stop \/ UNCHANGED <<metalVars, node, running, sync, recent, added>>
  BY DEF CheckMetalAPIHealth
<1>11. Crash => Stop
  BY DEF Crash
<1> QED
  BY <1>1, <1>2, <1>3, <1>4, <1>5, <1>6, <1>7, <1>8, <1>9, <1>10, <1>11,
     SyncSSHKeyMarked, OutsideMarked DEF Next, Housekeeper

(* When every machine, every cached answer and every sync in progress has  *)
(* the cluster tag, the housekeeper leaves all tags alone, and as long as  *)
(* nobody else changes a machine this stays so: no change of a user's is   *)
(* overwritten with older tags (tags.go:77).  It needs the reason of a     *)
(* pending write (MarkPending).                                            *)
THEOREM QuietOnceMarkedHolds == Spec => QuietOnceMarked
<1>1. HKInv /\ [Next]_vars =>
        [AllMarked /\ UNCHANGED changes =>
           AllMarked' /\ \A m \in Machine : machine'[m].tags = machine[m].tags]_vars
  BY StepQuiet DEF Quiet
<1> QED
  BY <1>1, HKInvHolds, PTL DEF Spec, QuietOnceMarked
=============================================================================
