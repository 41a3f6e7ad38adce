---------------------------- MODULE MetalService ----------------------------
(***************************************************************************)
(* The machines of a project and how metal-ccm looks them up               *)
(* (pkg/resources/metal/machine.go).  A MetalService answers from two      *)
(* caches with an expiry of a minute, one by machine id and one by         *)
(* hostname; metal-ccm has two of them, one for its cloud provider         *)
(* controllers and one for its housekeeper (metal/cloud.go).               *)
(***************************************************************************)
EXTENDS Naturals

CONSTANTS
  Node,         \* node names, which are the hostnames of machines
  Machine,      \* machine ids
  Key, Value,   \* what stands left and right of the "=" of a tag
  None,         \* no machine, no value, no hostname
  Inventory,    \* what the metal-api knows of each machine at the start
  Tagging,      \* the tags users give to a machine
  MaxEvents,    \* bound on both of the following together
  MaxFaults,    \* bound on outages of the metal-api, failed calls and restarts
  MaxChanges    \* bound on changes of machines

(* The tags of a machine, one value per key: the code looks tags up by key *)
(* (metaltag.NewTagMap) and turns them into a map of labels.               *)
TagMap == [Key -> Value \cup {None}]
NoTags == [k \in Key |-> None]

(* models.V1MachineResponse: host is the hostname of its allocation, None  *)
(* where it is not allocated to this project; key whether the allocation   *)
(* has the cluster's SSH key.                                              *)
Response == [id : Machine, host : Node \cup {None}, tags : TagMap, key : BOOLEAN]
Unallocated(m) == [id |-> m, host |-> None, tags |-> NoTags, key |-> FALSE]

(* The two instances of MetalService. *)
Client == {"controllers", "housekeeper"}

ASSUME NoneAssumption == None \notin Node \cup Machine \cup Value \cup Response
ASSUME InventoryAssumption ==
  /\ Inventory \in [Machine -> Response]
  /\ \A m \in Machine : Inventory[m].id = m
  /\ \A m, o \in Machine : Inventory[m].host = Inventory[o].host =>
                              m = o \/ Inventory[m].host = None
ASSUME TaggingAssumption == Tagging \subseteq TagMap
ASSUME BoundAssumption == MaxEvents \in Nat /\ MaxFaults \in Nat /\ MaxChanges \in Nat

VARIABLES
  machine,   \* the metal-api: its machines
  metalUp,   \* whether the metal-api answers
  byID,      \* machineByUUIDCache of each client
  byHost,    \* machineByHostnameCache of each client
  faults,    \* outages, failed calls and restarts so far
  changes    \* changes of machines so far

metalVars == <<machine, metalUp, byID, byHost, faults, changes>>
caches == <<byID, byHost>>

MetalTypeOK ==
  /\ machine \in [Machine -> Response]
  /\ metalUp \in BOOLEAN
  /\ byID \in [Client -> [Machine -> Response \cup {None}]]
  /\ byHost \in [Client -> [Node -> Response \cup {None}]]
  /\ faults \in 0..MaxFaults
  /\ changes \in 0..MaxChanges

EmptyByID == [m \in Machine |-> None]
EmptyByHost == [n \in Node |-> None]

Fault == faults < MaxFaults /\ faults + changes < MaxEvents /\ faults' = faults + 1

-----------------------------------------------------------------------------
(* Lookups.  None is an error.                                             *)

(* What the fetch functions of the caches return: a machine that is not    *)
(* allocated in the project is an error, as is a hostname that not exactly *)
(* one machine has.                                                        *)
FindMachine(m) == IF metalUp /\ machine[m].host # None THEN machine[m] ELSE None

FindMachines(n) ==
  LET found == {m \in Machine : machine[m].host = n}
  IN IF metalUp /\ \E m \in Machine : found = {m}
     THEN machine[CHOOSE m \in Machine : found = {m}] ELSE None

(* GetMachineFromProviderID: the id is part of the provider id, an empty   *)
(* provider id is an error.  A cached answer is given as it is.            *)
MachineByID(c, m) == IF m = None THEN None
                     ELSE IF byID[c][m] # None THEN byID[c][m] ELSE FindMachine(m)

MachineByHost(c, n) == IF byHost[c][n] # None THEN byHost[c][n] ELSE FindMachines(n)

(* GetMachineFromNode: a node is looked up by its provider id once it has  *)
(* one, until then by its name.                                            *)
GetMachineFromNode(c, n, m) == IF m # None THEN MachineByID(c, m) ELSE MachineByHost(c, n)

(* What the users of a client read of an answer: its controllers only      *)
(* which machine it is.                                                    *)
Kept(c, found) == IF c = "controllers" /\ found # None
                  THEN [found EXCEPT !.tags = NoTags, !.key = FALSE] ELSE found

(* The caches after these lookups: an error is not cached.                 *)
CacheByID(c, m) == /\ byID' = IF m = None THEN byID
                              ELSE [byID EXCEPT ![c][m] = Kept(c, MachineByID(c, m))]
                   /\ UNCHANGED byHost

CacheFromNode(c, n, m) ==
  IF m # None THEN CacheByID(c, m)
  ELSE byHost' = [byHost EXCEPT ![c][n] = Kept(c, MachineByHost(c, n))] /\ UNCHANGED byID

(* UpdateMachineTags replaces all tags.  Tags of a machine that is not     *)
(* allocated are of no interest.                                           *)
UpdateMachineTags(m, tags) ==
  machine' = IF machine[m].host = None THEN machine
             ELSE [machine EXCEPT ![m].tags = tags]

(* A minute has passed since an entry was fetched. *)
ExpireByID(c, m) == /\ byID[c][m] # None
                    /\ byID' = [byID EXCEPT ![c][m] = None]
                    /\ UNCHANGED <<machine, metalUp, byHost, faults, changes>>

ExpireByHost(c, n) == /\ byHost[c][n] # None
                      /\ byHost' = [byHost EXCEPT ![c][n] = None]
                      /\ UNCHANGED <<machine, metalUp, byID, faults, changes>>

-----------------------------------------------------------------------------
(* The metal-api and its users.                                            *)

Outage == metalUp /\ metalUp' = FALSE /\ Fault /\ UNCHANGED <<machine, caches, changes>>
Recover == ~metalUp /\ metalUp' = TRUE /\ UNCHANGED <<machine, caches, faults, changes>>

ChangeMachine(m, new) ==
  /\ changes < MaxChanges /\ faults + changes < MaxEvents
  /\ changes' = changes + 1
  /\ new # machine[m]
  /\ machine' = [machine EXCEPT ![m] = new]
  /\ UNCHANGED <<metalUp, caches, faults>>

FreeMachine(m) == machine[m].host # None /\ ChangeMachine(m, Unallocated(m))

(* A machine is allocated under a hostname no other machine has, with tags *)
(* that need not say which cluster it is for.                              *)
AllocateMachine(m, n, tags) ==
  /\ machine[m].host = None
  /\ \A o \in Machine : machine[o].host # n
  /\ ChangeMachine(m, [Unallocated(m) EXCEPT !.host = n, !.tags = tags])

(* A user, or the metal-api itself, changes the tags of a machine. *)
SetTags(m, tags) == /\ machine[m].host # None
                    /\ ChangeMachine(m, [machine[m] EXCEPT !.tags = tags])
=============================================================================
