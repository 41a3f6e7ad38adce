---------------------------- MODULE LoadBalancer ----------------------------
(***************************************************************************)
(* The load balancer controller of metal-ccm                               *)
(* (pkg/controllers/loadbalancer/loadbalancer.go) on top of the IP part of *)
(* its metal-api client (pkg/resources/metal/ip.go).                       *)
(*                                                                         *)
(* A Kubernetes service of type LoadBalancer is served by an address of    *)
(* the project.  Which services use an address is recorded nowhere but in  *)
(* the tags of that address in the metal-api, so every operation is a      *)
(* sequence of remote calls that read and overwrite tag lists.  One step   *)
(* of this module is one remote call; between two calls anything else may  *)
(* happen: another sync, a user, the controller of another cluster in the  *)
(* same project, a lost answer, a restart.                                 *)
(***************************************************************************)
EXTENDS Naturals, FiniteSets

CONSTANTS
  Cluster,        \* clusters of one project, each with its own metal-ccm
  Service,        \* services, each standing for its ClusterServiceFQN tag too
  ClusterOf,      \* the cluster of a service
  Address,        \* the addresses of the network services get theirs from
  Reserved,       \* tags of addresses in other use: machine id, cluster egress
  Blank,          \* the empty string as a tag
  None,           \* no address, no lock holder
  Inventory,      \* what the metal-api knows of each address at the start
  Pinnable,       \* the addresses a user may write to spec.loadBalancerIP
  Lag,            \* whether a sync may be handed an outdated cached object
  Workers,        \* concurrent service syncs of one metal-ccm
  Attempts,       \* attempts of retry-go's Do (10 in the code)
  ConflictSteps,  \* attempts of RetryOnConflict(DefaultRetry) (5 in the code)
  MayFail,        \* the calls that may fail: a subset of Calls
  MaxFaults,      \* bound on failed calls and restarts
  MaxEdits        \* bound on what users do

Calls == {"find", "allocate", "update", "free",
          "service", "config", "status", "crash"}

Tag == Service \cup Reserved \cup {Blank}

(* models.V1IPResponse: "free" stands for an address that is not allocated. *)
IP == [type : {"free", "ephemeral", "static"}, tags : SUBSET Tag]

Free == [type |-> "free", tags |-> {}]

(* A service object: its life, spec.loadBalancerIP and the addresses in    *)
(* status.loadBalancer.ingress.                                            *)
Object == [life   : {"absent", "live", "deleting"},
           spec   : Address \cup {None},
           status : SUBSET Address]

Absent == [life |-> "absent", spec |-> None, status |-> {}]

ASSUME ClusterAssumption == ClusterOf \in [Service -> Cluster]
ASSUME TagAssumption == /\ Service \cap Reserved = {}
                        /\ Blank \notin Service \cup Reserved
ASSUME NoneAssumption == None \notin Service \cup Address
ASSUME InventoryAssumption ==
  /\ Inventory \in [Address -> IP]
  /\ \A a \in Address : /\ Inventory[a].tags \cap Service = {}
                        /\ Inventory[a].type = "free" => Inventory[a].tags = {}
ASSUME PinnableAssumption == Pinnable \subseteq Address
ASSUME BoundAssumption == /\ Lag \in BOOLEAN
                          /\ Workers \in Nat /\ Attempts \in Nat
                          /\ ConflictSteps \in Nat
                          /\ MaxFaults \in Nat /\ MaxEdits \in Nat
ASSUME MayFailAssumption == MayFail \subseteq Calls

VARIABLES
  ip,         \* the metal-api: what it knows of each address of the project
  api,        \* the API servers: the service objects
  view,       \* the informer caches of the service controllers
  job,        \* the sync in progress for each service
  updLock,    \* holder of each metal-ccm's ipUpdateMutex
  allocLock,  \* holder of each metal-ccm's ipAllocateMutex
  faults,     \* failed calls and restarts so far
  edits       \* user actions so far

vars == <<ip, api, view, job, updLock, allocLock, faults, edits>>

UpdateSection == {"find_fixed", "find_tagged", "remove", "use"}
AllocateSection == {"acquire", "get_service", "put_service", "config",
                    "clear_tags", "free_ip"}
Step == UpdateSection \cup AllocateSection
        \cup {"idle", "lock_update", "lock_allocate", "patch", "cleanup"}

(* The local variables of one run of EnsureLoadBalancer or                 *)
(* EnsureLoadBalancerDeleted: obj is the service argument, addr the        *)
(* address worked on, snap the answer of FindProjectIP, found what is left *)
(* to do of the answer of FindProjectIPsWithTag (Free where nothing is),   *)
(* tries the attempts used, fresh whether the object read last is still    *)
(* the stored one (its resourceVersion is current).                        *)
Job == [step : Step, obj : Object, addr : Address \cup {None}, snap : IP,
        found : [Address -> IP], tries : Nat, fresh : BOOLEAN]

Nothing == [a \in Address |-> Free]

Idle == [step |-> "idle", obj |-> Absent, addr |-> None, snap |-> Free,
         found |-> Nothing, tries |-> 0, fresh |-> FALSE]

TypeOK ==
  /\ ip \in [Address -> IP]
  /\ api \in [Service -> Object]
  /\ view \in [Service -> Object]
  /\ job \in [Service -> Job]
  /\ updLock \in [Cluster -> Service \cup {None}]
  /\ allocLock \in [Cluster -> Service \cup {None}]
  /\ faults \in 0..MaxFaults
  /\ edits \in 0..MaxEdits

Init ==
  /\ ip = Inventory
  /\ api = [s \in Service |-> Absent]
  /\ view = [s \in Service |-> Absent]
  /\ job = [s \in Service |-> Idle]
  /\ updLock = [c \in Cluster |-> None]
  /\ allocLock = [c \in Cluster |-> None]
  /\ faults = 0
  /\ edits = 0

-----------------------------------------------------------------------------
(* The calls to the metal-api and how they may end.                        *)

Fault(call) == /\ call \in MayFail
               /\ faults < MaxFaults
               /\ faults' = faults + 1

Exists(a) == ip[a].type # "free"

(* The metal-api after FreeIP and UpdateIP: an update replaces the list of *)
(* tags, whatever it has become since it was read.                         *)
FreeIP(a) == [ip EXCEPT ![a] = Free]
UpdateIP(a, tags) == IF Exists(a) THEN [ip EXCEPT ![a].tags = tags] ELSE ip

(* A call on address a with the effect after either works, or is answered  *)
(* with an error because a is not allocated, or fails on the way: before   *)
(* or after it took effect.                                                *)
Works(a, after) == Exists(a) /\ ip' = after /\ UNCHANGED faults
Fails(a, call, after) == \/ ~Exists(a) /\ UNCHANGED <<ip, faults>>
                         \/ Fault(call) /\ ip' \in {ip, after}

Unlock(lock, s) == [c \in Cluster |-> IF lock[c] = s THEN None ELSE lock[c]]

(* Returning runs the deferred Unlock calls. *)
Release(s) == /\ updLock' = Unlock(updLock, s)
              /\ allocLock' = Unlock(allocLock, s)

(* Mutant: an error return that does not unlock. *)
ReturnErrorLocked(s) == job' = [job EXCEPT ![s] = Idle]
                        /\ UNCHANGED <<updLock, allocLock>>

ReturnError(s) == job' = [job EXCEPT ![s] = Idle] /\ Release(s)

ReturnNil(s, next) ==
  /\ job' = [job EXCEPT ![s] = [Idle EXCEPT !.step = next, !.obj = job[s].obj,
                                            !.addr = job[s].addr]]
  /\ Release(s)

GoOn(s, next) == /\ job' = [job EXCEPT ![s].step = next, ![s].tries = 0]
                 /\ UNCHANGED <<updLock, allocLock>>

-----------------------------------------------------------------------------
(* The service controller of k8s.io/cloud-provider, which calls the        *)
(* LoadBalancer interface: one sync per service at a time, at most Workers *)
(* at once.  A sync may start for any service the cache shows, since any   *)
(* change of the object, a failed sync or a restart queues it again.       *)

Syncing(c) == {s \in Service : ClusterOf[s] = c /\ job[s].step # "idle"}

(* GetLoadBalancer: the load balancer exists iff the status names it. *)
GetLoadBalancer(o) == o.status # {}

(* Which call a sync of object o makes: EnsureLoadBalancer on its fixed-ip *)
(* or on its allocating path, EnsureLoadBalancerDeleted, or none.          *)
Entry(o) ==
  IF o.life = "deleting"
  THEN IF GetLoadBalancer(o) THEN "lock_update" ELSE "cleanup"
  ELSE IF o.spec # None THEN "lock_update" ELSE "lock_allocate"

StartSync(s) ==
  /\ job[s].step = "idle"
  /\ view[s].life # "absent"
  /\ Lag \/ view[s] = api[s]
  /\ Cardinality(Syncing(ClusterOf[s])) < Workers
  /\ job' = [job EXCEPT
       ![s] = [Idle EXCEPT
                 !.step = Entry(view[s]), !.obj = view[s],
                 !.addr = IF view[s].life = "live" THEN view[s].spec ELSE None]]
  /\ UNCHANGED <<ip, api, view, updLock, allocLock, faults, edits>>

(* The controller stores the returned status: that of the argument with    *)
(* the address appended.                                                   *)
PatchStatus(s) ==
  /\ job[s].step = "patch"
  /\ \/ /\ api' = [api EXCEPT ![s].status = job[s].obj.status \cup {job[s].addr}]
        /\ UNCHANGED faults
     \/ Fault("status") /\ UNCHANGED api
  /\ job' = [job EXCEPT ![s] = Idle]
  /\ UNCHANGED <<ip, view, updLock, allocLock, edits>>

(* With the load balancer gone, or never there, the finalizer is removed   *)
(* and the API server drops the object.                                    *)
RemoveFinalizer(s) ==
  /\ job[s].step = "cleanup"
  /\ \/ /\ api' = IF api[s].life = "deleting" THEN [api EXCEPT ![s] = Absent]
                                              ELSE api
        /\ UNCHANGED faults
     \/ Fault("service") /\ UNCHANGED api
  /\ job' = [job EXCEPT ![s] = Idle]
  /\ UNCHANGED <<ip, view, updLock, allocLock, edits>>

Observe(s) ==
  /\ view[s] # api[s]
  /\ view' = [view EXCEPT ![s] = api[s]]
  /\ UNCHANGED <<ip, api, job, updLock, allocLock, faults, edits>>

-----------------------------------------------------------------------------
(* EnsureLoadBalancer with spec.loadBalancerIP set, and                    *)
(* EnsureLoadBalancerDeleted: both under ipUpdateMutex.                    *)

(* Mutant: ipUpdateMutex is not taken. *)
LockUpdateUnguarded(s) ==
  LET c == ClusterOf[s]
  IN /\ job[s].step = "lock_update"
     /\ updLock' = [updLock EXCEPT ![c] = s]
     /\ job' = [job EXCEPT ![s].step = IF job[s].addr = None THEN "find_tagged"
                                                             ELSE "find_fixed"]
     /\ UNCHANGED <<ip, api, view, allocLock, faults, edits>>

LockUpdate(s) ==
  LET c == ClusterOf[s]
  IN /\ job[s].step = "lock_update"
     /\ updLock[c] = None
     /\ updLock' = [updLock EXCEPT ![c] = s]
     /\ job' = [job EXCEPT ![s].step = IF job[s].addr = None THEN "find_tagged"
                                                             ELSE "find_fixed"]
     /\ UNCHANGED <<ip, api, view, allocLock, faults, edits>>

FindProjectIP(s) ==
  /\ job[s].step = "find_fixed"
  /\ \/ /\ Exists(job[s].addr) /\ UNCHANGED faults
        /\ job' = [job EXCEPT ![s].step = "find_tagged",
                              ![s].snap = ip[job[s].addr]]
        /\ UNCHANGED <<updLock, allocLock>>
     \/ /\ \/ ~Exists(job[s].addr) /\ UNCHANGED faults
           \/ Fault("find")
        /\ ReturnError(s)
  /\ UNCHANGED <<ip, api, view, edits>>

(* Mutant: the fixed address is not left out. *)
FindProjectIPsWithTagAll(s) ==
  /\ job[s].step = "find_tagged"
  /\ \/ /\ job' = [job EXCEPT
             ![s].step = "remove",
             ![s].found = [a \in Address |-> IF s \in ip[a].tags THEN ip[a] ELSE Free]]
        /\ UNCHANGED <<updLock, allocLock, faults>>
     \/ Fault("find") /\ ReturnError(s)
  /\ UNCHANGED <<ip, api, view, edits>>

(* The addresses with the service's tag; the fixed one is not among those  *)
(* to take the tag from.                                                   *)
FindProjectIPsWithTag(s) ==
  /\ job[s].step = "find_tagged"
  /\ \/ /\ job' = [job EXCEPT
             ![s].step = "remove",
             ![s].found = [a \in Address |->
                             IF s \in ip[a].tags /\ a # job[s].addr
                             THEN ip[a] ELSE Free]]
        /\ UNCHANGED <<updLock, allocLock, faults>>
     \/ Fault("find") /\ ReturnError(s)
  /\ UNCHANGED <<ip, api, view, edits>>

(* Mutant: the tag is blanked out instead of deleted. *)
WithoutTagBlanked(s, a) == (job[s].found[a].tags \ {s}) \cup {Blank}

(* removeServiceTag on what FindProjectIPsWithTag returned.                *)
WithoutTag(s, a) == job[s].found[a].tags \ {s}

(* slices.DeleteFunc works in place and zeroes the tail of the array, which *)
(* the list of the caller still covers: after the first attempt the list   *)
(* holds an empty string instead of the service's tag.                     *)
AfterAttempt(s, a) ==
  [job[s].found[a] EXCEPT
     !.tags = WithoutTag(s, a) \cup (IF s \in @ THEN {Blank} ELSE {})]

(* One attempt of retry-go's Do for address a: free an ephemeral address   *)
(* that has lost its last tag, otherwise store the remaining tags.  The    *)
(* addresses are dealt with one after the other: once an attempt failed,   *)
(* the one it was for, whose list has changed, is next.                    *)
RemoveServiceTag(s, a) ==
  LET unused == /\ job[s].found[a].type = "ephemeral"
                /\ WithoutTag(s, a) = {}
      call == IF unused THEN "free" ELSE "update"
      after == IF unused THEN FreeIP(a) ELSE UpdateIP(a, WithoutTag(s, a))
  IN /\ job[s].step = "remove"
     /\ job[s].found[a] # Free
     /\ job[s].tries > 0 => s \notin job[s].found[a].tags
     /\ \/ /\ Works(a, after)
           /\ job' = [job EXCEPT ![s].found[a] = Free, ![s].tries = 0]
           /\ UNCHANGED <<updLock, allocLock>>
        \/ /\ Fails(a, call, after)
           /\ IF job[s].tries + 1 < Attempts
              THEN /\ job' = [job EXCEPT ![s].found[a] = AfterAttempt(s, a),
                                         ![s].tries = @ + 1]
                   /\ UNCHANGED <<updLock, allocLock>>
              ELSE ReturnError(s)
     /\ UNCHANGED <<api, view, edits>>

(* Mutant: the loop stops one address short. *)
EndRemoveEarly(s) ==
  /\ job[s].step = "remove"
  /\ Cardinality({a \in Address : job[s].found[a] # Free}) <= 1
  /\ IF job[s].addr = None THEN ReturnNil(s, "cleanup") ELSE GoOn(s, "use")
  /\ UNCHANGED <<ip, api, view, faults, edits>>

(* removeServiceTagFromIPs is done: EnsureLoadBalancerDeleted returns,     *)
(* EnsureLoadBalancer goes on to use its fixed address.                    *)
EndRemove(s) ==
  /\ job[s].step = "remove"
  /\ job[s].found = Nothing
  /\ IF job[s].addr = None THEN ReturnNil(s, "cleanup") ELSE GoOn(s, "use")
  /\ UNCHANGED <<ip, api, view, faults, edits>>

(* Mutant: the address is not refused when in other use.                   *)
UseIPInClusterAlways(s) ==
  LET a == job[s].addr
      after == UpdateIP(a, job[s].snap.tags \cup {s})
  IN /\ job[s].step = "use"
     /\ \/ Works(a, after) /\ ReturnNil(s, "patch")
        \/ Fails(a, "update", after) /\ ReturnError(s)
     /\ UNCHANGED <<api, view, edits>>

(* useIPInCluster: an address in use by a machine or as egress is refused; *)
(* otherwise the tags read by FindProjectIP are stored with the service's  *)
(* tag appended.                                                           *)
UseIPInCluster(s) ==
  LET a == job[s].addr
      refused == job[s].snap.tags \cap Reserved # {}
      after == UpdateIP(a, job[s].snap.tags \cup {s})
  IN /\ job[s].step = "use"
     /\ \/ ~refused /\ Works(a, after) /\ ReturnNil(s, "patch")
        \/ ~refused /\ Fails(a, "update", after) /\ ReturnError(s)
        \/ refused /\ UNCHANGED <<ip, faults>> /\ ReturnError(s)
     /\ UNCHANGED <<api, view, edits>>

-----------------------------------------------------------------------------
(* EnsureLoadBalancer without a fixed address: under ipAllocateMutex.      *)

(* Mutant: the status that has an address is appended to. *)
LockAllocateAppends(s) ==
  LET c == ClusterOf[s]
  IN /\ job[s].step = "lock_allocate"
     /\ allocLock[c] = None
     /\ IF job[s].obj.status # {}
        THEN job' = [job EXCEPT ![s].step = "patch"] /\ UNCHANGED allocLock
        ELSE /\ job' = [job EXCEPT ![s].step = "acquire"]
             /\ allocLock' = [allocLock EXCEPT ![c] = s]
     /\ UNCHANGED <<ip, api, view, updLock, faults, edits>>

(* A status that has an address is returned as it is. *)
LockAllocate(s) ==
  LET c == ClusterOf[s]
  IN /\ job[s].step = "lock_allocate"
     /\ allocLock[c] = None
     /\ IF job[s].obj.status # {}
        THEN job' = [job EXCEPT ![s] = Idle] /\ UNCHANGED allocLock
        ELSE /\ job' = [job EXCEPT ![s].step = "acquire"]
             /\ allocLock' = [allocLock EXCEPT ![c] = s]
     /\ UNCHANGED <<ip, api, view, updLock, faults, edits>>

(* acquireIP, AllocateIP: the metal-api picks a free address and stores it *)
(* as ephemeral with the service's tag, in one step.                       *)
AcquireIP(s) ==
  /\ job[s].step = "acquire"
  /\ \/ \E a \in Address :
          /\ ~Exists(a)
          /\ ip' = [ip EXCEPT ![a] = [type |-> "ephemeral", tags |-> {s}]]
          /\ \/ /\ job' = [job EXCEPT ![s].addr = a, ![s].step = "get_service"]
                /\ UNCHANGED <<updLock, allocLock, faults>>
             \/ Fault("allocate") /\ ReturnError(s)
     \/ /\ UNCHANGED ip
        /\ \/ (\A a \in Address : Exists(a)) /\ UNCHANGED faults
           \/ Fault("allocate")
        /\ ReturnError(s)
  /\ UNCHANGED <<api, view, edits>>

(* RetryOnConflict: the stored service is read and written back with the   *)
(* address in spec.loadBalancerIP; the API server refuses the write if the *)
(* object has changed in between.  Any other error ends the loop.          *)
GetService(s) ==
  /\ job[s].step = "get_service"
  /\ \/ /\ job' = [job EXCEPT ![s].step = "put_service", ![s].fresh = TRUE]
        /\ UNCHANGED faults
     \/ Fault("service") /\ job' = [job EXCEPT ![s].step = "clear_tags"]
  /\ UNCHANGED <<ip, api, view, updLock, allocLock, edits>>

UpdateService(s) ==
  LET written == [api EXCEPT ![s].spec = job[s].addr]
  IN /\ job[s].step = "put_service"
     /\ \/ /\ job[s].fresh
           /\ api' = written /\ UNCHANGED faults
           /\ job' = [job EXCEPT ![s].step = "config"]
        \/ /\ ~job[s].fresh
           /\ UNCHANGED <<api, faults>>
           /\ IF job[s].tries + 1 < ConflictSteps
              THEN job' = [job EXCEPT ![s].step = "get_service", ![s].tries = @ + 1]
              ELSE job' = [job EXCEPT ![s].step = "clear_tags"]
        \/ /\ Fault("service")
           /\ api' \in IF job[s].fresh THEN {api, written} ELSE {api}
           /\ job' = [job EXCEPT ![s].step = "clear_tags"]
     /\ UNCHANGED <<ip, view, updLock, allocLock, edits>>

(* UpdateLoadBalancerConfig: here only whether it works; it fails while    *)
(* any node lacks its ASN label, and when a custom resource is not         *)
(* written.                                                                *)
UpdateLoadBalancerConfig(s) ==
  /\ job[s].step = "config"
  /\ \/ UNCHANGED faults /\ ReturnNil(s, "patch")
     \/ Fault("config") /\ GoOn(s, "clear_tags")
  /\ UNCHANGED <<ip, api, view, edits>>

(* Mutant: the rollback ends before the address is freed.                  *)
RollbackTagsOnly(s) ==
  LET a == job[s].addr
  IN /\ job[s].step = "clear_tags"
     /\ \/ Works(a, UpdateIP(a, {})) /\ ReturnError(s)
        \/ Fails(a, "update", UpdateIP(a, {})) /\ ReturnError(s)
     /\ UNCHANGED <<api, view, edits>>

(* rollback: the tags are cleared, then the address is freed; an error     *)
(* ends it.  The service object stays as UpdateService left it.            *)
RollbackTags(s) ==
  LET a == job[s].addr
  IN /\ job[s].step = "clear_tags"
     /\ \/ Works(a, UpdateIP(a, {})) /\ GoOn(s, "free_ip")
        \/ Fails(a, "update", UpdateIP(a, {})) /\ ReturnError(s)
     /\ UNCHANGED <<api, view, edits>>

RollbackFree(s) ==
  LET a == job[s].addr
  IN /\ job[s].step = "free_ip"
     /\ \/ Works(a, FreeIP(a))
        \/ Fails(a, "free", FreeIP(a))
     /\ ReturnError(s)
     /\ UNCHANGED <<api, view, edits>>

-----------------------------------------------------------------------------
(* Restarts and users.                                                     *)

(* The process of cluster c dies and starts again: local variables and     *)
(* mutexes are gone, the informer lists the services anew.                 *)
Crash(c) ==
  /\ Syncing(c) # {}
  /\ Fault("crash")
  /\ job' = [s \in Service |-> IF ClusterOf[s] = c THEN Idle ELSE job[s]]
  /\ view' = [s \in Service |-> IF ClusterOf[s] = c THEN api[s] ELSE view[s]]
  /\ updLock' = [updLock EXCEPT ![c] = None]
  /\ allocLock' = [allocLock EXCEPT ![c] = None]
  /\ UNCHANGED <<ip, api, edits>>

(* A user's change of service s makes the object read by a sync outdated. *)
Edit(s, o) ==
  /\ edits < MaxEdits
  /\ edits' = edits + 1
  /\ api' = [api EXCEPT ![s] = o]
  /\ job' = [job EXCEPT ![s].fresh = FALSE]
  /\ UNCHANGED <<ip, view, updLock, allocLock, faults>>

CreateService(s) ==
  /\ api[s].life = "absent"
  /\ \E a \in Pinnable \cup {None} :
       Edit(s, [life |-> "live", spec |-> a, status |-> {}])

PinAddress(s) ==
  /\ api[s].life = "live"
  /\ \E a \in (Pinnable \cup {None}) \ {api[s].spec} : Edit(s, [api[s] EXCEPT !.spec = a])

DeleteService(s) ==
  /\ api[s].life = "live"
  /\ Edit(s, [api[s] EXCEPT !.life = "deleting"])

(* A user allocates a static address, or the metal-api one for a machine.  *)
AllocateElsewhere(a) ==
  /\ edits < MaxEdits
  /\ edits' = edits + 1
  /\ ~Exists(a)
  /\ \E new \in {[type |-> "static", tags |-> {}]}
                \cup {[type |-> "ephemeral", tags |-> {t}] : t \in Reserved} :
       ip' = [ip EXCEPT ![a] = new]
  /\ UNCHANGED <<api, view, job, updLock, allocLock, faults>>

-----------------------------------------------------------------------------

Ensure(s) ==
  \/ LockUpdate(s) \/ FindProjectIP(s) \/ FindProjectIPsWithTag(s)
  \/ \E a \in Address : RemoveServiceTag(s, a)
  \/ EndRemove(s) \/ UseIPInCluster(s)
  \/ LockAllocate(s) \/ AcquireIP(s) \/ GetService(s) \/ UpdateService(s)
  \/ UpdateLoadBalancerConfig(s) \/ RollbackTags(s) \/ RollbackFree(s)

Sync(s) == Ensure(s) \/ PatchStatus(s) \/ RemoveFinalizer(s)

User(s) == CreateService(s) \/ PinAddress(s) \/ DeleteService(s)

Next ==
  \/ \E s \in Service : StartSync(s) \/ Sync(s) \/ Observe(s) \/ User(s)
  \/ \E c \in Cluster : Crash(c)
  \/ \E a \in Address : AllocateElsewhere(a)

Spec == Init /\ [][Next]_vars

(* A sync that runs goes on, Go's mutex and the work queue are first come  *)
(* first served, and the informer delivers.  Users owe nothing.            *)
Fairness ==
  \A s \in Service : /\ SF_vars(StartSync(s))
                     /\ SF_vars(LockUpdate(s))
                     /\ SF_vars(LockAllocate(s))
                     /\ WF_vars(Sync(s))
                     /\ WF_vars(Observe(s))

FairSpec == Spec /\ Fairness

-----------------------------------------------------------------------------
(* Safety.                                                                 *)

(* The two mutexes of a metal-ccm are held by exactly the sync that is in  *)
(* the section they guard, on every path out of it: after each early       *)
(* return, failed call and restart nobody else is locked out.              *)
LockDiscipline ==
  \A s \in Service :
    /\ job[s].step \in UpdateSection <=> updLock[ClusterOf[s]] = s
    /\ job[s].step \in AllocateSection <=> allocLock[ClusterOf[s]] = s

(* The address a sync is about to publish in the service's status carries  *)
(* the service's tag: what a client is told to connect to is held for it.  *)
PublishedIsHeld ==
  \A s \in Service : job[s].step = "patch" => s \in ip[job[s].addr].tags

(* "We can do this because here we know that we freshly acquired a new IP  *)
(* that's not used for anything else" (loadbalancer.go:162): when the      *)
(* rollback of a sync clears the tags of an address, they are its own.     *)
(* Nothing sees to it once two syncs run at a time: the rollback holds     *)
(* ipAllocateMutex, and tags are added under ipUpdateMutex.                *)
RollbackClearsOwn ==
  \A s \in Service :
    job[s].step = "clear_tags" => ip[job[s].addr].tags \subseteq {s}

(* No leak of the quiet kind: an ephemeral address that no tag accounts    *)
(* for, so that no later call can find it, is being freed right now (or    *)
(* was brought along by the user).                                         *)
Accounted ==
  \A a \in Address :
    /\ ip[a].type = "ephemeral"
    /\ ip[a].tags \cap (Service \cup Reserved) = {}
    => \/ Inventory[a].type = "ephemeral"
       \/ \E s \in Service : job[s].step = "free_ip" /\ job[s].addr = a

(* "Returning nil if the load balancer specified either didn't exist or    *)
(* was successfully deleted" (loadbalancer.go:218): when a sync that called *)
(* EnsureLoadBalancerDeleted goes on to drop the finalizer, no address is  *)
(* held for the service any more.                                          *)
DeletedIsReleased ==
  \A s \in Service :
    job[s].step = "cleanup" /\ GetLoadBalancer(job[s].obj) =>
      \A a \in Address : s \notin ip[a].tags

(* "GetLoadBalancer returns whether the specified load balancer exists"    *)
(* (loadbalancer.go:63): where it tells the service controller that there  *)
(* is none to delete, no address is held for the service.                  *)
AbsentMeansNone ==
  \A s \in Service :
    job[s].step = "cleanup" => \A a \in Address : s \notin ip[a].tags

-----------------------------------------------------------------------------
(* Action properties.                                                      *)

(* A tag is taken from an address in a step of its own service's sync      *)
(* only: no read-modify-write of the tag list loses another service's tag. *)
OwnTagOnly ==
  [][\A a \in Address, s \in Service :
       s \in ip[a].tags \ ip'[a].tags => job'[s] # job[s]]_vars

(* The controller leaves alone what is not its own: a static address is    *)
(* never freed, an address of a machine or for egress is never changed.    *)
KeepsForeign ==
  [][\A a \in Address :
       /\ ip[a].type = "static" => ip'[a].type = "static"
       /\ ip[a].tags \cap Reserved # {} => ip'[a] = ip[a]]_vars

(* "Removes the service tag and checks whether it is the last service tag" *)
(* (loadbalancer.go:289), "freeing unused ephemeral ip" (259): when the    *)
(* last tag that stands for a user is taken from an ephemeral address, the *)
(* address is freed with it, whatever else its list of tags has become.    *)
LastTagFrees ==
  [][\A a \in Address, s \in Service :
       /\ job[s].step = "remove"
       /\ ip[a].type = "ephemeral"
       /\ ip[a].tags \cap (Service \cup Reserved) = {s}
       => ip'[a] \in {ip[a], Free}]_vars

-----------------------------------------------------------------------------
(* Refinement.                                                             *)

(* The lease behind an address: its tags name its users (Blank names       *)
(* none), and an address whose tags the rollback has cleared is its        *)
(* service's until it is freed.                                            *)
LeaseOf(a) ==
  [type  |-> ip[a].type,
   users |-> (ip[a].tags \cap (Service \cup Reserved))
             \cup {s \in Service : job[s].step = "free_ip" /\ job[s].addr = a}]

lease == [a \in Address |-> LeaseOf(a)]

Ownership == INSTANCE AddressOwnership WITH Other <- Reserved

(* However many calls it takes, and whatever fails among those that do not *)
(* change an address: to the addresses of the project nothing happens but  *)
(* what AddressOwnership allows.                                           *)
ImplementsOwnership == Ownership!Spec

-----------------------------------------------------------------------------
(* Liveness.                                                               *)

(* "EnsureLoadBalancer ensures that the cluster is running a load balancer *)
(* for service" (loadbalancer.go:88): a service that lives long enough has *)
(* an address in its status that is held for it.                           *)
Served(s) == \E a \in api[s].status : s \in ip[a].tags

EventuallyServed ==
  \A s \in Service :
    api[s].life = "live" ~> Served(s) \/ api[s].life # "live"

(* Without a fixed address, a status that names one ends every sync early  *)
(* (loadbalancer.go:143), and with no address left none can be acquired.   *)
Unpinned(s) == api[s].spec = None /\ api[s].status # {}
NoneLeft(s) == api[s].spec = None /\ \A a \in Address : Exists(a)

(* "If we already acquired an IP, we write it into the service status"     *)
(* (loadbalancer.go:141): unless it is one of these two for good, a        *)
(* service is served in the end, after a failed update, a lost allocation  *)
(* or a restart, and also if its user has pinned it to another address.    *)
ServedUnlessUnpinned ==
  \A s \in Service :
    api[s].life = "live" ~> \/ Served(s)
                            \/ api[s].life # "live"
                            \/ [](Unpinned(s) \/ NoneLeft(s))

(* A service being deleted gets rid of its finalizer.                      *)
EventuallyGone ==
  \A s \in Service : api[s].life = "deleting" ~> api[s].life = "absent"
=============================================================================
