--------------------------------- MODULE CCM ---------------------------------
(***************************************************************************)
(* The load balancer controller of one cluster and its configuration       *)
(* writers together: LoadBalancer and LBConfig share the addresses of the  *)
(* project, and where a sync of a service calls UpdateLoadBalancerConfig,  *)
(* the call is one of LBConfig, which waits for configWriteMutex, finds    *)
(* the addresses of the cluster and may fail at any of its steps, while    *)
(* the housekeeper's ticker writes too.                                    *)
(*                                                                         *)
(* Nodes have registered with their address and wait for their ASN label.  *)
(***************************************************************************)
EXTENDS LoadBalancer

CONSTANTS Node, ASN, Host,   \* as in LBConfig
          Pool, PoolOf

VARIABLES backend, nodes, peers, pools, adverts, annotated, writer, lock, event

(* FindClusterIPs: the addresses with the tag of a service, in no other    *)
(* use.                                                                    *)
Held == {a \in Address : /\ ip[a].tags \cap Service # {}
                         /\ ip[a].tags \cap Reserved = {}}

Config == INSTANCE LBConfig WITH Worker <- Service, held <- Held,
                                 changes <- edits, MaxChanges <- MaxEdits

lbVars == <<ip, api, view, job, updLock, allocLock, edits>>
configVars == <<backend, nodes, peers, pools, adverts, annotated, writer, lock, event>>
ccmVars == <<vars, configVars>>

ASSUME OneClusterAssumption == \A s, t \in Service : ClusterOf[s] = ClusterOf[t]

(* Those of LBConfig, for the values it is given here. *)
ASSUME PoolAssumption == PoolOf \in [Address -> Pool \cup {None}] /\ None \notin Pool
ASSUME LabelAssumption == None \notin ASN \cup Host \cup {"ticker", "watch"}
ASSUME WorkerAssumption == {"ticker", "watch"} \cap Service = {}

CCMInit ==
  /\ Init
  /\ backend \in {"metallb", "cilium"}
  /\ \E host \in [Node -> Host] :
       nodes = {[Config!New(n) EXCEPT !.host = host[n]] : n \in Node}
  /\ event = FALSE
  /\ peers = {} /\ pools = {} /\ adverts = {} /\ annotated = {}
  /\ writer = [w \in Config!Writer |-> Config!Idle]
  /\ lock = None

-----------------------------------------------------------------------------
(* The sync of a service, but for its call.                                *)
SyncStep(s) == job[s].step # "config" /\ Sync(s) /\ UNCHANGED configVars

(* l.UpdateLoadBalancerConfig(ctx, ns): with the nodes the service         *)
(* controller passed on.                                                   *)
CallConfig(s) ==
  /\ job[s].step = "config"
  /\ UNCHANGED lbVars
  /\ \E ns \in SUBSET nodes : Config!Begin(s, ns)
  /\ UNCHANGED <<backend, nodes, event>>

(* Where the call ends, the sync goes on: with its rollback after an       *)
(* error.                                                                  *)
AfterConfig(s) ==
  IF writer'[s].step # "idle" THEN UNCHANGED <<job, updLock, allocLock>>
  ELSE IF writer[s].step = "done" THEN ReturnNil(s, "patch")
  ELSE GoOn(s, "clear_tags")

ConfigStep(s) == /\ UNCHANGED <<ip, api, view, edits>>
                 /\ Config!UpdateLoadBalancerConfig(s)
                 /\ AfterConfig(s)

ConfigFails(s) == /\ UNCHANGED <<ip, api, view, edits>>
                  /\ "config" \in MayFail /\ Config!Fail(s)
                  /\ AfterConfig(s)

-----------------------------------------------------------------------------
(* The housekeeper, and the process.                                       *)

Tick == UNCHANGED lbVars /\ Config!Tick
TickerStep == UNCHANGED lbVars /\ Config!UpdateLoadBalancerConfig("ticker")
TickerFails == UNCHANGED lbVars /\ "config" \in MayFail /\ Config!Fail("ticker")

LabelNode == UNCHANGED lbVars /\ \E n \in nodes : Config!LabelNode(n)

(* All that runs dies at once. *)
Restart ==
  \/ /\ \E c \in Cluster : Crash(c)
     /\ writer' = [w \in Config!Writer |-> Config!Idle]
     /\ lock' = None
     /\ UNCHANGED <<backend, nodes, peers, pools, adverts, annotated, event>>
  \/ /\ \A s \in Service : job[s].step = "idle"
     /\ "crash" \in MayFail
     /\ UNCHANGED lbVars
     /\ Config!Crash

Others == /\ \/ \E s \in Service : StartSync(s) \/ Observe(s) \/ User(s)
             \/ \E a \in Address : AllocateElsewhere(a)
          /\ UNCHANGED configVars

CCMNext ==
  \/ Others \/ Tick \/ TickerStep \/ TickerFails \/ LabelNode \/ Restart
  \/ \E s \in Service : SyncStep(s) \/ CallConfig(s) \/ ConfigStep(s) \/ ConfigFails(s)

CCMSpec == CCMInit /\ [][CCMNext]_ccmVars

(* As in LoadBalancer and LBConfig. *)
CCMFairness ==
  /\ WF_ccmVars(Tick) /\ WF_ccmVars(TickerStep) /\ WF_ccmVars(LabelNode)
  /\ SF_ccmVars(TickerStep /\ Config!Lock("ticker"))
  /\ \A s \in Service :
       /\ SF_ccmVars(StartSync(s) /\ UNCHANGED configVars)
       /\ SF_ccmVars(LockUpdate(s) /\ UNCHANGED configVars)
       /\ SF_ccmVars(LockAllocate(s) /\ UNCHANGED configVars)
       /\ SF_ccmVars(ConfigStep(s) /\ Config!Lock(s))
       /\ WF_ccmVars(SyncStep(s) \/ CallConfig(s) \/ ConfigStep(s))
       /\ WF_ccmVars(Observe(s) /\ UNCHANGED configVars)

CCMFairSpec == CCMSpec /\ CCMFairness

-----------------------------------------------------------------------------
(* Properties.                                                             *)

(* "If we already acquired an IP, we write it into the service status"     *)
(* (loadbalancer.go:138) only after it is in the configuration: an address *)
(* a sync has acquired and is about to publish is announced, whoever wrote *)
(* the configuration since, and from whichever list of addresses.          *)
PublishedIsAnnounced ==
  \A s \in Service :
    job[s].step = "patch" /\ job[s].obj.spec = None /\ PoolOf[job[s].addr] # None
      => job[s].addr \in Config!Announced(pools)

(* The addresses of a service a client may rely on. *)
Published(s) == {a \in api[s].status : s \in ip[a].tags /\ PoolOf[a] # None}

(* What a service's status shows and is held for it gets announced, again  *)
(* and again: a user's own address, too, for which the sync itself writes  *)
(* no configuration.                                                       *)
EventuallyAnnounced ==
  []<>(\A s \in Service : Published(s) \subseteq Config!Announced(pools))

(* "Therefore, we let the housekeeping update the config map"              *)
(* (loadbalancer.go:247): an address that no service holds any more is     *)
(* announced for a while, by when somebody else may use it, but not for    *)
(* good, whichever of deletion, change of address and rollback gave it up. *)
EventuallyWithdrawn == []<>(Config!Announced(pools) \subseteq Held)
=============================================================================
