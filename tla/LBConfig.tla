------------------------------ MODULE LBConfig ------------------------------
(***************************************************************************)
(* The load balancer configuration metal-ccm keeps in its cluster          *)
(* (pkg/controllers/loadbalancer/config, UpdateLoadBalancerConfig of the   *)
(* load balancer controller and its callers in pkg/controllers/            *)
(* housekeeping): one BGP peer per node and one address pool per network   *)
(* and type of address, as custom resources of MetalLB or Cilium.          *)
(*                                                                         *)
(* Every writer rewrites everything: it is called with a list of nodes,    *)
(* waits for the mutex, reads the addresses of the cluster, and goes       *)
(* through the resources one remote call at a time, deleting what its      *)
(* configuration does not name and writing what it does.  One step of this *)
(* module is one such call.                                                *)
(***************************************************************************)
EXTENDS Naturals

CONSTANTS
  Node,        \* node names
  ASN,         \* values of the label with a machine's ASN
  Host,        \* internal addresses of nodes
  Address,     \* addresses services of the cluster may hold
  Pool,        \* names of address pools
  PoolOf,      \* getPoolName of an address, None outside the cluster's networks
  Worker,      \* service workers, each calling for the service it syncs
  None,        \* no label, no address, no lock holder
  MaxFaults,   \* bound on failed calls and restarts
  MaxChanges   \* bound on changes of nodes and of the addresses held

Writer == Worker \cup {"ticker", "watch"}

ASSUME PoolAssumption == PoolOf \in [Address -> Pool \cup {None}] /\ None \notin Pool
ASSUME LabelAssumption == None \notin ASN \cup Host \cup Writer
ASSUME WorkerAssumption == {"ticker", "watch"} \cap Worker = {}
ASSUME BoundAssumption == MaxFaults \in Nat /\ MaxChanges \in Nat

VARIABLES
  backend,     \* the LoadBalancerType metal-ccm was started with
  nodes,       \* the API server: the nodes of the cluster
  held,        \* the metal-api: the addresses with a service tag of the cluster
  peers,       \* BGPPeer or CiliumBGPPeeringPolicy resources
  pools,       \* IPAddressPool or CiliumLoadBalancerIPPool resources
  adverts,     \* BGPAdvertisement resources (metallb)
  annotated,   \* annotations with the virtual router of an ASN (cilium)
  writer,      \* the calls of UpdateLoadBalancerConfig in progress
  lock,        \* holder of configWriteMutex
  event,       \* whether a node's new address waits for the informer's UpdateFunc
  faults,      \* failed calls and restarts so far
  changes      \* changes from outside so far

vars == <<backend, nodes, held, peers, pools, adverts, annotated, writer, lock,
          event, faults, changes>>

crs == <<peers, pools, adverts, annotated>>
world == <<backend, nodes, held, event, changes>>

(* A node, a peer (named by its ASN; a Cilium policy selects its node and  *)
(* leaves out the host) and an address pool.                               *)
NodeInfo == [name : Node, asn : ASN \cup {None}, host : Host \cup {None}]
Peer == [asn : ASN, node : Node, host : Host]
AddressPool == [name : Pool, cidrs : SUBSET Address]

Loop == {"delete_peers", "write_peers", "delete_pools", "write_pools",
         "adverts", "annotate"}
Section == Loop \cup {"find_ips", "done"}

(* A call in progress: its argument, the answer of FindClusterIPs, and     *)
(* what the loop it is in has left to do.                                  *)
Call == [step  : Section \cup {"idle", "lock"},
         nodes : SUBSET NodeInfo,
         ips   : SUBSET Address,
         todo  : SUBSET (Peer \cup AddressPool \cup Pool \cup NodeInfo)]

Idle == [step |-> "idle", nodes |-> {}, ips |-> {}, todo |-> {}]

TypeOK ==
  /\ backend \in {"metallb", "cilium"}
  /\ nodes \subseteq NodeInfo
  /\ held \subseteq Address
  /\ peers \subseteq Peer
  /\ pools \subseteq AddressPool
  /\ adverts \subseteq Pool
  /\ annotated \subseteq Node \X ASN
  /\ writer \in [Writer -> Call]
  /\ lock \in Writer \cup {None}
  /\ event \in BOOLEAN
  /\ faults \in 0..MaxFaults
  /\ changes \in 0..MaxChanges

(* A node that has registered: without its label, and without an address.  *)
New(name) == [name |-> name, asn |-> None, host |-> None]

Init ==
  /\ backend \in {"metallb", "cilium"}
  /\ nodes = {New(name) : name \in Node}
  /\ held = {} /\ event = FALSE
  /\ peers = {} /\ pools = {} /\ adverts = {} /\ annotated = {}
  /\ writer = [w \in Writer |-> Idle]
  /\ lock = None
  /\ faults = 0 /\ changes = 0

-----------------------------------------------------------------------------
(* The configuration: newBaseConfig.                                       *)

(* computePeers: a node without an address is skipped, one without an ASN  *)
(* is an error.                                                            *)
Labelled(ns) == \A n \in ns : n.asn # None

(* Mutant: nodes without an address are not skipped. *)
computePeersAll(ns) == {[asn |-> n.asn, node |-> n.name, host |-> n.host] : n \in ns}

computePeers(ns) == {[asn |-> n.asn, node |-> n.name, host |-> n.host] :
                       n \in {m \in ns : m.host # None}}

(* computeAddressPools: one pool per network and type, as far as the       *)
(* networks are the cluster's.                                             *)
computeAddressPools(ips) ==
  {[name |-> p, cidrs |-> {a \in ips : PoolOf[a] = p}] :
     p \in {PoolOf[a] : a \in ips} \ {None}}

Peers(w) == computePeers(writer[w].nodes)
Pools(w) == computeAddressPools(writer[w].ips)

ASNs(ps) == {p.asn : p \in ps}
Names(ps) == {p.name : p \in ps}
Announced(ps) == UNION {p.cidrs : p \in ps}

-----------------------------------------------------------------------------
(* The callers.                                                            *)

Begin(w, ns) ==
  /\ writer[w].step = "idle"
  /\ writer' = [writer EXCEPT ![w] = [Idle EXCEPT !.step = "lock", !.nodes = ns]]
  /\ UNCHANGED <<crs, lock, faults>>

(* The housekeeper's ticker lists the nodes of the cluster.                *)
Tick == Begin("ticker", nodes) /\ UNCHANGED world

(* So does the UpdateFunc of its node informer, when a node has got a new  *)
(* address.                                                                *)
NodeUpdated == /\ event
               /\ event' = FALSE
               /\ Begin("watch", nodes)
               /\ UNCHANGED <<backend, nodes, held, changes>>

(* EnsureLoadBalancer and UpdateLoadBalancer pass on the nodes the service *)
(* controller of k8s.io/cloud-provider calls them with: those it deems     *)
(* eligible, such as the ready ones.                                       *)
ServiceSync(w) == \E ns \in SUBSET nodes : Begin(w, ns) /\ UNCHANGED world

-----------------------------------------------------------------------------
(* UpdateLoadBalancerConfig.                                               *)

(* Mutant: the mutex is not waited for. *)
LockUnguarded(w) ==
  /\ writer[w].step = "lock"
  /\ lock' = w
  /\ writer' = [writer EXCEPT ![w].step = "find_ips"]
  /\ UNCHANGED <<world, crs, faults>>

Lock(w) ==
  /\ writer[w].step = "lock"
  /\ lock = None
  /\ lock' = w
  /\ writer' = [writer EXCEPT ![w].step = "find_ips"]
  /\ UNCHANGED <<world, crs, faults>>

Unlock(w) == /\ writer' = [writer EXCEPT ![w] = Idle]
             /\ lock' = None

(* Mutant: every pool is deleted, to be created anew.                      *)
TodoAllPools(w, step) ==
  CASE step = "delete_peers" -> {p \in peers : p.asn \notin ASNs(Peers(w))}
    [] step = "write_peers"  -> Peers(w)
    [] step = "delete_pools" -> pools
    [] step = "write_pools"  -> Pools(w)
    [] step = "adverts"      -> Names(Pools(w))
    [] step = "annotate"     -> nodes
    [] OTHER                 -> {}

(* Mutant: nothing is deleted. *)
TodoWrites(w, step) ==
  CASE step = "write_peers"  -> Peers(w)
    [] step = "write_pools"  -> Pools(w)
    [] step = "adverts"      -> Names(Pools(w))
    [] step = "annotate"     -> nodes
    [] OTHER                 -> {}

(* Mutant: a pool that exists is not updated. *)
TodoNewPools(w, step) ==
  CASE step = "delete_peers" -> {p \in peers : p.asn \notin ASNs(Peers(w))}
    [] step = "write_peers"  -> Peers(w)
    [] step = "delete_pools" -> {p \in pools : p.name \notin Names(Pools(w))}
    [] step = "write_pools"  -> {p \in Pools(w) : p.name \notin Names(pools)}
    [] step = "adverts"      -> Names(Pools(w))
    [] step = "annotate"     -> nodes
    [] OTHER                 -> {}

(* What the loop of each step goes over: the resources just listed that    *)
(* the configuration does not name, those it has, or the nodes just listed. *)
Todo(w, step) ==
  CASE step = "delete_peers" -> {p \in peers : p.asn \notin ASNs(Peers(w))}
    [] step = "write_peers"  -> Peers(w)
    [] step = "delete_pools" -> {p \in pools : p.name \notin Names(Pools(w))}
    [] step = "write_pools"  -> Pools(w)
    [] step = "adverts"      -> Names(Pools(w))
    [] step = "annotate"     -> nodes
    [] OTHER                 -> {}

(* FindClusterIPs, and the configuration computed from its answer.         *)
FindClusterIPs(w) ==
  /\ writer[w].step = "find_ips"
  /\ IF Labelled(writer[w].nodes)
     THEN /\ writer' = [writer EXCEPT ![w].step = "delete_peers",
                                      ![w].ips = held,
                                      ![w].todo = Todo(w, "delete_peers")]
          /\ UNCHANGED lock
     ELSE Unlock(w)
  /\ UNCHANGED <<world, crs, faults>>

(* Mutant: the last loop is left out. *)
NextStepShort(step) ==
  CASE step = "delete_peers" -> "write_peers"
    [] step = "write_peers"  -> "delete_pools"
    [] step = "delete_pools" -> "write_pools"
    [] OTHER                 -> "done"

(* The order of WriteCRs.                                                  *)
NextStep(step) ==
  CASE step = "delete_peers" -> "write_peers"
    [] step = "write_peers"  -> "delete_pools"
    [] step = "delete_pools" -> "write_pools"
    [] step = "write_pools"  -> IF backend = "metallb" THEN "adverts" ELSE "annotate"
    [] OTHER                 -> "done"

EndLoop(w) ==
  LET next == NextStep(writer[w].step)
  IN /\ writer[w].step \in Loop
     /\ writer[w].todo = {}
     /\ writer' = [writer EXCEPT ![w].step = next, ![w].todo = Todo(w, next)]
     /\ UNCHANGED <<world, crs, lock, faults>>

(* One round of the loop of a step, for the item it takes. *)
Round(w, step, item) ==
  /\ writer[w].step = step
  /\ item \in writer[w].todo
  /\ writer' = [writer EXCEPT ![w].todo = @ \ {item}]
  /\ UNCHANGED <<world, lock, faults>>

DeletePeer(w) ==
  \E p \in peers : /\ Round(w, "delete_peers", p)
                   /\ peers' = peers \ {p}
                   /\ UNCHANGED <<pools, adverts, annotated>>

(* CreateOrUpdate goes by the name, here the ASN. *)
WritePeer(w) ==
  \E p \in Peers(w) : /\ Round(w, "write_peers", p)
                      /\ peers' = {q \in peers : q.asn # p.asn} \cup {p}
                      /\ UNCHANGED <<pools, adverts, annotated>>

DeletePool(w) ==
  \E p \in pools : /\ Round(w, "delete_pools", p)
                   /\ pools' = pools \ {p}
                   /\ UNCHANGED <<peers, adverts, annotated>>

WritePool(w) ==
  \E p \in Pools(w) : /\ Round(w, "write_pools", p)
                      /\ pools' = {q \in pools : q.name # p.name} \cup {p}
                      /\ UNCHANGED <<peers, adverts, annotated>>

(* The advertisements are listed, and those that have no pool deleted, in  *)
(* each round of the loop over the pools: not at all if there are none.    *)
DeleteAdvert(w) ==
  /\ writer[w].step = "adverts"
  /\ writer[w].todo # {}
  /\ \E p \in adverts \ Names(Pools(w)) : adverts' = adverts \ {p}
  /\ UNCHANGED <<world, peers, pools, annotated, writer, lock, faults>>

WriteAdvert(w) ==
  /\ adverts \subseteq Names(Pools(w))
  /\ \E p \in Names(Pools(w)) : /\ Round(w, "adverts", p)
                                /\ adverts' = adverts \cup {p}
                                /\ UNCHANGED <<peers, pools, annotated>>

(* writeNodeAnnotations: an error for a node that has no label, or is gone *)
(* since the nodes were listed.                                            *)
Annotate(w) ==
  \E n \in IF writer[w].step = "annotate" THEN writer[w].todo ELSE {} :
    /\ n.asn # None
    /\ \E m \in nodes : m.name = n.name
    /\ Round(w, "annotate", n)
    /\ annotated' = annotated \cup {<<n.name, n.asn>>}
    /\ UNCHANGED <<peers, pools, adverts>>

AnnotateError(w) ==
  /\ writer[w].step = "annotate"
  /\ \E n \in writer[w].todo : n.asn = None \/ \A m \in nodes : m.name # n.name
  /\ Unlock(w)
  /\ UNCHANGED <<world, crs, faults>>

Return(w) == /\ writer[w].step = "done"
             /\ Unlock(w)
             /\ UNCHANGED <<world, crs, faults>>

(* A remote call of the section fails and the error is returned.  A call   *)
(* that fails after it took effect is the call followed by this step.      *)
Fail(w) == /\ writer[w].step \in Section \ {"done"}
           /\ faults < MaxFaults
           /\ faults' = faults + 1
           /\ Unlock(w)
           /\ UNCHANGED <<world, crs>>

(* The process dies and starts again. *)
Crash == /\ \E w \in Writer : writer[w].step # "idle"
         /\ faults < MaxFaults
         /\ faults' = faults + 1
         /\ writer' = [w \in Writer |-> Idle]
         /\ lock' = None
         /\ event' = FALSE
         /\ UNCHANGED <<backend, nodes, held, changes, crs>>

-----------------------------------------------------------------------------
(* What changes around it: nodes and the addresses held for services.      *)

Change == /\ changes < MaxChanges
          /\ changes' = changes + 1
          /\ UNCHANGED <<backend, peers, pools, adverts, writer, lock, faults>>

Replace(n, m) == nodes' = (nodes \ {n}) \cup {m}

Join(name) ==
  /\ Change
  /\ \A n \in nodes : n.name # name
  /\ nodes' = nodes \cup {New(name)}
  /\ UNCHANGED <<held, event, annotated>>

Leave(n) ==
  /\ Change
  /\ nodes' = nodes \ {n}
  /\ annotated' = {x \in annotated : x[1] # n.name}
  /\ UNCHANGED <<held, event>>

(* The kubelet reports the address of its node, and the node informer has  *)
(* an update to handle if there is one now.                                *)
SetHost(n, host) ==
  /\ Change
  /\ host # n.host
  /\ Replace(n, [n EXCEPT !.host = host])
  /\ event' = (event \/ host # None)
  /\ UNCHANGED <<held, annotated>>

(* Services get addresses, and addresses lose their last service.          *)
Hold(ips) == /\ Change
             /\ ips # held
             /\ held' = ips
             /\ UNCHANGED <<nodes, event, annotated>>

(* The tag syncer of the housekeeper labels a node with the tags of its    *)
(* machine, among them an ASN no other machine has.                        *)
LabelNode(n) ==
  /\ n.asn = None
  /\ \E k \in ASN \ {m.asn : m \in nodes} : Replace(n, [n EXCEPT !.asn = k])
  /\ UNCHANGED <<backend, held, event, changes, crs, writer, lock, faults>>

-----------------------------------------------------------------------------

WriteCRs(w) ==
  \/ EndLoop(w) \/ DeletePeer(w) \/ WritePeer(w) \/ DeletePool(w) \/ WritePool(w)
  \/ DeleteAdvert(w) \/ WriteAdvert(w) \/ Annotate(w) \/ AnnotateError(w)

UpdateLoadBalancerConfig(w) ==
  Lock(w) \/ FindClusterIPs(w) \/ WriteCRs(w) \/ Return(w)

Callers == Tick \/ NodeUpdated \/ \E w \in Worker : ServiceSync(w)

Environment ==
  \/ \E name \in Node : Join(name)
  \/ \E n \in nodes : \/ Leave(n) \/ LabelNode(n)
                      \/ \E host \in Host \cup {None} : SetHost(n, host)
  \/ \E ips \in SUBSET Address : Hold(ips)

Next ==
  \/ Callers \/ Environment \/ Crash
  \/ \E w \in Writer : UpdateLoadBalancerConfig(w) \/ Fail(w)

Spec == Init /\ [][Next]_vars

(* The ticker ticks, the mutex is granted in turn, calls are answered, and *)
(* nodes get their labels.                                                 *)
Fairness ==
  /\ WF_vars(Tick)
  /\ WF_vars(\E n \in nodes : LabelNode(n))
  /\ \A w \in Writer : /\ SF_vars(Lock(w))
                       /\ WF_vars(UpdateLoadBalancerConfig(w))

FairSpec == Spec /\ Fairness

-----------------------------------------------------------------------------
(* Safety.                                                                 *)

(* configWriteMutex is held by exactly the call that is between Lock and   *)
(* Unlock (loadbalancer.go:300), whatever way the call ends: two writers   *)
(* never interleave, and none leaves the mutex locked.                     *)
MutualExclusion ==
  \A w \in Writer : writer[w].step \in Section <=> lock = w

(* A call that returns without an error has left behind the configuration  *)
(* it computed, nothing more and nothing less, although it went through    *)
(* six loops of single calls (the advertisements only if any pool is left: *)
(* metallb_config.go:139).                                                 *)
Written ==
  \A w \in Writer : writer[w].step = "done" =>
    /\ peers = Peers(w)
    /\ pools = Pools(w)
    /\ backend = "metallb" /\ pools # {} => adverts = Names(pools)

-----------------------------------------------------------------------------
(* Action properties.                                                      *)

(* Rewriting the configuration does not interrupt what stays in it: a peer *)
(* or an announced address that the writing call wants is not taken away   *)
(* by any step while the call is in the section.                           *)
Undisturbed ==
  [][\A w \in Writer : writer[w].step \in Loop =>
       /\ peers \cap Peers(w) \subseteq peers'
       /\ Announced(pools) \cap Announced(Pools(w)) \subseteq Announced(pools')]_vars

(* A service's address is withdrawn only by a call that found it without a *)
(* service tag.                                                            *)
WithdrawnIsFree ==
  [][\A a \in Announced(pools) \ Announced(pools') :
       \E w \in Writer : lock = w /\ a \notin writer[w].ips]_vars

-----------------------------------------------------------------------------
(* Liveness.                                                               *)

(* "We let the housekeeping update the config map" (loadbalancer.go:247):  *)
(* once nodes and addresses stay as they are, peers and pools become those *)
(* of the cluster's nodes and the addresses held, again and again, however *)
(* often other callers write a configuration of an older or partial list.  *)
Converges == []<>(peers = computePeers(nodes) /\ pools = computeAddressPools(held))

(* So do the annotations each node needs for its virtual router (cilium).  *)
EventuallyAnnotated ==
  []<>(\A n \in nodes : backend = "cilium" => <<n.name, n.asn>> \in annotated)
=============================================================================
