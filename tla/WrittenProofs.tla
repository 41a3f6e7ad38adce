---------------------------- MODULE WrittenProofs ----------------------------
(***************************************************************************)
(* The theorem that a successful call of UpdateLoadBalancerConfig leaves   *)
(* exactly the configuration it computed (LBConfig!Written), for any       *)
(* nodes, addresses, writers and bounds.  The invariant says of each loop  *)
(* of WriteCRs what it has achieved so far (Progress); that nobody undoes  *)
(* it is mutual exclusion.                                                 *)
(***************************************************************************)
EXTENDS LBConfigProofs

Wanted(c) == computePeers(c.nodes)
WantedPools(c) == computeAddressPools(c.ips)

(* Foreign peers are gone or about to go; then those the loop is done with *)
(* are there, and no other peer of their ASN.                              *)
PeerProgress(c) ==
  /\ c.step = "delete_peers" => \A q \in peers : q.asn \in ASNs(Wanted(c)) \/ q \in c.todo
  /\ c.step = "write_peers" =>
       /\ \A q \in peers : q.asn \in ASNs(Wanted(c))
       /\ \A p \in Wanted(c) \ c.todo :
            p \in peers /\ \A q \in peers : q.asn = p.asn => q = p
  /\ c.step \in {"delete_pools", "write_pools", "adverts", "annotate", "done"} =>
       peers = Wanted(c)

(* So with the pools. *)
PoolProgress(c) ==
  /\ c.step = "delete_pools" =>
       \A q \in pools : q.name \in Names(WantedPools(c)) \/ q \in c.todo
  /\ c.step = "write_pools" =>
       /\ \A q \in pools : q.name \in Names(WantedPools(c))
       /\ \A p \in WantedPools(c) \ c.todo :
            p \in pools /\ \A q \in pools : q.name = p.name => q = p
  /\ c.step \in {"adverts", "annotate", "done"} => pools = WantedPools(c)

(* The first round of the last loop of MetalLB deletes all that is foreign. *)
AdvertProgress(c) ==
  /\ c.step = "adverts" =>
       /\ Names(WantedPools(c)) \ c.todo \subseteq adverts
       /\ Names(WantedPools(c)) \subseteq c.todo \/ adverts \subseteq Names(WantedPools(c))
  /\ c.step = "annotate" => backend # "metallb"
  /\ c.step = "done" => (backend = "metallb" /\ pools # {} => adverts = Names(pools))

Progress(c) == PeerProgress(c) /\ PoolProgress(c) /\ AdvertProgress(c)

ProgressInv == \A w \in Writer : Progress(writer[w])

-----------------------------------------------------------------------------

(* Names and ASNs name one resource of a configuration each. *)
LEMMA OneOfASN ==
  ASSUME NEW ns, Distinct(ns), Labelled(ns), NEW p \in computePeers(ns),
         NEW q \in computePeers(ns), p.asn = q.asn
  PROVE  p = q
BY DEF Distinct, Labelled, computePeers

LEMMA OneOfName ==
  ASSUME NEW ips, NEW p \in computeAddressPools(ips), NEW q \in computeAddressPools(ips),
         p.name = q.name
  PROVE  p = q
BY DEF computeAddressPools

LEMMA Outside ==
  ASSUME NEW c, c.step \notin Loop \cup {"done"} PROVE Progress(c)
BY StepValues DEF Progress, PeerProgress, PoolProgress, AdvertProgress

(* It is enough to look at the call that makes a step in the section. *)
LEMMA Alone ==
  ASSUME MutualExclusion, ProgressInv, NEW w \in Writer, writer[w].step \in Section,
         \A v \in Writer \ {w} : writer'[v] = writer[v], Progress(writer[w])'
  PROVE  ProgressInv'
<1> SUFFICES ASSUME NEW v \in Writer, v # w PROVE Progress(writer[v])'
  BY DEF ProgressInv
<1>1. writer'[v].step \notin Loop \cup {"done"}
  BY StepValues DEF MutualExclusion
<1> QED
  BY <1>1, StepValues DEF Progress, PeerProgress, PoolProgress, AdvertProgress

(* Nobody writes. *)
LEMMA Untouched ==
  ASSUME ProgressInv, UNCHANGED <<backend, peers, pools, adverts>>,
         \A v \in Writer : writer'[v] = writer[v] \/ writer'[v].step \notin Loop \cup {"done"}
  PROVE  ProgressInv'
<1> SUFFICES ASSUME NEW v \in Writer PROVE Progress(writer[v])'
  BY DEF ProgressInv
<1>1. CASE writer'[v] = writer[v]
  <2>1. Progress(writer[v])
    BY DEF ProgressInv
  <2> QED
    BY <1>1, <2>1 DEF Progress, PeerProgress, PoolProgress, AdvertProgress, Wanted, WantedPools,
                      computePeers, computeAddressPools, ASNs, Names
<1>2. CASE writer'[v].step \notin Loop \cup {"done"}
  BY <1>2, StepValues DEF Progress, PeerProgress, PoolProgress, AdvertProgress
<1> QED
  BY <1>1, <1>2

LEMMA Rounded ==
  ASSUME TypeInv, NEW w \in Writer, NEW step, NEW item, Round(w, step, item)
  PROVE  /\ writer[w].step = step /\ writer'[w].step = step
         /\ writer'[w].nodes = writer[w].nodes /\ writer'[w].ips = writer[w].ips
         /\ writer'[w].todo = writer[w].todo \ {item}
         /\ UNCHANGED backend
         /\ \A v \in Writer \ {w} : writer'[v] = writer[v]
BY DEF Round, TypeInv, TypeOK, Call, world

-----------------------------------------------------------------------------
(* The loops.                                                              *)

LEMMA PeerLoops ==
  ASSUME TypeInv, MutualExclusion, ContentInv, ProgressInv, NEW w \in Writer,
         DeletePeer(w) \/ WritePeer(w)
  PROVE  ProgressInv'
<1>1. Progress(writer[w]) /\ Spares(writer[w])
  BY DEF ProgressInv, ContentInv, SparesInv
<1>2. CASE DeletePeer(w)
  <2>1. PICK p \in peers : Round(w, "delete_peers", p) /\ peers' = peers \ {p}
    BY <1>2 DEF DeletePeer
  <2>2. \A q \in peers' : q.asn \in ASNs(Wanted(writer[w])) \/ q \in writer'[w].todo
    BY <1>1, <2>1, Rounded DEF Progress, PeerProgress
  <2>3. Progress(writer[w])'
    BY <2>1, <2>2, Rounded
    DEF Progress, PeerProgress, PoolProgress, AdvertProgress, Wanted, computePeers, ASNs
  <2> QED
    BY <2>1, <2>3, Alone, Rounded, StepValues
<1>3. CASE WritePeer(w)
  <2>1. PICK p \in Peers(w) : /\ Round(w, "write_peers", p)
                              /\ peers' = {q \in peers : q.asn # p.asn} \cup {p}
    BY <1>3 DEF WritePeer
  <2>2. Labelled(writer[w].nodes) /\ Distinct(writer[w].nodes)
    BY <1>1, <2>1, StepValues DEF Round, TypeInv, CallInv, WellFormed, Spares
  <2>3. /\ \A q \in peers' : q.asn \in ASNs(Wanted(writer[w]))
        /\ \A r \in Wanted(writer[w]) \ writer'[w].todo :
             r \in peers' /\ \A q \in peers' : q.asn = r.asn => q = r
    <3>1. /\ p \in Wanted(writer[w]) /\ p.asn \in ASNs(Wanted(writer[w]))
          /\ \A r \in Wanted(writer[w]) : r.asn = p.asn => r = p
      BY <2>2, OneOfASN DEF Peers, Wanted, ASNs
    <3>2. /\ \A q \in peers : q.asn \in ASNs(Wanted(writer[w]))
          /\ \A r \in Wanted(writer[w]) \ writer[w].todo :
               r \in peers /\ \A q \in peers : q.asn = r.asn => q = r
      BY <1>1, <2>1, Rounded DEF Progress, PeerProgress
    <3>3. writer'[w].todo = writer[w].todo \ {p}
      BY <2>1, Rounded
    <3> QED
      BY <2>1, <3>1, <3>2, <3>3
  <2>4. Progress(writer[w])'
    BY <2>1, <2>3, Rounded
    DEF Progress, PeerProgress, PoolProgress, AdvertProgress, Wanted, computePeers, ASNs
  <2> QED
    BY <2>1, <2>4, Alone, Rounded, StepValues
<1> QED
  BY <1>2, <1>3

LEMMA PoolLoops ==
  ASSUME TypeInv, MutualExclusion, ProgressInv, NEW w \in Writer,
         DeletePool(w) \/ WritePool(w)
  PROVE  ProgressInv'
<1>1. Progress(writer[w])
  BY DEF ProgressInv
<1>2. CASE DeletePool(w)
  <2>1. PICK p \in pools : Round(w, "delete_pools", p) /\ pools' = pools \ {p}
                           /\ UNCHANGED peers
    BY <1>2 DEF DeletePool
  <2>2. /\ \A q \in pools' : q.name \in Names(WantedPools(writer[w])) \/ q \in writer'[w].todo
        /\ peers = Wanted(writer[w])
    BY <1>1, <2>1, Rounded DEF Progress, PoolProgress, PeerProgress
  <2>3. Progress(writer[w])'
    BY <2>1, <2>2, Rounded
    DEF Progress, PeerProgress, PoolProgress, AdvertProgress, Wanted, WantedPools,
        computePeers, computeAddressPools, Names
  <2> QED
    BY <2>1, <2>3, Alone, Rounded, StepValues
<1>3. CASE WritePool(w)
  <2>1. PICK p \in Pools(w) : /\ Round(w, "write_pools", p)
                              /\ pools' = {q \in pools : q.name # p.name} \cup {p}
                              /\ UNCHANGED peers
    BY <1>3 DEF WritePool
  <2>2. /\ \A q \in pools' : q.name \in Names(WantedPools(writer[w]))
        /\ \A r \in WantedPools(writer[w]) \ writer'[w].todo :
             r \in pools' /\ \A q \in pools' : q.name = r.name => q = r
    <3>1. /\ p \in WantedPools(writer[w]) /\ p.name \in Names(WantedPools(writer[w]))
          /\ \A r \in WantedPools(writer[w]) : r.name = p.name => r = p
      BY OneOfName DEF Pools, WantedPools, Names
    <3>2. /\ \A q \in pools : q.name \in Names(WantedPools(writer[w]))
          /\ \A r \in WantedPools(writer[w]) \ writer[w].todo :
               r \in pools /\ \A q \in pools : q.name = r.name => q = r
      BY <1>1, <2>1, Rounded DEF Progress, PoolProgress
    <3>3. writer'[w].todo = writer[w].todo \ {p}
      BY <2>1, Rounded
    <3> QED
      BY <2>1, <3>1, <3>2, <3>3
  <2>3. peers = Wanted(writer[w])
    BY <1>1, <2>1, Rounded DEF Progress, PeerProgress
  <2>4. Progress(writer[w])'
    BY <2>1, <2>2, <2>3, Rounded
    DEF Progress, PeerProgress, PoolProgress, AdvertProgress, Wanted, WantedPools,
        computePeers, computeAddressPools, Names
  <2> QED
    BY <2>1, <2>4, Alone, Rounded, StepValues
<1> QED
  BY <1>2, <1>3

LEMMA LastLoops ==
  ASSUME TypeInv, MutualExclusion, ProgressInv, NEW w \in Writer,
         DeleteAdvert(w) \/ WriteAdvert(w) \/ Annotate(w)
  PROVE  ProgressInv'
<1>1. Progress(writer[w])
  BY DEF ProgressInv
<1>2. CASE DeleteAdvert(w)
  <2>1. PICK p \in adverts \ Names(WantedPools(writer[w])) : adverts' = adverts \ {p}
    BY <1>2 DEF DeleteAdvert, Pools, WantedPools
  <2>2. /\ writer[w].step = "adverts" /\ UNCHANGED <<peers, pools, writer, backend>>
    BY <1>2 DEF DeleteAdvert, world
  <2>3. AdvertProgress(writer[w])'
    BY <1>1, <2>1, <2>2
    DEF Progress, AdvertProgress, WantedPools, computeAddressPools, Names
  <2>4. Progress(writer[w])'
    BY <1>1, <2>2, <2>3
    DEF Progress, PeerProgress, PoolProgress, Wanted, WantedPools,
        computePeers, computeAddressPools, Names
  <2> QED
    BY <2>2, <2>4, Alone, StepValues
<1>3. CASE WriteAdvert(w)
  <2>1. PICK p \in Names(WantedPools(writer[w])) :
          /\ Round(w, "adverts", p) /\ adverts' = adverts \cup {p}
          /\ UNCHANGED <<peers, pools>>
    BY <1>3 DEF WriteAdvert, Pools, WantedPools
  <2>2. adverts \subseteq Names(WantedPools(writer[w]))
    BY <1>3 DEF WriteAdvert, Pools, WantedPools
  <2>3. AdvertProgress(writer[w])'
    BY <1>1, <2>1, <2>2, Rounded
    DEF Progress, AdvertProgress, WantedPools, computeAddressPools, Names
  <2>4. Progress(writer[w])'
    BY <1>1, <2>1, <2>3, Rounded
    DEF Progress, PeerProgress, PoolProgress, Wanted, WantedPools,
        computePeers, computeAddressPools, Names
  <2> QED
    BY <2>1, <2>4, Alone, Rounded, StepValues
<1>4. CASE Annotate(w)
  <2>1. PICK n : Round(w, "annotate", n) /\ UNCHANGED <<peers, pools, adverts>>
    BY <1>4 DEF Annotate
  <2>2. Progress(writer[w])'
    BY <1>1, <2>1, Rounded
    DEF Progress, PeerProgress, PoolProgress, AdvertProgress, Wanted, WantedPools,
        computePeers, computeAddressPools, Names
  <2> QED
    BY <2>1, <2>2, Alone, Rounded, StepValues
<1> QED
  BY <1>2, <1>3, <1>4

(* What a loop has achieved at its end is what the next one starts from.   *)
LEMMA LoopEnds ==
  ASSUME TypeInv, MutualExclusion, ProgressInv, NEW w \in Writer, EndLoop(w)
  PROVE  ProgressInv'
<1> DEFINE c == writer[w]
           d == writer'[w]
           next == NextStep(c.step)
<1>1. Progress(c) /\ c.step \in Loop /\ c.todo = {}
  BY DEF ProgressInv, EndLoop
<1>2. /\ d.step = next /\ d.nodes = c.nodes /\ d.ips = c.ips /\ d.todo = Todo(w, next)
      /\ UNCHANGED <<peers, pools, adverts, backend>>
      /\ \A v \in Writer \ {w} : writer'[v] = writer[v]
  BY DEF EndLoop, TypeInv, TypeOK, Call, crs, world
<1>3. CASE c.step = "delete_peers"
  <2>1. next = "write_peers" /\ d.todo = Wanted(c)
    BY <1>2, <1>3 DEF NextStep, Todo, Peers, Wanted
  <2>2. Progress(writer[w])'
    BY <1>1, <1>2, <1>3, <2>1
    DEF Progress, PeerProgress, PoolProgress, AdvertProgress, Wanted, computePeers, ASNs
  <2> QED
    BY <1>1, <1>2, <2>2, Alone, StepValues
<1>4. CASE c.step = "write_peers"
  <2>1. peers = Wanted(c)
    BY <1>1, <1>4 DEF Progress, PeerProgress, ASNs
  <2>2. next = "delete_pools" /\ d.todo = {p \in pools : p.name \notin Names(WantedPools(c))}
    BY <1>2, <1>4 DEF NextStep, Todo, Pools, WantedPools
  <2>3. Progress(writer[w])'
    BY <1>2, <2>1, <2>2
    DEF Progress, PeerProgress, PoolProgress, AdvertProgress, Wanted, WantedPools,
        computePeers, computeAddressPools, Names
  <2> QED
    BY <1>1, <1>2, <2>3, Alone, StepValues
<1>5. CASE c.step = "delete_pools"
  <2>1. peers = Wanted(c) /\ \A q \in pools : q.name \in Names(WantedPools(c))
    BY <1>1, <1>5 DEF Progress, PeerProgress, PoolProgress
  <2>2. next = "write_pools" /\ d.todo = WantedPools(c)
    BY <1>2, <1>5 DEF NextStep, Todo, Pools, WantedPools
  <2>3. Progress(writer[w])'
    BY <1>2, <2>1, <2>2
    DEF Progress, PeerProgress, PoolProgress, AdvertProgress, Wanted, WantedPools,
        computePeers, computeAddressPools, Names
  <2> QED
    BY <1>1, <1>2, <2>3, Alone, StepValues
<1>6. CASE c.step = "write_pools"
  <2>a. peers = Wanted(c)
    BY <1>1, <1>6 DEF Progress, PeerProgress
  <2>b. /\ \A q \in pools : q.name \in Names(WantedPools(c))
        /\ \A p \in WantedPools(c) :
             p \in pools /\ \A q \in pools : q.name = p.name => q = p
    BY <1>1, <1>6 DEF Progress, PoolProgress
  <2>c. pools = WantedPools(c)
    BY <2>b DEF Names
  <2>1. peers = Wanted(c) /\ pools = WantedPools(c)
    BY <2>a, <2>c
  <2>2. \/ next = "adverts" /\ d.todo = Names(WantedPools(c))
        \/ next = "annotate" /\ backend # "metallb"
    BY <1>2, <1>6 DEF NextStep, Todo, Pools, WantedPools
  <2>3. Progress(writer[w])'
    BY <1>2, <2>1, <2>2
    DEF Progress, PeerProgress, PoolProgress, AdvertProgress, Wanted, WantedPools,
        computePeers, computeAddressPools, Names
  <2> QED
    BY <1>1, <1>2, <2>3, Alone, StepValues
<1>7. CASE c.step \in {"adverts", "annotate"}
  <2>1. /\ peers = Wanted(c) /\ pools = WantedPools(c) /\ next = "done"
    BY <1>1, <1>7 DEF Progress, PeerProgress, PoolProgress, NextStep
  <2>2. backend = "metallb" /\ pools # {} => adverts = Names(pools)
    BY <1>1, <1>7, <2>1 DEF Progress, AdvertProgress, Names
  <2>3. Progress(writer[w])'
    BY <1>2, <2>1, <2>2
    DEF Progress, PeerProgress, PoolProgress, AdvertProgress, Wanted, WantedPools,
        computePeers, computeAddressPools, Names
  <2> QED
    BY <1>1, <1>2, <2>3, Alone, StepValues
<1> QED
  BY <1>1, <1>3, <1>4, <1>5, <1>6, <1>7, StepValues

LEMMA ConfigProgress ==
  ASSUME TypeInv, MutualExclusion, ContentInv, ProgressInv, NEW w \in Writer,
         UpdateLoadBalancerConfig(w) \/ Fail(w)
  PROVE  ProgressInv'
<1>1. writer \in [Writer -> Call]
  BY DEF TypeInv, TypeOK
<1>2. ASSUME Unlock(w), UNCHANGED <<backend, peers, pools, adverts>> PROVE ProgressInv'
  BY <1>1, <1>2, Untouched, IdleType, StepValues DEF Unlock
<1>3. CASE Lock(w)
  BY <1>1, <1>3, Untouched, StepValues DEF Lock, Call, world, crs
<1>4. CASE FindClusterIPs(w)
  <2>1. CASE Labelled(writer[w].nodes)
    <3>1. /\ writer'[w].step = "delete_peers" /\ writer'[w].nodes = writer[w].nodes
          /\ writer'[w].todo = {p \in peers : p.asn \notin ASNs(Wanted(writer[w]))}
          /\ UNCHANGED <<peers, pools, adverts>>
          /\ \A v \in Writer \ {w} : writer'[v] = writer[v]
      BY <1>1, <1>4, <2>1 DEF FindClusterIPs, Call, Todo, Peers, Wanted, crs
    <3>2. Progress(writer[w])'
      BY <3>1
      DEF Progress, PeerProgress, PoolProgress, AdvertProgress, Wanted, computePeers, ASNs
    <3> QED
      BY <1>4, <3>1, <3>2, Alone, StepValues DEF FindClusterIPs
  <2>2. CASE ~Labelled(writer[w].nodes)
    BY <1>2, <1>4, <2>2 DEF FindClusterIPs, world, crs
  <2> QED
    BY <2>1, <2>2
<1>5. CASE AnnotateError(w) \/ Return(w) \/ Fail(w)
  BY <1>2, <1>5 DEF AnnotateError, Return, Fail, world, crs
<1> QED
  BY <1>3, <1>4, <1>5, PeerLoops, PoolLoops, LastLoops, LoopEnds
  DEF UpdateLoadBalancerConfig, WriteCRs

LEMMA NextProgress ==
  TypeInv /\ MutualExclusion /\ ContentInv /\ ProgressInv /\ [Next]_vars => ProgressInv'
<1> SUFFICES ASSUME TypeInv, MutualExclusion, ContentInv, ProgressInv, [Next]_vars
             PROVE  ProgressInv'
  OBVIOUS
<1>1. writer \in [Writer -> Call] /\ Writer = Worker \cup {"ticker", "watch"}
  BY DEF TypeInv, TypeOK, Writer
<1>2. ASSUME NEW w \in Writer, NEW ns, Begin(w, ns), UNCHANGED backend PROVE ProgressInv'
  BY <1>1, <1>2, Untouched, StepValues DEF Begin, Idle, crs
<1>3. CASE Callers
  BY <1>1, <1>2, <1>3 DEF Callers, Tick, NodeUpdated, ServiceSync, world
<1>4. CASE Environment
  BY <1>4, Untouched
  DEF Environment, Join, Leave, LabelNode, SetHost, Hold, Change, crs
<1>5. CASE Crash
  BY <1>5, Untouched, IdleType, StepValues DEF Crash, crs
<1>6. CASE UNCHANGED vars
  BY <1>6, Untouched DEF vars
<1> QED
  BY <1>3, <1>4, <1>5, <1>6, ConfigProgress DEF Next

LEMMA InitProgress == Init => ProgressInv
BY Outside, IdleType, StepValues DEF Init, ProgressInv

(* In every reachable state each loop of WriteCRs has achieved its part.   *)
LEMMA ProgressHolds == Spec => []ProgressInv
<1>1. Init /\ [][Next]_vars /\ []TypeInv /\ []MutualExclusion /\ []ContentInv
        => []ProgressInv
  BY InitProgress, NextProgress, PTL
<1> QED
  BY <1>1, TypeCorrect, MutualExclusionHolds, Content, PTL DEF Spec

LEMMA ProgressWritten == ProgressInv => Written
BY DEF ProgressInv, Progress, PeerProgress, PoolProgress, AdvertProgress, Written,
       Peers, Pools, Wanted, WantedPools

(* When WriteCRs returns without an error (config/metallb_config.go:39,    *)
(* cilium_config.go:62), peers and pools are those of its configuration,   *)
(* and with MetalLB so are the advertisements if there is any pool: the    *)
(* single calls of the loops add up, and no other writer has interfered.   *)
THEOREM WrittenHolds == Spec => []Written
BY ProgressWritten, ProgressHolds, PTL

-----------------------------------------------------------------------------
(* LBConfig as a part of a larger system: the invariants together, and     *)
(* what they say of the calls to somebody who waits for one.  These lemmas *)
(* are implications, so that they can be cited for an instance.            *)

ConfigInv == TypeInv /\ MutualExclusion /\ ContentInv /\ ProgressInv

(* Everything at rest, with any nodes that have no label yet. *)
AtRest ==
  /\ backend \in {"metallb", "cilium"}
  /\ nodes \subseteq NodeInfo /\ \A n \in nodes : n.asn = None
  /\ held \subseteq Address /\ event \in BOOLEAN
  /\ peers = {} /\ pools = {} /\ adverts = {} /\ annotated = {}
  /\ writer = [w \in Writer |-> Idle]
  /\ lock = None
  /\ faults \in 0..MaxFaults /\ changes \in 0..MaxChanges

LEMMA RestConfig == AtRest => ConfigInv
<1> SUFFICES ASSUME AtRest PROVE ConfigInv
  OBVIOUS
<1>1. \A w \in Writer : writer[w] = Idle
  BY DEF AtRest
<1>2. TypeInv
  BY <1>1, IdleType, StepValues DEF AtRest, TypeInv, TypeOK, CallInv, WellFormed
<1>3. MutualExclusion
  BY <1>1, IdleType, StepValues, NoneFree DEF AtRest, MutualExclusion
<1>4. ContentInv
  BY <1>1, IdleSpares DEF AtRest, ContentInv, Distinct, PoolInv, SparesInv
<1>5. ProgressInv
  BY <1>1, Outside, IdleType, StepValues DEF ProgressInv
<1> QED
  BY <1>2, <1>3, <1>4, <1>5 DEF ConfigInv

LEMMA NextConfig == ConfigInv /\ [Next]_vars => ConfigInv'
BY NextType, NextExclusion, NextContent, NextProgress DEF ConfigInv

LEMMA ConfigWritten == ConfigInv => Written
BY ProgressWritten DEF ConfigInv

(* What the larger system does beside the calls: anything to the addresses *)
(* held, or a restart.                                                     *)
Beside ==
  /\ UNCHANGED <<backend, nodes, crs, event>>
  /\ held' \subseteq Address /\ faults' \in 0..MaxFaults /\ changes' \in 0..MaxChanges
  /\ \/ UNCHANGED <<writer, lock>>
     \/ writer' = [w \in Writer |-> Idle] /\ lock' = None

LEMMA BesideConfig == ConfigInv /\ Beside => ConfigInv'
<1> SUFFICES ASSUME ConfigInv, Beside PROVE ConfigInv'
  OBVIOUS
<1>1. \/ UNCHANGED <<writer, lock>>
      \/ lock' = None /\ \A w \in Writer : writer'[w] = Idle
  BY DEF Beside
<1>2. TypeInv'
  BY <1>1, IdleType, StepValues
  DEF Beside, crs, ConfigInv, TypeInv, TypeOK, CallInv, WellFormed, Labelled
<1>3. MutualExclusion'
  BY <1>1, IdleType, StepValues, NoneFree DEF ConfigInv, MutualExclusion
<1>4. ContentInv'
  BY <1>1, IdleSpares
  DEF Beside, crs, ConfigInv, ContentInv, Distinct, PoolInv, SparesInv, Spares, ASNs, Names,
      computePeers, computeAddressPools
<1>5. ProgressInv'
  BY <1>1, Untouched, IdleType, StepValues DEF Beside, crs, ConfigInv
<1> QED
  BY <1>2, <1>3, <1>4, <1>5 DEF ConfigInv

Writing(w) == writer[w].step \in Loop \cup {"done"}

(* A step of a call: of nobody else's; what it has found it has just read, *)
(* or had before.                                                          *)
LEMMA CallStep ==
  TypeInv => \A w \in Writer : UpdateLoadBalancerConfig(w) \/ Fail(w) =>
    /\ writer[w].step # "idle"
    /\ \A v \in Writer \ {w} : writer'[v] = writer[v]
    /\ Writing(w)' => writer'[w].ips = held \/ (Writing(w) /\ writer'[w].ips = writer[w].ips)
    /\ UNCHANGED world
<1> SUFFICES ASSUME TypeInv, NEW w \in Writer, UpdateLoadBalancerConfig(w) \/ Fail(w)
             PROVE  /\ writer[w].step # "idle"
                    /\ \A v \in Writer \ {w} : writer'[v] = writer[v]
                    /\ Writing(w)' => \/ writer'[w].ips = held
                                      \/ Writing(w) /\ writer'[w].ips = writer[w].ips
                    /\ UNCHANGED world
  OBVIOUS
<1>1. writer \in [Writer -> Call] /\ writer[w] \in Call
  BY DEF TypeInv, TypeOK
<1>2. CASE Lock(w)
  BY <1>1, <1>2, StepValues DEF Lock, Writing, Call
<1>3. CASE FindClusterIPs(w)
  BY <1>1, <1>3, IdleType, StepValues DEF FindClusterIPs, Unlock, Writing, Call
<1>4. CASE AnnotateError(w) \/ Return(w) \/ Fail(w)
  BY <1>1, <1>4, IdleType, StepValues DEF AnnotateError, Return, Fail, Unlock, Writing
<1>5. CASE EndLoop(w)
  BY <1>1, <1>5, StepValues DEF EndLoop, Writing, Call
<1>6. ASSUME NEW step \in Loop, NEW item, Round(w, step, item)
      PROVE  /\ writer[w].step = step /\ writer'[w].ips = writer[w].ips
             /\ \A v \in Writer \ {w} : writer'[v] = writer[v]
             /\ UNCHANGED world
  BY <1>1, <1>6 DEF Round, Call
<1>7. CASE DeletePeer(w) \/ WritePeer(w) \/ DeletePool(w) \/ WritePool(w)
  BY <1>6, <1>7, StepValues DEF DeletePeer, WritePeer, DeletePool, WritePool, Writing, Loop
<1>8. CASE WriteAdvert(w) \/ Annotate(w)
  BY <1>6, <1>8, StepValues DEF WriteAdvert, Annotate, Writing, Loop
<1>9. CASE DeleteAdvert(w)
  BY <1>9, StepValues DEF DeleteAdvert, Writing
<1> QED
  BY <1>2, <1>3, <1>4, <1>5, <1>7, <1>8, <1>9 DEF UpdateLoadBalancerConfig, WriteCRs

(* A call that returns without an error announces the addresses it has     *)
(* found, as far as they are of the cluster's networks.                    *)
LEMMA ReturnStep ==
  ConfigInv => \A w \in Writer : writer[w].step = "done" /\ UpdateLoadBalancerConfig(w) =>
    \A a \in writer[w].ips : PoolOf[a] # None => a \in Announced(pools')
<1> SUFFICES ASSUME ConfigInv, NEW w \in Writer, writer[w].step = "done",
                    UpdateLoadBalancerConfig(w), NEW a \in writer[w].ips, PoolOf[a] # None
             PROVE  a \in Announced(pools')
  OBVIOUS
<1>1. pools' = pools
  BY StepValues
  DEF UpdateLoadBalancerConfig, WriteCRs, Lock, FindClusterIPs, EndLoop, DeletePeer, WritePeer,
      DeletePool, WritePool, DeleteAdvert, WriteAdvert, Annotate, AnnotateError, Return,
      Round, crs
<1>2. pools = WantedPools(writer[w])
  BY StepValues DEF ConfigInv, ProgressInv, Progress, PoolProgress
<1>3. [name |-> PoolOf[a], cidrs |-> {b \in writer[w].ips : PoolOf[b] = PoolOf[a]}] \in pools
  BY <1>2 DEF WantedPools, computeAddressPools
<1> QED
  BY <1>1, <1>3 DEF Announced
=============================================================================
