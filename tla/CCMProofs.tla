------------------------------ MODULE CCMProofs ------------------------------
(***************************************************************************)
(* Theorems of CCM, the composition of LoadBalancer and LBConfig.          *)
(*                                                                         *)
(* Neither part runs alone here: a call of UpdateLoadBalancerConfig fails  *)
(* for reasons LoadBalancer does not know (a node without a label is no    *)
(* fault), and addresses are held and given up without a step of LBConfig. *)
(* So each step is first sorted, for either part, into the steps that part *)
(* knows and the few others (CCMSteps), and the invariants of the parts    *)
(* are carried over.  What is new is what ties a sync to its call.         *)
(***************************************************************************)
EXTENDS CCM, OwnershipProofs

(* LBConfig as in CCM, with its theorems. *)
Cfg == INSTANCE WrittenProofs WITH Worker <- Service, held <- Held,
                                   changes <- edits, MaxChanges <- MaxEdits

(* The instance is one the assumptions of LBConfig allow: its theorems may *)
(* be cited with this. *)
LEMMA InstanceAssumptions ==
  /\ PoolOf \in [Address -> Pool \cup {None}] /\ None \notin Pool
  /\ None \notin ASN \cup Host \cup Cfg!Writer
  /\ {"ticker", "watch"} \cap Service = {}
  /\ MaxFaults \in Nat /\ MaxEdits \in Nat
BY PoolAssumption, LabelAssumption, WorkerAssumption, NoneAssumption, BoundAssumption
   DEF Cfg!Writer

-----------------------------------------------------------------------------
(* CCM names its parts Config!..., their theorems speak of Cfg!...: the    *)
(* definitions are the same.                                               *)

LEMMA SameCall ==
  ASSUME NEW w
  PROVE  /\ Config!UpdateLoadBalancerConfig(w) <=> Cfg!UpdateLoadBalancerConfig(w)
         /\ Config!Fail(w) <=> Cfg!Fail(w)
<1>1. Config!Fail(w) <=> Cfg!Fail(w)
  BY Zenon DEF Config!Fail, Config!Unlock, Config!Section, Config!Loop, Config!Idle,
     Config!world, Config!crs, Cfg!Fail, Cfg!Unlock, Cfg!Section, Cfg!Loop, Cfg!Idle,
     Cfg!world, Cfg!crs
<1>2. Config!UpdateLoadBalancerConfig(w) <=> Cfg!UpdateLoadBalancerConfig(w)
  BY Zenon DEF Config!UpdateLoadBalancerConfig, Config!Lock, Config!FindClusterIPs,
     Config!WriteCRs, Config!Return, Config!EndLoop, Config!DeletePeer, Config!WritePeer,
     Config!DeletePool, Config!WritePool, Config!DeleteAdvert, Config!WriteAdvert,
     Config!Annotate, Config!AnnotateError, Config!Unlock, Config!Round, Config!Todo,
     Config!Peers, Config!Pools, Config!NextStep, Config!ASNs, Config!Names,
     Config!computePeers, Config!computeAddressPools, Config!Labelled, Config!Loop,
     Config!Idle, Config!world, Config!crs,
     Cfg!UpdateLoadBalancerConfig, Cfg!Lock, Cfg!FindClusterIPs,
     Cfg!WriteCRs, Cfg!Return, Cfg!EndLoop, Cfg!DeletePeer, Cfg!WritePeer,
     Cfg!DeletePool, Cfg!WritePool, Cfg!DeleteAdvert, Cfg!WriteAdvert,
     Cfg!Annotate, Cfg!AnnotateError, Cfg!Unlock, Cfg!Round, Cfg!Todo,
     Cfg!Peers, Cfg!Pools, Cfg!NextStep, Cfg!ASNs, Cfg!Names,
     Cfg!computePeers, Cfg!computeAddressPools, Cfg!Labelled, Cfg!Loop,
     Cfg!Idle, Cfg!world, Cfg!crs
<1> QED
  BY <1>1, <1>2

LEMMA SameAround ==
  /\ Config!Writer = Cfg!Writer /\ Config!Idle = Cfg!Idle
  /\ \A ps : Config!Announced(ps) = Cfg!Announced(ps)
  /\ \A w, ns : Config!Begin(w, ns) <=> Cfg!Begin(w, ns)
  /\ \A n : Config!LabelNode(n) <=> Cfg!LabelNode(n)
  /\ Config!Tick <=> Cfg!Tick
  /\ Config!Crash <=> Cfg!Crash
BY Zenon DEF Config!Writer, Config!Idle, Config!Announced, Config!Begin, Config!LabelNode,
   Config!Replace, Config!Tick, Config!Crash, Config!world, Config!crs,
   Cfg!Writer, Cfg!Idle, Cfg!Announced, Cfg!Begin, Cfg!LabelNode,
   Cfg!Replace, Cfg!Tick, Cfg!Crash, Cfg!world, Cfg!crs

LEMMA SameProperties ==
  /\ Config!TypeOK <=> Cfg!TypeOK
  /\ Config!MutualExclusion <=> Cfg!MutualExclusion
  /\ Config!Written <=> Cfg!Written
BY Zenon DEF Config!TypeOK, Config!NodeInfo, Config!Peer, Config!AddressPool, Config!Call,
   Config!Section, Config!Loop, Config!Writer, Config!MutualExclusion, Config!Written,
   Config!Peers, Config!Pools, Config!Names, Config!computePeers, Config!computeAddressPools,
   Cfg!TypeOK, Cfg!NodeInfo, Cfg!Peer, Cfg!AddressPool, Cfg!Call,
   Cfg!Section, Cfg!Loop, Cfg!Writer, Cfg!MutualExclusion, Cfg!Written,
   Cfg!Peers, Cfg!Pools, Cfg!Names, Cfg!computePeers, Cfg!computeAddressPools

-----------------------------------------------------------------------------
(* The steps of the composition, as each part sees them.                   *)

(* A call is made by a sync that waits for it. *)
Link == \A s \in Service : writer[s].step # "idle" => job[s].step = "config"

(* The call ends with an error that is no fault. *)
Refused(s) == /\ job[s].step = "config"
              /\ GoOn(s, "clear_tags")
              /\ UNCHANGED <<ip, api, view, faults, edits>>

(* A step of the configuration only. *)
Elsewhere == UNCHANGED lbVars /\ faults' \in 0..MaxFaults

LBStep == \/ [Next]_vars
          \/ \E s \in Service : Refused(s)
          \/ Elsewhere

LEMMA WriterParts ==
  ASSUME Cfg!ConfigInv
  PROVE  /\ Cfg!TypeInv /\ Cfg!MutualExclusion /\ Cfg!ContentInv
         /\ writer \in [Cfg!Writer -> Cfg!Call]
         /\ Cfg!Writer = Service \cup {"ticker", "watch"}
BY DEF Cfg!ConfigInv, Cfg!TypeInv, Cfg!TypeOK, Cfg!Writer

LEMMA FaultsMove ==
  ASSUME TypeOK
  PROVE  /\ UNCHANGED faults => faults' \in 0..MaxFaults
         /\ faults < MaxFaults /\ faults' = faults + 1 => faults' \in 0..MaxFaults
BY BoundAssumption DEF TypeOK

LEMMA CallFaults ==
  ASSUME NEW w
  PROVE  /\ Cfg!UpdateLoadBalancerConfig(w) => UNCHANGED faults
         /\ Cfg!Fail(w) => /\ writer[w].step # "done"
                           /\ faults < MaxFaults /\ faults' = faults + 1
BY DEF Cfg!UpdateLoadBalancerConfig, Cfg!Lock, Cfg!FindClusterIPs,
   Cfg!WriteCRs, Cfg!Return, Cfg!EndLoop, Cfg!DeletePeer, Cfg!WritePeer,
   Cfg!DeletePool, Cfg!WritePool, Cfg!DeleteAdvert, Cfg!WriteAdvert,
   Cfg!Annotate, Cfg!AnnotateError, Cfg!Round, Cfg!Fail

LEMMA StepForAddresses ==
  ASSUME TypeOK, Cfg!ConfigInv, Link, CCMNext PROVE LBStep
<1>1. CASE Others
  BY <1>1 DEF Others, Next, LBStep
<1>2. CASE Tick \/ LabelNode \/ \E s \in Service : CallConfig(s)
  <2>1. UNCHANGED lbVars /\ UNCHANGED faults
    BY <1>2, SameAround DEF Tick, LabelNode, CallConfig, Cfg!Tick, Cfg!Begin, Cfg!LabelNode
  <2> QED
    BY <2>1, FaultsMove DEF Elsewhere, LBStep
<1>3. CASE TickerStep \/ TickerFails
  BY <1>3, SameCall, CallFaults, FaultsMove DEF TickerStep, TickerFails, Elsewhere, LBStep
<1>4. CASE Restart
  <2>1. CASE \E c \in Cluster : Crash(c)
    BY <2>1 DEF Next, LBStep
  <2>2. CASE UNCHANGED lbVars /\ Config!Crash
    BY <2>2, SameAround, FaultsMove DEF Cfg!Crash, Elsewhere, LBStep
  <2> QED
    BY <1>4, <2>1, <2>2 DEF Restart
<1>5. ASSUME NEW s \in Service, SyncStep(s) PROVE LBStep
  BY <1>5 DEF SyncStep, Next, LBStep
<1>6. ASSUME NEW s \in Service, ConfigStep(s) \/ ConfigFails(s) PROVE LBStep
  <2>1. /\ UNCHANGED <<ip, api, view, edits>> /\ AfterConfig(s)
        /\ \/ Cfg!UpdateLoadBalancerConfig(s)
           \/ Cfg!Fail(s) /\ "config" \in MayFail
    BY <1>6, SameCall DEF ConfigStep, ConfigFails
  <2>2. writer[s].step # "idle" /\ job[s].step = "config"
    <3>1. s \in Cfg!Writer /\ Cfg!TypeInv
      BY WriterParts
    <3>2. writer[s].step # "idle"
      BY <2>1, <3>1, InstanceAssumptions, Cfg!CallStep
    <3> QED
      BY <3>2 DEF Link
  <2>3. CASE UNCHANGED <<job, updLock, allocLock>>
    BY <2>1, <2>3, CallFaults, FaultsMove DEF lbVars, Elsewhere, LBStep
  <2>4. CASE writer[s].step = "done" /\ ReturnNil(s, "patch")
    <3>1. UpdateLoadBalancerConfig(s)
      BY <2>1, <2>2, <2>4, CallFaults DEF UpdateLoadBalancerConfig
    <3> QED
      BY <3>1 DEF LBStep, Next, Sync, Ensure
  <2>5. CASE GoOn(s, "clear_tags")
    <3>1. CASE Cfg!UpdateLoadBalancerConfig(s)
      BY <2>1, <2>2, <2>5, <3>1, CallFaults DEF Refused, LBStep
    <3>2. CASE Cfg!Fail(s) /\ "config" \in MayFail
      <4>1. UpdateLoadBalancerConfig(s)
        BY <2>1, <2>2, <2>5, <3>2, CallFaults DEF UpdateLoadBalancerConfig, Fault
      <4> QED
        BY <4>1 DEF LBStep, Next, Sync, Ensure
    <3> QED
      BY <2>1, <3>1, <3>2
  <2> QED
    BY <2>1, <2>3, <2>4, <2>5 DEF AfterConfig
<1> QED
  BY <1>1, <1>2, <1>3, <1>4, <1>5, <1>6 DEF CCMNext

LEMMA StepForConfig ==
  ASSUME TypeOK', CCMNext PROVE Cfg!Next \/ Cfg!Beside
<1>1. Held' \subseteq Address /\ faults' \in 0..MaxFaults /\ edits' \in 0..MaxEdits
  BY DEF Held, TypeOK
<1>2. CASE UNCHANGED configVars
  BY <1>1, <1>2 DEF configVars, Cfg!Beside, Cfg!crs
<1>3. ASSUME UNCHANGED lbVars PROVE UNCHANGED <<Held, edits>>
  BY <1>3 DEF lbVars, Held
<1>4. CASE Tick \/ LabelNode
  BY <1>4, SameAround DEF Tick, LabelNode, Cfg!Next, Cfg!Callers, Cfg!Environment
<1>5. ASSUME NEW s \in Service, CallConfig(s) PROVE Cfg!Next
  <2>1. Cfg!ServiceSync(s)
    BY <1>3, <1>5, SameAround DEF CallConfig, Cfg!ServiceSync, Cfg!world
  <2> QED
    BY <2>1 DEF Cfg!Next, Cfg!Callers
<1>6. ASSUME NEW s \in Service, ConfigStep(s) \/ ConfigFails(s) PROVE Cfg!Next
  BY <1>6, SameCall DEF ConfigStep, ConfigFails, Cfg!Next, Cfg!Writer
<1>7. CASE TickerStep \/ TickerFails
  BY <1>7, SameCall DEF TickerStep, TickerFails, Cfg!Next, Cfg!Writer
<1>8. CASE Restart
  <2>1. CASE /\ writer' = [w \in Config!Writer |-> Config!Idle] /\ lock' = None
             /\ UNCHANGED <<backend, nodes, peers, pools, adverts, annotated, event>>
    BY <1>1, <2>1, SameAround DEF Cfg!Beside, Cfg!crs
  <2>2. CASE Config!Crash
    BY <2>2, SameAround DEF Cfg!Next
  <2> QED
    BY <1>8, <2>1, <2>2 DEF Restart
<1> QED
  BY <1>2, <1>4, <1>5, <1>6, <1>7, <1>8 DEF CCMNext, Others, SyncStep

-----------------------------------------------------------------------------
(* Types, mutexes and calls, for any number of workers.                    *)

CCMInv == LockInv /\ Cfg!ConfigInv /\ Link

LEMMA InitCCM == CCMInit => CCMInv
<1> SUFFICES ASSUME CCMInit PROVE CCMInv
  OBVIOUS
<1>1. TypeInv /\ \A s \in Service : job[s].step = "idle"
  BY InitType DEF CCMInit, Init, Idle
<1>2. LockDiscipline
  <2>1. \A s \in Service : /\ updLock[ClusterOf[s]] = None
                           /\ allocLock[ClusterOf[s]] = None /\ s # None
    BY ClusterAssumption, NoneAssumption DEF CCMInit, Init
  <2> QED
    BY <1>1, <2>1, Disjoint DEF LockDiscipline
<1>3. PICK host \in [Node -> Host] :
        nodes = {[Config!New(n) EXCEPT !.host = host[n]] : n \in Node}
  BY DEF CCMInit
<1>4. nodes = {[name |-> n, asn |-> None, host |-> host[n]] : n \in Node}
  <2>1. \A n \in Node : [Config!New(n) EXCEPT !.host = host[n]]
                        = [name |-> n, asn |-> None, host |-> host[n]]
    BY DEF Config!New
  <2> QED
    BY <1>3, <2>1
<1>5. nodes \subseteq Cfg!NodeInfo /\ \A n \in nodes : n.asn = None
  BY <1>4 DEF Cfg!NodeInfo
<1>6. Cfg!AtRest
  BY <1>1, <1>5, SameAround DEF CCMInit, Cfg!AtRest, TypeInv, TypeOK, Held
<1>7. Cfg!ConfigInv
  BY <1>6, InstanceAssumptions, Cfg!RestConfig
<1>8. Link
  BY SameAround DEF CCMInit, Link, Cfg!Idle, Cfg!Writer
<1> QED
  BY <1>1, <1>2, <1>7, <1>8 DEF CCMInv, LockInv

LEMMA RefusedKeeps ==
  ASSUME LockInv, NEW s \in Service, Refused(s) PROVE LockInv'
<1>1. job[s].step = "config" /\ GoOn(s, "clear_tags")
  BY DEF Refused
<1>2. LockDiscipline'
  BY <1>1, Disjoint, GoOnLocks DEF UpdateSection, AllocateSection
<1>3. JobInv'
  <2>1. JobInv /\ job[s].addr \in Address /\ "clear_tags" \in Step
    BY <1>1, TypeInvJob DEF LockInv, JobInv, AddressKnown, AddressStep, Step, AllocateSection
  <2> QED
    BY <1>1, <2>1, GoOnType
<1> QED
  BY <1>2, <1>3 DEF Refused, LockInv, TypeInv, TypeOK, JobInv

LEMMA LBStepLocks == LockInv /\ LBStep => LockInv'
<1> SUFFICES ASSUME LockInv, LBStep PROVE LockInv'
  OBVIOUS
<1>1. CASE Elsewhere
  BY <1>1 DEF Elsewhere, lbVars, LockInv, LockDiscipline, TypeInv, TypeOK, AddressKnown
<1> QED
  BY <1>1, NextLocks, RefusedKeeps DEF LBStep

LEMMA CCMConfig == Cfg!ConfigInv /\ TypeOK' /\ CCMNext => Cfg!ConfigInv'
<1>1. Cfg!ConfigInv /\ Cfg!Next => Cfg!ConfigInv'
  BY InstanceAssumptions, Cfg!NextConfig
<1>2. Cfg!ConfigInv /\ Cfg!Beside => Cfg!ConfigInv'
  BY InstanceAssumptions, Cfg!BesideConfig
<1> QED
  BY <1>1, <1>2, StepForConfig

(* A step of a call, with its name here. *)
LEMMA CallActs ==
  ASSUME Cfg!ConfigInv, NEW w \in Cfg!Writer,
         Config!UpdateLoadBalancerConfig(w) \/ Config!Fail(w)
  PROVE  /\ writer[w].step # "idle"
         /\ \A v \in Cfg!Writer \ {w} : writer'[v] = writer[v]
         /\ Cfg!Writing(w)' => \/ writer'[w].ips = Held
                               \/ Cfg!Writing(w) /\ writer'[w].ips = writer[w].ips
<1>1. Cfg!TypeInv /\ (Cfg!UpdateLoadBalancerConfig(w) \/ Cfg!Fail(w))
  BY WriterParts, SameCall
<1> QED
  BY <1>1, InstanceAssumptions, Cfg!CallStep

LEMMA LinkNext == CCMInv /\ CCMNext => Link'
<1> SUFFICES ASSUME CCMInv, CCMNext, NEW t \in Service, writer'[t].step # "idle"
             PROVE  job'[t].step = "config"
  BY DEF Link
<1>1. /\ JobInv /\ job \in [Service -> Job] /\ Cfg!ConfigInv
      /\ writer \in [Cfg!Writer -> Cfg!Call] /\ t \in Cfg!Writer
      /\ {"ticker", "watch"} \subseteq Cfg!Writer /\ t \notin {"ticker", "watch"}
      /\ writer[t].step # "idle" => job[t].step = "config"
  BY WriterParts, TypeInvJob, WorkerAssumption DEF CCMInv, LockInv, TypeInv, TypeOK, Link
<1>2. CASE Others
  <2>1. UNCHANGED writer
    BY <1>2 DEF Others, configVars
  <2>2. ASSUME NEW s \in Service, StartSync(s) PROVE job'[t].step = "config"
    BY <1>1, <2>1, <2>2 DEF StartSync
  <2>3. ASSUME NEW s \in Service, Observe(s) \/ User(s) PROVE job'[t].step = "config"
    BY <1>1, <2>1, <2>3
    DEF Observe, User, CreateService, PinAddress, DeleteService, Edit, Job
  <2>4. ASSUME NEW a \in Address, AllocateElsewhere(a) PROVE job'[t].step = "config"
    BY <1>1, <2>1, <2>4 DEF AllocateElsewhere
  <2> QED
    BY <1>2, <2>2, <2>3, <2>4 DEF Others
<1>3. CASE Tick
  <2>1. writer'[t] = writer[t] /\ UNCHANGED job
    BY <1>1, <1>3, SameAround DEF Tick, Cfg!Tick, Cfg!Begin, lbVars
  <2> QED
    BY <1>1, <2>1
<1>4. CASE TickerStep \/ TickerFails
  <2>1. writer'[t] = writer[t] /\ UNCHANGED job
    BY <1>1, <1>4, CallActs DEF TickerStep, TickerFails, lbVars
  <2> QED
    BY <1>1, <2>1
<1>5. CASE LabelNode
  BY <1>1, <1>5, SameAround DEF LabelNode, Cfg!LabelNode, lbVars
<1>6. CASE Restart
  <2>1. writer' = [w \in Cfg!Writer |-> Cfg!Idle]
    BY <1>6, SameAround DEF Restart, Cfg!Crash
  <2> QED
    BY <1>1, <2>1 DEF Cfg!Idle
<1>7. ASSUME NEW s \in Service, SyncStep(s) PROVE job'[t].step = "config"
  <2>1. UNCHANGED writer /\ job[s].step # "config" /\ GoesFlow(s)
    BY <1>1, <1>7, SyncFlow DEF SyncStep, configVars
  <2> QED
    BY <1>1, <2>1 DEF GoesFlow
<1>8. ASSUME NEW s \in Service, CallConfig(s) PROVE job'[t].step = "config"
  <2>1. UNCHANGED job /\ job[s].step = "config" /\ (t # s => writer'[t] = writer[t])
    BY <1>1, <1>8, SameAround DEF CallConfig, Cfg!Begin, lbVars
  <2> QED
    BY <1>1, <2>1
<1>9. ASSUME NEW s \in Service, ConfigStep(s) \/ ConfigFails(s) PROVE job'[t].step = "config"
  <2>1. /\ s \in Cfg!Writer /\ AfterConfig(s)
        /\ Config!UpdateLoadBalancerConfig(s) \/ Config!Fail(s)
    BY <1>9, WriterParts, <1>1 DEF ConfigStep, ConfigFails
  <2>2. writer[s].step # "idle" /\ (t # s => writer'[t] = writer[t])
    BY <1>1, <2>1, CallActs
  <2>3. CASE UNCHANGED job
    BY <1>1, <2>2, <2>3 DEF CCMInv, Link
  <2>4. CASE writer'[s].step = "idle" /\ \A u \in Service \ {s} : job'[u] = job[u]
    BY <1>1, <2>2, <2>4
  <2> QED
    BY <1>1, <2>1, <2>3, <2>4 DEF AfterConfig, ReturnNil, GoOn
<1> QED
  BY <1>2, <1>3, <1>4, <1>5, <1>6, <1>7, <1>8, <1>9 DEF CCMInv, CCMNext

LEMMA StepCCM == CCMInv /\ CCMNext => LBStep /\ CCMInv'
<1> SUFFICES ASSUME CCMInv, CCMNext PROVE LBStep /\ CCMInv'
  OBVIOUS
<1>1. LBStep
  BY StepForAddresses DEF CCMInv, LockInv, TypeInv
<1>2. LockInv' /\ TypeOK'
  BY <1>1, LBStepLocks DEF CCMInv, LockInv, TypeInv
<1>3. Cfg!ConfigInv'
  BY <1>2, CCMConfig DEF CCMInv
<1> QED
  BY <1>1, <1>2, <1>3, LinkNext DEF CCMInv

LEMMA StutterCCM == CCMInv /\ UNCHANGED ccmVars => CCMInv'
<1> SUFFICES ASSUME CCMInv, UNCHANGED ccmVars PROVE CCMInv'
  OBVIOUS
<1>1. /\ UNCHANGED <<ip, api, view, job, updLock, allocLock, faults, edits>>
      /\ UNCHANGED configVars
  BY DEF ccmVars, vars
<1>2. LockInv' /\ Link'
  BY <1>1, LBStepLocks DEF CCMInv, LBStep, vars, Link, configVars
<1>3. Cfg!Beside
  BY <1>1, <1>2
  DEF Cfg!Beside, configVars, Cfg!crs, LockInv, TypeInv, TypeOK, Held
<1>4. Cfg!ConfigInv'
  BY <1>3, InstanceAssumptions, Cfg!BesideConfig DEF CCMInv
<1> QED
  BY <1>2, <1>4 DEF CCMInv

-----------------------------------------------------------------------------
(* The address a sync has acquired, from the call of                       *)
(* UpdateLoadBalancerConfig to the status.                                 *)

(* A sync that works on a fixed address was given it. *)
FixedPath(s) ==
  job[s].step \in UpdateSection \cup {"lock_update"} /\ job[s].addr # None =>
    job[s].obj.spec # None

(* About to publish an address it has acquired. *)
Publishing(s) == job[s].step = "patch" /\ job[s].obj.spec = None

(* The address is the service's from the call on.                          *)
OwnHeld == \A s \in Service : job[s].step = "config" \/ Publishing(s) =>
                                job[s].addr \in Held

(* Whatever call writes the configuration while the address is being       *)
(* published has found it: the sync's own, and all that come later.        *)
Covered(s) ==
  /\ job[s].step = "config" /\ Cfg!Writing(s) => job[s].addr \in writer[s].ips
  /\ Publishing(s) =>
       \A w \in Cfg!Writer : Cfg!Writing(w) => job[s].addr \in writer[w].ips

IsAnnounced(s) == Publishing(s) /\ PoolOf[job[s].addr] # None =>
                    job[s].addr \in Cfg!Announced(pools)

AnnouncedInv == /\ CCMInv
                /\ \A s \in Service : FixedPath(s) /\ Covered(s) /\ IsAnnounced(s)

LEMMA PathParts ==
  ASSUME CCMInv
  PROVE  /\ LockInv /\ TypeInv /\ TypeOK /\ JobInv
         /\ job \in [Service -> Job] /\ ip \in [Address -> IP]
         /\ \A s \in Service : job[s].step \in AddressStep => job[s].addr \in Address
         /\ Cfg!ConfigInv /\ Link
BY TypeInvJob DEF CCMInv, LockInv, TypeInv, TypeOK, AddressKnown

LEMMA FixedNext ==
  ASSUME CCMInv, LBStep, NEW t \in Service, FixedPath(t) PROVE FixedPath(t)'
<1> USE PathParts
<1>1. ASSUME job'[t].step = job[t].step, job'[t].obj = job[t].obj, job'[t].addr = job[t].addr
      PROVE  FixedPath(t)'
  BY <1>1 DEF FixedPath
<1>2. CASE job'[t].step \in {"idle", "clear_tags"}
  BY <1>2 DEF FixedPath, UpdateSection
<1>3. ASSUME NEW s \in Service, Sync(s) PROVE FixedPath(t)'
  <2>1. GoesFlow(s)
    BY <1>3, SyncFlow
  <2>2. CASE t = s /\ <<job[s].step, job'[s].step>> \in Flow
    BY <2>1, <2>2, <1>2 DEF GoesFlow, Idle, Flow, FixedPath, UpdateSection
  <2> QED
    BY <1>1, <1>2, <2>1, <2>2 DEF GoesFlow, Idle
<1>4. ASSUME NEW s \in Service, StartSync(s) PROVE FixedPath(t)'
  <2>1. /\ \A u \in Service \ {s} : job'[u] = job[u]
        /\ job'[s].obj = view[s]
        /\ job'[s].addr = IF view[s].life = "live" THEN view[s].spec ELSE None
    BY <1>4 DEF StartSync, Idle
  <2> QED
    BY <1>1, <2>1 DEF FixedPath
<1>5. ASSUME NEW s \in Service, Observe(s) \/ User(s) PROVE FixedPath(t)'
  BY <1>1, <1>5 DEF Observe, User, CreateService, PinAddress, DeleteService, Edit, Job
<1>6. ASSUME NEW c \in Cluster, Crash(c) PROVE FixedPath(t)'
  BY <1>1, <1>2, <1>6 DEF Crash, Idle
<1>7. ASSUME NEW a \in Address, AllocateElsewhere(a) PROVE FixedPath(t)'
  BY <1>1, <1>7 DEF AllocateElsewhere
<1>8. ASSUME NEW s \in Service, Refused(s) PROVE FixedPath(t)'
  <2>1. /\ \A u \in Service \ {s} : job'[u] = job[u]
        /\ job'[s].step = "clear_tags"
    BY <1>8 DEF Refused, GoOn, Job
  <2> QED
    BY <1>1, <1>2, <2>1
<1>9. CASE Elsewhere \/ UNCHANGED vars
  BY <1>1, <1>9 DEF Elsewhere, lbVars, vars
<1> QED
  BY <1>3, <1>4, <1>5, <1>6, <1>7, <1>8, <1>9 DEF LBStep, Next

(* Steps that are not of a call. *)
LEMMA OthersAnnounced ==
  ASSUME AnnouncedInv, Others \/ \E s \in Service : SyncStep(s), NEW t \in Service
  PROVE  Covered(t)' /\ IsAnnounced(t)'
<1>1. /\ JobInv /\ Covered(t) /\ IsAnnounced(t) /\ UNCHANGED <<writer, pools>>
      /\ job \in [Service -> Job] /\ t \in Cfg!Writer
      /\ job[t].step # "config" => writer[t].step = "idle"
  BY WriterParts, TypeInvJob
  DEF AnnouncedInv, CCMInv, LockInv, TypeInv, TypeOK, Link, Others, SyncStep, configVars
<1>2. /\ job'[t].step = "config" =>
           job[t].step # "config" \/ job'[t].addr = job[t].addr
      /\ Publishing(t)' => Publishing(t) /\ job'[t].addr = job[t].addr
  <2>1. ASSUME NEW s \in Service, SyncStep(s)
        PROVE  /\ job'[t].step = "config" =>
                    job[t].step # "config" \/ job'[t].addr = job[t].addr
               /\ Publishing(t)' => Publishing(t) /\ job'[t].addr = job[t].addr
    <3>1. GoesFlow(s) /\ job[s].step # "config"
      BY <1>1, <2>1, SyncFlow DEF SyncStep
    <3>2. CASE t # s
      BY <3>1, <3>2 DEF GoesFlow, Publishing
    <3>3. CASE t = s /\ job'[s] = Idle
      BY <3>3 DEF Idle, Publishing
    <3>4. CASE /\ t = s
               /\ <<job[s].step, job'[s].step>> \in Flow
               /\ job'[s].obj = job[s].obj
               /\ job'[s].addr = job[s].addr \/ job[s].step = "acquire"
      <4>1. job'[t].step = "patch" => job[t].step = "use"
        BY <3>1, <3>4 DEF Flow
      <4>2. job[t].step = "use" => job[t].obj.spec # None
        BY PathParts, NoneAssumption
        DEF AnnouncedInv, FixedPath, UpdateSection, AddressStep
      <4> QED
        BY <3>1, <3>4, <4>1, <4>2 DEF Publishing, Flow
    <3> QED
      BY <3>1, <3>2, <3>3, <3>4 DEF GoesFlow
  <2>2. ASSUME NEW s \in Service, StartSync(s)
        PROVE  /\ job'[t].step # "config" \/ job'[t] = job[t]
               /\ Publishing(t)' => Publishing(t) /\ job'[t].addr = job[t].addr
    <3>1. \A u \in Service \ {s} : job'[u] = job[u]
      BY <1>1, <2>2 DEF StartSync
    <3>2. job'[s].step = Entry(view[s])
      BY <1>1, <2>2 DEF StartSync, Idle
    <3> QED
      BY <3>1, <3>2 DEF Entry, Publishing
  <2>3. ASSUME NEW s \in Service, Observe(s) \/ User(s)
        PROVE  /\ job'[t].step = job[t].step /\ job'[t].obj = job[t].obj
               /\ job'[t].addr = job[t].addr
    BY <1>1, <2>3 DEF Observe, User, CreateService, PinAddress, DeleteService, Edit, Job
  <2>4. ASSUME NEW a \in Address, AllocateElsewhere(a) PROVE UNCHANGED job
    BY <2>4 DEF AllocateElsewhere
  <2> QED
    BY <2>1, <2>2, <2>3, <2>4 DEF Others, Publishing
<1> QED
  BY <1>1, <1>2 DEF Covered, IsAnnounced, Cfg!Writing, Cfg!Loop

(* A step of a call, or of who enters the queue for the mutex, as the      *)
(* other syncs see it.                                                     *)
LEMMA CallAnnounced ==
  ASSUME AnnouncedInv, OwnHeld, Cfg!Next, NEW w \in Cfg!Writer,
         \A v \in Cfg!Writer \ {w} : writer'[v] = writer[v],
         Cfg!Writing(w)' => \/ writer'[w].ips = Held
                            \/ Cfg!Writing(w) /\ writer'[w].ips = writer[w].ips,
         NEW t \in Service, job'[t] = job[t]
  PROVE  Covered(t)' /\ IsAnnounced(t)'
<1>1. /\ Covered(t) /\ IsAnnounced(t) /\ t \in Cfg!Writer
      /\ Cfg!TypeInv /\ Cfg!MutualExclusion /\ Cfg!ContentInv
      /\ job[t].step = "config" \/ Publishing(t) => job[t].addr \in Held
  BY WriterParts DEF AnnouncedInv, CCMInv, OwnHeld
<1>2. Covered(t)'
  BY <1>1 DEF Covered, Publishing, Cfg!Writing, Cfg!Loop
<1>3. ASSUME Publishing(t), PoolOf[job[t].addr] # None
      PROVE  job[t].addr \in Cfg!Announced(pools')
  <2>1. job[t].addr \in Cfg!Announced(pools)
    BY <1>1, <1>3 DEF IsAnnounced
  <2>2. SUFFICES ASSUME job[t].addr \notin Cfg!Announced(pools') PROVE FALSE
    OBVIOUS
  <2>3. PICK v \in Cfg!Writer : /\ writer[v].step \in Cfg!Loop
                               /\ job[t].addr \notin writer[v].ips
    BY <1>1, <2>1, <2>2, InstanceAssumptions, Cfg!NextWithdrawn
  <2> QED
    BY <1>1, <1>3, <2>3 DEF Covered, Cfg!Writing
<1> QED
  BY <1>1, <1>2, <1>3 DEF IsAnnounced, Publishing, Cfg!Announced

(* The call ends: whoever waits for the mutex has yet to find the address. *)
LEMMA EndAnnounced ==
  ASSUME AnnouncedInv, OwnHeld, NEW s \in Service, ConfigStep(s) \/ ConfigFails(s),
         writer'[s].step = "idle", NEW t \in Service
  PROVE  Covered(t)' /\ IsAnnounced(t)'
<1>1. /\ job \in [Service -> Job] /\ s \in Cfg!Writer
      /\ Cfg!MutualExclusion /\ Cfg!ConfigInv /\ Covered(s)
  BY WriterParts, PathParts DEF AnnouncedInv
<1>2. /\ AfterConfig(s)
      /\ Config!UpdateLoadBalancerConfig(s) \/ Config!Fail(s)
      /\ Cfg!UpdateLoadBalancerConfig(s) \/ Cfg!Fail(s)
  BY SameCall DEF ConfigStep, ConfigFails
<1>3. /\ \A v \in Cfg!Writer \ {s} : writer'[v] = writer[v]
      /\ writer[s].step # "idle"
      /\ Cfg!Writing(s)' => \/ writer'[s].ips = Held
                            \/ Cfg!Writing(s) /\ writer'[s].ips = writer[s].ips
  BY <1>1, <1>2, CallActs
<1>4. job[s].step = "config"
  BY <1>3 DEF AnnouncedInv, CCMInv, Link
<1>5. ASSUME t # s, job'[t] = job[t] PROVE Covered(t)' /\ IsAnnounced(t)'
  <2>1. Cfg!Next
    BY <1>1, <1>2, SameCall DEF ConfigStep, ConfigFails, Cfg!Next
  <2> QED
    BY <1>1, <1>3, <1>5, <2>1, CallAnnounced
<1>6. CASE GoOn(s, "clear_tags")
  <2>1. job'[s].step = "clear_tags" /\ \A u \in Service \ {s} : job'[u] = job[u]
    BY <1>1, <1>6 DEF GoOn, Job
  <2> QED
    BY <1>5, <2>1 DEF Covered, IsAnnounced, Publishing
<1>7. CASE writer[s].step = "done" /\ ReturnNil(s, "patch")
  <2>1. /\ job'[s].step = "patch" /\ job'[s].addr = job[s].addr
        /\ \A u \in Service \ {s} : job'[u] = job[u]
    BY <1>1, <1>7 DEF ReturnNil, Idle
  <2>2. CASE t = s
    <3>1. lock = s
      BY <1>1, <1>7 DEF Cfg!MutualExclusion, Cfg!Section
    <3>2. \A w \in Cfg!Writer : ~Cfg!Writing(w)'
      <4>1. \A w \in Cfg!Writer \ {s} : writer[w].step \notin Cfg!Section
        BY <1>1, <3>1 DEF Cfg!MutualExclusion
      <4> QED
        BY <1>3, <4>1 DEF Cfg!Writing, Cfg!Section, Cfg!Loop
    <3>3. job[s].addr \in writer[s].ips
      BY <1>1, <1>4, <1>7 DEF Covered, Cfg!Writing
    <3>4. Cfg!UpdateLoadBalancerConfig(s)
      BY <1>2, <1>7, CallFaults
    <3>5. PoolOf[job[s].addr] # None => job[s].addr \in Cfg!Announced(pools')
      BY <1>1, <1>7, <3>3, <3>4, InstanceAssumptions, Cfg!ReturnStep
    <3> QED
      BY <2>1, <2>2, <3>2, <3>5 DEF Covered, IsAnnounced, Cfg!Announced
  <2> QED
    BY <1>5, <2>1, <2>2
<1> QED
  BY <1>2, <1>6, <1>7 DEF AfterConfig

LEMMA AllAnnounced ==
  ASSUME AnnouncedInv, OwnHeld, CCMNext, NEW t \in Service PROVE Covered(t)' /\ IsAnnounced(t)'
<1>1. /\ Cfg!ConfigInv /\ Cfg!TypeInv /\ "ticker" \in Cfg!Writer /\ Service \subseteq Cfg!Writer
      /\ writer \in [Cfg!Writer -> Cfg!Call]
  BY WriterParts DEF AnnouncedInv, CCMInv
<1>2. UNCHANGED lbVars => job'[t] = job[t] /\ UNCHANGED <<Held, edits>>
  BY DEF lbVars, Held
<1>3. ASSUME NEW w \in Cfg!Writer, NEW ns, Cfg!Begin(w, ns)
      PROVE  /\ \A v \in Cfg!Writer \ {w} : writer'[v] = writer[v]
             /\ ~Cfg!Writing(w)'
  BY <1>1, <1>3 DEF Cfg!Begin, Cfg!Idle, Cfg!Writing, Cfg!Loop
<1>4. CASE Others \/ \E s \in Service : SyncStep(s)
  BY <1>4, OthersAnnounced
<1>5. CASE Tick
  <2>1. Cfg!Next /\ UNCHANGED lbVars /\ Cfg!Begin("ticker", nodes)
    BY <1>5, SameAround DEF Tick, Cfg!Tick, Cfg!Next, Cfg!Callers
  <2> QED
    BY <1>1, <1>2, <1>3, <2>1, CallAnnounced
<1>6. CASE TickerStep \/ TickerFails
  <2>1. Cfg!Next /\ UNCHANGED lbVars
    BY <1>1, <1>6, SameCall DEF TickerStep, TickerFails, Cfg!Next
  <2>2. Config!UpdateLoadBalancerConfig("ticker") \/ Config!Fail("ticker")
    BY <1>6 DEF TickerStep, TickerFails
  <2> QED
    BY <1>1, <1>2, <2>1, <2>2, CallActs, CallAnnounced
<1>7. CASE LabelNode
  <2>1. Cfg!Next /\ UNCHANGED lbVars /\ UNCHANGED writer
    BY <1>7, SameAround DEF LabelNode, Cfg!LabelNode, Cfg!Next, Cfg!Environment
  <2>2. Cfg!Writing("ticker")' => Cfg!Writing("ticker") /\ writer'["ticker"].ips = writer["ticker"].ips
    BY <2>1 DEF Cfg!Writing
  <2> QED
    BY <1>1, <1>2, <2>1, <2>2, CallAnnounced
<1>8. CASE Restart
  <2>1. job'[t].step = "idle"
    <3>1. CASE \E c \in Cluster : Crash(c)
      <4>1. PICK c \in Cluster : Crash(c)
        BY <3>1
      <4>2. PICK u \in Service : ClusterOf[u] = c
        BY <4>1 DEF Crash, Syncing
      <4>3. ClusterOf[t] = c
        BY <4>2, OneClusterAssumption
      <4> QED
        BY <4>1, <4>3 DEF Crash, Idle
    <3> QED
      BY <1>8, <3>1 DEF Restart, lbVars
  <2> QED
    BY <2>1 DEF Covered, IsAnnounced, Publishing
<1>9. ASSUME NEW s \in Service, CallConfig(s) PROVE Covered(t)' /\ IsAnnounced(t)'
  <2>1. PICK ns \in SUBSET nodes : Cfg!Begin(s, ns)
    BY <1>9, SameAround DEF CallConfig
  <2>2. Cfg!ServiceSync(s) /\ UNCHANGED lbVars
    BY <1>2, <1>9, <2>1 DEF CallConfig, Cfg!ServiceSync, Cfg!world
  <2>3. Cfg!Next
    BY <2>2 DEF Cfg!Next, Cfg!Callers
  <2> QED
    BY <1>1, <1>2, <1>3, <2>1, <2>2, <2>3, CallAnnounced
<1>10. ASSUME NEW s \in Service, ConfigStep(s) \/ ConfigFails(s)
       PROVE  Covered(t)' /\ IsAnnounced(t)'
  <2>1. CASE writer'[s].step = "idle"
    BY <1>10, <2>1, EndAnnounced
  <2>2. CASE writer'[s].step # "idle"
    <3>1. Config!UpdateLoadBalancerConfig(s) \/ Config!Fail(s)
      BY <1>10 DEF ConfigStep, ConfigFails
    <3>2. Cfg!Next /\ UNCHANGED lbVars
      BY <1>1, <1>10, <2>2, SameCall
      DEF ConfigStep, ConfigFails, AfterConfig, Cfg!Next, lbVars
    <3> QED
      BY <1>1, <1>2, <3>1, <3>2, CallActs, CallAnnounced
  <2> QED
    BY <2>1, <2>2
<1> QED
  BY <1>4, <1>5, <1>6, <1>7, <1>8, <1>9, <1>10 DEF CCMNext

LEMMA NextAnnounced == AnnouncedInv /\ OwnHeld /\ [CCMNext]_ccmVars => AnnouncedInv'
<1> SUFFICES ASSUME AnnouncedInv, OwnHeld, [CCMNext]_ccmVars PROVE AnnouncedInv'
  OBVIOUS
<1>1. CASE CCMNext
  <2>1. CCMInv' /\ LBStep
    BY <1>1, StepCCM DEF AnnouncedInv
  <2>2. \A t \in Service : FixedPath(t)'
    BY <2>1, FixedNext DEF AnnouncedInv
  <2> QED
    BY <1>1, <2>1, <2>2, AllAnnounced DEF AnnouncedInv
<1>2. CASE UNCHANGED ccmVars
  <2>1. UNCHANGED <<job, ip, writer, pools>>
    BY <1>2 DEF ccmVars, vars, configVars
  <2>2. CCMInv'
    BY <1>2, StutterCCM DEF AnnouncedInv
  <2>3. \A t \in Service : FixedPath(t)' /\ Covered(t)' /\ IsAnnounced(t)'
    BY <2>1
    DEF AnnouncedInv, FixedPath, Covered, IsAnnounced, Publishing, Cfg!Writing, Cfg!Announced
  <2> QED
    BY <2>2, <2>3 DEF AnnouncedInv
<1> QED
  BY <1>1, <1>2

LEMMA InitAnnounced == CCMInit => AnnouncedInv
<1>1. CCMInit => \A s \in Service : job[s].step = "idle"
  BY DEF CCMInit, Init, Idle
<1> QED
  BY <1>1, InitCCM
  DEF AnnouncedInv, FixedPath, Publishing, Covered, IsAnnounced, UpdateSection

LEMMA AnyStep == CCMInv /\ [CCMNext]_ccmVars => LBStep /\ CCMInv'
<1>1. UNCHANGED ccmVars => LBStep
  BY DEF LBStep, ccmVars, vars
<1> QED
  BY <1>1, StepCCM, StutterCCM

LEMMA AnnouncedPublished == AnnouncedInv => PublishedIsAnnounced
BY SameAround DEF AnnouncedInv, IsAnnounced, Publishing, PublishedIsAnnounced

-----------------------------------------------------------------------------
(* One worker: the address is the service's alone.                         *)

StillOwn(s) == Publishing(s) => ip[job[s].addr] = [type |-> "ephemeral", tags |-> {s}]

AloneInv == AnnouncedInv /\ OneInv /\ \A s \in Service : StillOwn(s)

LEMMA OwnSame ==
  ASSUME NEW t \in Service, StillOwn(t), job'[t].step = job[t].step,
         job'[t].obj = job[t].obj, job'[t].addr = job[t].addr,
         Publishing(t) => ip'[job[t].addr] = ip[job[t].addr]
  PROVE  StillOwn(t)'
BY DEF StillOwn, Publishing

LEMMA OwnSync ==
  ASSUME AloneInv, NEW s \in Service, Sync(s), NEW t \in Service PROVE StillOwn(t)'
<1>1. /\ GoesFlow(s) /\ OneInv /\ FixedPath(s) /\ Facts(s)
      /\ job[s].step \in AddressStep => job[s].addr \in Address
  BY OneParts, TypeInvJob, SyncFlow DEF AloneInv, AnnouncedInv
<1>2. CASE t # s
  <2>1. job'[t].step = "idle"
    BY <1>1, <1>2 DEF GoesFlow, OneInv, Alone
  <2> QED
    BY <2>1 DEF StillOwn, Publishing
<1>3. CASE t = s
  <2>1. SUFFICES ASSUME Publishing(s)'
                 PROVE  ip'[job'[s].addr] = [type |-> "ephemeral", tags |-> {s}]
    BY <1>3 DEF StillOwn
  <2>2. /\ job[s].step \in {"use", "config"} /\ job'[s].addr = job[s].addr
        /\ job'[s].obj = job[s].obj
    BY <1>1, <2>1 DEF GoesFlow, Flow, Idle, Publishing
  <2>3. job[s].step # "use"
    BY <1>1, <2>1, <2>2, NoneAssumption DEF Publishing, FixedPath, UpdateSection, AddressStep
  <2>4. UNCHANGED ip
    BY <2>2, <2>3 DEF Sync, Ensure, LockUpdate, FindProjectIP, FindProjectIPsWithTag,
       RemoveServiceTag, EndRemove, UseIPInCluster, LockAllocate, AcquireIP, GetService,
       UpdateService, UpdateLoadBalancerConfig, RollbackTags, RollbackFree, PatchStatus,
       RemoveFinalizer
  <2> QED
    BY <1>1, <2>2, <2>3, <2>4 DEF Facts, AcquiredIsOwn
<1> QED
  BY <1>2, <1>3

LEMMA OwnNext == ASSUME AloneInv, LBStep, NEW t \in Service PROVE StillOwn(t)'
<1>1. /\ OneInv /\ StillOwn(t) /\ job \in [Service -> Job] /\ ip \in [Address -> IP]
      /\ job[t].step \in AddressStep => job[t].addr \in Address
  BY OneParts DEF AloneInv
<1>2. ASSUME UNCHANGED ip, job'[t].step = job[t].step, job'[t].obj = job[t].obj,
             job'[t].addr = job[t].addr
      PROVE  StillOwn(t)'
  BY <1>1, <1>2, OwnSame
<1>3. CASE job'[t].step # "patch"
  BY <1>3 DEF StillOwn, Publishing
<1>4. ASSUME NEW s \in Service, StartSync(s) PROVE StillOwn(t)'
  <2>1. /\ UNCHANGED ip /\ \A u \in Service \ {s} : job'[u] = job[u]
        /\ job'[s].step = Entry(view[s])
    BY <1>1, <1>4 DEF StartSync, Idle
  <2> QED
    BY <1>2, <1>3, <2>1 DEF Entry
<1>5. ASSUME NEW s \in Service, Observe(s) \/ User(s) PROVE StillOwn(t)'
  BY <1>1, <1>2, <1>5
  DEF Observe, User, CreateService, PinAddress, DeleteService, Edit, Job
<1>6. ASSUME NEW c \in Cluster, Crash(c) PROVE StillOwn(t)'
  BY <1>2, <1>3, <1>6 DEF Crash, Idle
<1>7. ASSUME NEW a \in Address, AllocateElsewhere(a) PROVE StillOwn(t)'
  <2>1. /\ UNCHANGED job /\ ip[a].type = "free"
        /\ \A b \in Address \ {a} : ip'[b] = ip[b]
    BY <1>1, <1>7 DEF AllocateElsewhere, Exists
  <2>2. ASSUME Publishing(t) PROVE ip'[job[t].addr] = ip[job[t].addr]
    <3>1. /\ job[t].addr \in Address
          /\ ip[job[t].addr] = [type |-> "ephemeral", tags |-> {t}]
      BY <1>1, <2>2 DEF Publishing, AddressStep, StillOwn
    <3> QED
      BY <2>1, <3>1
  <2> QED
    BY <1>1, <2>1, <2>2, OwnSame
<1>8. ASSUME NEW s \in Service, Refused(s) PROVE StillOwn(t)'
  <2>1. /\ UNCHANGED ip /\ \A u \in Service \ {s} : job'[u] = job[u]
        /\ job'[s].step = "clear_tags"
    BY <1>1, <1>8 DEF Refused, GoOn, Job
  <2> QED
    BY <1>2, <1>3, <2>1
<1>9. CASE Elsewhere \/ UNCHANGED vars
  BY <1>2, <1>9 DEF Elsewhere, lbVars, vars
<1> QED
  BY <1>4, <1>5, <1>6, <1>7, <1>8, <1>9, OwnSync DEF LBStep, Next

LEMMA LBStepOne == OneInv /\ TypeInv' /\ LBStep => OneInv'
<1> SUFFICES ASSUME OneInv, TypeInv', LBStep PROVE OneInv'
  OBVIOUS
<1>1. ASSUME NEW s \in Service, Refused(s) PROVE OneInv'
  <2>1. /\ UNCHANGED ip /\ job[s].step \in OwnStep /\ job'[s].step \in OwnStep
        /\ job'[s].addr = job[s].addr /\ Acts(s)
    BY <1>1, OneParts DEF Refused, GoOn, OwnStep, Acts, Job
  <2> QED
    BY <2>1, GoesOnOne
<1>2. CASE Elsewhere
  BY <1>2, SameOne DEF Elsewhere, lbVars
<1> QED
  BY <1>1, <1>2, NextOne DEF LBStep

LEMMA AloneHeld == AloneInv => OwnHeld
<1> SUFFICES ASSUME AloneInv, NEW s \in Service, job[s].step = "config" \/ Publishing(s)
             PROVE  job[s].addr \in Held
  BY DEF OwnHeld
<1>1. /\ job[s].addr \in Address /\ s \notin Reserved /\ Facts(s) /\ StillOwn(s)
  BY OneParts, TagAssumption DEF AloneInv, Publishing, AddressStep
<1>2. ip[job[s].addr] = [type |-> "ephemeral", tags |-> {s}]
  BY <1>1 DEF Facts, AcquiredIsOwn, StillOwn
<1>3. ip[job[s].addr].tags = {s}
  BY <1>2
<1> QED
  BY <1>1, <1>3 DEF Held

LEMMA NextAlone == AloneInv /\ [CCMNext]_ccmVars => AloneInv' /\ LBStep
<1> SUFFICES ASSUME AloneInv, [CCMNext]_ccmVars PROVE AloneInv' /\ LBStep
  OBVIOUS
<1>1. LBStep /\ AnnouncedInv'
  BY AnyStep, AloneHeld, NextAnnounced DEF AloneInv, AnnouncedInv
<1>2. OneInv'
  BY <1>1, LBStepOne DEF AloneInv, AnnouncedInv, CCMInv, LockInv
<1> QED
  BY <1>1, <1>2, OwnNext DEF AloneInv

LEMMA InitAlone == Workers = 1 /\ CCMInit => AloneInv
<1> SUFFICES ASSUME Workers = 1, CCMInit PROVE AloneInv
  OBVIOUS
<1>1. OneInv
  BY InitOne, OneClusterAssumption DEF OneWorker, CCMInit
<1>2. \A s \in Service : StillOwn(s)
  BY DEF CCMInit, Init, Idle, StillOwn, Publishing
<1> QED
  BY <1>1, <1>2, InitAnnounced DEF AloneInv

-----------------------------------------------------------------------------
(* Any number of workers, in a state where no rollback meets another's use *)
(* of its address.                                                         *)

(* The steps LoadBalancer does not know change no address and no list. *)
LEMMA QuietStep ==
  ASSUME LockInv, Elsewhere \/ \E s \in Service : Refused(s)
  PROVE  /\ UNCHANGED ip
         /\ \A t \in Service :
              \/ job'[t] = job[t]
              \/ /\ job[t].step = "config" /\ job'[t].step = "clear_tags"
                 /\ job'[t].addr = job[t].addr
<1>1. CASE Elsewhere
  BY <1>1 DEF Elsewhere, lbVars
<1>2. ASSUME NEW s \in Service, Refused(s)
      PROVE  /\ UNCHANGED ip
             /\ \A t \in Service \ {s} : job'[t] = job[t]
             /\ job[s].step = "config" /\ job'[s].step = "clear_tags"
             /\ job'[s].addr = job[s].addr
  BY <1>2 DEF Refused, GoOn, LockInv, TypeInv, TypeOK, Job
<1> QED
  BY <1>1, <1>2

LEMMA LBStepWorkers ==
  WorkersInv /\ RollbackAlone /\ LBStep => WorkersInv' /\ Touches
<1> SUFFICES ASSUME WorkersInv, RollbackAlone, LBStep PROVE WorkersInv' /\ Touches
  OBVIOUS
<1>1. CASE [Next]_vars
  BY <1>1, NextWorkers, NextTouches
<1>2. CASE Elsewhere \/ \E s \in Service : Refused(s)
  <2>1. UNCHANGED ip /\ LockInv'
    BY <1>2, QuietStep, LBStepLocks DEF WorkersInv
  <2>2. ASSUME NEW t \in Service PROVE SyncFacts(t)'
    <3>1. CASE job'[t] = job[t]
      BY <2>1, <3>1, QuietFacts DEF SameJob
    <3>2. CASE /\ job[t].step = "config" /\ job'[t].step = "clear_tags"
               /\ job'[t].addr = job[t].addr
      BY <2>1, <3>2, AcquiredFacts DEF OwnStep
    <3> QED
      BY <1>2, <3>1, <3>2, QuietStep DEF WorkersInv
  <2>3. FreeHasNoTags' /\ Apart'
    BY <2>1, BothTouches DEF Touches
  <2> QED
    BY <2>1, <2>2, <2>3 DEF WorkersInv, OneCluster, FreesAnswered, Touches
<1> QED
  BY <1>1, <1>2 DEF LBStep

LEMMA InitCCMWorkers == FreesAnswered /\ CCMInit => WorkersInv
BY InitWorkers, OneClusterAssumption DEF OneCluster, CCMInit

LEMMA NextCCMWorkers ==
  CCMInv /\ WorkersInv /\ RollbackAlone /\ [CCMNext]_ccmVars => WorkersInv' /\ Touches
BY AnyStep, LBStepWorkers

-----------------------------------------------------------------------------
(* The theorems.                                                           *)

LEMMA NextCCM == CCMInv /\ [CCMNext]_ccmVars => CCMInv'
BY StepCCM, StutterCCM

(* The parts keep their types, the mutexes and what a call leaves behind   *)
(* when they run together, with any number of workers: the steps neither   *)
(* part knows of the other do no harm.                                     *)
THEOREM CCMInvHolds == CCMSpec => []CCMInv
BY InitCCM, NextCCM, PTL DEF CCMSpec

(* Types, of syncs and of calls (loadbalancer.go:88, config/config.go).    *)
THEOREM CCMTypeCorrect == CCMSpec => [](TypeOK /\ Config!TypeOK)
<1>1. CCMInv => TypeOK /\ Config!TypeOK
  BY SameProperties DEF CCMInv, LockInv, TypeInv, Cfg!ConfigInv, Cfg!TypeInv
<1> QED
  BY <1>1, CCMInvHolds, PTL

(* All three mutexes of metal-ccm are held by exactly whom they guard,     *)
(* also while a sync holds ipAllocateMutex, waits for configWriteMutex and *)
(* gets an error from the call (loadbalancer.go:135, 197, 300).            *)
THEOREM MutexesHold == CCMSpec => [](LockDiscipline /\ Config!MutualExclusion)
<1>1. CCMInv => LockDiscipline /\ Config!MutualExclusion
  BY SameProperties DEF CCMInv, LockInv, Cfg!ConfigInv
<1> QED
  BY <1>1, CCMInvHolds, PTL

(* A call of a sync or of the ticker that returns without an error has     *)
(* left behind the configuration it computed, whatever syncs did to the    *)
(* addresses meanwhile (metallb_config.go:39, cilium_config.go:62).        *)
THEOREM CCMWrittenHolds == CCMSpec => []Config!Written
<1>1. Cfg!ConfigInv => Cfg!Written
  BY InstanceAssumptions, Cfg!ConfigWritten
<1>2. CCMInv => Config!Written
  BY <1>1, SameProperties DEF CCMInv
<1> QED
  BY <1>2, CCMInvHolds, PTL

(* With one worker, an acquired address on its way into a status is still  *)
(* the service's own, each call that may yet write has it in its list, and *)
(* a pool has it (loadbalancer.go:197, 202): what the next theorem rests   *)
(* on, in a form that every step keeps.                                    *)
THEOREM AnnouncedInvHolds == Workers = 1 /\ CCMSpec => []AloneInv
BY InitAlone, NextAlone, PTL DEF CCMSpec

(* With one worker, an address a sync has acquired and is about to publish *)
(* is announced (loadbalancer.go:197, 202), whoever has written the        *)
(* configuration since, from whichever list of addresses: the sync's own   *)
(* call found the address, and no later one finds it without its tag.      *)
THEOREM PublishedIsAnnouncedHolds == Workers = 1 /\ CCMSpec => []PublishedIsAnnounced
<1>1. AloneInv => PublishedIsAnnounced
  BY AnnouncedPublished DEF AloneInv
<1> QED
  BY <1>1, AnnouncedInvHolds, PTL

(* And it carries the service's tag, although the call of a sync may be    *)
(* refused for a reason that is no fault: a node without its ASN label     *)
(* (loadbalancer.go:197, config/config.go:63).                             *)
THEOREM CCMHeldHolds == Workers = 1 /\ CCMSpec => []PublishedIsHeld
<1>1. AloneInv => PublishedIsHeld
  BY DEF AloneInv, OneInv, Facts, Holds, PublishedIsHeld
<1> QED
  BY <1>1, AnnouncedInvHolds, PTL

-----------------------------------------------------------------------------
(* The addresses: what LoadBalancer guarantees alone it guarantees with    *)
(* its calls made in full.                                                 *)

LEMMA QuietKeeps ==
  ASSUME LockInv, Elsewhere \/ \E s \in Service : Refused(s)
  PROVE  Keeps
<1>1. CASE Elsewhere
  BY <1>1 DEF Elsewhere, lbVars, Keeps, Clearing
<1>2. ASSUME NEW s \in Service, Refused(s) PROVE Keeps
  <2>1. /\ UNCHANGED ip /\ \A t \in Service \ {s} : job'[t] = job[t]
        /\ job[s].step # "free_ip" /\ job'[s].step # "free_ip"
    BY <1>2 DEF Refused, GoOn, LockInv, TypeInv, TypeOK, Job
  <2> QED
    BY <2>1, SameClearing DEF Keeps
<1> QED
  BY <1>1, <1>2

LEMMA StepBooks ==
  BooksInv /\ RollbackAlone /\ LBStep => BooksInv' /\ [Ownership!Next]_lease
<1> SUFFICES ASSUME BooksInv, RollbackAlone, LBStep
             PROVE  BooksInv' /\ [Ownership!Next]_lease
  OBVIOUS
<1>1. CASE [Next]_vars
  BY <1>1, NextBooks, NextRefines
<1>2. CASE Elsewhere \/ \E s \in Service : Refused(s)
  <2>1. WorkersInv' /\ LockInv /\ Keeps
    BY <1>2, LBStepWorkers, QuietKeeps DEF BooksInv, WorkersInv
  <2>2. NoBlanks' /\ Accounted' /\ [Ownership!Next]_lease
    BY <2>1, NoBlanksNext, AccountedNext, KeepsRefines DEF Effects
  <2>3. ASSUME NEW t \in Service PROVE FoundCurrent(t)' /\ Cleared(t)'
    <3>1. CASE job'[t] = job[t]
      BY <2>1, <3>1, KeptBooks DEF SameJob, Kept, Keeps
    <3>2. CASE job'[t].step = "clear_tags"
      BY <3>2 DEF FoundCurrent, Cleared
    <3> QED
      BY <1>2, <2>1, <3>1, <3>2, QuietStep
  <2> QED
    BY <2>1, <2>2, <2>3 DEF BooksInv, Answered
<1> QED
  BY <1>1, <1>2 DEF LBStep

LEMMA InitCCMBooks == Answered /\ CCMInit => BooksInv /\ Ownership!Init
BY InitBooks, InitRefines, OneClusterAssumption DEF OneCluster, CCMInit

LEMMA NextCCMBooks ==
  CCMInv /\ BooksInv /\ RollbackAlone /\ [CCMNext]_ccmVars
    => BooksInv' /\ [Ownership!Next]_lease
BY AnyStep, StepBooks

LEMMA CCMWorkersImplementOwnership ==
  Answered /\ CCMSpec /\ []RollbackAlone => ImplementsOwnership /\ []Accounted
<1>1. BooksInv => Accounted
  BY DEF BooksInv
<1> QED
  BY <1>1, InitCCMBooks, NextCCMBooks, CCMInvHolds, PTL
     DEF CCMSpec, ImplementsOwnership, Ownership!Spec

(* With one worker no rollback meets anybody. *)
LEMMA AloneNeverMeets == Workers = 1 /\ CCMSpec => []RollbackAlone
<1>1. AloneInv => RollbackAlone
  BY AloneRollsBack DEF AloneInv
<1> QED
  BY <1>1, AnnouncedInvHolds, PTL

(* With one worker and answered calls, CCM implements AddressOwnership     *)
(* (loadbalancer.go:143 to 200).                                           *)
THEOREM CCMImplementsOwnership ==
  Workers = 1 /\ Answered /\ CCMSpec => ImplementsOwnership /\ []Accounted
BY AloneNeverMeets, CCMWorkersImplementOwnership, PTL

LEMMA CCMWorkersKeepForeign ==
  FreesAnswered /\ CCMSpec /\ []RollbackAlone => KeepsForeign
<1>1. CCMInv /\ WorkersInv /\ RollbackAlone /\ [CCMNext]_ccmVars =>
        [\A a \in Address :
           /\ ip[a].type = "static" => ip'[a].type = "static"
           /\ ip[a].tags \cap Reserved # {} => ip'[a] = ip[a]]_vars
  BY NextCCMWorkers, TouchesForeign
<1> QED
  BY <1>1, InitCCMWorkers, NextCCMWorkers, CCMInvHolds, PTL DEF CCMSpec, KeepsForeign

(* What is not the controller's is left alone: with one worker nothing but *)
(* the answers of FreeIP is taken for granted (loadbalancer.go:257, 313).  *)
THEOREM CCMKeepsForeign == Workers = 1 /\ FreesAnswered /\ CCMSpec => KeepsForeign
BY AloneNeverMeets, CCMWorkersKeepForeign, PTL
=============================================================================
