--------------------------- MODULE LBConfigProofs ---------------------------
(***************************************************************************)
(* Theorems of LBConfig: its types, mutual exclusion of the writers, and   *)
(* that rewriting the configuration does not interrupt what stays in it.   *)
(***************************************************************************)
EXTENDS LBConfig, TLAPS

(* A call that has computed its configuration was given labelled nodes, and *)
(* what it annotates are nodes.                                            *)
WellFormed(c) == /\ c.step \in Loop \cup {"done"} => Labelled(c.nodes)
                 /\ c.step = "annotate" => c.todo \subseteq NodeInfo

CallInv == \A w \in Writer : WellFormed(writer[w])

TypeInv == TypeOK /\ CallInv

Item == Peer \cup AddressPool \cup Pool \cup NodeInfo

USE PoolAssumption, LabelAssumption, WorkerAssumption, BoundAssumption

LEMMA StepValues ==
  /\ Loop = {"delete_peers", "write_peers", "delete_pools", "write_pools",
             "adverts", "annotate"}
  /\ Section = {"delete_peers", "write_peers", "delete_pools", "write_pools",
                "adverts", "annotate", "find_ips", "done"}
BY DEF Loop, Section

LEMMA IdleType == Idle \in Call /\ Idle.step = "idle"
BY DEF Idle, Call

LEMMA NewType == ASSUME NEW name \in Node PROVE New(name) \in NodeInfo
BY DEF New, NodeInfo

-----------------------------------------------------------------------------
(* The configuration has the types of its resources.                       *)

LEMMA PeersType ==
  ASSUME NEW ns \in SUBSET NodeInfo, Labelled(ns)
  PROVE  computePeers(ns) \in SUBSET Peer
BY DEF computePeers, Labelled, NodeInfo, Peer

LEMMA PoolsType ==
  ASSUME NEW ips \in SUBSET Address
  PROVE  computeAddressPools(ips) \in SUBSET AddressPool
BY DEF computeAddressPools, AddressPool

LEMMA NamesType ==
  ASSUME NEW ps \in SUBSET AddressPool PROVE Names(ps) \in SUBSET Pool
BY DEF Names, AddressPool

LEMMA TodoType ==
  ASSUME TypeOK, NEW w \in Writer, Labelled(writer[w].nodes), NEW step
  PROVE  Todo(w, step) \in SUBSET Item
<1>1. writer[w].nodes \in SUBSET NodeInfo /\ writer[w].ips \in SUBSET Address
  BY DEF TypeOK, Call
<1>2. Peers(w) \in SUBSET Peer /\ Pools(w) \in SUBSET AddressPool
  BY <1>1, PeersType, PoolsType DEF Peers, Pools
<1>3. Names(Pools(w)) \in SUBSET Pool
  BY <1>2, NamesType
<1>4. peers \subseteq Peer /\ pools \subseteq AddressPool /\ nodes \subseteq NodeInfo
  BY DEF TypeOK
<1> QED
  BY <1>2, <1>3, <1>4 DEF Todo, Item

-----------------------------------------------------------------------------
(* What the ways to change a call in progress preserve.                    *)

WriterInv == writer \in [Writer -> Call] /\ CallInv

LEMMA SetCall ==
  ASSUME WriterInv, NEW w \in Writer, NEW c \in Call, WellFormed(c),
         writer' = [writer EXCEPT ![w] = c]
  PROVE  WriterInv'
BY DEF WriterInv, CallInv, WellFormed, Labelled

LEMMA BeginType ==
  ASSUME WriterInv, NEW w \in Writer, NEW ns \in SUBSET NodeInfo, Begin(w, ns)
  PROVE  WriterInv'
<1> DEFINE c == [Idle EXCEPT !.step = "lock", !.nodes = ns]
<1>1. c \in Call /\ c.step = "lock"
  BY IdleType DEF Call
<1>2. writer' = [writer EXCEPT ![w] = c]
  BY DEF Begin
<1> HIDE DEF c
<1> QED
  BY <1>1, <1>2, SetCall, StepValues DEF WellFormed

LEMMA UnlockType ==
  ASSUME WriterInv, NEW w \in Writer, Unlock(w)
  PROVE  WriterInv' /\ lock' = None
BY IdleType, SetCall, StepValues DEF Unlock, WellFormed

LEMMA RoundType ==
  ASSUME WriterInv, NEW w \in Writer, NEW step \in Loop, NEW item,
         Round(w, step, item)
  PROVE  WriterInv'
<1> DEFINE c == [writer[w] EXCEPT !.todo = @ \ {item}]
<1>1. writer[w] \in Call
  BY DEF WriterInv
<1>2. /\ c \in Call /\ c.step = writer[w].step /\ c.nodes = writer[w].nodes
      /\ c.todo \subseteq writer[w].todo
  BY <1>1 DEF Call
<1>3. writer' = [writer EXCEPT ![w] = c]
  BY <1>1 DEF Round, WriterInv, Call
<1>4. WellFormed(writer[w])
  BY DEF WriterInv, CallInv
<1> HIDE DEF c
<1>5. WellFormed(c)
  BY <1>2, <1>4 DEF WellFormed
<1> QED
  BY <1>2, <1>3, <1>5, SetCall

(* A call goes on to another step, with something to do there. *)
LEMMA GoOnType ==
  ASSUME WriterInv, NEW w \in Writer, NEW next \in Section, NEW todo \in SUBSET Item,
         NEW ips \in SUBSET Address,
         next \in Loop \cup {"done"} => Labelled(writer[w].nodes),
         next = "annotate" => todo \subseteq NodeInfo,
         \/ writer' = [writer EXCEPT ![w].step = next, ![w].ips = ips, ![w].todo = todo]
         \/ writer' = [writer EXCEPT ![w].step = next, ![w].todo = todo]
            /\ ips = writer[w].ips
         \/ writer' = [writer EXCEPT ![w].step = next]
            /\ ips = writer[w].ips /\ todo = writer[w].todo
  PROVE  WriterInv'
<1> DEFINE c == [writer[w] EXCEPT !.step = next, !.ips = ips, !.todo = todo]
<1>1. writer[w] \in Call
  BY DEF WriterInv
<1>2. c \in Call /\ c.step = next /\ c.nodes = writer[w].nodes /\ c.todo = todo
  BY <1>1 DEF Call, Item
<1>3. CASE writer' = [writer EXCEPT ![w].step = next, ![w].ips = ips, ![w].todo = todo]
  <2>1. writer' = [writer EXCEPT ![w] = c]
    BY <1>1, <1>3 DEF WriterInv, Call
  <2> HIDE DEF c
  <2> QED
    BY <1>2, <2>1, SetCall DEF WellFormed
<1>4. CASE /\ writer' = [writer EXCEPT ![w].step = next, ![w].todo = todo]
           /\ ips = writer[w].ips
  <2>1. writer' = [writer EXCEPT ![w] = c]
    BY <1>1, <1>4 DEF WriterInv, Call
  <2> HIDE DEF c
  <2> QED
    BY <1>2, <2>1, SetCall DEF WellFormed
<1>5. CASE /\ writer' = [writer EXCEPT ![w].step = next]
           /\ ips = writer[w].ips /\ todo = writer[w].todo
  <2>1. writer' = [writer EXCEPT ![w] = c]
    BY <1>1, <1>5 DEF WriterInv, Call
  <2> HIDE DEF c
  <2> QED
    BY <1>2, <2>1, SetCall DEF WellFormed
<1> QED
  BY <1>3, <1>4, <1>5

-----------------------------------------------------------------------------
(* The type invariant.                                                     *)

LEMMA InitType == Init => TypeInv
<1> SUFFICES ASSUME Init PROVE TypeInv
  OBVIOUS
<1>1. nodes \subseteq NodeInfo
  BY NewType DEF Init
<1>2. writer \in [Writer -> Call] /\ CallInv
  BY IdleType, StepValues DEF Init, CallInv, WellFormed
<1>3. /\ held \subseteq Address /\ peers \subseteq Peer /\ pools \subseteq AddressPool
      /\ adverts \subseteq Pool /\ annotated \subseteq Node \X ASN
  BY DEF Init
<1>4. backend \in {"metallb", "cilium"} /\ lock \in Writer \cup {None}
  BY DEF Init
<1>5. event \in BOOLEAN
  BY Zenon DEF Init
<1>6. faults \in 0..MaxFaults /\ changes \in 0..MaxChanges
  BY DEF Init
<1>7. TypeOK
  BY <1>1, <1>2, <1>3, <1>4, <1>5, <1>6, Zenon DEF TypeOK
<1> QED
  BY <1>2, <1>7 DEF TypeInv

(* The callers change nothing but their own call; the changes from outside *)
(* leave all calls alone.                                                  *)
LEMMA CallersType ==
  ASSUME TypeInv, Callers PROVE TypeInv'
<1>1. WriterInv /\ TypeOK
  BY DEF TypeInv, TypeOK, WriterInv
<1>2. Writer = Worker \cup {"ticker", "watch"}
  BY DEF Writer
<1>3. CASE Tick
  <2>1. WriterInv'
    BY <1>1, <1>2, <1>3, BeginType DEF Tick, TypeOK
  <2> QED
    BY <1>1, <1>3, <2>1 DEF Tick, Begin, world, crs, TypeInv, TypeOK, WriterInv
<1>4. CASE NodeUpdated
  <2>1. WriterInv'
    BY <1>1, <1>2, <1>4, BeginType DEF NodeUpdated, TypeOK
  <2> QED
    BY <1>1, <1>4, <2>1 DEF NodeUpdated, Begin, crs, TypeInv, TypeOK, WriterInv
<1>5. ASSUME NEW w \in Worker, ServiceSync(w) PROVE TypeInv'
  <2>1. PICK ns \in SUBSET nodes : Begin(w, ns) /\ UNCHANGED world
    BY <1>5 DEF ServiceSync
  <2>2. WriterInv'
    BY <1>1, <1>2, <2>1, BeginType DEF TypeOK
  <2> QED
    BY <1>1, <2>1, <2>2 DEF Begin, world, crs, TypeInv, TypeOK, WriterInv
<1> QED
  BY <1>3, <1>4, <1>5 DEF Callers

LEMMA EnvironmentType ==
  ASSUME TypeInv, Environment PROVE TypeInv'
<1> USE DEF TypeInv, TypeOK, Change
<1>1. ASSUME UNCHANGED writer PROVE CallInv'
  BY <1>1 DEF CallInv, WellFormed, Labelled
<1>2. ASSUME NEW name \in Node, Join(name) PROVE TypeInv'
  BY <1>1, <1>2, NewType DEF Join
<1>3. ASSUME NEW n \in nodes, Leave(n) PROVE TypeInv'
  BY <1>1, <1>3 DEF Leave
<1>4. ASSUME NEW n \in nodes, LabelNode(n) PROVE TypeInv'
  <2>1. PICK k \in ASN : Replace(n, [n EXCEPT !.asn = k])
    BY <1>4 DEF LabelNode
  <2>2. [n EXCEPT !.asn = k] \in NodeInfo
    BY DEF NodeInfo
  <2> QED
    BY <1>1, <1>4, <2>1, <2>2 DEF LabelNode, Replace, crs
<1>5. ASSUME NEW n \in nodes, NEW host \in Host \cup {None}, SetHost(n, host)
      PROVE  TypeInv'
  <2>1. [n EXCEPT !.host = host] \in NodeInfo
    BY DEF NodeInfo
  <2> QED
    BY <1>1, <1>5, <2>1 DEF SetHost, Replace
<1>6. ASSUME NEW ips \in SUBSET Address, Hold(ips) PROVE TypeInv'
  BY <1>1, <1>6 DEF Hold
<1> QED
  BY <1>2, <1>3, <1>4, <1>5, <1>6 DEF Environment

LEMMA ConfigType ==
  ASSUME TypeInv, NEW w \in Writer, UpdateLoadBalancerConfig(w) \/ Fail(w)
  PROVE  TypeInv'
<1>1. WriterInv /\ TypeOK /\ writer[w] \in Call
  BY DEF TypeInv, TypeOK, WriterInv
<1>2. writer[w].nodes \in SUBSET NodeInfo /\ writer[w].ips \in SUBSET Address
  BY <1>1 DEF Call
<1>3. writer[w].step \in Loop \cup {"done"} => Labelled(writer[w].nodes)
  BY <1>1 DEF WriterInv, CallInv, WellFormed
<1>4. ASSUME writer[w].step \in Loop
      PROVE  Peers(w) \in SUBSET Peer /\ Pools(w) \in SUBSET AddressPool
  BY <1>2, <1>3, <1>4, PeersType, PoolsType DEF Peers, Pools
<1>5. CASE Lock(w)
  <2>1. WriterInv'
    <3>1. writer[w].todo \in SUBSET Item
      BY <1>1 DEF Call, Item
    <3> QED
      BY <1>1, <1>2, <1>5, <3>1, GoOnType, StepValues DEF Lock
  <2> QED
    BY <1>1, <1>5, <2>1 DEF Lock, world, crs, TypeInv, TypeOK, WriterInv
<1>6. CASE FindClusterIPs(w)
  <2>1. CASE Labelled(writer[w].nodes)
    <3>1. Todo(w, "delete_peers") \in SUBSET Item
      BY <1>1, <2>1, TodoType
    <3>2. held \in SUBSET Address
      BY <1>1 DEF TypeOK
    <3>3. WriterInv'
      BY <1>1, <1>6, <2>1, <3>1, <3>2, GoOnType, StepValues DEF FindClusterIPs
    <3> QED
      BY <1>1, <1>6, <2>1, <3>3 DEF FindClusterIPs, world, crs, TypeInv, TypeOK, WriterInv
  <2>2. CASE ~Labelled(writer[w].nodes)
    BY <1>1, <1>6, <2>2, UnlockType
       DEF FindClusterIPs, world, crs, TypeInv, TypeOK, WriterInv
  <2> QED
    BY <2>1, <2>2
<1>7. CASE EndLoop(w)
  <2> DEFINE next == NextStep(writer[w].step)
  <2>1. next \in Section
    BY StepValues DEF NextStep
  <2>2. Labelled(writer[w].nodes)
    BY <1>3, <1>7 DEF EndLoop
  <2>3. Todo(w, next) \in SUBSET Item
    BY <1>1, <2>2, TodoType
  <2>4. writer' = [writer EXCEPT ![w].step = next, ![w].todo = Todo(w, next)]
    BY <1>7 DEF EndLoop
  <2>6. Todo(w, "annotate") \subseteq NodeInfo
    BY <1>1 DEF Todo, TypeOK
  <2> HIDE DEF next
  <2>5. WriterInv'
    BY <1>1, <1>2, <2>1, <2>2, <2>3, <2>4, <2>6, GoOnType
  <2> QED
    BY <1>1, <1>7, <2>5 DEF EndLoop, world, crs, TypeInv, TypeOK, WriterInv
<1>8. ASSUME NEW step \in Loop, NEW item, Round(w, step, item),
             /\ peers' \subseteq Peer /\ pools' \subseteq AddressPool
             /\ adverts' \subseteq Pool /\ annotated' \subseteq Node \X ASN
      PROVE  TypeInv'
  BY <1>1, <1>8, RoundType DEF Round, world, TypeInv, TypeOK, WriterInv
<1>9. CASE DeletePeer(w)
  <2>1. PICK p \in peers : Round(w, "delete_peers", p) /\ peers' = peers \ {p}
                           /\ UNCHANGED <<pools, adverts, annotated>>
    BY <1>9 DEF DeletePeer
  <2> QED
    BY <1>1, <1>8, <2>1, StepValues DEF TypeOK
<1>10. CASE WritePeer(w)
  <2>1. PICK p \in Peers(w) :
          /\ Round(w, "write_peers", p)
          /\ peers' = {q \in peers : q.asn # p.asn} \cup {p}
          /\ UNCHANGED <<pools, adverts, annotated>>
    BY <1>10 DEF WritePeer
  <2>2. p \in Peer
    BY <1>4, <2>1, StepValues DEF Round
  <2> QED
    BY <1>1, <1>8, <2>1, <2>2, StepValues DEF TypeOK
<1>11. CASE DeletePool(w)
  <2>1. PICK p \in pools : Round(w, "delete_pools", p) /\ pools' = pools \ {p}
                           /\ UNCHANGED <<peers, adverts, annotated>>
    BY <1>11 DEF DeletePool
  <2> QED
    BY <1>1, <1>8, <2>1, StepValues DEF TypeOK
<1>12. CASE WritePool(w)
  <2>1. PICK p \in Pools(w) :
          /\ Round(w, "write_pools", p)
          /\ pools' = {q \in pools : q.name # p.name} \cup {p}
          /\ UNCHANGED <<peers, adverts, annotated>>
    BY <1>12 DEF WritePool
  <2>2. p \in AddressPool
    BY <1>4, <2>1, StepValues DEF Round
  <2> QED
    BY <1>1, <1>8, <2>1, <2>2, StepValues DEF TypeOK
<1>13. CASE DeleteAdvert(w)
  BY <1>1, <1>13 DEF DeleteAdvert, world, TypeInv, TypeOK, CallInv, WellFormed, Labelled
<1>14. CASE WriteAdvert(w)
  <2>1. PICK p \in Names(Pools(w)) : /\ Round(w, "adverts", p)
                                     /\ adverts' = adverts \cup {p}
                                     /\ UNCHANGED <<peers, pools, annotated>>
    BY <1>14 DEF WriteAdvert
  <2>2. p \in Pool
    BY <1>4, <2>1, NamesType, StepValues DEF Round
  <2> QED
    BY <1>1, <1>8, <2>1, <2>2, StepValues DEF TypeOK
<1>15. CASE Annotate(w)
  <2>1. PICK n \in writer[w].todo :
          /\ \E m \in nodes : m.name = n.name
          /\ n.asn # None
          /\ Round(w, "annotate", n)
          /\ annotated' = annotated \cup {<<n.name, n.asn>>}
          /\ UNCHANGED <<peers, pools, adverts>>
    BY <1>15 DEF Annotate
  <2>2. n \in NodeInfo
    BY <1>1, <2>1 DEF WriterInv, CallInv, WellFormed, Round
  <2>3. <<n.name, n.asn>> \in Node \X ASN
    BY <2>1, <2>2 DEF NodeInfo
  <2> QED
    BY <1>1, <1>8, <2>1, <2>3, StepValues DEF TypeOK
<1>16. CASE AnnotateError(w) \/ Return(w)
  BY <1>1, <1>16, UnlockType
     DEF AnnotateError, Return, world, crs, TypeInv, TypeOK, WriterInv
<1>17. CASE Fail(w)
  BY <1>1, <1>17, UnlockType DEF Fail, world, crs, TypeInv, TypeOK, WriterInv
<1> QED
  BY <1>5, <1>6, <1>7, <1>9, <1>10, <1>11, <1>12, <1>13, <1>14, <1>15, <1>16, <1>17
     DEF UpdateLoadBalancerConfig, WriteCRs

LEMMA CrashType ==
  ASSUME TypeInv, Crash PROVE TypeInv'
<1>1. writer' \in [Writer -> Call] /\ CallInv'
  BY IdleType, StepValues DEF Crash, CallInv, WellFormed
<1>2. event' \in BOOLEAN
  BY Zenon DEF Crash
<1>3. faults' \in 0..MaxFaults
  BY DEF Crash, TypeInv, TypeOK
<1>4. lock' \in Writer \cup {None}
  BY DEF Crash
<1> QED
  BY <1>1, <1>2, <1>3, <1>4 DEF Crash, crs, TypeInv, TypeOK

LEMMA NextType == TypeInv /\ [Next]_vars => TypeInv'
<1> SUFFICES ASSUME TypeInv, [Next]_vars PROVE TypeInv'
  OBVIOUS
<1>1. CASE UNCHANGED vars
  BY <1>1 DEF vars, TypeInv, TypeOK, CallInv, WellFormed, Labelled
<1> QED
  BY <1>1, CallersType, EnvironmentType, CrashType, ConfigType DEF Next

(* What UpdateLoadBalancerConfig (loadbalancer.go:299) and its callers work *)
(* on keeps its types; a call that writes has labelled nodes only.         *)
THEOREM TypeCorrect == Spec => []TypeInv
BY InitType, NextType, PTL DEF Spec

(* The type invariant the runs check. *)
THEOREM TypeOKHolds == Spec => []TypeOK
<1>1. TypeInv => TypeOK
  BY DEF TypeInv
<1> QED
  BY <1>1, TypeCorrect, PTL

-----------------------------------------------------------------------------
(* Mutual exclusion.                                                       *)

LEMMA NoneFree == \A w \in Writer : w # None
OBVIOUS

LEMMA InitExclusion == Init => MutualExclusion
BY NoneFree, IdleType, StepValues DEF Init, MutualExclusion

(* A call that stays in the section, or outside, and leaves the mutex.      *)
LEMMA SameSide ==
  ASSUME MutualExclusion, writer \in [Writer -> Call], NEW w \in Writer, UNCHANGED lock,
         \A v \in Writer \ {w} : writer'[v] = writer[v],
         writer'[w].step \in Section <=> writer[w].step \in Section
  PROVE  MutualExclusion'
BY DEF MutualExclusion

LEMMA UnlockExclusion ==
  ASSUME MutualExclusion, writer \in [Writer -> Call], NEW w \in Writer,
         writer[w].step \in Section, Unlock(w)
  PROVE  MutualExclusion'
<1>1. lock = w /\ lock' = None
  BY DEF MutualExclusion, Unlock
<1>2. writer'[w].step \notin Section
  BY IdleType, StepValues DEF Unlock
<1>3. \A v \in Writer \ {w} : writer'[v] = writer[v]
  BY DEF Unlock
<1> QED
  BY <1>1, <1>2, <1>3, NoneFree DEF MutualExclusion

LEMMA BeginExclusion ==
  ASSUME MutualExclusion, writer \in [Writer -> Call], NEW w \in Writer, NEW ns, Begin(w, ns)
  PROVE  MutualExclusion'
<1>1. writer'[w].step = "lock"
  BY DEF Begin, Idle
<1>2. \A v \in Writer \ {w} : writer'[v] = writer[v]
  BY DEF Begin
<1> QED
  BY <1>1, <1>2, SameSide, StepValues DEF Begin

LEMMA RoundExclusion ==
  ASSUME MutualExclusion, writer \in [Writer -> Call], NEW w \in Writer, NEW step, NEW item,
         Round(w, step, item)
  PROVE  MutualExclusion'
<1>1. writer'[w].step = writer[w].step
  BY DEF Round, Call
<1>2. \A v \in Writer \ {w} : writer'[v] = writer[v]
  BY DEF Round
<1> QED
  BY <1>1, <1>2, SameSide DEF Round

LEMMA ConfigExclusion ==
  ASSUME MutualExclusion, TypeInv, NEW w \in Writer, UpdateLoadBalancerConfig(w) \/ Fail(w)
  PROVE  MutualExclusion'
<1>1. writer \in [Writer -> Call]
  BY DEF TypeInv, TypeOK
<1>2. CASE Lock(w)
  <2>1. lock = None /\ lock' = w
    BY <1>2 DEF Lock
  <2>2. writer'[w].step = "find_ips" /\ \A v \in Writer \ {w} : writer'[v] = writer[v]
    BY <1>1, <1>2 DEF Lock, Call
  <2> QED
    BY <2>1, <2>2, NoneFree, StepValues DEF MutualExclusion
<1>3. CASE FindClusterIPs(w)
  <2>1. CASE Labelled(writer[w].nodes)
    <3>1. writer'[w].step = "delete_peers" /\ \A v \in Writer \ {w} : writer'[v] = writer[v]
      BY <1>1, <1>3, <2>1 DEF FindClusterIPs, Call
    <3> QED
      BY <1>1, <1>3, <2>1, <3>1, SameSide, StepValues DEF FindClusterIPs
  <2>2. CASE ~Labelled(writer[w].nodes)
    BY <1>1, <1>3, <2>2, UnlockExclusion, StepValues DEF FindClusterIPs
  <2> QED
    BY <2>1, <2>2
<1>4. CASE EndLoop(w)
  <2>1. /\ writer'[w].step = NextStep(writer[w].step)
        /\ \A v \in Writer \ {w} : writer'[v] = writer[v]
    BY <1>1, <1>4 DEF EndLoop, Call
  <2>2. NextStep(writer[w].step) \in Section
    BY StepValues DEF NextStep
  <2> QED
    BY <1>1, <1>4, <2>1, <2>2, SameSide, StepValues DEF EndLoop
<1>5. CASE DeletePeer(w) \/ WritePeer(w) \/ DeletePool(w) \/ WritePool(w)
           \/ WriteAdvert(w) \/ Annotate(w)
  BY <1>1, <1>5, RoundExclusion
     DEF DeletePeer, WritePeer, DeletePool, WritePool, WriteAdvert, Annotate
<1>6. CASE DeleteAdvert(w)
  BY <1>1, <1>6 DEF DeleteAdvert, MutualExclusion
<1>7. CASE AnnotateError(w) \/ Return(w) \/ Fail(w)
  BY <1>1, <1>7, UnlockExclusion, StepValues DEF AnnotateError, Return, Fail
<1> QED
  BY <1>2, <1>3, <1>4, <1>5, <1>6, <1>7 DEF UpdateLoadBalancerConfig, WriteCRs

LEMMA NextExclusion == TypeInv /\ MutualExclusion /\ [Next]_vars => MutualExclusion'
<1> SUFFICES ASSUME TypeInv, MutualExclusion, [Next]_vars PROVE MutualExclusion'
  OBVIOUS
<1>1. writer \in [Writer -> Call] /\ Writer = Worker \cup {"ticker", "watch"}
  BY DEF TypeInv, TypeOK, Writer
<1>2. CASE UNCHANGED <<writer, lock>>
  BY <1>2 DEF MutualExclusion
<1>3. CASE Callers
  BY <1>1, <1>3, BeginExclusion DEF Callers, Tick, NodeUpdated, ServiceSync
<1>4. CASE Environment
  BY <1>2, <1>4 DEF Environment, Join, Leave, LabelNode, SetHost, Hold, Change
<1>5. CASE Crash
  BY <1>5, NoneFree, IdleType, StepValues DEF Crash, MutualExclusion
<1> QED
  BY <1>2, <1>3, <1>4, <1>5, ConfigExclusion DEF Next, vars

(* configWriteMutex (loadbalancer.go:300) keeps any number of writers apart, *)
(* and every way out of the section releases it.                           *)
THEOREM MutualExclusionHolds == Spec => []MutualExclusion
<1>1. Init /\ [][Next]_vars /\ []TypeInv => []MutualExclusion
  BY InitExclusion, NextExclusion, PTL
<1> QED
  BY <1>1, TypeCorrect, PTL DEF Spec

-----------------------------------------------------------------------------
(* What the resources and a call in progress contain.                      *)

(* No two nodes have the same ASN. *)
Distinct(ns) == \A n, m \in ns : n.asn # None /\ n.asn = m.asn => n = m

(* A pool holds addresses of its network and type. *)
PoolInv == \A q \in pools : \A a \in q.cidrs : PoolOf[a] = q.name

(* What a call is about to delete is not part of its configuration. *)
Spares(c) ==
  /\ Distinct(c.nodes)
  /\ c.step = "delete_peers" => \A p \in c.todo : p.asn \notin ASNs(computePeers(c.nodes))
  /\ c.step = "delete_pools" =>
       \A p \in c.todo : p.name \notin Names(computeAddressPools(c.ips))

SparesInv == \A w \in Writer : Spares(writer[w])

ContentInv == Distinct(nodes) /\ PoolInv /\ SparesInv

LEMMA DistinctSubset ==
  ASSUME NEW ns, NEW ms \in SUBSET ns, Distinct(ns) PROVE Distinct(ms)
BY DEF Distinct

LEMMA IdleSpares == Spares(Idle)
BY DEF Spares, Idle, Distinct

LEMMA InitContent == Init => ContentInv
<1> SUFFICES ASSUME Init PROVE ContentInv
  OBVIOUS
<1>1. Distinct(nodes)
  BY DEF Init, Distinct, New
<1>2. SparesInv
  BY IdleSpares DEF Init, SparesInv
<1> QED
  BY <1>1, <1>2 DEF Init, ContentInv, PoolInv

LEMMA SetSpares ==
  ASSUME SparesInv, writer \in [Writer -> Call], NEW w \in Writer,
         \A v \in Writer \ {w} : writer'[v] = writer[v], Spares(writer'[w])
  PROVE  SparesInv'
BY DEF SparesInv, Spares, Distinct, ASNs, Names, computePeers, computeAddressPools

LEMMA BeginSpares ==
  ASSUME TypeInv, ContentInv, NEW w \in Writer, NEW ns \in SUBSET nodes, Begin(w, ns)
  PROVE  SparesInv'
<1>1. writer'[w].step = "lock" /\ writer'[w].nodes = ns
  BY DEF Begin, Idle, TypeInv, TypeOK
<1>2. Spares(writer'[w])
  BY <1>1, DistinctSubset DEF Spares, ContentInv
<1> QED
  BY <1>2, SetSpares DEF Begin, TypeInv, TypeOK, ContentInv

LEMMA UnlockSpares ==
  ASSUME TypeInv, ContentInv, NEW w \in Writer, Unlock(w)
  PROVE  SparesInv'
<1>1. Spares(writer'[w])
  BY IdleSpares DEF Unlock, TypeInv, TypeOK
<1> QED
  BY <1>1, SetSpares DEF Unlock, TypeInv, TypeOK, ContentInv

LEMMA RoundSpares ==
  ASSUME TypeInv, ContentInv, NEW w \in Writer, NEW step, NEW item, Round(w, step, item)
  PROVE  SparesInv'
<1>1. /\ writer \in [Writer -> Call] /\ writer[w] \in Call /\ Spares(writer[w])
  BY DEF TypeInv, TypeOK, ContentInv, SparesInv
<1>2. /\ writer'[w].step = writer[w].step /\ writer'[w].nodes = writer[w].nodes
      /\ writer'[w].ips = writer[w].ips /\ writer'[w].todo \subseteq writer[w].todo
      /\ \A v \in Writer \ {w} : writer'[v] = writer[v]
  BY <1>1 DEF Round, Call
<1>3. Spares(writer'[w])
  BY <1>1, <1>2 DEF Spares
<1> QED
  BY <1>1, <1>2, <1>3, SetSpares DEF ContentInv

(* The lists of what is to be deleted are drawn up in these two ways.       *)
LEMMA TodoSpares ==
  ASSUME NEW w
  PROVE  /\ \A p \in Todo(w, "delete_peers") :
               p.asn \notin ASNs(computePeers(writer[w].nodes))
         /\ \A p \in Todo(w, "delete_pools") :
               p.name \notin Names(computeAddressPools(writer[w].ips))
BY DEF Todo, Peers, Pools

LEMMA EnvironmentContent ==
  ASSUME TypeInv, ContentInv, Environment PROVE ContentInv'
<1>1. nodes \subseteq NodeInfo /\ UNCHANGED <<writer, pools>>
  BY DEF TypeInv, TypeOK, Environment, Join, Leave, LabelNode, SetHost, Hold, Change, crs
<1>2. PoolInv' /\ SparesInv'
  BY <1>1 DEF ContentInv, PoolInv, SparesInv, Spares, Distinct, ASNs, Names,
              computePeers, computeAddressPools
<1>3. Distinct(nodes)
  BY DEF ContentInv
<1>4. ASSUME NEW name \in Node, Join(name) PROVE Distinct(nodes')
  BY <1>3, <1>4 DEF Join, New, Distinct
<1>5. ASSUME NEW n \in nodes, Leave(n) PROVE Distinct(nodes')
  BY <1>3, <1>5 DEF Leave, Distinct
<1>6. ASSUME NEW n \in nodes, LabelNode(n) PROVE Distinct(nodes')
  <2>1. PICK k \in ASN \ {m.asn : m \in nodes} : Replace(n, [n EXCEPT !.asn = k])
    BY <1>6 DEF LabelNode
  <2>2. [n EXCEPT !.asn = k].asn = k
    BY <1>1 DEF NodeInfo
  <2> QED
    BY <1>3, <2>1, <2>2 DEF Replace, Distinct
<1>7. ASSUME NEW n \in nodes, NEW host \in Host \cup {None}, SetHost(n, host)
      PROVE  Distinct(nodes')
  <2>1. [n EXCEPT !.host = host].asn = n.asn
    BY <1>1 DEF NodeInfo
  <2> QED
    BY <1>3, <1>7, <2>1 DEF SetHost, Replace, Distinct
<1>8. ASSUME NEW ips \in SUBSET Address, Hold(ips) PROVE Distinct(nodes')
  BY <1>3, <1>8 DEF Hold
<1>9. Distinct(nodes')
  BY <1>4, <1>5, <1>6, <1>7, <1>8 DEF Environment
<1> QED
  BY <1>2, <1>9 DEF ContentInv, Distinct

LEMMA ConfigContent ==
  ASSUME TypeInv, ContentInv, NEW w \in Writer, UpdateLoadBalancerConfig(w) \/ Fail(w)
  PROVE  ContentInv'
<1>1. writer \in [Writer -> Call] /\ writer[w] \in Call /\ Spares(writer[w])
  BY DEF TypeInv, TypeOK, ContentInv, SparesInv
<1>2. UNCHANGED nodes
  BY DEF UpdateLoadBalancerConfig, WriteCRs, Lock, FindClusterIPs, EndLoop, DeletePeer,
         WritePeer, DeletePool, WritePool, DeleteAdvert, WriteAdvert, Annotate,
         AnnotateError, Return, Fail, Round, world
<1>3. ASSUME SparesInv', PoolInv' PROVE ContentInv'
  BY <1>2, <1>3 DEF ContentInv, Distinct
<1>4. ASSUME UNCHANGED pools PROVE PoolInv'
  BY <1>4 DEF ContentInv, PoolInv
<1>5. ASSUME Unlock(w), UNCHANGED pools PROVE ContentInv'
  BY <1>3, <1>4, <1>5, UnlockSpares
<1>6. ASSUME UNCHANGED pools, Spares(writer'[w]),
             \A v \in Writer \ {w} : writer'[v] = writer[v]
      PROVE  ContentInv'
  BY <1>1, <1>3, <1>4, <1>6, SetSpares DEF ContentInv
<1>7. CASE Lock(w)
  <2>1. /\ writer'[w].step = "find_ips" /\ writer'[w].nodes = writer[w].nodes
        /\ \A v \in Writer \ {w} : writer'[v] = writer[v]
    BY <1>1, <1>7 DEF Lock, Call
  <2>2. Spares(writer'[w])
    BY <1>1, <2>1 DEF Spares
  <2> QED
    BY <1>6, <1>7, <2>1, <2>2 DEF Lock, crs
<1>8. CASE FindClusterIPs(w)
  <2>1. CASE Labelled(writer[w].nodes)
    <3>1. /\ writer'[w].step = "delete_peers" /\ writer'[w].nodes = writer[w].nodes
          /\ writer'[w].todo = Todo(w, "delete_peers")
          /\ \A v \in Writer \ {w} : writer'[v] = writer[v]
      BY <1>1, <1>8, <2>1 DEF FindClusterIPs, Call
    <3>2. Spares(writer'[w])
      BY <1>1, <3>1, TodoSpares DEF Spares
    <3> QED
      BY <1>6, <1>8, <3>1, <3>2 DEF FindClusterIPs, crs
  <2>2. CASE ~Labelled(writer[w].nodes)
    BY <1>5, <1>8, <2>2 DEF FindClusterIPs, crs
  <2> QED
    BY <2>1, <2>2
<1>9. CASE EndLoop(w)
  <2> DEFINE next == NextStep(writer[w].step)
  <2>1. /\ writer'[w].step = next /\ writer'[w].nodes = writer[w].nodes
        /\ writer'[w].ips = writer[w].ips /\ writer'[w].todo = Todo(w, next)
        /\ \A v \in Writer \ {w} : writer'[v] = writer[v]
    BY <1>1, <1>9 DEF EndLoop, Call
  <2> HIDE DEF next
  <2>2. Spares(writer'[w])
    BY <1>1, <2>1, TodoSpares DEF Spares
  <2> QED
    BY <1>6, <1>9, <2>1, <2>2 DEF EndLoop, crs
<1>10. CASE DeletePeer(w) \/ WritePeer(w) \/ WriteAdvert(w) \/ Annotate(w)
  BY <1>3, <1>4, <1>10, RoundSpares DEF DeletePeer, WritePeer, WriteAdvert, Annotate
<1>11. CASE DeletePool(w)
  <2>1. PoolInv'
    BY <1>11 DEF DeletePool, ContentInv, PoolInv
  <2> QED
    BY <1>3, <1>11, <2>1, RoundSpares DEF DeletePool
<1>12. CASE WritePool(w)
  <2>1. \A p \in Pools(w) : \A a \in p.cidrs : PoolOf[a] = p.name
    BY DEF Pools, computeAddressPools
  <2>2. PoolInv'
    BY <1>12, <2>1 DEF WritePool, ContentInv, PoolInv
  <2> QED
    BY <1>3, <1>12, <2>2, RoundSpares DEF WritePool
<1>13. CASE DeleteAdvert(w)
  BY <1>1, <1>6, <1>13 DEF DeleteAdvert
<1>14. CASE AnnotateError(w) \/ Return(w) \/ Fail(w)
  BY <1>5, <1>14 DEF AnnotateError, Return, Fail, crs
<1> QED
  BY <1>7, <1>8, <1>9, <1>10, <1>11, <1>12, <1>13, <1>14
     DEF UpdateLoadBalancerConfig, WriteCRs

LEMMA NextContent == TypeInv /\ ContentInv /\ [Next]_vars => ContentInv'
<1> SUFFICES ASSUME TypeInv, ContentInv, [Next]_vars PROVE ContentInv'
  OBVIOUS
<1>1. ASSUME UNCHANGED <<nodes, pools>>, SparesInv' PROVE ContentInv'
  BY <1>1 DEF ContentInv, PoolInv, Distinct
<1>2. CASE UNCHANGED vars
  BY <1>1, <1>2 DEF vars, ContentInv, SparesInv, Spares, Distinct, ASNs, Names,
                   computePeers, computeAddressPools
<1>3. CASE Tick \/ NodeUpdated
  BY <1>1, <1>3, BeginSpares DEF Tick, NodeUpdated, Begin, Writer, world, crs
<1>4. ASSUME NEW w \in Worker, ServiceSync(w) PROVE ContentInv'
  BY <1>1, <1>4, BeginSpares DEF ServiceSync, Begin, Writer, world, crs
<1>5. CASE Crash
  <2>1. SparesInv'
    BY <1>5, IdleSpares DEF Crash, SparesInv
  <2> QED
    BY <1>1, <1>5, <2>1 DEF Crash, crs
<1> QED
  BY <1>2, <1>3, <1>4, <1>5, ConfigContent, EnvironmentContent DEF Next, Callers

LEMMA Content == Spec => []ContentInv
<1>1. Init /\ [][Next]_vars /\ []TypeInv => []ContentInv
  BY InitContent, NextContent, PTL
<1> QED
  BY <1>1, TypeCorrect, PTL DEF Spec

-----------------------------------------------------------------------------
(* Rewriting does not interrupt.                                           *)

(* Peers and pools are changed by the holder of the mutex only. *)
LEMMA WhoWrites ==
  ASSUME TypeInv, MutualExclusion, [Next]_vars, ~UNCHANGED <<peers, pools>>
  PROVE  \E w \in Writer : /\ lock = w
                           /\ \/ DeletePeer(w) \/ WritePeer(w)
                              \/ DeletePool(w) \/ WritePool(w)
<1>1. PICK w \in Writer : UpdateLoadBalancerConfig(w)
  BY DEF vars, Next, Callers, Tick, NodeUpdated, ServiceSync, Begin, Environment, Join, Leave,
         LabelNode, SetHost, Hold, Change, Crash, Fail, crs
<1>2. DeletePeer(w) \/ WritePeer(w) \/ DeletePool(w) \/ WritePool(w)
  BY <1>1 DEF UpdateLoadBalancerConfig, WriteCRs, Lock, FindClusterIPs, EndLoop,
              DeleteAdvert, WriteAdvert, Annotate, AnnotateError, Return, crs
<1>3. writer[w].step \in Section
  BY <1>2, StepValues DEF DeletePeer, WritePeer, DeletePool, WritePool, Round
<1> QED
  BY <1>2, <1>3 DEF MutualExclusion

(* A peer the call wants is not deleted, and is written as it is. *)
LEMMA PeersKept ==
  ASSUME TypeInv, ContentInv, NEW w \in Writer, DeletePeer(w) \/ WritePeer(w)
  PROVE  peers \cap Peers(w) \subseteq peers'
<1>1. Spares(writer[w])
  BY DEF ContentInv, SparesInv
<1>2. CASE DeletePeer(w)
  <2>1. PICK p \in peers : Round(w, "delete_peers", p) /\ peers' = peers \ {p}
    BY <1>2 DEF DeletePeer
  <2>2. p \notin Peers(w)
    BY <1>1, <2>1 DEF Spares, Round, ASNs, Peers
  <2> QED
    BY <2>1, <2>2
<1>3. CASE WritePeer(w)
  <2>1. PICK p \in Peers(w) : /\ Round(w, "write_peers", p)
                              /\ peers' = {q \in peers : q.asn # p.asn} \cup {p}
    BY <1>3 DEF WritePeer
  <2>2. Labelled(writer[w].nodes)
    BY <2>1, StepValues DEF Round, TypeInv, CallInv, WellFormed
  <2>3. \A q \in Peers(w) : q.asn = p.asn => q = p
    BY <1>1, <2>2 DEF Spares, Distinct, Peers, computePeers, Labelled
  <2> QED
    BY <2>1, <2>3
<1> QED
  BY <1>2, <1>3

(* An address the call has found stays announced: its pool is not deleted, *)
(* and is written with it.                                                 *)
LEMMA PoolsKept ==
  ASSUME TypeInv, ContentInv, NEW w \in Writer, DeletePool(w) \/ WritePool(w),
         NEW a \in Announced(pools), a \in writer[w].ips
  PROVE  a \in Announced(pools')
<1>1. Spares(writer[w]) /\ pools \subseteq AddressPool
  BY DEF ContentInv, SparesInv, TypeInv, TypeOK
<1>2. PICK q \in pools : a \in q.cidrs
  BY DEF Announced
<1>3. PoolOf[a] = q.name /\ q.name # None
  BY <1>1, <1>2 DEF ContentInv, PoolInv, AddressPool
<1> DEFINE r == [name |-> q.name, cidrs |-> {b \in writer[w].ips : PoolOf[b] = q.name}]
<1>4. r \in Pools(w) /\ a \in r.cidrs
  BY <1>3 DEF Pools, computeAddressPools
<1>5. \A p \in Pools(w) : p.name = q.name => p = r
  BY DEF Pools, computeAddressPools
<1>6. q.name \in Names(Pools(w))
  BY <1>4 DEF Names
<1> HIDE DEF r
<1>7. CASE DeletePool(w)
  <2>1. PICK p \in pools : Round(w, "delete_pools", p) /\ pools' = pools \ {p}
    BY <1>7 DEF DeletePool
  <2>2. p # q
    BY <1>1, <1>6, <2>1 DEF Spares, Round, Pools
  <2> QED
    BY <1>2, <2>1, <2>2 DEF Announced
<1>8. CASE WritePool(w)
  <2>1. PICK p \in Pools(w) : pools' = {x \in pools : x.name # p.name} \cup {p}
    BY <1>8 DEF WritePool
  <2>2. CASE p.name # q.name
    BY <1>2, <2>1, <2>2 DEF Announced
  <2>3. CASE p.name = q.name
    BY <1>4, <1>5, <2>1, <2>3 DEF Announced
  <2> QED
    BY <2>2, <2>3
<1> QED
  BY <1>7, <1>8

LEMMA WantedIsFound ==
  ASSUME NEW w PROVE Announced(Pools(w)) \subseteq writer[w].ips
BY DEF Announced, Pools, computeAddressPools

LEMMA OneAtATime ==
  ASSUME NEW w
  PROVE  /\ DeletePeer(w) \/ WritePeer(w) => UNCHANGED pools
         /\ DeletePool(w) \/ WritePool(w) => UNCHANGED peers
BY DEF DeletePeer, WritePeer, DeletePool, WritePool

LEMMA StepUndisturbed ==
  ASSUME TypeInv, MutualExclusion, ContentInv, [Next]_vars,
         NEW w \in Writer, writer[w].step \in Loop
  PROVE  /\ peers \cap Peers(w) \subseteq peers'
         /\ Announced(pools) \cap Announced(Pools(w)) \subseteq Announced(pools')
<1>1. CASE UNCHANGED <<peers, pools>>
  BY <1>1 DEF Announced
<1>2. CASE ~UNCHANGED <<peers, pools>>
  <2>1. lock = w
    BY StepValues DEF MutualExclusion
  <2>2. DeletePeer(w) \/ WritePeer(w) \/ DeletePool(w) \/ WritePool(w)
    BY <1>2, <2>1, WhoWrites
  <2>3. CASE DeletePeer(w) \/ WritePeer(w)
    BY <2>3, PeersKept, OneAtATime DEF Announced
  <2>4. CASE DeletePool(w) \/ WritePool(w)
    BY <2>4, PoolsKept, WantedIsFound, OneAtATime
  <2> QED
    BY <2>2, <2>3, <2>4
<1> QED
  BY <1>1, <1>2

LEMMA StepWithdrawn ==
  ASSUME TypeInv, MutualExclusion, ContentInv, [Next]_vars,
         NEW a \in Announced(pools) \ Announced(pools')
  PROVE  \E w \in Writer : /\ lock = w /\ writer[w].step \in Loop
                         /\ a \notin writer[w].ips
<1>1. ~UNCHANGED pools
  BY DEF Announced
<1>2. PICK w \in Writer : /\ lock = w
                          /\ \/ DeletePeer(w) \/ WritePeer(w)
                             \/ DeletePool(w) \/ WritePool(w)
  BY <1>1, WhoWrites
<1>3. DeletePool(w) \/ WritePool(w)
  BY <1>1, <1>2, OneAtATime
<1>4. writer[w].step \in Loop
  BY <1>3 DEF DeletePool, WritePool, Round, Loop
<1> QED
  BY <1>2, <1>3, <1>4, PoolsKept

(* While a call of UpdateLoadBalancerConfig writes, no step of anybody     *)
(* takes away a peer or an announced address that is part of what it       *)
(* writes: the deletes go by name and come before the writes, which        *)
(* replace by name (config/metallb_config.go:39, cilium_config.go:62).      *)
THEOREM UndisturbedHolds == Spec => Undisturbed
<1>1. TypeInv /\ MutualExclusion /\ ContentInv /\ [Next]_vars =>
        [\A w \in Writer : writer[w].step \in Loop =>
           /\ peers \cap Peers(w) \subseteq peers'
           /\ Announced(pools) \cap Announced(Pools(w)) \subseteq Announced(pools')]_vars
  BY StepUndisturbed
<1> QED
  BY <1>1, TypeCorrect, MutualExclusionHolds, Content, PTL DEF Spec, Undisturbed

LEMMA NextWithdrawn ==
  TypeInv /\ MutualExclusion /\ ContentInv /\ [Next]_vars =>
    \A a \in Announced(pools) \ Announced(pools') :
      \E w \in Writer : /\ lock = w /\ writer[w].step \in Loop
                      /\ a \notin writer[w].ips
BY StepWithdrawn

(* An address that is no longer announced was withdrawn by a call that did *)
(* not find it among the cluster's (metal/ip.go:19).                       *)
THEOREM WithdrawnIsFreeHolds == Spec => WithdrawnIsFree
<1>1. TypeInv /\ MutualExclusion /\ ContentInv /\ [Next]_vars =>
        [\A a \in Announced(pools) \ Announced(pools') :
           \E w \in Writer : lock = w /\ a \notin writer[w].ips]_vars
  BY NextWithdrawn
<1> QED
  BY <1>1, TypeCorrect, MutualExclusionHolds, Content, PTL DEF Spec, WithdrawnIsFree

=============================================================================
