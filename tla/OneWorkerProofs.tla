--------------------------- MODULE OneWorkerProofs ---------------------------
(***************************************************************************)
(* What LoadBalancer guarantees in the default deployment: one cluster in  *)
(* the project, and one service worker (concurrent-service-syncs = 1).     *)
(* The properties here are about tag lists that are read, worked on and    *)
(* written back; they hold because nobody else writes in between, which is *)
(* what the invariant says step by step: at most one sync runs (Alone),    *)
(* and what it has read is still so (SnapshotCurrent, FoundCovers).        *)
(***************************************************************************)
EXTENDS LoadBalancerProofs, FiniteSetTheorems

OneWorker == /\ Workers = 1
             /\ \A s, t \in Service : ClusterOf[s] = ClusterOf[t]

Alone == \A s, t \in Service : job[s].step # "idle" /\ job[t].step # "idle" => s = t

FreeHasNoTags == \A a \in Address : ip[a].type = "free" => ip[a].tags = {}

(* The fixed address still is as FindProjectIP found it. *)
SnapshotCurrent(s) ==
  job[s].step \in {"find_tagged", "remove", "use"} /\ job[s].addr # None =>
    /\ ip[job[s].addr] = job[s].snap
    /\ Exists(job[s].addr)

(* Every address that has the tag is still to be dealt with, and what is   *)
(* to be dealt with names all services that address has.                   *)
FoundCovers(s) ==
  job[s].step = "remove" =>
    \A a \in Address :
      /\ s \in ip[a].tags /\ a # job[s].addr => job[s].found[a] # Free
      /\ job[s].found[a] # Free =>
           /\ a # job[s].addr
           /\ (ip[a].tags \cap Service) \ {s} \subseteq job[s].found[a].tags

AcquiredIsOwn(s) ==
  /\ job[s].step \in {"get_service", "put_service", "config", "clear_tags"} =>
       ip[job[s].addr] = [type |-> "ephemeral", tags |-> {s}]
  /\ job[s].step = "free_ip" =>
       ip[job[s].addr] = [type |-> "ephemeral", tags |-> {}]

Holds(s) == job[s].step = "patch" => s \in ip[job[s].addr].tags

Released(s) ==
  job[s].step = "cleanup" /\ GetLoadBalancer(job[s].obj) =>
    \A a \in Address : s \notin ip[a].tags

Facts(s) == SnapshotCurrent(s) /\ FoundCovers(s) /\ AcquiredIsOwn(s)
            /\ Holds(s) /\ Released(s)

OneInv == /\ TypeInv /\ OneWorker /\ Alone /\ FreeHasNoTags
          /\ \A s \in Service : Facts(s)

-----------------------------------------------------------------------------
(* A step of the sync that runs: the others are idle, and stay so.         *)

Acts(s) == /\ job[s].step # "idle"
           /\ \A t \in Service \ {s} : job'[t] = job[t]

LEMMA IdleFacts ==
  ASSUME NEW s \in Service, job[s].step = "idle" PROVE Facts(s)
BY DEF Facts, SnapshotCurrent, FoundCovers, AcquiredIsOwn, Holds, Released

LEMMA IdleFactsNext ==
  ASSUME NEW s \in Service, job'[s].step = "idle" PROVE Facts(s)'
BY DEF Facts, SnapshotCurrent, FoundCovers, AcquiredIsOwn, Holds, Released

LEMMA InitOne == OneWorker /\ Init => OneInv
<1> SUFFICES ASSUME OneWorker, Init PROVE OneInv
  OBVIOUS
<1>1. TypeInv
  BY InitType
<1>2. \A s \in Service : job[s].step = "idle"
  BY DEF Init, Idle
<1>3. FreeHasNoTags
  BY InventoryAssumption DEF Init, FreeHasNoTags
<1> QED
  BY <1>1, <1>2, <1>3, IdleFacts DEF OneInv, Alone

LEMMA ActsOne ==
  ASSUME OneInv, TypeInv', NEW s \in Service, Acts(s), FreeHasNoTags', Facts(s)'
  PROVE  OneInv'
<1>1. \A t \in Service \ {s} : job'[t].step = "idle"
  BY DEF OneInv, Alone, Acts
<1>2. Alone'
  BY <1>1 DEF Alone
<1>3. \A t \in Service : Facts(t)'
  BY <1>1, IdleFactsNext
<1>4. OneWorker'
  BY DEF OneInv, OneWorker
<1> QED
  BY <1>2, <1>3, <1>4 DEF OneInv

LEMMA EndsOne ==
  ASSUME OneInv, TypeInv', NEW s \in Service, job[s].step # "idle",
         job' = [job EXCEPT ![s] = Idle], FreeHasNoTags'
  PROVE  OneInv'
<1>1. job'[s].step = "idle" /\ Acts(s)
  BY DEF Acts, Idle, OneInv, TypeInv, TypeOK
<1> QED
  BY <1>1, IdleFactsNext, ActsOne

(* What the facts speak of stays the same. *)
LEMMA SameOne ==
  ASSUME OneInv, TypeInv', UNCHANGED ip,
         \A t \in Service : /\ job'[t].step = job[t].step
                            /\ job'[t].addr = job[t].addr
                            /\ job'[t].snap = job[t].snap
                            /\ job'[t].found = job[t].found
                            /\ job'[t].obj = job[t].obj
  PROVE  OneInv'
<1>1. ASSUME NEW t \in Service PROVE Facts(t)'
  <2>1. Facts(t)
    BY DEF OneInv
  <2> QED
    BY <2>1 DEF Facts, SnapshotCurrent, FoundCovers, AcquiredIsOwn, Holds,
                Released, Exists, GetLoadBalancer
<1>2. Alone' /\ FreeHasNoTags' /\ OneWorker'
  BY DEF OneInv, Alone, FreeHasNoTags, OneWorker
<1> QED
  BY <1>1, <1>2 DEF OneInv

LEMMA CallKeepsFree ==
  ASSUME TypeOK, FreeHasNoTags, NEW a \in Address, NEW tags \in SUBSET Tag,
         ip' \in {ip, UpdateIP(a, tags), FreeIP(a)}
  PROVE  FreeHasNoTags'
BY DEF FreeHasNoTags, UpdateIP, FreeIP, Exists, Free, TypeOK, IP

(* The parts of OneInv most steps need. *)
LEMMA OneParts ==
  ASSUME OneInv, NEW s \in Service
  PROVE  /\ job \in [Service -> Job] /\ job[s] \in Job
         /\ ip \in [Address -> IP]
         /\ job[s].step \in AddressStep => job[s].addr \in Address
         /\ TypeInv /\ TypeOK /\ FreeHasNoTags /\ Facts(s)
BY DEF OneInv, TypeInv, TypeOK, AddressKnown

-----------------------------------------------------------------------------
(* The actions.                                                            *)

LEMMA NobodySyncs ==
  ASSUME OneInv, NEW s \in Service, Cardinality(Syncing(ClusterOf[s])) < Workers
  PROVE  \A t \in Service : job[t].step = "idle"
<1> SUFFICES ASSUME NEW t \in Service, job[t].step # "idle" PROVE FALSE
  OBVIOUS
<1>1. Syncing(ClusterOf[s]) = {t}
  BY DEF Syncing, OneInv, Alone, OneWorker
<1> QED
  BY <1>1, FS_Singleton DEF OneInv, OneWorker

LEMMA StartSyncOne ==
  ASSUME OneInv, TypeInv', NEW s \in Service, StartSync(s) PROVE OneInv'
<1>1. \A t \in Service : job[t].step = "idle"
  BY NobodySyncs DEF StartSync
<1> DEFINE j == [Idle EXCEPT !.step = Entry(view[s]), !.obj = view[s],
                             !.addr = IF view[s].life = "live" THEN view[s].spec
                                                               ELSE None]
<1>2. UNCHANGED ip /\ job' = [job EXCEPT ![s] = j]
  BY DEF StartSync
<1>3. job'[s].step = Entry(view[s]) /\ job'[s].obj = view[s]
  BY <1>2 DEF OneInv, TypeInv, TypeOK, Idle
<1>4. \A t \in Service \ {s} : job'[t].step = "idle"
  BY <1>1, <1>2 DEF OneInv, TypeInv, TypeOK
<1>5. /\ Entry(view[s]) \in {"lock_update", "cleanup", "lock_allocate"}
      /\ Entry(view[s]) = "cleanup" => ~GetLoadBalancer(view[s])
  BY DEF Entry
<1>6. Facts(s)'
  BY <1>3, <1>5 DEF Facts, SnapshotCurrent, FoundCovers, AcquiredIsOwn, Holds, Released
<1>7. \A t \in Service : Facts(t)'
  BY <1>4, <1>6, IdleFactsNext
<1>8. Alone' /\ FreeHasNoTags' /\ OneWorker'
  BY <1>2, <1>4 DEF Alone, FreeHasNoTags, OneWorker, OneInv
<1> QED
  BY <1>7, <1>8 DEF OneInv

LEMMA LockUpdateOne ==
  ASSUME OneInv, TypeInv', NEW s \in Service, LockUpdate(s) PROVE OneInv'
<1> DEFINE next == IF job[s].addr = None THEN "find_tagged" ELSE "find_fixed"
<1>1. /\ job' = [job EXCEPT ![s].step = next]
      /\ UNCHANGED ip /\ job[s].step = "lock_update"
  BY DEF LockUpdate
<1>2. job'[s].step = next /\ job'[s].addr = job[s].addr /\ Acts(s)
  BY <1>1, OneParts DEF Acts, Job
<1>3. Facts(s)'
  BY <1>2 DEF Facts, SnapshotCurrent, FoundCovers, AcquiredIsOwn, Holds, Released
<1>4. FreeHasNoTags'
  BY <1>1 DEF OneInv, FreeHasNoTags
<1> QED
  BY <1>2, <1>3, <1>4, ActsOne

LEMMA FindProjectIPOne ==
  ASSUME OneInv, TypeInv', NEW s \in Service, FindProjectIP(s) PROVE OneInv'
<1>1. job[s].step = "find_fixed" /\ UNCHANGED ip
  BY DEF FindProjectIP
<1>2. FreeHasNoTags'
  BY <1>1 DEF OneInv, FreeHasNoTags
<1>3. CASE ReturnError(s)
  BY <1>1, <1>2, <1>3, EndsOne DEF ReturnError
<1>4. CASE /\ Exists(job[s].addr)
           /\ job' = [job EXCEPT ![s].step = "find_tagged", ![s].snap = ip[job[s].addr]]
  <2>1. /\ job'[s].step = "find_tagged" /\ job'[s].addr = job[s].addr
        /\ job'[s].snap = ip[job[s].addr] /\ Acts(s)
    BY <1>1, <1>4, OneParts DEF Acts, Job
  <2>2. Facts(s)'
    BY <1>1, <1>4, <2>1 DEF Facts, SnapshotCurrent, FoundCovers, AcquiredIsOwn, Holds,
                            Released, Exists
  <2> QED
    BY <1>2, <2>1, <2>2, ActsOne
<1> QED
  BY <1>3, <1>4, Zenon DEF FindProjectIP

LEMMA FindProjectIPsWithTagOne ==
  ASSUME OneInv, TypeInv', NEW s \in Service, FindProjectIPsWithTag(s) PROVE OneInv'
<1> DEFINE f == [a \in Address |-> IF s \in ip[a].tags /\ a # job[s].addr
                                   THEN ip[a] ELSE Free]
<1>1. job[s].step = "find_tagged" /\ UNCHANGED ip
  BY DEF FindProjectIPsWithTag
<1>2. FreeHasNoTags'
  BY <1>1 DEF OneInv, FreeHasNoTags
<1>3. CASE ReturnError(s)
  BY <1>1, <1>2, <1>3, EndsOne DEF ReturnError
<1>4. CASE job' = [job EXCEPT ![s].step = "remove", ![s].found = f]
  <2>1. /\ job'[s].step = "remove" /\ job'[s].addr = job[s].addr
        /\ job'[s].snap = job[s].snap /\ job'[s].found = f /\ Acts(s)
    BY <1>1, <1>4, OneParts DEF Acts, Job
  <2>2. SnapshotCurrent(s)'
    BY <1>1, <2>1, OneParts DEF Facts, SnapshotCurrent, Exists
  <2>3. FoundCovers(s)'
    BY <1>1, <2>1 DEF FoundCovers, Free
  <2>4. Facts(s)'
    BY <2>1, <2>2, <2>3 DEF Facts, AcquiredIsOwn, Holds, Released
  <2> QED
    BY <1>2, <2>1, <2>4, ActsOne
<1> QED
  BY <1>3, <1>4, Zenon DEF FindProjectIPsWithTag

(* One attempt to take the tag from an address.  It is not skipped later:  *)
(* as long as something is to be done for it, found[a] is not Free.        *)
LEMMA RemoveServiceTagOne ==
  ASSUME OneInv, TypeInv', NEW s \in Service, NEW a \in Address, RemoveServiceTag(s, a)
  PROVE  OneInv'
<1> DEFINE unused == job[s].found[a].type = "ephemeral" /\ WithoutTag(s, a) = {}
           after == IF unused THEN FreeIP(a) ELSE UpdateIP(a, WithoutTag(s, a))
<1>1. /\ job[s].step = "remove" /\ job[s].found[a] # Free
      /\ job[s].found \in [Address -> IP]
      /\ WithoutTag(s, a) \in SUBSET Tag /\ s \notin WithoutTag(s, a)
  BY OneParts DEF RemoveServiceTag, WithoutTag, Job, IP
<1>2. ip' \in {ip, after}
  BY DEF RemoveServiceTag, Works, Fails, Fault
<1>3. FreeHasNoTags'
  BY <1>1, <1>2, CallKeepsFree, OneParts
<1>4. /\ SnapshotCurrent(s) /\ FoundCovers(s) /\ a # job[s].addr
      /\ (ip[a].tags \cap Service) \ {s} \subseteq WithoutTag(s, a)
  BY <1>1, OneParts DEF Facts, FoundCovers, WithoutTag
<1>5. /\ \A b \in Address \ {a} : ip'[b] = ip[b]
      /\ ip'[a].tags \in {ip[a].tags, {}, WithoutTag(s, a)}
  BY <1>2, OneParts DEF FreeIP, UpdateIP, Free, IP
<1>6. CASE ReturnError(s)
  BY <1>1, <1>3, <1>6, EndsOne DEF ReturnError
<1>7. CASE job' = [job EXCEPT ![s].found[a] = Free, ![s].tries = 0] /\ Works(a, after)
  <2>1. /\ job'[s].step = "remove" /\ job'[s].addr = job[s].addr
        /\ job'[s].snap = job[s].snap /\ Acts(s)
        /\ job'[s].found = [job[s].found EXCEPT ![a] = Free]
    BY <1>1, <1>7, OneParts DEF Acts, Job
  <2>2. s \notin ip'[a].tags
    BY <1>1, <1>7, OneParts DEF Works, FreeIP, UpdateIP, Free, IP
  <2>3. FoundCovers(s)'
    BY <1>1, <1>4, <1>5, <2>1, <2>2 DEF FoundCovers
  <2>4. SnapshotCurrent(s)'
    BY <1>1, <1>4, <1>5, <2>1, OneParts DEF SnapshotCurrent, Exists, Job
  <2>5. Facts(s)'
    BY <2>1, <2>3, <2>4 DEF Facts, AcquiredIsOwn, Holds, Released
  <2> QED
    BY <1>3, <2>1, <2>5, ActsOne
<1>8. CASE job' = [job EXCEPT ![s].found[a] = AfterAttempt(s, a), ![s].tries = @ + 1]
  <2> DEFINE left == AfterAttempt(s, a)
  <2>1. /\ job'[s].step = "remove" /\ job'[s].addr = job[s].addr
        /\ job'[s].snap = job[s].snap /\ Acts(s)
        /\ job'[s].found = [job[s].found EXCEPT ![a] = left]
    BY <1>1, <1>8, OneParts DEF Acts, Job
  <2>2. WithoutTag(s, a) \subseteq left.tags /\ left # Free
    BY <1>1 DEF AfterAttempt, WithoutTag, Free, IP
  <2>3. FoundCovers(s)'
    BY <1>1, <1>4, <1>5, <2>1, <2>2 DEF FoundCovers
  <2>4. SnapshotCurrent(s)'
    BY <1>1, <1>4, <1>5, <2>1, OneParts DEF SnapshotCurrent, Exists, Job
  <2>5. Facts(s)'
    BY <2>1, <2>3, <2>4 DEF Facts, AcquiredIsOwn, Holds, Released
  <2> QED
    BY <1>3, <2>1, <2>5, ActsOne
<1> QED
  BY <1>6, <1>7, <1>8, Zenon DEF RemoveServiceTag

(* Nothing is left to do: no address but the fixed one has the tag.        *)
LEMMA EndRemoveOne ==
  ASSUME OneInv, TypeInv', NEW s \in Service, EndRemove(s) PROVE OneInv'
<1>1. /\ job[s].step = "remove" /\ UNCHANGED ip
      /\ \A a \in Address : job[s].found[a] = Free
  BY DEF EndRemove, Nothing
<1>2. FreeHasNoTags' /\ SnapshotCurrent(s) /\ FoundCovers(s)
  BY <1>1, OneParts DEF Facts, FreeHasNoTags
<1>3. CASE job[s].addr = None /\ ReturnNil(s, "cleanup")
  <2>1. job'[s].step = "cleanup" /\ Acts(s)
    BY <1>1, <1>3, OneParts DEF ReturnNil, Idle, Acts
  <2>2. \A a \in Address : s \notin ip'[a].tags
    BY <1>1, <1>2, <1>3, NoneAssumption DEF FoundCovers
  <2>3. Facts(s)'
    BY <2>1, <2>2 DEF Facts, SnapshotCurrent, FoundCovers, AcquiredIsOwn, Holds, Released
  <2> QED
    BY <1>2, <2>1, <2>3, ActsOne
<1>4. CASE job[s].addr # None /\ GoOn(s, "use")
  <2>1. /\ job'[s].step = "use" /\ job'[s].addr = job[s].addr
        /\ job'[s].snap = job[s].snap /\ Acts(s)
    BY <1>1, <1>4, OneParts DEF GoOn, Acts, Job
  <2>2. Facts(s)'
    BY <1>1, <1>2, <2>1 DEF Facts, SnapshotCurrent, Exists, FoundCovers, AcquiredIsOwn,
                            Holds, Released
  <2> QED
    BY <1>2, <2>1, <2>2, ActsOne
<1> QED
  BY <1>3, <1>4 DEF EndRemove

LEMMA UseIPInClusterOne ==
  ASSUME OneInv, TypeInv', NEW s \in Service, UseIPInCluster(s) PROVE OneInv'
<1> DEFINE a == job[s].addr
           tags == job[s].snap.tags \cup {s}
<1>1. /\ job[s].step = "use" /\ a \in Address /\ tags \in SUBSET Tag
  BY OneParts DEF UseIPInCluster, AddressStep, UpdateSection, Job, IP, Tag
<1>2. ip' \in {ip, UpdateIP(a, tags)}
  BY DEF UseIPInCluster, Works, Fails, Fault
<1>3. FreeHasNoTags'
  BY <1>1, <1>2, CallKeepsFree, OneParts
<1>4. CASE ReturnError(s)
  BY <1>1, <1>3, <1>4, EndsOne DEF ReturnError
<1>5. CASE Works(a, UpdateIP(a, tags)) /\ ReturnNil(s, "patch")
  <2>1. job'[s].step = "patch" /\ job'[s].addr = a /\ Acts(s)
    BY <1>1, <1>5, OneParts DEF ReturnNil, Idle, Acts
  <2>2. s \in ip'[a].tags
    BY <1>1, <1>5, OneParts DEF Works, UpdateIP, IP
  <2>3. Facts(s)'
    BY <2>1, <2>2 DEF Facts, SnapshotCurrent, FoundCovers, AcquiredIsOwn, Holds, Released
  <2> QED
    BY <1>3, <2>1, <2>3, ActsOne
<1> QED
  BY <1>4, <1>5, Zenon DEF UseIPInCluster

LEMMA LockAllocateOne ==
  ASSUME OneInv, TypeInv', NEW s \in Service, LockAllocate(s) PROVE OneInv'
<1>1. job[s].step = "lock_allocate" /\ UNCHANGED ip /\ FreeHasNoTags'
  BY OneParts DEF LockAllocate, FreeHasNoTags
<1>2. CASE job' = [job EXCEPT ![s] = Idle]
  BY <1>1, <1>2, EndsOne
<1>3. CASE job' = [job EXCEPT ![s].step = "acquire"]
  <2>1. job'[s].step = "acquire" /\ Acts(s)
    BY <1>1, <1>3, OneParts DEF Acts, Job
  <2>2. Facts(s)'
    BY <2>1 DEF Facts, SnapshotCurrent, FoundCovers, AcquiredIsOwn, Holds, Released
  <2> QED
    BY <1>1, <2>1, <2>2, ActsOne
<1> QED
  BY <1>2, <1>3 DEF LockAllocate

LEMMA AcquireIPOne ==
  ASSUME OneInv, TypeInv', NEW s \in Service, AcquireIP(s) PROVE OneInv'
<1>1. job[s].step = "acquire"
  BY DEF AcquireIP
<1>2. FreeHasNoTags'
  <2>1. \/ ip' = ip
        \/ \E a \in Address : ip' = [ip EXCEPT ![a] = [type |-> "ephemeral", tags |-> {s}]]
    BY Zenon DEF AcquireIP
  <2> QED
    BY <2>1, OneParts DEF FreeHasNoTags
<1>3. CASE ReturnError(s)
  BY <1>1, <1>2, <1>3, EndsOne DEF ReturnError
<1>4. ASSUME NEW a \in Address,
             ip' = [ip EXCEPT ![a] = [type |-> "ephemeral", tags |-> {s}]],
             job' = [job EXCEPT ![s].addr = a, ![s].step = "get_service"]
      PROVE  OneInv'
  <2>1. job'[s].step = "get_service" /\ job'[s].addr = a /\ Acts(s)
    BY <1>1, <1>4, OneParts DEF Acts, Job
  <2>2. ip'[a] = [type |-> "ephemeral", tags |-> {s}]
    BY <1>4, OneParts
  <2>3. Facts(s)'
    BY <2>1, <2>2 DEF Facts, SnapshotCurrent, FoundCovers, AcquiredIsOwn, Holds, Released
  <2> QED
    BY <1>2, <2>1, <2>3, ActsOne
<1> QED
  BY <1>3, <1>4, Zenon DEF AcquireIP

OwnStep == {"get_service", "put_service", "config", "clear_tags"}

(* From the acquired address to the rollback nothing changes it. *)
LEMMA GoesOnOne ==
  ASSUME OneInv, TypeInv', UNCHANGED ip, NEW s \in Service,
         job[s].step \in OwnStep, job'[s].step \in OwnStep,
         job'[s].addr = job[s].addr, Acts(s)
  PROVE  OneInv'
<1>1. Facts(s)'
  BY OneParts DEF OwnStep, Facts, SnapshotCurrent, FoundCovers, AcquiredIsOwn, Holds, Released
<1>2. FreeHasNoTags'
  BY OneParts DEF FreeHasNoTags
<1> QED
  BY <1>1, <1>2, ActsOne

LEMMA GetServiceOne ==
  ASSUME OneInv, TypeInv', NEW s \in Service, GetService(s) PROVE OneInv'
<1>1. /\ job[s].step = "get_service" /\ UNCHANGED ip
      /\ job'[s].step \in OwnStep /\ job'[s].addr = job[s].addr /\ Acts(s)
  BY OneParts DEF GetService, OwnStep, Acts, Job
<1> QED
  BY <1>1, GoesOnOne DEF OwnStep

LEMMA UpdateServiceOne ==
  ASSUME OneInv, TypeInv', NEW s \in Service, UpdateService(s) PROVE OneInv'
<1>1. /\ job[s].step = "put_service" /\ UNCHANGED ip
      /\ job'[s].step \in OwnStep /\ job'[s].addr = job[s].addr /\ Acts(s)
  BY OneParts DEF UpdateService, OwnStep, Acts, Job
<1> QED
  BY <1>1, GoesOnOne DEF OwnStep

LEMMA UpdateLoadBalancerConfigOne ==
  ASSUME OneInv, TypeInv', NEW s \in Service, UpdateLoadBalancerConfig(s) PROVE OneInv'
<1>1. job[s].step = "config" /\ UNCHANGED ip /\ AcquiredIsOwn(s) /\ FreeHasNoTags'
  BY OneParts DEF UpdateLoadBalancerConfig, FreeHasNoTags, Facts
<1>2. CASE ReturnNil(s, "patch")
  <2>1. job'[s].step = "patch" /\ job'[s].addr = job[s].addr /\ Acts(s)
    BY <1>1, <1>2, OneParts DEF ReturnNil, Idle, Acts
  <2>2. Facts(s)'
    BY <1>1, <2>1 DEF Facts, SnapshotCurrent, FoundCovers, AcquiredIsOwn, Holds, Released
  <2> QED
    BY <1>1, <2>1, <2>2, ActsOne
<1>3. CASE GoOn(s, "clear_tags")
  <2>1. job'[s].step = "clear_tags" /\ job'[s].addr = job[s].addr /\ Acts(s)
    BY <1>1, <1>3, OneParts DEF GoOn, Acts, Job
  <2> QED
    BY <1>1, <2>1, GoesOnOne DEF OwnStep
<1> QED
  BY <1>2, <1>3 DEF UpdateLoadBalancerConfig

LEMMA RollbackTagsOne ==
  ASSUME OneInv, TypeInv', NEW s \in Service, RollbackTags(s) PROVE OneInv'
<1> DEFINE a == job[s].addr
<1>1. job[s].step = "clear_tags" /\ a \in Address /\ AcquiredIsOwn(s)
  BY OneParts DEF RollbackTags, AddressStep, Facts, AllocateSection
<1>2. ip' \in {ip, UpdateIP(a, {})}
  BY DEF RollbackTags, Works, Fails, Fault
<1>3. FreeHasNoTags'
  BY <1>1, <1>2, CallKeepsFree, OneParts
<1>4. CASE ReturnError(s)
  BY <1>1, <1>3, <1>4, EndsOne DEF ReturnError
<1>5. CASE Works(a, UpdateIP(a, {})) /\ GoOn(s, "free_ip")
  <2>1. job'[s].step = "free_ip" /\ job'[s].addr = a /\ Acts(s)
    BY <1>1, <1>5, OneParts DEF GoOn, Acts, Job
  <2>2. ip'[a] = [type |-> "ephemeral", tags |-> {}]
    <3>1. ip' = [ip EXCEPT ![a].tags = {}]
      BY <1>5 DEF Works, UpdateIP
    <3>2. ip[a].type = "ephemeral" /\ ip[a].tags = {s}
      BY <1>1 DEF AcquiredIsOwn
    <3> QED
      BY <1>1, <3>1, <3>2, OneParts DEF IP
  <2>3. Facts(s)'
    BY <2>1, <2>2 DEF Facts, SnapshotCurrent, FoundCovers, AcquiredIsOwn, Holds, Released
  <2> QED
    BY <1>3, <2>1, <2>3, ActsOne
<1> QED
  BY <1>4, <1>5, Zenon DEF RollbackTags

LEMMA RollbackFreeOne ==
  ASSUME OneInv, TypeInv', NEW s \in Service, RollbackFree(s) PROVE OneInv'
<1> DEFINE a == job[s].addr
<1>1. job[s].step = "free_ip" /\ a \in Address
  BY OneParts DEF RollbackFree, AddressStep, AllocateSection
<1>2. ip' \in {ip, FreeIP(a)}
  BY DEF RollbackFree, Works, Fails, Fault
<1>3. FreeHasNoTags'
  BY <1>1, <1>2, CallKeepsFree, OneParts
<1> QED
  BY <1>1, <1>3, EndsOne DEF RollbackFree, ReturnError

LEMMA FinishOne ==
  ASSUME OneInv, TypeInv', NEW s \in Service, PatchStatus(s) \/ RemoveFinalizer(s)
  PROVE  OneInv'
<1>1. job[s].step # "idle" /\ UNCHANGED ip /\ job' = [job EXCEPT ![s] = Idle]
  BY DEF PatchStatus, RemoveFinalizer
<1>2. FreeHasNoTags'
  BY <1>1, OneParts DEF FreeHasNoTags
<1> QED
  BY <1>1, <1>2, EndsOne

LEMMA UserOne ==
  ASSUME OneInv, TypeInv', NEW s \in Service, Observe(s) \/ User(s) PROVE OneInv'
<1>1. CASE Observe(s)
  BY <1>1, SameOne DEF Observe
<1>2. CASE User(s)
  <2>1. UNCHANGED ip /\ job' = [job EXCEPT ![s].fresh = FALSE]
    BY <1>2 DEF User, CreateService, PinAddress, DeleteService, Edit
  <2>2. \A t \in Service : /\ job'[t].step = job[t].step
                           /\ job'[t].addr = job[t].addr
                           /\ job'[t].snap = job[t].snap
                           /\ job'[t].found = job[t].found
                           /\ job'[t].obj = job[t].obj
    BY <2>1, OneParts DEF Job
  <2> QED
    BY <2>1, <2>2, SameOne
<1> QED
  BY <1>1, <1>2

(* All services are of the one cluster: no sync survives. *)
LEMMA CrashOne ==
  ASSUME OneInv, TypeInv', NEW c \in Cluster, Crash(c) PROVE OneInv'
<1>1. PICK s \in Service : ClusterOf[s] = c
  BY DEF Crash, Syncing
<1>2. \A t \in Service : job'[t].step = "idle"
  BY <1>1 DEF Crash, OneInv, OneWorker, Idle
<1>3. Alone' /\ FreeHasNoTags' /\ OneWorker' /\ \A t \in Service : Facts(t)'
  BY <1>2, IdleFactsNext DEF Crash, Alone, OneInv, OneWorker, FreeHasNoTags
<1> QED
  BY <1>3 DEF OneInv

(* Somebody else takes an address nobody has: none a sync works on. *)
LEMMA AllocateElsewhereOne ==
  ASSUME OneInv, TypeInv', NEW a \in Address, AllocateElsewhere(a) PROVE OneInv'
<1>1. /\ ~Exists(a) /\ UNCHANGED job /\ ip \in [Address -> IP]
      /\ \A b \in Address \ {a} : ip'[b] = ip[b]
      /\ ip'[a].type # "free" /\ ip'[a].tags \cap Service = {}
  BY TagAssumption DEF AllocateElsewhere, OneInv, TypeInv, TypeOK
<1>2. FreeHasNoTags'
  BY <1>1 DEF OneInv, FreeHasNoTags
<1>3. ASSUME NEW s \in Service PROVE Facts(s)'
  <2>1. /\ SnapshotCurrent(s) /\ FoundCovers(s) /\ AcquiredIsOwn(s)
        /\ Holds(s) /\ Released(s) /\ FreeHasNoTags
        /\ job[s].step \in AddressStep => job[s].addr \in Address
        /\ job[s].addr \in Address \cup {None}
    BY OneParts DEF Facts, Job
  <2>2. SnapshotCurrent(s)'
    BY <1>1, <2>1 DEF SnapshotCurrent, Exists
  <2>3. FoundCovers(s)'
    BY <1>1, <2>1 DEF FoundCovers
  <2>4. AcquiredIsOwn(s)'
    BY <1>1, <2>1 DEF AcquiredIsOwn, Exists, AddressStep, AllocateSection
  <2>5. Holds(s)'
    BY <1>1, <2>1 DEF Holds, FreeHasNoTags, Exists, AddressStep
  <2>6. Released(s)'
    BY <1>1, <2>1 DEF Released, GetLoadBalancer
  <2> QED
    BY <2>2, <2>3, <2>4, <2>5, <2>6 DEF Facts
<1> QED
  BY <1>1, <1>2, <1>3 DEF OneInv, Alone, OneWorker

-----------------------------------------------------------------------------

LEMMA NextOne == OneInv /\ TypeInv' /\ [Next]_vars => OneInv'
<1> SUFFICES ASSUME OneInv, TypeInv', [Next]_vars PROVE OneInv'
  OBVIOUS
<1>1. ASSUME NEW s \in Service, StartSync(s) PROVE OneInv'
  BY <1>1, StartSyncOne
<1>2. ASSUME NEW s \in Service, Ensure(s) PROVE OneInv'
  BY <1>2, LockUpdateOne, FindProjectIPOne, FindProjectIPsWithTagOne,
     RemoveServiceTagOne, EndRemoveOne, UseIPInClusterOne, LockAllocateOne,
     AcquireIPOne, GetServiceOne, UpdateServiceOne, UpdateLoadBalancerConfigOne,
     RollbackTagsOne, RollbackFreeOne DEF Ensure
<1>3. ASSUME NEW s \in Service, PatchStatus(s) \/ RemoveFinalizer(s) PROVE OneInv'
  BY <1>3, FinishOne
<1>4. ASSUME NEW s \in Service, Observe(s) \/ User(s) PROVE OneInv'
  BY <1>4, UserOne
<1>5. ASSUME NEW c \in Cluster, Crash(c) PROVE OneInv'
  BY <1>5, CrashOne
<1>6. ASSUME NEW a \in Address, AllocateElsewhere(a) PROVE OneInv'
  BY <1>6, AllocateElsewhereOne
<1>7. CASE UNCHANGED vars
  BY <1>7, SameOne DEF vars
<1> QED
  BY <1>1, <1>2, <1>3, <1>4, <1>5, <1>6, <1>7 DEF Next, Sync

(* The default deployment keeps the books: what a sync knows of the        *)
(* addresses it is about to change is true.                                *)
THEOREM OneInvHolds == OneWorker /\ Spec => []OneInv
<1>1. OneInv /\ TypeInv' /\ [Next]_vars => OneInv'
  BY NextOne
<1> QED
  BY <1>1, InitOne, TypeCorrect, PTL DEF Spec

(* With one worker, a sync that is about to publish an address holds it:   *)
(* nobody has taken its tag away, or the address, since it was written.    *)
THEOREM PublishedIsHeldHolds == OneWorker /\ Spec => []PublishedIsHeld
<1>1. OneInv => PublishedIsHeld
  BY DEF OneInv, Facts, Holds, PublishedIsHeld
<1> QED
  BY <1>1, OneInvHolds, PTL

(* With one worker, no address is held for a service whose load balancer   *)
(* EnsureLoadBalancerDeleted has reported as deleted.                      *)
THEOREM DeletedIsReleasedHolds == OneWorker /\ Spec => []DeletedIsReleased
<1>1. OneInv => DeletedIsReleased
  BY DEF OneInv, Facts, Released, DeletedIsReleased
<1> QED
  BY <1>1, OneInvHolds, PTL

-----------------------------------------------------------------------------
(* No sync loses the tag of another: each of the three ways to overwrite a *)
(* list of tags, or to free an address, keeps or never meets other tags.   *)

OwnTagStep == \A a \in Address, s \in Service :
                s \in ip[a].tags \ ip'[a].tags => job'[s] # job[s]

LEMMA OwnTagRemove ==
  ASSUME OneInv, NEW t \in Service, NEW b \in Address, RemoveServiceTag(t, b)
  PROVE  OwnTagStep
<1> DEFINE unused == job[t].found[b].type = "ephemeral" /\ WithoutTag(t, b) = {}
           after == IF unused THEN FreeIP(b) ELSE UpdateIP(b, WithoutTag(t, b))
<1>1. /\ job[t].step = "remove" /\ job[t].found[b] # Free
      /\ (ip[b].tags \cap Service) \ {t} \subseteq WithoutTag(t, b)
  BY OneParts DEF RemoveServiceTag, Facts, FoundCovers, WithoutTag
<1>2. ip' \in {ip, after}
  BY DEF RemoveServiceTag, Works, Fails, Fault
<1>3. \A a \in Address, s \in Service \ {t} : s \in ip[a].tags => s \in ip'[a].tags
  BY <1>1, <1>2, OneParts DEF FreeIP, UpdateIP, Free, IP
<1>4. job'[t] # job[t]
  <2>1. CASE ReturnError(t)
    BY <1>1, <2>1, OneParts DEF ReturnError, Idle, Job
  <2>2. CASE job' = [job EXCEPT ![t].found[b] = Free, ![t].tries = 0]
    <3>1. job'[t].found[b] = Free
      BY <2>2, OneParts DEF Job
    <3> QED
      BY <1>1, <3>1
  <2>3. CASE job' = [job EXCEPT ![t].found[b] = AfterAttempt(t, b), ![t].tries = @ + 1]
    <3>1. job'[t].tries = job[t].tries + 1 /\ job[t].tries \in Nat
      BY <2>3, OneParts DEF Job
    <3> QED
      BY <3>1
  <2> QED
    BY <2>1, <2>2, <2>3, Zenon DEF RemoveServiceTag
<1> QED
  BY <1>3, <1>4 DEF OwnTagStep

(* A step of sync t that ends it or moves it on. *)
LEMMA OwnTagMoves ==
  ASSUME OneInv, NEW t \in Service, job'[t].step # job[t].step,
         \A a \in Address, s \in Service \ {t} : s \in ip[a].tags => s \in ip'[a].tags
  PROVE  OwnTagStep
BY DEF OwnTagStep

LEMMA OwnTagUse ==
  ASSUME OneInv, NEW t \in Service, UseIPInCluster(t) PROVE OwnTagStep
<1> DEFINE a == job[t].addr
           tags == job[t].snap.tags \cup {t}
<1>1. job[t].step = "use" /\ a \in Address /\ SnapshotCurrent(t)
  BY OneParts DEF UseIPInCluster, AddressStep, Facts
<1>2. ip' \in {ip, UpdateIP(a, tags)}
  BY DEF UseIPInCluster, Works, Fails, Fault
<1>3. ip[a].tags \subseteq tags
  BY <1>1, NoneAssumption DEF SnapshotCurrent
<1>4. \A b \in Address : ip[b].tags \subseteq ip'[b].tags
  BY <1>1, <1>2, <1>3, OneParts DEF UpdateIP, IP
<1>5. job'[t].step # "use"
  <2>1. CASE ReturnError(t)
    BY <2>1, OneParts DEF ReturnError, Idle
  <2>2. CASE ReturnNil(t, "patch")
    BY <2>2, OneParts DEF ReturnNil, Idle
  <2> QED
    BY <2>1, <2>2, Zenon DEF UseIPInCluster
<1> QED
  BY <1>1, <1>4, <1>5, OwnTagMoves

LEMMA OwnTagRollback ==
  ASSUME OneInv, NEW t \in Service, RollbackTags(t) \/ RollbackFree(t) PROVE OwnTagStep
<1> DEFINE a == job[t].addr
<1>1. /\ job[t].step \in {"clear_tags", "free_ip"} /\ a \in Address
      /\ AcquiredIsOwn(t)
  BY OneParts DEF RollbackTags, RollbackFree, AddressStep, Facts
<1>2. ip' \in {ip, UpdateIP(a, {}), FreeIP(a)}
  BY DEF RollbackTags, RollbackFree, Works, Fails, Fault
<1>3. ip[a].tags \subseteq {t}
  BY <1>1 DEF AcquiredIsOwn
<1>4. \A b \in Address, s \in Service \ {t} : s \in ip[b].tags => s \in ip'[b].tags
  BY <1>1, <1>2, <1>3, OneParts DEF UpdateIP, FreeIP, Free, IP
<1>5. job'[t].step # job[t].step
  <2>1. CASE ReturnError(t)
    BY <1>1, <2>1, OneParts DEF ReturnError, Idle
  <2>2. CASE job[t].step = "clear_tags" /\ GoOn(t, "free_ip")
    BY <2>2, OneParts DEF GoOn, Job
  <2> QED
    BY <2>1, <2>2, Zenon DEF RollbackTags, RollbackFree
<1> QED
  BY <1>4, <1>5, OwnTagMoves

LEMMA OwnTagNext == OneInv /\ [Next]_vars => OwnTagStep
<1> SUFFICES ASSUME OneInv, [Next]_vars PROVE OwnTagStep
  OBVIOUS
<1>1. CASE UNCHANGED ip
  BY <1>1 DEF OwnTagStep
<1>2. ASSUME NEW t \in Service, Sync(t) PROVE OwnTagStep
  <2>1. CASE AcquireIP(t)
    <3>1. \/ UNCHANGED ip
          \/ \E a \in Address : /\ ~Exists(a)
                                /\ ip' = [ip EXCEPT ![a] = [type |-> "ephemeral",
                                                            tags |-> {t}]]
      BY <2>1, Zenon DEF AcquireIP
    <3> QED
      BY <1>1, <3>1, OneParts DEF OwnTagStep, FreeHasNoTags, Exists
  <2>2. CASE \E a \in Address : RemoveServiceTag(t, a)
    BY <2>2, OwnTagRemove
  <2>3. CASE UseIPInCluster(t) \/ RollbackTags(t) \/ RollbackFree(t)
    BY <2>3, OwnTagUse, OwnTagRollback
  <2>4. CASE \/ LockUpdate(t) \/ FindProjectIP(t) \/ FindProjectIPsWithTag(t)
             \/ EndRemove(t) \/ LockAllocate(t) \/ GetService(t) \/ UpdateService(t)
             \/ UpdateLoadBalancerConfig(t) \/ PatchStatus(t) \/ RemoveFinalizer(t)
    BY <1>1, <2>4 DEF LockUpdate, FindProjectIP, FindProjectIPsWithTag, EndRemove,
       LockAllocate, GetService, UpdateService, UpdateLoadBalancerConfig, PatchStatus,
       RemoveFinalizer
  <2> QED
    BY <1>2, <2>1, <2>2, <2>3, <2>4, Zenon DEF Sync, Ensure
<1>3. ASSUME NEW t \in Service, StartSync(t) \/ Observe(t) \/ User(t) PROVE OwnTagStep
  BY <1>1, <1>3 DEF StartSync, Observe, User, CreateService, PinAddress, DeleteService,
     Edit
<1>4. ASSUME NEW c \in Cluster, Crash(c) PROVE OwnTagStep
  BY <1>1, <1>4 DEF Crash
<1>5. ASSUME NEW a \in Address, AllocateElsewhere(a) PROVE OwnTagStep
  BY <1>5 DEF AllocateElsewhere, OwnTagStep, FreeHasNoTags, OneInv, TypeInv, TypeOK, Exists
<1>6. CASE UNCHANGED vars
  BY <1>1, <1>6 DEF vars
<1> QED
  BY <1>2, <1>3, <1>4, <1>5, <1>6, Zenon DEF Next

(* With one worker, a service loses its tag on an address by a step of its *)
(* own sync only: reading a list of tags, working on it and writing it     *)
(* back never drops what another service has added.                        *)
THEOREM OwnTagOnlyHolds == OneWorker /\ Spec => OwnTagOnly
<1>1. OneInv /\ [Next]_vars =>
        [\A a \in Address, s \in Service :
           s \in ip[a].tags \ ip'[a].tags => job'[s] # job[s]]_vars
  BY OwnTagNext DEF OwnTagStep
<1> QED
  BY <1>1, OneInvHolds, PTL DEF Spec, OwnTagOnly
=============================================================================
