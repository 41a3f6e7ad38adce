---------------------------- MODULE WorkersProofs ----------------------------
(***************************************************************************)
(* What LoadBalancer guarantees with any number of service workers         *)
(* (concurrent-service-syncs above its default of 1) in one cluster.       *)
(*                                                                         *)
(* The two mutexes keep apart the syncs that take tags from addresses or   *)
(* use fixed ones, and the syncs that acquire addresses; nothing keeps one *)
(* of the first kind from one of the second.  The rollback of the second   *)
(* kind is where they meet: it clears all tags of its address, "because    *)
(* here we know that we freshly acquired a new IP that's not used for      *)
(* anything else" (loadbalancer.go:162).  The code does not see to that,   *)
(* and RollbackClearsOwn is false.  RollbackAlone says that it is so; the  *)
(* lemmas show that WorkersInv is kept by every step in a state where it   *)
(* is and where FreeIP is answered truthfully, whatever else fails, is     *)
(* lost, repeated, or dies.  The theorems are about the deployments in     *)
(* which RollbackAlone is an invariant: those where nothing is rolled back *)
(* (NeverRolledBack), and those with one worker.                           *)
(***************************************************************************)
EXTENDS OneWorkerProofs

OneCluster == \A s, t \in Service : ClusterOf[s] = ClusterOf[t]

FreesAnswered == "free" \notin MayFail

(* What a rollback frees is used by nobody else, and nobody is about to.   *)
RollbackAlone ==
  \A s \in Service :
    job[s].step \in {"clear_tags", "free_ip"} =>
      /\ ip[job[s].addr].tags \subseteq {s}
      /\ \A t \in Service \ {s} :
           job[t].step \in UpdateSection =>
             job[t].addr # job[s].addr /\ job[t].found[job[s].addr] = Free

(* An address is either for services or for something else. *)
Apart == \A a \in Address : \/ ip[a].tags \cap Service = {}
                            \/ ip[a].tags \cap Reserved = {}

(* What is to be dealt with exists, is of the type it was read with, and   *)
(* is nobody's but services'; what was read names no other services than   *)
(* it has, and if the service is its last user, so it was read.            *)
FoundOurs(s) ==
  job[s].step = "remove" =>
    \A a \in Address : job[s].found[a] # Free =>
      /\ Exists(a) /\ ip[a].type = job[s].found[a].type
      /\ (ip[a].tags \cup job[s].found[a].tags) \cap Reserved = {}
      /\ (job[s].found[a].tags \cap Service) \ {s} \subseteq ip[a].tags
      /\ ip[a].type = "ephemeral" /\ ip[a].tags = {s} => job[s].found[a].tags = {s}

(* Others may use an address as soon as it is acquired. *)
Acquired(s) ==
  /\ job[s].step \in OwnStep =>
       ip[job[s].addr].type = "ephemeral" /\ s \in ip[job[s].addr].tags
  /\ job[s].step = "free_ip" => ip[job[s].addr].type = "ephemeral"

SyncFacts(s) == /\ SnapshotCurrent(s) /\ FoundCovers(s) /\ FoundOurs(s)
                /\ Acquired(s) /\ Holds(s) /\ Released(s)

WorkersInv == /\ LockInv /\ OneCluster /\ FreesAnswered /\ FreeHasNoTags /\ Apart
              /\ \A s \in Service : SyncFacts(s)

LEMMA WorkersParts ==
  ASSUME WorkersInv, NEW s \in Service
  PROVE  /\ job \in [Service -> Job] /\ job[s] \in Job
         /\ ip \in [Address -> IP]
         /\ job[s].step \in AddressStep => job[s].addr \in Address
         /\ TypeInv /\ TypeOK /\ FreeHasNoTags /\ Apart /\ FreesAnswered /\ SyncFacts(s)
BY DEF WorkersInv, LockInv, TypeInv, TypeOK, AddressKnown

(* The sections two syncs cannot be in at once. *)
LEMMA Exclusive ==
  ASSUME WorkersInv, NEW s \in Service, NEW t \in Service, s # t
  PROVE  /\ ~(job[s].step \in UpdateSection /\ job[t].step \in UpdateSection)
         /\ ~(job[s].step \in AllocateSection /\ job[t].step \in AllocateSection)
BY DEF WorkersInv, LockInv, LockDiscipline, OneCluster

-----------------------------------------------------------------------------
(* What a step of a sync does to an address.                               *)

Becomes(a, type, tags) == ip' = [ip EXCEPT ![a] = [type |-> type, tags |-> tags]]

Takes(s, a) == /\ job[s].step = "acquire" /\ ~Exists(a)
               /\ Becomes(a, "ephemeral", {s})

Uses(s, a) == /\ job[s].step = "use" /\ Exists(a)
              /\ ip[a].tags \cap Reserved = {}
              /\ Becomes(a, ip[a].type, ip[a].tags \cup {s})

TakenElsewhere(a) == /\ ~Exists(a) /\ UNCHANGED job
             /\ \/ Becomes(a, "static", {})
                \/ \E t \in Reserved : Becomes(a, "ephemeral", {t})

(* A call for address a, whether its answer arrives or not. *)
Strips(s, a) ==
  /\ job[s].step = "remove" /\ job[s].found[a] # Free
  /\ IF job[s].found[a].type = "ephemeral" /\ WithoutTag(s, a) = {}
     THEN Becomes(a, "free", {}) ELSE Becomes(a, ip[a].type, WithoutTag(s, a))

RollsBack(s, a) ==
  /\ job[s].step \in {"clear_tags", "free_ip"} /\ job[s].addr = a
  /\ ip[a].type = "ephemeral" /\ ip[a].tags \subseteq {s}
  /\ Becomes(a, "ephemeral", {}) \/ Becomes(a, "free", {})

Touch(s, a) == Takes(s, a) \/ Uses(s, a) \/ Strips(s, a) \/ RollsBack(s, a)

Touches ==
  \/ UNCHANGED ip
  \/ \E s \in Service, a \in Address : Touch(s, a)
  \/ \E a \in Address : TakenElsewhere(a)

LEMMA UpdateBecomes ==
  ASSUME TypeOK, NEW a \in Address, NEW tags, Exists(a), ip' = UpdateIP(a, tags)
  PROVE  Becomes(a, ip[a].type, tags)
<1>1. ip[a] \in IP /\ ip' = [ip EXCEPT ![a] = [ip[a] EXCEPT !.tags = tags]]
  BY DEF TypeOK, UpdateIP
<1>2. [ip[a] EXCEPT !.tags = tags] = [type |-> ip[a].type, tags |-> tags]
  BY <1>1 DEF IP
<1> QED
  BY <1>1, <1>2 DEF Becomes

LEMMA FreeBecomes ==
  ASSUME NEW a \in Address, ip' = FreeIP(a) PROVE Becomes(a, "free", {})
BY DEF FreeIP, Becomes, Free

LEMMA FailsOrNot ==
  ASSUME NEW a \in Address, NEW call, NEW after, Exists(a),
         Works(a, after) \/ Fails(a, call, after)
  PROVE  ip' \in {ip, after} /\ (call = "free" /\ FreesAnswered => ip' = after)
BY DEF Works, Fails, Fault, FreesAnswered

LEMMA RemoveTouches ==
  ASSUME WorkersInv, NEW s \in Service, NEW a \in Address, RemoveServiceTag(s, a)
  PROVE  /\ UNCHANGED ip \/ Strips(s, a)
         /\ job[s].found[a].type = "ephemeral" /\ WithoutTag(s, a) = {} =>
              Becomes(a, "free", {})
         /\ \/ ReturnError(s)
            \/ /\ Strips(s, a)
               /\ job' = [job EXCEPT ![s].found[a] = Free, ![s].tries = 0]
            \/ /\ ~(job[s].found[a].type = "ephemeral" /\ WithoutTag(s, a) = {})
               /\ job' = [job EXCEPT ![s].found[a] = AfterAttempt(s, a), ![s].tries = @ + 1]
<1> DEFINE unused == job[s].found[a].type = "ephemeral" /\ WithoutTag(s, a) = {}
           call == IF unused THEN "free" ELSE "update"
           after == IF unused THEN FreeIP(a) ELSE UpdateIP(a, WithoutTag(s, a))
<1>1. /\ TypeOK /\ FreesAnswered /\ Exists(a)
      /\ job[s].step = "remove" /\ job[s].found[a] # Free
  BY WorkersParts DEF SyncFacts, FoundOurs, RemoveServiceTag
<1>2. Works(a, after) \/ Fails(a, call, after)
  BY Zenon DEF RemoveServiceTag
<1>3. ip' \in {ip, after} /\ (call = "free" => ip' = after)
  BY <1>1, <1>2, FailsOrNot
<1>4. \/ ReturnError(s)
      \/ /\ Works(a, after)
         /\ job' = [job EXCEPT ![s].found[a] = Free, ![s].tries = 0]
      \/ /\ Fails(a, call, after)
         /\ job' = [job EXCEPT ![s].found[a] = AfterAttempt(s, a), ![s].tries = @ + 1]
  BY Zenon DEF RemoveServiceTag
<1>5. Fails(a, call, after) => ~unused
  BY <1>1 DEF Fails, Fault, FreesAnswered
<1>6. unused => Becomes(a, "free", {})
  BY <1>3, FreeBecomes
<1>7. ~unused /\ ip' = after => Becomes(a, ip[a].type, WithoutTag(s, a))
  BY <1>1, UpdateBecomes
<1>8. ip' = after => Strips(s, a)
  BY <1>1, <1>6, <1>7 DEF Strips
<1>9. Works(a, after) => ip' = after
  BY DEF Works
<1> QED
  BY <1>3, <1>4, <1>5, <1>6, <1>8, <1>9

LEMMA SyncTouches ==
  ASSUME WorkersInv, RollbackAlone, NEW s \in Service, Sync(s)
  PROVE  UNCHANGED ip \/ \E a \in Address : Touch(s, a)
<1>1. /\ TypeOK /\ SyncFacts(s)
      /\ job[s].step \in AddressStep => job[s].addr \in Address
  BY WorkersParts
<1>2. CASE AcquireIP(s)
  BY <1>2 DEF AcquireIP, Touch, Takes, Becomes
<1>3. ASSUME NEW a \in Address, RemoveServiceTag(s, a)
      PROVE  UNCHANGED ip \/ \E b \in Address : Touch(s, b)
  BY <1>3, RemoveTouches DEF Touch
<1>4. CASE UseIPInCluster(s)
  <2> DEFINE a == job[s].addr
             after == UpdateIP(a, job[s].snap.tags \cup {s})
  <2>1. /\ job[s].step = "use" /\ a \in Address
        /\ ip[a] = job[s].snap /\ Exists(a)
    BY <1>1, <1>4, NoneAssumption DEF UseIPInCluster, AddressStep, SyncFacts, SnapshotCurrent
  <2>2. \/ UNCHANGED ip
        \/ /\ job[s].snap.tags \cap Reserved = {}
           /\ Works(a, after) \/ Fails(a, "update", after)
    BY <1>4, Zenon DEF UseIPInCluster
  <2>3. ip' = after /\ job[s].snap.tags \cap Reserved = {} => Uses(s, a)
    BY <1>1, <2>1, UpdateBecomes DEF Uses
  <2> QED
    BY <2>1, <2>2, <2>3, FailsOrNot DEF Touch
<1>5. CASE RollbackTags(s) \/ RollbackFree(s)
  <2> DEFINE a == job[s].addr
  <2>1. /\ job[s].step \in {"clear_tags", "free_ip"} /\ a \in Address
        /\ ip[a].type = "ephemeral" /\ ip[a].tags \subseteq {s}
    BY <1>1, <1>5 DEF RollbackTags, RollbackFree, AddressStep, SyncFacts, Acquired, OwnStep,
       RollbackAlone
  <2>2. Exists(a)
    BY <2>1 DEF Exists
  <2>3. \/ Works(a, UpdateIP(a, {})) \/ Fails(a, "update", UpdateIP(a, {}))
        \/ Works(a, FreeIP(a)) \/ Fails(a, "free", FreeIP(a))
    BY <1>5, Zenon DEF RollbackTags, RollbackFree
  <2>4. ip' \in {ip, UpdateIP(a, {}), FreeIP(a)}
    BY <2>1, <2>2, <2>3, FailsOrNot
  <2>5. ip' = ip \/ RollsBack(s, a)
    BY <1>1, <2>1, <2>2, <2>4, UpdateBecomes, FreeBecomes DEF RollsBack
  <2> QED
    BY <2>1, <2>5 DEF Touch
<1>6. CASE \/ LockUpdate(s) \/ FindProjectIP(s) \/ FindProjectIPsWithTag(s)
           \/ EndRemove(s) \/ LockAllocate(s) \/ GetService(s) \/ UpdateService(s)
           \/ UpdateLoadBalancerConfig(s) \/ PatchStatus(s) \/ RemoveFinalizer(s)
  BY <1>6 DEF LockUpdate, FindProjectIP, FindProjectIPsWithTag, EndRemove, LockAllocate,
     GetService, UpdateService, UpdateLoadBalancerConfig, PatchStatus, RemoveFinalizer
<1> QED
  BY <1>2, <1>3, <1>4, <1>5, <1>6, Zenon DEF Sync, Ensure

LEMMA NextTouches == WorkersInv /\ RollbackAlone /\ [Next]_vars => Touches
<1> SUFFICES ASSUME WorkersInv, RollbackAlone, [Next]_vars PROVE Touches
  OBVIOUS
<1>1. ASSUME NEW s \in Service, StartSync(s) \/ Observe(s) \/ User(s) PROVE UNCHANGED ip
  BY <1>1 DEF StartSync, Observe, User, CreateService, PinAddress, DeleteService, Edit
<1>2. ASSUME NEW c \in Cluster, Crash(c) PROVE UNCHANGED ip
  BY <1>2 DEF Crash
<1>3. ASSUME NEW a \in Address, AllocateElsewhere(a) PROVE TakenElsewhere(a)
  BY <1>3 DEF AllocateElsewhere, TakenElsewhere, Becomes
<1> QED
  BY <1>1, <1>2, <1>3, SyncTouches DEF Next, vars, Touches

(* Whoever changes an address: only services, or none of them, use it, and *)
(* a free one is not in use.                                               *)
LEMMA BothTouches ==
  ASSUME WorkersInv, Touches PROVE FreeHasNoTags' /\ Apart'
<1>1. /\ Apart /\ FreeHasNoTags /\ ip \in [Address -> IP] /\ Service \cap Reserved = {}
  BY TagAssumption DEF WorkersInv, LockInv, TypeInv, TypeOK
<1> DEFINE Fits(type, tags) == /\ tags \cap Service = {} \/ tags \cap Reserved = {}
                               /\ type = "free" => tags = {}
<1>2. ASSUME NEW a \in Address, NEW type, NEW tags, Fits(type, tags), Becomes(a, type, tags)
      PROVE  FreeHasNoTags' /\ Apart'
  BY <1>1, <1>2 DEF Apart, FreeHasNoTags, Becomes
<1>3. ASSUME NEW s \in Service, NEW a \in Address, Touch(s, a) PROVE FreeHasNoTags' /\ Apart'
  <2>1. CASE Takes(s, a)
    <3>1. Fits("ephemeral", {s})
      BY <1>1
    <3> QED
      BY <1>2, <2>1, <3>1 DEF Takes
  <2>2. CASE Uses(s, a)
    <3>1. Fits(ip[a].type, ip[a].tags \cup {s})
      BY <1>1, <2>2 DEF Uses, Exists
    <3> QED
      BY <1>2, <2>2, <3>1 DEF Uses
  <2>3. CASE Strips(s, a)
    <3>1. Fits(ip[a].type, WithoutTag(s, a)) /\ Fits("free", {})
      BY <2>3, WorkersParts DEF Strips, SyncFacts, FoundOurs, WithoutTag, Exists
    <3> QED
      BY <1>2, <2>3, <3>1 DEF Strips
  <2>4. CASE RollsBack(s, a)
    <3>1. Fits("ephemeral", {}) /\ Fits("free", {})
      OBVIOUS
    <3> QED
      BY <1>2, <2>4, <3>1 DEF RollsBack
  <2> QED
    BY <1>3, <2>1, <2>2, <2>3, <2>4 DEF Touch
<1>4. ASSUME NEW a \in Address, TakenElsewhere(a) PROVE FreeHasNoTags' /\ Apart'
  <2>1. Fits("static", {}) /\ \A t \in Reserved : Fits("ephemeral", {t})
    BY <1>1
  <2> QED
    BY <1>2, <1>4, <2>1 DEF TakenElsewhere
<1>5. CASE UNCHANGED ip
  BY <1>1, <1>5 DEF Apart, FreeHasNoTags
<1> QED
  BY <1>3, <1>4, <1>5 DEF Touches

-----------------------------------------------------------------------------
(* What the sync of t relies on while others act.                          *)

Kept(t) ==
  /\ \A a \in Address : t \in ip'[a].tags <=> t \in ip[a].tags
  /\ \A a \in Address : t \in ip[a].tags \/ (job[t].step = "free_ip" /\ a = job[t].addr)
                          => ip'[a].type = ip[a].type
  /\ job[t].step \in UpdateSection =>
       \A a \in Address : Exists(a) /\ (a = job[t].addr \/ job[t].found[a] # Free)
                            => ip'[a] = ip[a]

(* The parts of job[t] that the facts speak of. *)
SameJob(t) == /\ job'[t].step = job[t].step /\ job'[t].addr = job[t].addr
              /\ job'[t].snap = job[t].snap /\ job'[t].found = job[t].found
              /\ job'[t].obj = job[t].obj

LEMMA KeptFacts ==
  ASSUME WorkersInv, NEW t \in Service, SameJob(t), Kept(t) PROVE SyncFacts(t)'
<1>1. /\ SyncFacts(t)
      /\ job[t].step \in AddressStep => job[t].addr \in Address
      /\ job[t].addr \in Address \cup {None}
  BY WorkersParts DEF Job
<1>2. SnapshotCurrent(t)'
  BY <1>1 DEF SameJob, Kept, SyncFacts, SnapshotCurrent, UpdateSection, Exists
<1>3. ASSUME job[t].step = "remove", NEW a \in Address, job[t].found[a] # Free
      PROVE  ip'[a] = ip[a]
  BY <1>1, <1>3 DEF Kept, SyncFacts, FoundOurs, UpdateSection
<1>4. FoundCovers(t)'
  BY <1>1, <1>3 DEF SameJob, Kept, SyncFacts, FoundCovers
<1>5. FoundOurs(t)'
  BY <1>1, <1>3 DEF SameJob, SyncFacts, FoundOurs, Exists
<1>6. Acquired(t)'
  BY <1>1 DEF SameJob, Kept, SyncFacts, Acquired, OwnStep, AddressStep
<1>7. Holds(t)' /\ Released(t)'
  BY <1>1 DEF SameJob, Kept, SyncFacts, Holds, Released, AddressStep, GetLoadBalancer
<1> QED
  BY <1>2, <1>4, <1>5, <1>6, <1>7 DEF SyncFacts

LEMMA TouchKeeps ==
  ASSUME WorkersInv, RollbackAlone, NEW s \in Service, NEW t \in Service, s # t,
         NEW a \in Address, Touch(s, a)
  PROVE  Kept(t)
<1>1. /\ ip \in [Address -> IP] /\ FreeHasNoTags /\ SyncFacts(s) /\ SyncFacts(t)
      /\ \A b \in Address \ {a} : ip'[b] = ip[b]
  BY WorkersParts DEF Touch, Takes, Uses, Strips, RollsBack, Becomes
<1>2. SUFFICES /\ t \in ip'[a].tags <=> t \in ip[a].tags
               /\ t \in ip[a].tags \/ (job[t].step = "free_ip" /\ a = job[t].addr)
                    => ip'[a].type = ip[a].type
               /\ job[t].step \in UpdateSection =>
                    (Exists(a) /\ (a = job[t].addr \/ job[t].found[a] # Free)
                      => ip'[a] = ip[a])
  BY <1>1 DEF Kept
<1>3. /\ job[t].step = "free_ip" => ip[a].type = "ephemeral" \/ a # job[t].addr
      /\ "free_ip" \in AllocateSection /\ "clear_tags" \in AllocateSection
  BY <1>1 DEF SyncFacts, Acquired, AllocateSection
<1>4. CASE Takes(s, a)
  <2>1. ~Exists(a) /\ ip'[a].tags = {s} /\ ip[a].tags = {}
    BY <1>1, <1>4 DEF Takes, Becomes, Exists, FreeHasNoTags
  <2> QED
    BY <1>3, <2>1 DEF Exists
<1>5. CASE Uses(s, a)
  <2>1. ip'[a].tags = ip[a].tags \cup {s} /\ ip'[a].type = ip[a].type
    BY <1>1, <1>5 DEF Uses, Becomes
  <2>2. job[t].step \notin UpdateSection
    BY <1>5, Exclusive DEF Uses, UpdateSection
  <2> QED
    BY <2>1, <2>2
<1>6. CASE Strips(s, a)
  <2>1. job[s].step = "remove" /\ job[s].found[a] # Free
    BY <1>6 DEF Strips
  <2>2. job[t].step \notin UpdateSection
    BY <2>1, Exclusive DEF UpdateSection
  <2>3. job[t].step = "free_ip" => a # job[t].addr
    BY <2>1 DEF RollbackAlone, UpdateSection
  <2>4. t \in WithoutTag(s, a) <=> t \in ip[a].tags
    BY <1>1, <2>1 DEF SyncFacts, FoundCovers, FoundOurs, WithoutTag
  <2>5. \/ ip'[a].tags = {} /\ WithoutTag(s, a) = {}
        \/ ip'[a].tags = WithoutTag(s, a) /\ ip'[a].type = ip[a].type
    BY <1>1, <1>6 DEF Strips, Becomes
  <2> QED
    BY <2>2, <2>3, <2>4, <2>5
<1>7. CASE RollsBack(s, a)
  <2>1. /\ job[s].step \in {"clear_tags", "free_ip"} /\ job[s].addr = a
        /\ ip[a].tags \subseteq {s} /\ ip'[a].tags = {}
    BY <1>1, <1>7 DEF RollsBack, Becomes
  <2>2. job[t].step # "free_ip"
    BY <1>3, <2>1, Exclusive
  <2>3. job[t].step \in UpdateSection => a # job[t].addr /\ job[t].found[a] = Free
    BY <2>1 DEF RollbackAlone
  <2> QED
    BY <2>1, <2>2, <2>3
<1> QED
  BY <1>4, <1>5, <1>6, <1>7 DEF Touch

LEMMA TakenKeeps ==
  ASSUME WorkersInv, NEW t \in Service, NEW a \in Address, TakenElsewhere(a)
  PROVE  Kept(t)
<1>1. /\ ip \in [Address -> IP] /\ FreeHasNoTags /\ SyncFacts(t)
      /\ \A b \in Address \ {a} : ip'[b] = ip[b]
  BY WorkersParts DEF TakenElsewhere, Becomes
<1>2. ~Exists(a) /\ ip[a].tags = {} /\ t \notin ip'[a].tags
  BY <1>1, TagAssumption DEF TakenElsewhere, Becomes, Exists, FreeHasNoTags
<1>3. job[t].step = "free_ip" => a # job[t].addr
  BY <1>1, <1>2 DEF SyncFacts, Acquired, Exists
<1> QED
  BY <1>1, <1>2, <1>3 DEF Kept

-----------------------------------------------------------------------------
(* What the sync of s relies on after a step of its own.                   *)

(* Where a sync relies on nothing. *)
LEMMA PlainFacts ==
  ASSUME NEW s \in Service,
         job'[s].step \in {"idle", "lock_update", "lock_allocate", "find_fixed", "acquire"}
  PROVE  SyncFacts(s)'
BY DEF SyncFacts, SnapshotCurrent, FoundCovers, FoundOurs, Acquired, OwnStep, Holds, Released

LEMMA EndFacts ==
  ASSUME WorkersInv, NEW s \in Service, job' = [job EXCEPT ![s] = Idle] PROVE SyncFacts(s)'
<1>1. job'[s].step = "idle"
  BY WorkersParts DEF Idle
<1> QED
  BY <1>1, PlainFacts

LEMMA FindFacts ==
  ASSUME WorkersInv, NEW s \in Service,
         LockUpdate(s) \/ FindProjectIP(s) \/ FindProjectIPsWithTag(s)
  PROVE  SyncFacts(s)'
<1> USE WorkersParts
<1>1. CASE LockUpdate(s)
  <2>1. /\ job'[s].step = IF job[s].addr = None THEN "find_tagged" ELSE "find_fixed"
        /\ job'[s].addr = job[s].addr
    BY <1>1 DEF LockUpdate, Job
  <2> QED
    BY <2>1 DEF SyncFacts, SnapshotCurrent, FoundCovers, FoundOurs, Acquired, OwnStep,
                Holds, Released
<1>2. CASE FindProjectIP(s)
  <2>1. CASE ReturnError(s)
    BY <2>1, EndFacts DEF ReturnError
  <2>2. CASE ~ReturnError(s)
    <3>1. /\ Exists(job[s].addr) /\ UNCHANGED ip
          /\ job' = [job EXCEPT ![s].step = "find_tagged", ![s].snap = ip[job[s].addr]]
      BY <1>2, <2>2, Zenon DEF FindProjectIP
    <3>2. /\ job'[s].step = "find_tagged" /\ job'[s].addr = job[s].addr
          /\ job'[s].snap = ip[job[s].addr]
      BY <3>1 DEF Job
    <3> QED
      BY <3>1, <3>2 DEF SyncFacts, SnapshotCurrent, FoundCovers, FoundOurs, Acquired,
                        OwnStep, Holds, Released, Exists
  <2> QED
    BY <2>1, <2>2
<1>3. CASE FindProjectIPsWithTag(s)
  <2> DEFINE f == [a \in Address |-> IF s \in ip[a].tags /\ a # job[s].addr
                                     THEN ip[a] ELSE Free]
  <2>1. CASE ReturnError(s)
    BY <2>1, EndFacts DEF ReturnError
  <2>2. CASE ~ReturnError(s)
    <3>1. /\ job[s].step = "find_tagged" /\ UNCHANGED ip
          /\ job' = [job EXCEPT ![s].step = "remove", ![s].found = f]
      BY <1>3, <2>2, Zenon DEF FindProjectIPsWithTag
    <3>2. /\ job'[s].step = "remove" /\ job'[s].addr = job[s].addr
          /\ job'[s].snap = job[s].snap /\ job'[s].found = f
      BY <3>1 DEF Job
    <3>3. ASSUME NEW a \in Address
          PROVE  /\ s \in ip[a].tags /\ a # job[s].addr => f[a] # Free
                 /\ f[a] # Free => /\ s \in ip[a].tags /\ a # job[s].addr
                                   /\ f[a] = ip[a]
      BY DEF Free
    <3>4. FoundCovers(s)'
      BY <3>1, <3>2, <3>3 DEF FoundCovers
    <3>5. ASSUME NEW a \in Address, s \in ip[a].tags
          PROVE  Exists(a) /\ ip[a].tags \cap Reserved = {}
      BY <3>5 DEF Apart, FreeHasNoTags, Exists
    <3>6. FoundOurs(s)'
      BY <3>1, <3>2, <3>3, <3>5 DEF FoundOurs, Exists
    <3>7. SnapshotCurrent(s)'
      BY <3>1, <3>2 DEF SyncFacts, SnapshotCurrent, Exists
    <3> QED
      BY <3>2, <3>4, <3>6, <3>7 DEF SyncFacts, Acquired, OwnStep, Holds, Released
  <2> QED
    BY <2>1, <2>2
<1> QED
  BY <1>1, <1>2, <1>3

(* One attempt for address a: what is not dealt with is still found, and   *)
(* the list in the caller's hands names whom the address has.              *)
LEMMA RemoveFacts ==
  ASSUME WorkersInv, NEW s \in Service, NEW a \in Address, RemoveServiceTag(s, a)
  PROVE  SyncFacts(s)'
<1>1. /\ job[s].step = "remove" /\ job[s].found[a] # Free
      /\ job[s].found \in [Address -> IP] /\ job[s].found[a] \in IP
      /\ SnapshotCurrent(s) /\ FoundCovers(s) /\ FoundOurs(s)
      /\ ip \in [Address -> IP] /\ ip[a] \in IP /\ job[s] \in Job /\ job \in [Service -> Job]
  BY WorkersParts DEF RemoveServiceTag, SyncFacts, Job
<1>2. /\ UNCHANGED ip \/ Strips(s, a)
      /\ \/ ReturnError(s)
         \/ /\ Strips(s, a)
            /\ job' = [job EXCEPT ![s].found[a] = Free, ![s].tries = 0]
         \/ /\ ~(job[s].found[a].type = "ephemeral" /\ WithoutTag(s, a) = {})
            /\ job' = [job EXCEPT ![s].found[a] = AfterAttempt(s, a), ![s].tries = @ + 1]
  BY RemoveTouches
<1>3. /\ a # job[s].addr
      /\ \A b \in Address \ {a} : ip'[b] = ip[b]
      /\ Strips(s, a) => ip'[a].tags = WithoutTag(s, a)
  <2>1. a # job[s].addr
    BY <1>1 DEF FoundCovers
  <2>2. CASE Strips(s, a)
    BY <1>1, <2>1, <2>2 DEF Strips, Becomes
  <2> QED
    BY <1>2, <2>1, <2>2
<1>4. ASSUME job'[s].addr = job[s].addr, job'[s].snap = job[s].snap
      PROVE  SnapshotCurrent(s)'
  BY <1>1, <1>3, <1>4 DEF SnapshotCurrent, Exists, Job
<1>5. CASE ReturnError(s)
  BY <1>5, EndFacts DEF ReturnError
<1>6. CASE Strips(s, a) /\ job' = [job EXCEPT ![s].found[a] = Free, ![s].tries = 0]
  <2>1. /\ job'[s].step = "remove" /\ job'[s].addr = job[s].addr
        /\ job'[s].snap = job[s].snap
        /\ job'[s].found = [job[s].found EXCEPT ![a] = Free]
    BY <1>1, <1>6 DEF Job
  <2>2. s \notin ip'[a].tags
    BY <1>3, <1>6 DEF WithoutTag
  <2>3. FoundCovers(s)'
    BY <1>1, <1>3, <2>1, <2>2 DEF FoundCovers
  <2>4. FoundOurs(s)'
    BY <1>1, <1>3, <2>1 DEF FoundOurs, Exists
  <2> QED
    BY <1>4, <2>1, <2>3, <2>4 DEF SyncFacts, Acquired, OwnStep, Holds, Released
<1>7. CASE /\ ~(job[s].found[a].type = "ephemeral" /\ WithoutTag(s, a) = {})
           /\ job' = [job EXCEPT ![s].found[a] = AfterAttempt(s, a), ![s].tries = @ + 1]
  <2> DEFINE left == AfterAttempt(s, a)
             found == job[s].found[a]
  <2>1. /\ job'[s].step = "remove" /\ job'[s].addr = job[s].addr
        /\ job'[s].snap = job[s].snap
        /\ job'[s].found = [job[s].found EXCEPT ![a] = left]
    BY <1>1, <1>7 DEF Job
  <2>2. /\ left.type = found.type
        /\ WithoutTag(s, a) \subseteq left.tags
        /\ left.tags \subseteq WithoutTag(s, a) \cup {Blank}
        /\ WithoutTag(s, a) = found.tags \ {s}
    <3>1. found \in IP
      BY <1>1
    <3>2. left.type = found.type
      BY <3>1 DEF AfterAttempt, IP
    <3>3. left.tags = WithoutTag(s, a) \cup (IF s \in found.tags THEN {Blank} ELSE {})
      BY <3>1 DEF AfterAttempt, IP
    <3> QED
      BY <3>2, <3>3 DEF WithoutTag
  <2>3. /\ Exists(a) /\ ip[a].type = found.type
        /\ (ip[a].tags \cup found.tags) \cap Reserved = {}
        /\ (found.tags \cap Service) \ {s} \subseteq ip[a].tags
        /\ ip[a].type = "ephemeral" /\ ip[a].tags = {s} => found.tags = {s}
        /\ (ip[a].tags \cap Service) \ {s} \subseteq found.tags
    BY <1>1 DEF FoundOurs, FoundCovers
  <2>4. ip'[a].type = ip[a].type /\ ip'[a].tags \in {ip[a].tags, WithoutTag(s, a)}
    BY <1>1, <1>2, <1>3, <1>7 DEF Strips, Becomes
  <2>5. /\ job'[s].found[a] = left
        /\ \A b \in Address \ {a} : job'[s].found[b] = job[s].found[b]
    BY <1>1, <2>1
  <2> HIDE DEF left, found
  <2>6. (ip'[a].tags \cap Service) \ {s} \subseteq left.tags
    BY <2>2, <2>3, <2>4
  <2>7. FoundCovers(s)'
    <3>1. left # Free
      BY <2>2, <2>3 DEF Free, Exists
    <3> QED
      BY <1>1, <1>3, <2>1, <2>5, <2>6, <3>1 DEF FoundCovers
  <2>8. /\ ip'[a].type # "free" /\ ip'[a].type = left.type
        /\ (ip'[a].tags \cup left.tags) \cap Reserved = {}
        /\ (left.tags \cap Service) \ {s} \subseteq ip'[a].tags
    BY <2>2, <2>3, <2>4, TagAssumption DEF Exists
  <2>9. ~(ip'[a].type = "ephemeral" /\ ip'[a].tags = {s})
    BY <1>7, <2>2, <2>3, <2>4 DEF found
  <2>10. FoundOurs(s)'
    BY <1>1, <1>3, <2>5, <2>8, <2>9 DEF FoundOurs, Exists
  <2> QED
    BY <1>4, <2>1, <2>7, <2>10 DEF SyncFacts, Acquired, OwnStep, Holds, Released
<1> QED
  BY <1>2, <1>5, <1>6, <1>7

LEMMA UseFacts ==
  ASSUME WorkersInv, NEW s \in Service, EndRemove(s) \/ UseIPInCluster(s)
  PROVE  SyncFacts(s)'
<1> USE WorkersParts
<1>1. CASE EndRemove(s)
  <2>1. /\ job[s].step = "remove" /\ UNCHANGED ip
        /\ SnapshotCurrent(s) /\ FoundCovers(s)
        /\ \A a \in Address : job[s].found[a] = Free
    BY <1>1 DEF EndRemove, Nothing, SyncFacts
  <2>2. CASE job[s].addr = None /\ ReturnNil(s, "cleanup")
    <3>1. job'[s].step = "cleanup"
      BY <2>2 DEF ReturnNil, Idle
    <3>2. \A a \in Address : s \notin ip'[a].tags
      BY <2>1, <2>2, NoneAssumption DEF FoundCovers
    <3> QED
      BY <3>1, <3>2 DEF SyncFacts, SnapshotCurrent, FoundCovers, FoundOurs, Acquired,
                        OwnStep, Holds, Released
  <2>3. CASE GoOn(s, "use")
    <3>1. /\ job'[s].step = "use" /\ job'[s].addr = job[s].addr
          /\ job'[s].snap = job[s].snap
      BY <2>3 DEF GoOn, Job
    <3> QED
      BY <2>1, <3>1 DEF SyncFacts, SnapshotCurrent, Exists, FoundCovers, FoundOurs,
                        Acquired, OwnStep, Holds, Released
  <2> QED
    BY <1>1, <2>2, <2>3 DEF EndRemove
<1>2. CASE UseIPInCluster(s)
  <2> DEFINE a == job[s].addr
             tags == job[s].snap.tags \cup {s}
  <2>1. CASE ReturnError(s)
    BY <2>1, EndFacts DEF ReturnError
  <2>2. CASE Works(a, UpdateIP(a, tags)) /\ ReturnNil(s, "patch")
    <3>1. job'[s].step = "patch" /\ job'[s].addr = a /\ a \in Address
      BY <1>2, <2>2 DEF UseIPInCluster, ReturnNil, Idle, AddressStep, UpdateSection
    <3>2. s \in ip'[a].tags
      BY <2>2, <3>1 DEF Works, UpdateIP, IP
    <3> QED
      BY <3>1, <3>2 DEF SyncFacts, SnapshotCurrent, FoundCovers, FoundOurs, Acquired,
                        OwnStep, Holds, Released
  <2> QED
    BY <1>2, <2>1, <2>2, Zenon DEF UseIPInCluster
<1> QED
  BY <1>1, <1>2

(* From the acquired address to its publication or to the rollback the     *)
(* sync itself does not change it.                                         *)
LEMMA AcquiredFacts ==
  ASSUME WorkersInv, NEW s \in Service, UNCHANGED ip, job[s].step \in OwnStep,
         job'[s].step \in OwnStep \cup {"patch"}, job'[s].addr = job[s].addr
  PROVE  SyncFacts(s)'
BY WorkersParts DEF SyncFacts, SnapshotCurrent, FoundCovers, FoundOurs, Acquired, OwnStep,
   Holds, Released

LEMMA AllocateFacts ==
  ASSUME WorkersInv, NEW s \in Service,
         \/ LockAllocate(s) \/ AcquireIP(s) \/ GetService(s) \/ UpdateService(s)
         \/ UpdateLoadBalancerConfig(s)
  PROVE  SyncFacts(s)'
<1> USE WorkersParts
<1>1. CASE LockAllocate(s)
  <2>1. job' = [job EXCEPT ![s] = Idle] \/ job' = [job EXCEPT ![s].step = "acquire"]
    BY <1>1 DEF LockAllocate
  <2>2. job'[s].step \in {"idle", "acquire"}
    BY <2>1 DEF Idle, Job
  <2> QED
    BY <2>2, PlainFacts
<1>2. CASE AcquireIP(s)
  <2>1. CASE ReturnError(s)
    BY <2>1, EndFacts DEF ReturnError
  <2>2. ASSUME NEW a \in Address,
               ip' = [ip EXCEPT ![a] = [type |-> "ephemeral", tags |-> {s}]],
               job' = [job EXCEPT ![s].addr = a, ![s].step = "get_service"]
        PROVE  SyncFacts(s)'
    <3>1. /\ job'[s].step = "get_service" /\ job'[s].addr = a
          /\ ip'[a] = [type |-> "ephemeral", tags |-> {s}]
      BY <2>2 DEF Job
    <3> QED
      BY <3>1 DEF SyncFacts, SnapshotCurrent, FoundCovers, FoundOurs, Acquired, OwnStep,
                  Holds, Released
  <2> QED
    BY <1>2, <2>1, <2>2, Zenon DEF AcquireIP
<1>3. CASE GetService(s)
  BY <1>3, AcquiredFacts DEF GetService, OwnStep, Job
<1>4. CASE UpdateService(s)
  BY <1>4, AcquiredFacts DEF UpdateService, OwnStep, Job
<1>5. CASE UpdateLoadBalancerConfig(s)
  <2>1. /\ job[s].step = "config" /\ UNCHANGED ip
        /\ ReturnNil(s, "patch") \/ GoOn(s, "clear_tags")
    BY <1>5 DEF UpdateLoadBalancerConfig
  <2>2. CASE ReturnNil(s, "patch")
    <3>1. job'[s].step = "patch" /\ job'[s].addr = job[s].addr
      BY <2>2 DEF ReturnNil, Idle
    <3> QED
      BY <2>1, <3>1, AcquiredFacts DEF OwnStep
  <2>3. CASE GoOn(s, "clear_tags")
    <3>1. job'[s].step = "clear_tags" /\ job'[s].addr = job[s].addr
      BY <2>3 DEF GoOn, Job
    <3> QED
      BY <2>1, <3>1, AcquiredFacts DEF OwnStep
  <2> QED
    BY <2>1, <2>2, <2>3
<1> QED
  BY <1>1, <1>2, <1>3, <1>4, <1>5

LEMMA RollbackFacts ==
  ASSUME WorkersInv, NEW s \in Service, RollbackTags(s) \/ RollbackFree(s)
  PROVE  SyncFacts(s)'
<1> USE WorkersParts
<1> DEFINE a == job[s].addr
<1>1. CASE ReturnError(s)
  BY <1>1, EndFacts DEF ReturnError
<1>2. CASE RollbackTags(s) /\ Works(a, UpdateIP(a, {})) /\ GoOn(s, "free_ip")
  <2>1. job'[s].step = "free_ip" /\ job'[s].addr = a
    BY <1>2 DEF GoOn, Job
  <2>2. a \in Address /\ ip[a].type = "ephemeral"
    BY <1>2 DEF RollbackTags, AddressStep, AllocateSection, SyncFacts, Acquired, OwnStep
  <2>3. ip' = [ip EXCEPT ![a].tags = {}]
    BY <1>2 DEF Works, UpdateIP
  <2>4. ip'[a].type = "ephemeral"
    BY <2>2, <2>3 DEF IP
  <2> QED
    BY <2>1, <2>4 DEF SyncFacts, SnapshotCurrent, FoundCovers, FoundOurs, Acquired, OwnStep,
                      Holds, Released
<1> QED
  BY <1>1, <1>2, Zenon DEF RollbackTags, RollbackFree

LEMMA OwnFacts ==
  ASSUME WorkersInv, NEW s \in Service, Sync(s) PROVE SyncFacts(s)'
<1>1. CASE PatchStatus(s) \/ RemoveFinalizer(s)
  BY <1>1, EndFacts DEF PatchStatus, RemoveFinalizer
<1>2. ASSUME NEW a \in Address, RemoveServiceTag(s, a) PROVE SyncFacts(s)'
  BY <1>2, RemoveFacts
<1>3. CASE \/ LockUpdate(s) \/ FindProjectIP(s) \/ FindProjectIPsWithTag(s)
           \/ EndRemove(s) \/ UseIPInCluster(s)
           \/ LockAllocate(s) \/ AcquireIP(s) \/ GetService(s) \/ UpdateService(s)
           \/ UpdateLoadBalancerConfig(s) \/ RollbackTags(s) \/ RollbackFree(s)
  BY <1>3, FindFacts, UseFacts, AllocateFacts, RollbackFacts
<1> QED
  BY <1>1, <1>2, <1>3, Zenon DEF Sync, Ensure

-----------------------------------------------------------------------------
(* The invariant.                                                          *)

LEMMA QuietFacts ==
  ASSUME WorkersInv, NEW t \in Service, UNCHANGED ip, SameJob(t) PROVE SyncFacts(t)'
<1>1. Kept(t)
  BY DEF Kept
<1> QED
  BY <1>1, KeptFacts

LEMMA NextFacts ==
  ASSUME WorkersInv, RollbackAlone, [Next]_vars, NEW t \in Service PROVE SyncFacts(t)'
<1>1. job \in [Service -> Job] /\ job[t] \in Job /\ TypeInv
  BY WorkersParts
<1>2. ASSUME NEW s \in Service, Sync(s) PROVE SyncFacts(t)'
  <2>1. CASE s = t
    BY <1>2, <2>1, OwnFacts
  <2>2. CASE s # t
    <3>1. SameJob(t)
      BY <1>1, <1>2, <2>2, SyncFlow, TypeInvJob DEF GoesFlow, SameJob
    <3>2. UNCHANGED ip \/ \E a \in Address : Touch(s, a)
      BY <1>2, SyncTouches
    <3> QED
      BY <2>2, <3>1, <3>2, QuietFacts, TouchKeeps, KeptFacts
  <2> QED
    BY <2>1, <2>2
<1>3. ASSUME NEW s \in Service, StartSync(s) PROVE SyncFacts(t)'
  <2>1. CASE s # t
    BY <1>1, <1>3, <2>1, QuietFacts DEF StartSync, SameJob
  <2>2. CASE s = t
    <3>1. job'[t].step = Entry(view[t]) /\ job'[t].obj = view[t]
      BY <1>1, <1>3, <2>2 DEF StartSync, Idle
    <3>2. /\ Entry(view[t]) \in {"lock_update", "cleanup", "lock_allocate"}
          /\ Entry(view[t]) = "cleanup" => ~GetLoadBalancer(view[t])
      BY DEF Entry
    <3> QED
      BY <3>1, <3>2 DEF SyncFacts, SnapshotCurrent, FoundCovers, FoundOurs, Acquired,
                        OwnStep, Holds, Released
  <2> QED
    BY <2>1, <2>2
<1>4. ASSUME NEW s \in Service, Observe(s) \/ User(s) PROVE SyncFacts(t)'
  <2>1. UNCHANGED ip /\ (UNCHANGED job \/ job' = [job EXCEPT ![s].fresh = FALSE])
    BY <1>4 DEF Observe, User, CreateService, PinAddress, DeleteService, Edit
  <2>2. SameJob(t)
    BY <1>1, <2>1 DEF SameJob, Job
  <2> QED
    BY <2>1, <2>2, QuietFacts
<1>5. ASSUME NEW c \in Cluster, Crash(c) PROVE SyncFacts(t)'
  <2>1. UNCHANGED ip /\ (job'[t] = job[t] \/ job'[t].step = "idle")
    BY <1>5 DEF Crash, Idle
  <2> QED
    BY <2>1, QuietFacts, PlainFacts DEF SameJob
<1>6. ASSUME NEW a \in Address, AllocateElsewhere(a) PROVE SyncFacts(t)'
  <2>1. TakenElsewhere(a) /\ SameJob(t)
    BY <1>6 DEF AllocateElsewhere, TakenElsewhere, Becomes, SameJob
  <2> QED
    BY <2>1, TakenKeeps, KeptFacts
<1>7. CASE UNCHANGED vars
  BY <1>7, QuietFacts DEF vars, SameJob
<1> QED
  BY <1>2, <1>3, <1>4, <1>5, <1>6, <1>7, Zenon DEF Next

LEMMA InitWorkers == OneCluster /\ FreesAnswered /\ Init => WorkersInv
<1> SUFFICES ASSUME OneCluster, FreesAnswered, Init PROVE WorkersInv
  OBVIOUS
<1>1. /\ ip = Inventory /\ TypeInv
      /\ \A s \in Service : job[s].step = "idle"
  BY InitType DEF Init, Idle
<1>2. FreeHasNoTags /\ Apart
  BY <1>1, InventoryAssumption DEF FreeHasNoTags, Apart
<1>3. \A s \in Service : SyncFacts(s)
  BY <1>1 DEF SyncFacts, SnapshotCurrent, FoundCovers, FoundOurs, Acquired, OwnStep,
              Holds, Released
<1>4. LockDiscipline
  BY <1>1, Disjoint, ClusterAssumption, NoneAssumption DEF Init, LockDiscipline
<1> QED
  BY <1>1, <1>2, <1>3, <1>4 DEF WorkersInv, LockInv

LEMMA NextWorkers == WorkersInv /\ RollbackAlone /\ [Next]_vars => WorkersInv'
<1> SUFFICES ASSUME WorkersInv, RollbackAlone, [Next]_vars PROVE WorkersInv'
  OBVIOUS
<1>1. LockInv'
  BY NextLocks DEF WorkersInv
<1>2. FreeHasNoTags' /\ Apart'
  BY NextTouches, BothTouches
<1>3. \A t \in Service : SyncFacts(t)'
  BY NextFacts
<1> QED
  BY <1>1, <1>2, <1>3 DEF WorkersInv, OneCluster, FreesAnswered

LEMMA WorkersInvHolds ==
  OneCluster /\ FreesAnswered /\ Spec /\ []RollbackAlone => []WorkersInv
BY InitWorkers, NextWorkers, PTL DEF Spec

-----------------------------------------------------------------------------
(* What a step may do to a tag.                                            *)

(* A step of a sync shows in its local variables. *)
LEMMA SyncMoves ==
  ASSUME TypeInv, NEW s \in Service, Sync(s) PROVE job'[s] # job[s]
<1>1. JobInv /\ GoesFlow(s) /\ job \in [Service -> Job] /\ job[s] \in Job
  BY SyncFlow, TypeInvJob DEF TypeInv, TypeOK
<1>2. CASE job'[s].step # job[s].step
  BY <1>2
<1>3. CASE job'[s].step = job[s].step
  <2>1. job[s].step = "remove"
    BY <1>1, <1>3 DEF GoesFlow, Flow, Idle
  <2>2. \/ EndRemove(s)
        \/ \E a \in Address : RemoveServiceTag(s, a)
    BY <2>1 DEF Sync, Ensure, PatchStatus, RemoveFinalizer, LockUpdate, FindProjectIP,
       FindProjectIPsWithTag, UseIPInCluster, LockAllocate, AcquireIP, GetService,
       UpdateService, UpdateLoadBalancerConfig, RollbackTags, RollbackFree
  <2>3. CASE EndRemove(s)
    <3>1. CASE ReturnNil(s, "cleanup")
      BY <1>1, <1>3, <2>1, <3>1 DEF ReturnNil, Idle
    <3>2. CASE GoOn(s, "use")
      BY <1>1, <1>3, <2>1, <3>2 DEF GoOn, Job
    <3> QED
      BY <2>3, <3>1, <3>2 DEF EndRemove
  <2>4. ASSUME NEW a \in Address, RemoveServiceTag(s, a) PROVE job'[s] # job[s]
    <3>1. /\ job[s].found[a] # Free
          /\ \/ ReturnError(s)
             \/ job' = [job EXCEPT ![s].found[a] = Free, ![s].tries = 0]
             \/ job' = [job EXCEPT ![s].found[a] = AfterAttempt(s, a), ![s].tries = @ + 1]
      BY <2>4, Zenon DEF RemoveServiceTag
    <3>2. ~ReturnError(s)
      BY <1>1, <1>3, <2>1 DEF ReturnError, Idle
    <3>3. CASE job' = [job EXCEPT ![s].found[a] = Free, ![s].tries = 0]
      <4>1. job'[s].found[a] = Free
        BY <1>1, <3>3 DEF Job
      <4> QED
        BY <3>1, <4>1
    <3>4. CASE job' = [job EXCEPT ![s].found[a] = AfterAttempt(s, a), ![s].tries = @ + 1]
      <4>1. job'[s].tries = job[s].tries + 1 /\ job[s].tries \in Nat
        BY <1>1, <3>4 DEF Job
      <4> QED
        BY <4>1
    <3> QED
      BY <3>1, <3>2, <3>3, <3>4
  <2> QED
    BY <2>2, <2>3, <2>4
<1> QED
  BY <1>2, <1>3

LEMMA OwnTagSync ==
  ASSUME WorkersInv, RollbackAlone, [Next]_vars,
         NEW a \in Address, NEW s \in Service, s \in ip[a].tags, s \notin ip'[a].tags
  PROVE  job'[s] # job[s]
<1>1. ASSUME NEW t \in Service, Sync(t) PROVE job'[s] # job[s]
  <2>1. CASE s = t
    BY <1>1, <2>1, SyncMoves, WorkersParts
  <2>2. CASE s # t
    <3>1. UNCHANGED ip \/ Kept(s)
      BY <1>1, <2>2, SyncTouches, TouchKeeps
    <3> QED
      BY <3>1 DEF Kept
  <2> QED
    BY <2>1, <2>2
<1>2. ASSUME NEW t \in Service, StartSync(t) \/ Observe(t) \/ User(t) PROVE UNCHANGED ip
  BY <1>2 DEF StartSync, Observe, User, CreateService, PinAddress, DeleteService, Edit
<1>3. ASSUME NEW c \in Cluster, Crash(c) PROVE UNCHANGED ip
  BY <1>3 DEF Crash
<1>4. ASSUME NEW b \in Address, AllocateElsewhere(b) PROVE Kept(s)
  <2>1. TakenElsewhere(b)
    BY <1>4 DEF AllocateElsewhere, TakenElsewhere, Becomes
  <2> QED
    BY <2>1, TakenKeeps
<1> QED
  BY <1>1, <1>2, <1>3, <1>4 DEF Next, vars, Kept

LEMMA WorkersOwnTagOnly ==
  OneCluster /\ FreesAnswered /\ Spec /\ []RollbackAlone => OwnTagOnly
<1>1. WorkersInv /\ RollbackAlone /\ [Next]_vars =>
        [\A a \in Address, s \in Service :
           s \in ip[a].tags \ ip'[a].tags => job'[s] # job[s]]_vars
  BY OwnTagSync
<1> QED
  BY <1>1, WorkersInvHolds, PTL DEF Spec, OwnTagOnly

LEMMA TouchesForeign ==
  ASSUME WorkersInv, Touches, NEW a \in Address
  PROVE  /\ ip[a].type = "static" => ip'[a].type = "static"
         /\ ip[a].tags \cap Reserved # {} => ip'[a] = ip[a]
<1>1. Apart /\ FreeHasNoTags /\ ip \in [Address -> IP]
  BY DEF WorkersInv, LockInv, TypeInv, TypeOK
<1>2. ASSUME NEW s \in Service, NEW b \in Address, Touch(s, b)
      PROVE  /\ ip[a].type = "static" => ip'[a].type = "static"
             /\ ip[a].tags \cap Reserved # {} => ip'[a] = ip[a]
  <2>1. CASE a # b
    BY <1>1, <1>2, <2>1 DEF Touch, Takes, Uses, Strips, RollsBack, Becomes
  <2>2. CASE a = b
    <3>1. CASE Takes(s, b)
      BY <1>1, <2>2, <3>1 DEF Takes, Becomes, Exists, FreeHasNoTags
    <3>2. CASE Uses(s, b)
      BY <1>1, <2>2, <3>2 DEF Uses, Becomes
    <3>3. CASE Strips(s, b)
      <4>1. /\ ip[a].type = job[s].found[a].type /\ ip[a].tags \cap Reserved = {}
        BY <2>2, <3>3, WorkersParts DEF Strips, SyncFacts, FoundOurs
      <4> QED
        BY <1>1, <2>2, <3>3, <4>1 DEF Strips, Becomes
    <3>4. CASE RollsBack(s, b)
      BY <2>2, <3>4, TagAssumption DEF RollsBack
    <3> QED
      BY <1>2, <3>1, <3>2, <3>3, <3>4 DEF Touch
  <2> QED
    BY <2>1, <2>2
<1>3. ASSUME NEW b \in Address, TakenElsewhere(b)
      PROVE  /\ ip[a].type = "static" => ip'[a].type = "static"
             /\ ip[a].tags \cap Reserved # {} => ip'[a] = ip[a]
  BY <1>1, <1>3 DEF TakenElsewhere, Becomes, Exists, FreeHasNoTags
<1> QED
  BY <1>1, <1>2, <1>3 DEF Touches

LEMMA WorkersKeepForeign ==
  OneCluster /\ FreesAnswered /\ Spec /\ []RollbackAlone => KeepsForeign
<1>1. WorkersInv /\ RollbackAlone /\ [Next]_vars =>
        [\A a \in Address :
           /\ ip[a].type = "static" => ip'[a].type = "static"
           /\ ip[a].tags \cap Reserved # {} => ip'[a] = ip[a]]_vars
  BY NextTouches, TouchesForeign
<1> QED
  BY <1>1, WorkersInvHolds, PTL DEF Spec, KeepsForeign

LEMMA LastTagTouches ==
  ASSUME WorkersInv, RollbackAlone, [Next]_vars, NEW a \in Address, NEW s \in Service,
         job[s].step = "remove", ip[a] = [type |-> "ephemeral", tags |-> {s}]
  PROVE  ip'[a] \in {ip[a], Free}
<1>1. /\ Touches /\ ip \in [Address -> IP]
      /\ ip[a].type = "ephemeral" /\ ip[a].tags = {s}
  BY NextTouches, WorkersParts
<1>2. ASSUME NEW t \in Service, NEW b \in Address, Touch(t, b)
      PROVE  ip'[a] \in {ip[a], Free}
  <2>1. CASE a # b
    BY <1>1, <1>2, <2>1 DEF Touch, Takes, Uses, Strips, RollsBack, Becomes
  <2>2. CASE a = b
    <3>1. ~Takes(t, b)
      BY <1>1, <2>2 DEF Takes, Exists
    <3>2. CASE s = t
      <4>1. Strips(s, a)
        BY <1>2, <2>2, <3>1, <3>2 DEF Touch, Uses, RollsBack
      <4>2. job[s].found[a].type = "ephemeral" /\ WithoutTag(s, a) = {}
        BY <1>1, <4>1, WorkersParts DEF Strips, SyncFacts, FoundOurs, WithoutTag
      <4> QED
        BY <1>1, <4>1, <4>2 DEF Strips, Becomes, Free
    <3>3. CASE s # t
      <4>1. job[t].step \notin {"use", "remove"}
        BY <3>3, Exclusive DEF UpdateSection
      <4>2. ~RollsBack(t, b)
        BY <1>1, <2>2, <3>3 DEF RollsBack
      <4> QED
        BY <1>2, <3>1, <4>1, <4>2 DEF Touch, Uses, Strips
    <3> QED
      BY <3>2, <3>3
  <2> QED
    BY <2>1, <2>2
<1>3. ASSUME NEW b \in Address, TakenElsewhere(b) PROVE ip'[a] = ip[a]
  BY <1>1, <1>3 DEF TakenElsewhere, Becomes, Exists
<1> QED
  BY <1>1, <1>2, <1>3 DEF Touches

-----------------------------------------------------------------------------
(* Several workers.  Where nothing that is rolled back fails, and users     *)
(* change a service less often than it is written again after a conflict,  *)
(* no rollback runs, and the mutexes are enough.                           *)

NeverRolledBack == {"service", "config"} \cap MayFail = {} /\ MaxEdits < ConflictSteps

(* The conflicts of a sync so far, with one to come. *)
Conflicts(s) ==
  job[s].tries + IF job[s].step = "put_service" /\ ~job[s].fresh THEN 1 ELSE 0

(* The way from a service without an address to the configuration. *)
Acquiring == {"lock_allocate", "acquire", "get_service", "put_service"}

(* Each conflict takes a change of its own. *)
Straight(s) == /\ job[s].step \notin {"clear_tags", "free_ip"}
               /\ job[s].step \in Acquiring => Conflicts(s) <= edits

LEMMA StraightParts ==
  ASSUME TypeInv, NEW s \in Service
  PROVE  /\ job \in [Service -> Job] /\ job[s] \in Job /\ JobInv
         /\ job[s].tries \in Nat /\ edits \in Nat /\ edits <= MaxEdits
         /\ MaxEdits \in Nat /\ ConflictSteps \in Nat
BY BoundAssumption, TypeInvJob DEF TypeInv, TypeOK, Job

LEMMA StraightSync ==
  ASSUME TypeInv, NeverRolledBack, NEW s \in Service, Straight(s), Sync(s) PROVE Straight(s)'
<1> USE StraightParts
<1>1. GoesFlow(s)
  BY SyncFlow
<1>2. CASE job'[s].step \notin Acquiring \cup {"clear_tags", "free_ip"}
  BY <1>2 DEF Straight, Acquiring
<1>3. CASE LockAllocate(s)
  <2>1. CASE job' = [job EXCEPT ![s] = Idle]
    BY <1>2, <2>1 DEF Idle, Acquiring
  <2>2. CASE job' = [job EXCEPT ![s].step = "acquire"]
    <3>1. /\ job[s].step = "lock_allocate" /\ UNCHANGED edits
          /\ job'[s].step = "acquire" /\ job'[s].tries = job[s].tries
      BY <1>3, <2>2 DEF LockAllocate, Job
    <3> QED
      BY <3>1 DEF Straight, Conflicts, Acquiring
  <2> QED
    BY <1>3, <2>1, <2>2 DEF LockAllocate
<1>4. CASE AcquireIP(s)
  <2>1. CASE ReturnError(s)
    BY <1>2, <2>1 DEF ReturnError, Idle, Acquiring
  <2>2. ASSUME NEW a \in Address, job' = [job EXCEPT ![s].addr = a, ![s].step = "get_service"]
        PROVE  Straight(s)'
    <3>1. /\ job[s].step = "acquire" /\ UNCHANGED edits
          /\ job'[s].step = "get_service" /\ job'[s].tries = job[s].tries
      BY <1>4, <2>2 DEF AcquireIP, Job
    <3> QED
      BY <3>1 DEF Straight, Conflicts, Acquiring
  <2> QED
    BY <1>4, <2>1, <2>2 DEF AcquireIP
<1>5. CASE GetService(s)
  <2>1. /\ job[s].step = "get_service" /\ UNCHANGED edits
        /\ job' = [job EXCEPT ![s].step = "put_service", ![s].fresh = TRUE]
    BY <1>5 DEF GetService, Fault, NeverRolledBack
  <2>2. job'[s].step = "put_service" /\ job'[s].fresh = TRUE /\ job'[s].tries = job[s].tries
    BY <2>1 DEF Job
  <2> QED
    BY <2>1, <2>2 DEF Straight, Conflicts, Acquiring
<1>6. CASE UpdateService(s)
  <2>1. job[s].step = "put_service" /\ UNCHANGED edits
    BY <1>6 DEF UpdateService
  <2>2. CASE job[s].fresh
    <3>1. job' = [job EXCEPT ![s].step = "config"]
      BY <1>6, <2>2 DEF UpdateService, Fault, NeverRolledBack
    <3>2. job'[s].step = "config"
      BY <3>1 DEF Job
    <3> QED
      BY <1>2, <3>2 DEF Acquiring
  <2>3. CASE ~job[s].fresh
    <3>1. Conflicts(s) = job[s].tries + 1 /\ Conflicts(s) <= edits
      BY <2>1, <2>3 DEF Straight, Conflicts, Acquiring
    <3>2. job[s].tries + 1 <= edits /\ job[s].tries + 1 < ConflictSteps
      BY <3>1 DEF NeverRolledBack
    <3>3. job' = [job EXCEPT ![s].step = "get_service", ![s].tries = @ + 1]
      BY <1>6, <2>3, <3>2 DEF UpdateService, Fault, NeverRolledBack
    <3>4. job'[s].step = "get_service" /\ job'[s].tries = job[s].tries + 1
      BY <3>3 DEF Job
    <3> QED
      BY <2>1, <3>2, <3>4 DEF Straight, Conflicts, Acquiring
  <2> QED
    BY <2>2, <2>3
<1>7. CASE UpdateLoadBalancerConfig(s)
  <2>1. ReturnNil(s, "patch")
    BY <1>7 DEF UpdateLoadBalancerConfig, Fault, NeverRolledBack
  <2>2. job'[s].step = "patch"
    BY <2>1 DEF ReturnNil, Idle
  <2> QED
    BY <1>2, <2>2 DEF Acquiring
<1>8. CASE job[s].step \notin Acquiring \cup {"config"}
  <2>1. job'[s].step \notin Acquiring \cup {"clear_tags", "free_ip"}
    BY <1>1, <1>8 DEF GoesFlow, Flow, Idle, Straight, Acquiring
  <2> QED
    BY <1>2, <2>1
<1>9. \/ job[s].step \notin Acquiring \cup {"config"}
      \/ LockAllocate(s) \/ AcquireIP(s) \/ GetService(s) \/ UpdateService(s)
      \/ UpdateLoadBalancerConfig(s)
  BY DEF Sync, Ensure, PatchStatus, RemoveFinalizer, LockUpdate, FindProjectIP,
     FindProjectIPsWithTag, RemoveServiceTag, EndRemove, UseIPInCluster, RollbackTags,
     RollbackFree, Acquiring
<1> QED
  BY <1>3, <1>4, <1>5, <1>6, <1>7, <1>8, <1>9

LEMMA StraightNext ==
  ASSUME TypeInv, NeverRolledBack, [Next]_vars, NEW t \in Service, Straight(t)
  PROVE  Straight(t)'
<1> USE StraightParts
<1>1. ASSUME job'[t] = job[t], edits' = edits \/ edits' = edits + 1 PROVE Straight(t)'
  BY <1>1 DEF Straight, Conflicts
<1>2. CASE job'[t].step \notin Acquiring \cup {"clear_tags", "free_ip"}
  BY <1>2 DEF Straight, Acquiring
<1>3. ASSUME NEW s \in Service, Sync(s) PROVE Straight(t)'
  <2>1. CASE s = t
    BY <1>3, <2>1, StraightSync
  <2>2. CASE s # t
    <3>1. job'[t] = job[t]
      BY <1>3, <2>2, SyncFlow DEF GoesFlow
    <3>2. UNCHANGED edits
      BY <1>3 DEF Sync, Ensure, PatchStatus, RemoveFinalizer, LockUpdate, FindProjectIP,
         FindProjectIPsWithTag, RemoveServiceTag, EndRemove, UseIPInCluster, LockAllocate,
         AcquireIP, GetService, UpdateService, UpdateLoadBalancerConfig, RollbackTags,
         RollbackFree
    <3> QED
      BY <1>1, <3>1, <3>2
  <2> QED
    BY <2>1, <2>2
<1>4. ASSUME NEW s \in Service, StartSync(s) PROVE Straight(t)'
  <2>1. CASE s # t
    BY <1>1, <1>4, <2>1 DEF StartSync
  <2>2. CASE s = t
    <3>1. job'[t].step = Entry(view[t]) /\ job'[t].tries = 0 /\ UNCHANGED edits
      BY <1>4, <2>2 DEF StartSync, Idle
    <3>2. job'[t].step \in {"lock_update", "cleanup", "lock_allocate"}
      BY <3>1 DEF Entry
    <3> QED
      BY <3>1, <3>2 DEF Straight, Conflicts, Acquiring
  <2> QED
    BY <2>1, <2>2
<1>5. ASSUME NEW s \in Service, Observe(s) PROVE Straight(t)'
  BY <1>1, <1>5 DEF Observe
<1>6. ASSUME NEW s \in Service, User(s) PROVE Straight(t)'
  <2>1. edits' = edits + 1 /\ job' = [job EXCEPT ![s].fresh = FALSE]
    BY <1>6 DEF User, CreateService, PinAddress, DeleteService, Edit
  <2>2. job'[t].step = job[t].step /\ job'[t].tries = job[t].tries
    BY <2>1 DEF Job
  <2>3. Conflicts(t)' <= Conflicts(t) + 1
    BY <2>2 DEF Conflicts
  <2> QED
    BY <2>1, <2>2, <2>3 DEF Straight, Conflicts
<1>7. ASSUME NEW c \in Cluster, Crash(c) PROVE Straight(t)'
  <2>1. UNCHANGED edits /\ (job'[t] = job[t] \/ job'[t].step = "idle")
    BY <1>7 DEF Crash, Idle
  <2> QED
    BY <1>1, <1>2, <2>1 DEF Acquiring
<1>8. ASSUME NEW a \in Address, AllocateElsewhere(a) PROVE Straight(t)'
  BY <1>1, <1>8 DEF AllocateElsewhere
<1>9. CASE UNCHANGED vars
  BY <1>1, <1>9 DEF vars
<1> QED
  BY <1>3, <1>4, <1>5, <1>6, <1>7, <1>8, <1>9, Zenon DEF Next

StraightInv == NeverRolledBack /\ \A s \in Service : Straight(s)

LEMMA NoneRollsBack == NeverRolledBack /\ Spec => []RollbackAlone
<1>1. NeverRolledBack /\ Init => StraightInv
  BY DEF Init, Idle, StraightInv, Straight, Acquiring
<1>2. TypeInv /\ StraightInv /\ [Next]_vars => StraightInv'
  BY StraightNext DEF StraightInv, NeverRolledBack
<1>3. StraightInv => RollbackAlone
  BY DEF StraightInv, Straight, RollbackAlone
<1> QED
  BY <1>1, <1>2, <1>3, TypeCorrect, PTL DEF Spec

(* What LB_two_workers checks, for any number of workers, services and     *)
(* addresses: the mutexes keep what is published held, and every service's *)
(* tag its own, while syncs, lost answers, restarts and users interleave   *)
(* (loadbalancer.go:103, 135).                                             *)
THEOREM SeveralWorkersHold ==
  OneCluster /\ FreesAnswered /\ NeverRolledBack /\ Spec =>
    []PublishedIsHeld /\ OwnTagOnly
<1>1. WorkersInv => PublishedIsHeld
  BY DEF WorkersInv, SyncFacts, Holds, PublishedIsHeld
<1> QED
  BY <1>1, NoneRollsBack, WorkersInvHolds, WorkersOwnTagOnly, PTL

(* Nothing is held there any more for a service reported as deleted, while *)
(* other workers share and leave the same addresses (loadbalancer.go:218). *)
THEOREM SeveralWorkersRelease ==
  OneCluster /\ FreesAnswered /\ NeverRolledBack /\ Spec => []DeletedIsReleased
<1>1. WorkersInv => DeletedIsReleased
  BY DEF WorkersInv, SyncFacts, Released, DeletedIsReleased
<1> QED
  BY <1>1, NoneRollsBack, WorkersInvHolds, PTL

(* A static address is never freed there, and the address of a machine or  *)
(* for egress never changed, after lost updates and restarts too           *)
(* (loadbalancer.go:257, 313).                                             *)
THEOREM SeveralWorkersKeepForeign ==
  OneCluster /\ FreesAnswered /\ NeverRolledBack /\ Spec => KeepsForeign
BY NoneRollsBack, WorkersKeepForeign, PTL

-----------------------------------------------------------------------------
(* One worker: no rollback meets anybody, so that nothing but the answers  *)
(* of FreeIP has to be taken for granted.                                  *)

LEMMA AloneRollsBack == OneInv => RollbackAlone
<1> SUFFICES ASSUME OneInv, NEW s \in Service, job[s].step \in {"clear_tags", "free_ip"}
             PROVE  /\ ip[job[s].addr].tags \subseteq {s}
                    /\ \A t \in Service \ {s} : job[t].step \notin UpdateSection
  BY DEF RollbackAlone
<1>1. ip[job[s].addr].tags \subseteq {s}
  <2>1. AcquiredIsOwn(s)
    BY DEF OneInv, Facts
  <2>2. ip[job[s].addr].tags \in {{s}, {}}
    BY <2>1 DEF AcquiredIsOwn
  <2> QED
    BY <2>2
<1>2. \A t \in Service \ {s} : job[t].step = "idle"
  BY DEF OneInv, Alone
<1> QED
  BY <1>1, <1>2 DEF UpdateSection

LEMMA OneRollsBack == OneWorker /\ Spec => []RollbackAlone
BY AloneRollsBack, OneInvHolds, PTL

(* With one worker, and as long as FreeIP is answered truthfully, a static *)
(* address is never freed, and the address of a machine or for egress is   *)
(* never changed, whatever else fails or is repeated (loadbalancer.go:257, *)
(* 313).                                                                   *)
THEOREM KeepsForeignHolds == OneWorker /\ FreesAnswered /\ Spec => KeepsForeign
<1>1. OneWorker => OneCluster
  BY DEF OneWorker, OneCluster
<1> QED
  BY <1>1, OneRollsBack, WorkersKeepForeign, PTL
=============================================================================
