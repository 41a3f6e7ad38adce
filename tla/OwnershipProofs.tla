--------------------------- MODULE OwnershipProofs ---------------------------
(***************************************************************************)
(* LoadBalancer implements AddressOwnership with one worker, and with any  *)
(* number of them where no rollback runs, as long as the calls that change *)
(* an existing address are answered truthfully (Answered).  Effects sums   *)
(* up what a step then does to the addresses in a state where no rollback  *)
(* meets another's use of its address (RollbackAlone); the books           *)
(* (BooksInv) and the refinement follow from it.                           *)
(***************************************************************************)
EXTENDS WorkersProofs

Answered == /\ MayFail \cap {"update", "free", "crash"} = {}
            /\ \A a \in Address : Blank \notin Inventory[a].tags

NoBlanks == \A a \in Address : Blank \notin ip[a].tags

(* What is to be taken from an address is what it has. *)
FoundCurrent(s) ==
  job[s].step = "remove" =>
    \A a \in Address :
      job[s].found[a] # Free => ip[a] = job[s].found[a] /\ s \in ip[a].tags

(* The first call of the rollback has worked. *)
Cleared(s) == job[s].step = "free_ip" => s \notin ip[job[s].addr].tags

BooksInv == /\ WorkersInv /\ Answered /\ NoBlanks /\ Accounted
            /\ \A s \in Service : FoundCurrent(s) /\ Cleared(s)

-----------------------------------------------------------------------------
(* What a step does to the addresses.                                      *)

(* Whose rollback has cleared the tags of an address and not freed it yet. *)
Clearing(a) == {s \in Service : job[s].step = "free_ip" /\ job[s].addr = a}

Leaves(s, a) ==
  LET rest == ip[a].tags \ {s}
  IN /\ job[s].step = "remove" /\ s \in ip[a].tags
     /\ IF ip[a].type = "ephemeral" /\ rest = {} THEN Becomes(a, "free", {})
                                                 ELSE Becomes(a, ip[a].type, rest)

Clears(s, a) == /\ ip[a] = [type |-> "ephemeral", tags |-> {s}]
                /\ Becomes(a, "ephemeral", {})
                /\ Clearing(a) = {} /\ Clearing(a)' = {s}

Frees(s, a) == /\ ip[a] = [type |-> "ephemeral", tags |-> {}]
               /\ Becomes(a, "free", {})
               /\ Clearing(a) = {s} /\ Clearing(a)' = {}

(* Somebody gets, shares or leaves an address that nobody is clearing. *)
ChangesUsers(a) ==
  /\ Clearing(a) = {} /\ Clearing(a)' = {}
  /\ TakenElsewhere(a) \/ \E s \in Service : Takes(s, a) \/ Uses(s, a) \/ Leaves(s, a)

Keeps == UNCHANGED ip /\ \A b \in Address : Clearing(b)' = Clearing(b)

Effects ==
  \/ Keeps
  \/ \E a \in Address : /\ \A b \in Address \ {a} : Clearing(b)' = Clearing(b)
                        /\ ChangesUsers(a) \/ \E s \in Service : Clears(s, a) \/ Frees(s, a)

LEMMA BooksParts ==
  ASSUME BooksInv, NEW s \in Service
  PROVE  /\ WorkersInv /\ Answered /\ TypeInv /\ TypeOK /\ JobInv
         /\ FreeHasNoTags /\ Apart /\ FoundCurrent(s) /\ Cleared(s) /\ SyncFacts(s)
         /\ job \in [Service -> Job] /\ job[s] \in Job /\ ip \in [Address -> IP]
         /\ job[s].step \in AddressStep => job[s].addr \in Address
BY WorkersParts, TypeInvJob DEF BooksInv

(* A step of a sync that has no rollback in it. *)
LEMMA SameClearing ==
  ASSUME NEW s \in Service, \A t \in Service \ {s} : job'[t] = job[t],
         job[s].step # "free_ip", job'[s].step # "free_ip"
  PROVE  \A b \in Address : Clearing(b)' = Clearing(b)
BY DEF Clearing

(* Only one sync allocates or rolls back at a time. *)
LEMMA NobodyClearing ==
  ASSUME WorkersInv, NEW s \in Service, job[s].step \in AllocateSection \ {"free_ip"}
  PROVE  \A b \in Address : Clearing(b) = {}
<1>1. \A t \in Service : job[t].step # "free_ip"
  BY Exclusive DEF AllocateSection
<1> QED
  BY <1>1 DEF Clearing

LEMMA NotUsedClearing ==
  ASSUME RollbackAlone, NEW s \in Service, job[s].step \in UpdateSection,
         NEW a \in Address, a = job[s].addr \/ job[s].found[a] # Free
  PROVE  Clearing(a) = {}
<1> SUFFICES ASSUME NEW t \in Service, job[t].step = "free_ip", job[t].addr = a PROVE FALSE
  BY DEF Clearing
<1>1. t # s
  BY DEF UpdateSection
<1> QED
  BY <1>1 DEF RollbackAlone

(* A call that changes an address, and is made to one that is there, works. *)
LEMMA NeverFails ==
  ASSUME Answered, NEW a, NEW call \in {"update", "free", "crash"},
         NEW after, Exists(a)
  PROVE  ~Fails(a, call, after) /\ ~Fault(call)
BY DEF Answered, Fails, Fault

LEMMA AcquireEffect ==
  ASSUME BooksInv, NEW s \in Service, AcquireIP(s) PROVE Effects
<1>1. job[s].step = "acquire" /\ GoesFlow(s) /\ WorkersInv
  BY BooksParts, SyncFlow DEF AcquireIP, Sync, Ensure
<1>2. /\ \A b \in Address : Clearing(b)' = Clearing(b)
      /\ \A b \in Address : Clearing(b) = {}
  <2>1. job'[s].step # "free_ip"
    BY <1>1 DEF GoesFlow, Flow, Idle
  <2> QED
    BY <1>1, <2>1, SameClearing, NobodyClearing DEF GoesFlow, AllocateSection
<1>3. UNCHANGED ip \/ \E a \in Address : Takes(s, a)
  BY Zenon DEF AcquireIP, Takes, Becomes
<1> QED
  BY <1>2, <1>3 DEF Effects, Keeps, ChangesUsers

LEMMA RemoveEffect ==
  ASSUME BooksInv, RollbackAlone, NEW s \in Service, NEW a \in Address,
         RemoveServiceTag(s, a)
  PROVE  /\ Leaves(s, a) /\ Effects
         /\ job' = [job EXCEPT ![s].found[a] = Free, ![s].tries = 0]
<1> DEFINE unused == job[s].found[a].type = "ephemeral" /\ WithoutTag(s, a) = {}
           call == IF unused THEN "free" ELSE "update"
           after == IF unused THEN FreeIP(a) ELSE UpdateIP(a, WithoutTag(s, a))
<1>1. /\ Answered /\ job[s].step = "remove" /\ FreeHasNoTags /\ TypeOK
      /\ job \in [Service -> Job] /\ job[s].found[a] # Free
  BY BooksParts DEF RemoveServiceTag
<1>2. ip[a] = job[s].found[a] /\ s \in ip[a].tags
  BY <1>1 DEF BooksInv, FoundCurrent
<1>3. Exists(a)
  BY <1>1, <1>2 DEF FreeHasNoTags, Exists
<1>4. ~Fails(a, call, after)
  BY <1>1, <1>3, NeverFails
<1>5. /\ ip' = after
      /\ job' = [job EXCEPT ![s].found[a] = Free, ![s].tries = 0]
  BY <1>4, Zenon DEF RemoveServiceTag, Works
<1>6. WithoutTag(s, a) = ip[a].tags \ {s}
  BY <1>2 DEF WithoutTag
<1>7. Leaves(s, a)
  BY <1>1, <1>2, <1>3, <1>5, <1>6, FreeBecomes, UpdateBecomes DEF Leaves
<1>8. Clearing(a) = {} /\ \A b \in Address : Clearing(b)' = Clearing(b)
  <2>1. job'[s].step = "remove" /\ \A t \in Service \ {s} : job'[t] = job[t]
    BY <1>1, <1>5 DEF Job
  <2> QED
    BY <1>1, <2>1, SameClearing, NotUsedClearing DEF UpdateSection
<1> QED
  BY <1>5, <1>7, <1>8 DEF Effects, ChangesUsers

LEMMA UseEffect ==
  ASSUME BooksInv, RollbackAlone, NEW s \in Service, UseIPInCluster(s) PROVE Effects
<1> DEFINE a == job[s].addr
           after == UpdateIP(a, job[s].snap.tags \cup {s})
<1>1. /\ Answered /\ job[s].step = "use" /\ TypeOK /\ GoesFlow(s)
      /\ a \in Address /\ SnapshotCurrent(s)
  BY BooksParts, SyncFlow DEF UseIPInCluster, AddressStep, SyncFacts, Sync, Ensure
<1>2. ip[a] = job[s].snap /\ Exists(a)
  BY <1>1, NoneAssumption DEF SnapshotCurrent
<1>3. ~Fails(a, "update", after)
  BY <1>1, <1>2, NeverFails
<1>4. Clearing(a) = {} /\ \A b \in Address : Clearing(b)' = Clearing(b)
  <2>1. job'[s].step # "free_ip"
    BY <1>1 DEF GoesFlow, Flow, Idle
  <2> QED
    BY <1>1, <2>1, SameClearing, NotUsedClearing DEF GoesFlow, UpdateSection
<1>5. CASE UNCHANGED ip
  BY <1>4, <1>5 DEF Effects, Keeps
<1>6. CASE job[s].snap.tags \cap Reserved = {} /\ ip' = after
  <2>1. Uses(s, a)
    BY <1>1, <1>2, <1>6, UpdateBecomes DEF Uses
  <2> QED
    BY <1>1, <1>4, <2>1 DEF Effects, ChangesUsers
<1> QED
  BY <1>3, <1>5, <1>6, Zenon DEF UseIPInCluster, Works

LEMMA RollbackEffect ==
  ASSUME BooksInv, RollbackAlone, NEW s \in Service, RollbackTags(s) \/ RollbackFree(s)
  PROVE  Effects /\ (RollbackTags(s) => ip'[job[s].addr].tags = {})
<1> DEFINE a == job[s].addr
<1>1. /\ Answered /\ job[s].step \in {"clear_tags", "free_ip"} /\ TypeOK
      /\ WorkersInv /\ a \in Address /\ Cleared(s)
      /\ ip \in [Address -> IP] /\ ip[a] \in IP
      /\ ip[a].type = "ephemeral" /\ ip[a].tags \subseteq {s} /\ Exists(a)
      /\ job[s].step = "clear_tags" => s \in ip[a].tags
  BY BooksParts DEF RollbackTags, RollbackFree, AddressStep, SyncFacts, Acquired, OwnStep,
     RollbackAlone, Exists
<1>2. /\ job \in [Service -> Job] /\ job[s] \in Job /\ GoesFlow(s)
      /\ \A t \in Service \ {s} : job[t].step # "free_ip" /\ job'[t] = job[t]
  <2>1. GoesFlow(s)
    BY BooksParts, SyncFlow DEF Sync, Ensure
  <2>2. \A t \in Service \ {s} : job[t].step # "free_ip"
    BY <1>1, Exclusive DEF AllocateSection
  <2> QED
    BY <2>1, <2>2, BooksParts DEF GoesFlow
<1>3. CASE RollbackTags(s)
  <2>1. job[s].step = "clear_tags" /\ ~Fails(a, "update", UpdateIP(a, {}))
    BY <1>1, <1>3, NeverFails DEF RollbackTags
  <2>2. ip[a] = [type |-> "ephemeral", tags |-> {s}]
    BY <1>1, <2>1 DEF IP
  <2>3. ip' = UpdateIP(a, {}) /\ GoOn(s, "free_ip")
    BY <1>3, <2>1 DEF RollbackTags, Works
  <2>4. Becomes(a, "ephemeral", {})
    BY <1>1, <2>3, UpdateBecomes
  <2>5. job'[s].step = "free_ip" /\ job'[s].addr = a
    BY <1>2, <2>3 DEF GoOn, Job
  <2>6. /\ Clearing(a) = {} /\ Clearing(a)' = {s}
        /\ \A b \in Address \ {a} : Clearing(b)' = Clearing(b)
    BY <1>2, <2>1, <2>5 DEF Clearing
  <2>7. Clears(s, a)
    BY <2>2, <2>4, <2>6 DEF Clears
  <2>8. ip'[a].tags = {}
    BY <1>1, <2>4 DEF Becomes
  <2> QED
    BY <1>1, <2>6, <2>7, <2>8 DEF Effects
<1>4. CASE RollbackFree(s)
  <2>1. job[s].step = "free_ip" /\ ~Fails(a, "free", FreeIP(a))
    BY <1>1, <1>4, NeverFails DEF RollbackFree
  <2>2. ip[a] = [type |-> "ephemeral", tags |-> {}]
    <3>1. ip[a].tags = {}
      BY <1>1, <2>1 DEF Cleared
    <3> QED
      BY <1>1, <3>1 DEF IP
  <2>3. ip' = FreeIP(a) /\ ReturnError(s)
    BY <1>4, <2>1 DEF RollbackFree, Works
  <2>4. Becomes(a, "free", {})
    BY <1>1, <2>3, FreeBecomes
  <2>5. job'[s].step = "idle"
    BY <1>2, <2>3 DEF ReturnError, Idle
  <2>6. /\ Clearing(a) = {s} /\ Clearing(a)' = {}
        /\ \A b \in Address \ {a} : Clearing(b)' = Clearing(b)
    BY <1>2, <2>1, <2>5 DEF Clearing
  <2>7. Frees(s, a)
    BY <2>2, <2>4, <2>6 DEF Frees
  <2>8. ~RollbackTags(s)
    BY <2>1 DEF RollbackTags
  <2> QED
    BY <1>1, <2>6, <2>7, <2>8 DEF Effects
<1> QED
  BY <1>3, <1>4

(* The steps of a sync that change no address. *)
LEMMA QuietEffect ==
  ASSUME BooksInv, NEW s \in Service,
         \/ LockUpdate(s) \/ FindProjectIP(s) \/ FindProjectIPsWithTag(s)
         \/ EndRemove(s) \/ LockAllocate(s) \/ GetService(s) \/ UpdateService(s)
         \/ UpdateLoadBalancerConfig(s) \/ PatchStatus(s) \/ RemoveFinalizer(s)
  PROVE  Keeps
<1>1. UNCHANGED ip /\ job[s].step \notin {"clear_tags", "free_ip"}
  BY DEF LockUpdate, FindProjectIP, FindProjectIPsWithTag, EndRemove, LockAllocate,
     GetService, UpdateService, UpdateLoadBalancerConfig, PatchStatus, RemoveFinalizer
<1>2. GoesFlow(s)
  BY BooksParts, SyncFlow DEF Sync, Ensure
<1>3. job'[s].step # "free_ip"
  BY <1>1, <1>2 DEF GoesFlow, Flow, Idle
<1> QED
  BY <1>1, <1>2, <1>3, SameClearing DEF GoesFlow, Keeps

LEMMA NextEffect == BooksInv /\ RollbackAlone /\ [Next]_vars => Effects
<1> SUFFICES ASSUME BooksInv, RollbackAlone, [Next]_vars PROVE Effects
  OBVIOUS
<1>1. Answered /\ job \in [Service -> Job] /\ WorkersInv
  BY DEF BooksInv, WorkersInv, LockInv, TypeInv, TypeOK
<1>2. ASSUME NEW s \in Service, Sync(s) PROVE Effects
  <2>1. CASE AcquireIP(s) \/ UseIPInCluster(s) \/ RollbackTags(s) \/ RollbackFree(s)
    BY <2>1, AcquireEffect, UseEffect, RollbackEffect
  <2>2. CASE \E a \in Address : RemoveServiceTag(s, a)
    BY <2>2, RemoveEffect
  <2>3. CASE \/ LockUpdate(s) \/ FindProjectIP(s) \/ FindProjectIPsWithTag(s)
             \/ EndRemove(s) \/ LockAllocate(s) \/ GetService(s) \/ UpdateService(s)
             \/ UpdateLoadBalancerConfig(s) \/ PatchStatus(s) \/ RemoveFinalizer(s)
    BY <2>3, QuietEffect DEF Effects
  <2> QED
    BY <1>2, <2>1, <2>2, <2>3, Zenon DEF Sync, Ensure
<1>3. ASSUME NEW s \in Service, StartSync(s) PROVE Effects
  <2>1. /\ UNCHANGED ip /\ \A t \in Service \ {s} : job'[t] = job[t]
        /\ job[s].step = "idle" /\ job'[s].step = Entry(view[s])
    BY <1>1, <1>3 DEF StartSync, Idle
  <2> QED
    BY <2>1, SameClearing DEF Entry, Effects, Keeps
<1>4. ASSUME NEW s \in Service, Observe(s) \/ User(s) PROVE Effects
  <2>1. UNCHANGED ip /\ (UNCHANGED job \/ job' = [job EXCEPT ![s].fresh = FALSE])
    BY <1>4 DEF Observe, User, CreateService, PinAddress, DeleteService, Edit
  <2>2. \A t \in Service : job'[t].step = job[t].step /\ job'[t].addr = job[t].addr
    BY <1>1, <2>1 DEF Job
  <2> QED
    BY <2>1, <2>2 DEF Effects, Keeps, Clearing
<1>5. ASSUME NEW c \in Cluster, Crash(c) PROVE Effects
  BY <1>1, <1>5 DEF Crash, Answered, Fault
<1>6. ASSUME NEW a \in Address, AllocateElsewhere(a) PROVE Effects
  <2>1. TakenElsewhere(a) /\ UNCHANGED job /\ ~Exists(a)
    BY <1>6 DEF AllocateElsewhere, TakenElsewhere, Becomes
  <2>2. Clearing(a) = {}
    <3> SUFFICES ASSUME NEW t \in Service, job[t].step = "free_ip", job[t].addr = a
                 PROVE  FALSE
      BY DEF Clearing
    <3> QED
      BY <1>1, <2>1, WorkersParts DEF SyncFacts, Acquired, Exists
  <2>3. \A b \in Address : Clearing(b)' = Clearing(b)
    BY <2>1 DEF Clearing
  <2> QED
    BY <2>1, <2>2, <2>3 DEF Effects, ChangesUsers
<1>7. CASE UNCHANGED vars
  BY <1>7 DEF vars, Effects, Keeps, Clearing
<1> QED
  BY <1>2, <1>3, <1>4, <1>5, <1>6, <1>7, Zenon DEF Next

-----------------------------------------------------------------------------
(* The invariant.                                                          *)

LEMMA NoBlanksNext ==
  ASSUME BooksInv, Effects PROVE NoBlanks'
<1>1. /\ NoBlanks /\ ip \in [Address -> IP] /\ Blank \notin Service \cup Reserved
  BY TagAssumption DEF BooksInv, WorkersInv, LockInv, TypeInv, TypeOK
<1>2. ASSUME NEW a \in Address, NEW type, NEW tags, Becomes(a, type, tags),
             Blank \notin tags
      PROVE  NoBlanks'
  BY <1>1, <1>2 DEF NoBlanks, Becomes
<1>3. ASSUME NEW s \in Service, NEW a \in Address,
             Takes(s, a) \/ Uses(s, a) \/ Leaves(s, a) \/ Clears(s, a) \/ Frees(s, a)
      PROVE  NoBlanks'
  <2>1. Blank \notin {s} /\ Blank \notin ip[a].tags
    BY <1>1 DEF NoBlanks
  <2> QED
    BY <1>2, <1>3, <2>1 DEF Takes, Uses, Leaves, Clears, Frees
<1>4. ASSUME NEW a \in Address, TakenElsewhere(a) PROVE NoBlanks'
  <2>1. \A t \in Reserved : Blank \notin {t}
    BY <1>1
  <2> QED
    BY <1>2, <1>4, <2>1 DEF TakenElsewhere
<1>5. CASE Keeps
  BY <1>1, <1>5 DEF Keeps, NoBlanks
<1> QED
  BY <1>3, <1>4, <1>5 DEF Effects, ChangesUsers

Known == Service \cup Reserved

LEMMA AccountedNext ==
  ASSUME BooksInv, Effects PROVE Accounted'
<1>1. Accounted /\ NoBlanks /\ ip \in [Address -> IP]
  BY DEF BooksInv, WorkersInv, LockInv, TypeInv, TypeOK
<1> SUFFICES ASSUME NEW b \in Address, ip'[b].type = "ephemeral",
                    ip'[b].tags \cap Known = {}, Inventory[b].type # "ephemeral"
             PROVE  Clearing(b)' # {}
  BY DEF Accounted, Known, Clearing
<1>2. ip'[b] = ip[b] => Clearing(b) # {}
  BY <1>1 DEF Accounted, Known, Clearing
<1>3. CASE Keeps
  BY <1>2, <1>3 DEF Keeps
<1>4. ASSUME NEW a \in Address, a # b, \E type, tags : Becomes(a, type, tags),
             Clearing(b)' = Clearing(b)
      PROVE  Clearing(b)' # {}
  BY <1>1, <1>2, <1>4 DEF Becomes
<1>5. ASSUME NEW s \in Service, Takes(s, b) \/ Uses(s, b) \/ Leaves(s, b) PROVE FALSE
  <2>1. CASE Takes(s, b)
    BY <1>1, <2>1 DEF Takes, Becomes, Known
  <2>2. CASE Uses(s, b)
    BY <1>1, <2>2 DEF Uses, Becomes, Known
  <2>3. CASE Leaves(s, b)
    <3>1. ip[b].tags \ {s} \subseteq Known
      BY <1>1 DEF NoBlanks, IP, Tag, Known
    <3>2. ip[b].type = "ephemeral" /\ ip[b].tags \ {s} = {} => ip'[b].type = "free"
      BY <1>1, <2>3 DEF Leaves, Becomes
    <3>3. ~(ip[b].type = "ephemeral" /\ ip[b].tags \ {s} = {})
            => ip'[b].type = ip[b].type /\ ip'[b].tags = ip[b].tags \ {s}
      BY <1>1, <2>3 DEF Leaves, Becomes
    <3> QED
      BY <3>1, <3>2, <3>3
  <2> QED
    BY <1>5, <2>1, <2>2, <2>3
<1>6. ~TakenElsewhere(b)
  BY <1>1 DEF TakenElsewhere, Becomes, Known
<1>7. ASSUME NEW s \in Service, Clears(s, b) \/ Frees(s, b) PROVE Clearing(b)' # {}
  BY <1>1, <1>7 DEF Clears, Frees, Becomes
<1>8. ASSUME NEW a \in Address, a # b,
             ChangesUsers(a) \/ \E s \in Service : Clears(s, a) \/ Frees(s, a)
      PROVE  \E type, tags : Becomes(a, type, tags)
  BY <1>8 DEF ChangesUsers, TakenElsewhere, Takes, Uses, Leaves, Clears, Frees
<1> QED
  BY <1>3, <1>4, <1>5, <1>6, <1>7, <1>8 DEF Effects, ChangesUsers

(* Others leave alone what a sync has found and what it is clearing. *)
LEMMA KeptBooks ==
  ASSUME BooksInv, NEW t \in Service, SameJob(t), Kept(t)
  PROVE  FoundCurrent(t)' /\ Cleared(t)'
<1>1. /\ FoundCurrent(t) /\ Cleared(t) /\ SyncFacts(t)
      /\ job[t].step \in AddressStep => job[t].addr \in Address
  BY BooksParts
<1>2. FoundCurrent(t)'
  BY <1>1 DEF SameJob, Kept, FoundCurrent, SyncFacts, FoundOurs, UpdateSection
<1>3. Cleared(t)'
  BY <1>1 DEF SameJob, Kept, Cleared, AddressStep, AllocateSection
<1> QED
  BY <1>2, <1>3

LEMMA OwnBooks ==
  ASSUME BooksInv, RollbackAlone, NEW s \in Service, Sync(s)
  PROVE  FoundCurrent(s)' /\ Cleared(s)'
<1>1. /\ GoesFlow(s) /\ FoundCurrent(s) /\ TypeOK
      /\ job \in [Service -> Job] /\ job[s] \in Job /\ ip \in [Address -> IP]
  BY BooksParts, SyncFlow
<1>2. CASE job'[s].step \notin {"remove", "free_ip"}
  BY <1>2 DEF FoundCurrent, Cleared
<1>3. CASE job'[s].step = "free_ip"
  <2>1. job[s].step = "clear_tags" /\ job'[s].addr = job[s].addr
    BY <1>1, <1>3 DEF GoesFlow, Flow, Idle
  <2>2. RollbackTags(s)
    BY <2>1 DEF Sync, Ensure, PatchStatus, RemoveFinalizer, LockUpdate, FindProjectIP,
       FindProjectIPsWithTag, RemoveServiceTag, EndRemove, UseIPInCluster, LockAllocate,
       AcquireIP, GetService, UpdateService, UpdateLoadBalancerConfig, RollbackFree
  <2>3. ip'[job[s].addr].tags = {}
    BY <2>2, RollbackEffect
  <2> QED
    BY <1>3, <2>1, <2>3 DEF FoundCurrent, Cleared
<1>4. CASE FindProjectIPsWithTag(s)
  <2>1. CASE ReturnError(s)
    BY <1>1, <1>2, <2>1 DEF ReturnError, Idle
  <2>2. CASE ~ReturnError(s)
    BY <1>1, <1>4, <2>2 DEF FindProjectIPsWithTag, FoundCurrent, Cleared, Job
  <2> QED
    BY <2>1, <2>2
<1>5. ASSUME NEW a \in Address, RemoveServiceTag(s, a) PROVE FoundCurrent(s)' /\ Cleared(s)'
  <2>1. /\ Leaves(s, a) /\ job[s].step = "remove"
        /\ job' = [job EXCEPT ![s].found[a] = Free, ![s].tries = 0]
    BY <1>5, RemoveEffect DEF RemoveServiceTag
  <2>2. \A b \in Address \ {a} : ip'[b] = ip[b]
    BY <1>1, <2>1 DEF Leaves, Becomes
  <2>3. job'[s].found = [job[s].found EXCEPT ![a] = Free] /\ job'[s].step = "remove"
    BY <1>1, <2>1 DEF Job
  <2> QED
    BY <1>1, <2>1, <2>2, <2>3 DEF FoundCurrent, Cleared, Job
<1>6. CASE job'[s].step = "remove"
  <2>1. job[s].step \in {"find_tagged", "remove"}
    BY <1>1, <1>6 DEF GoesFlow, Flow, Idle
  <2>2. \/ FindProjectIPsWithTag(s) \/ EndRemove(s)
        \/ \E a \in Address : RemoveServiceTag(s, a)
    BY <2>1 DEF Sync, Ensure, PatchStatus, RemoveFinalizer, LockUpdate, FindProjectIP,
       UseIPInCluster, LockAllocate, AcquireIP, GetService, UpdateService,
       UpdateLoadBalancerConfig, RollbackTags, RollbackFree
  <2>3. ~EndRemove(s)
    <3>1. CASE ReturnNil(s, "cleanup")
      BY <1>1, <1>6, <3>1 DEF ReturnNil, Idle
    <3>2. CASE GoOn(s, "use")
      BY <1>1, <1>6, <3>2 DEF GoOn, Job
    <3> QED
      BY <3>1, <3>2 DEF EndRemove
  <2> QED
    BY <1>4, <1>5, <2>2, <2>3
<1> QED
  BY <1>2, <1>3, <1>6

LEMMA SyncBooks ==
  ASSUME BooksInv, RollbackAlone, [Next]_vars, NEW t \in Service
  PROVE  FoundCurrent(t)' /\ Cleared(t)'
<1>1. /\ WorkersInv /\ Answered /\ JobInv /\ job \in [Service -> Job]
  BY BooksParts
<1>2. ASSUME UNCHANGED ip, SameJob(t) PROVE FoundCurrent(t)' /\ Cleared(t)'
  BY <1>2, KeptBooks DEF Kept
<1>3. ASSUME NEW s \in Service, Sync(s) PROVE FoundCurrent(t)' /\ Cleared(t)'
  <2>1. CASE s = t
    BY <1>3, <2>1, OwnBooks
  <2>2. CASE s # t
    <3>1. SameJob(t)
      BY <1>1, <1>3, <2>2, SyncFlow DEF GoesFlow, SameJob
    <3>2. UNCHANGED ip \/ Kept(t)
      BY <1>1, <1>3, <2>2, SyncTouches, TouchKeeps
    <3> QED
      BY <1>2, <3>1, <3>2, KeptBooks
  <2> QED
    BY <2>1, <2>2
<1>4. ASSUME NEW s \in Service, StartSync(s) PROVE FoundCurrent(t)' /\ Cleared(t)'
  <2>1. CASE s # t
    BY <1>1, <1>2, <1>4, <2>1 DEF StartSync, SameJob
  <2>2. CASE s = t
    BY <1>1, <1>4, <2>2 DEF StartSync, Idle, Entry, FoundCurrent, Cleared
  <2> QED
    BY <2>1, <2>2
<1>5. ASSUME NEW s \in Service, Observe(s) \/ User(s)
      PROVE  FoundCurrent(t)' /\ Cleared(t)'
  <2>1. UNCHANGED ip /\ (UNCHANGED job \/ job' = [job EXCEPT ![s].fresh = FALSE])
    BY <1>5 DEF Observe, User, CreateService, PinAddress, DeleteService, Edit
  <2>2. SameJob(t)
    BY <1>1, <2>1 DEF SameJob, Job
  <2> QED
    BY <1>2, <2>1, <2>2
<1>6. ASSUME NEW c \in Cluster, Crash(c) PROVE FoundCurrent(t)' /\ Cleared(t)'
  BY <1>1, <1>6 DEF Crash, Answered, Fault
<1>7. ASSUME NEW a \in Address, AllocateElsewhere(a)
      PROVE  FoundCurrent(t)' /\ Cleared(t)'
  <2>1. TakenElsewhere(a) /\ SameJob(t)
    BY <1>7 DEF AllocateElsewhere, TakenElsewhere, Becomes, SameJob
  <2> QED
    BY <1>1, <2>1, TakenKeeps, KeptBooks
<1>8. CASE UNCHANGED vars
  BY <1>2, <1>8 DEF vars, SameJob
<1> QED
  BY <1>3, <1>4, <1>5, <1>6, <1>7, <1>8, Zenon DEF Next

LEMMA AnsweredFrees == Answered => FreesAnswered
BY DEF Answered, FreesAnswered

LEMMA InitBooks == OneCluster /\ Answered /\ Init => BooksInv
<1> SUFFICES ASSUME OneCluster, Answered, Init PROVE BooksInv
  OBVIOUS
<1>1. WorkersInv /\ ip = Inventory /\ \A s \in Service : job[s].step = "idle"
  BY InitWorkers, AnsweredFrees DEF Init, Idle
<1>2. NoBlanks /\ Accounted /\ \A s \in Service : FoundCurrent(s) /\ Cleared(s)
  BY <1>1 DEF Answered, NoBlanks, Accounted, FoundCurrent, Cleared
<1> QED
  BY <1>1, <1>2 DEF BooksInv

LEMMA NextBooks == BooksInv /\ RollbackAlone /\ [Next]_vars => BooksInv'
<1> SUFFICES ASSUME BooksInv, RollbackAlone, [Next]_vars PROVE BooksInv'
  OBVIOUS
<1>1. WorkersInv' /\ Effects
  BY NextWorkers, NextEffect DEF BooksInv
<1>2. NoBlanks' /\ Accounted'
  BY <1>1, NoBlanksNext, AccountedNext
<1>3. \A s \in Service : FoundCurrent(s)' /\ Cleared(s)'
  BY SyncBooks
<1> QED
  BY <1>1, <1>2, <1>3 DEF BooksInv, Answered

LEMMA WorkersBooksHold ==
  OneCluster /\ Answered /\ Spec /\ []RollbackAlone => []BooksInv
<1> QED
  BY InitBooks, NextBooks, PTL DEF Spec

(* Without blanks, who is the only one to use an address has its only tag. *)
LEMMA LastTagBooks ==
  ASSUME BooksInv, RollbackAlone, [Next]_vars, NEW a \in Address, NEW s \in Service,
         job[s].step = "remove", ip[a].type = "ephemeral",
         ip[a].tags \cap (Service \cup Reserved) = {s}
  PROVE  ip'[a] \in {ip[a], Free}
<1>1. WorkersInv /\ ip[a] \in IP /\ Blank \notin ip[a].tags
  BY DEF BooksInv, NoBlanks, WorkersInv, LockInv, TypeInv, TypeOK
<1>2. ip[a].tags = {s}
  BY <1>1 DEF IP, Tag
<1>3. ip[a] = [type |-> "ephemeral", tags |-> {s}]
  BY <1>1, <1>2 DEF IP
<1> QED
  BY <1>1, <1>3, LastTagTouches

LEMMA WorkersLastTagFrees ==
  OneCluster /\ Answered /\ Spec /\ []RollbackAlone => LastTagFrees
<1>1. BooksInv /\ RollbackAlone /\ [Next]_vars =>
        [\A a \in Address, s \in Service :
           /\ job[s].step = "remove"
           /\ ip[a].type = "ephemeral"
           /\ ip[a].tags \cap (Service \cup Reserved) = {s}
           => ip'[a] \in {ip[a], Free}]_vars
  BY LastTagBooks
<1> QED
  BY <1>1, WorkersBooksHold, PTL DEF Spec, LastTagFrees

-----------------------------------------------------------------------------
(* The refinement: under BooksInv each effect is a step of AddressOwnership *)
(* on lease, or none.                                                      *)

(* Where no rollback is at work the tags alone tell who uses an address. *)
LEMMA LeaseByTags ==
  ASSUME NEW a \in Address
  PROVE  /\ LeaseOf(a) = [type |-> ip[a].type,
                          users |-> (ip[a].tags \cap Known) \cup Clearing(a)]
         /\ LeaseOf(a)' = [type |-> ip'[a].type,
                           users |-> (ip'[a].tags \cap Known) \cup Clearing(a)']
BY DEF LeaseOf, Known, Clearing

(* A step that changes the lease of one address. *)
LEMMA LeaseSet ==
  ASSUME NEW a \in Address, NEW new, LeaseOf(a)' = new,
         \A b \in Address \ {a} : LeaseOf(b)' = LeaseOf(b)
  PROVE  lease' = [lease EXCEPT ![a] = new]
BY DEF lease

(* The other addresses have the users they had. *)
LEMMA OthersLease ==
  ASSUME NEW a \in Address, NEW type, NEW tags, TypeOK, Becomes(a, type, tags),
         \A b \in Address \ {a} : Clearing(b)' = Clearing(b)
  PROVE  /\ ip'[a].type = type /\ ip'[a].tags = tags
         /\ \A b \in Address \ {a} : LeaseOf(b)' = LeaseOf(b)
<1>1. /\ ip'[a].type = type /\ ip'[a].tags = tags
      /\ \A b \in Address \ {a} : ip'[b] = ip[b]
  BY DEF TypeOK, Becomes
<1> QED
  BY <1>1, LeaseByTags

LEMMA UsersRefine ==
  ASSUME BooksInv, NEW s \in Service, NEW a \in Address,
         Clearing(a) = {}, Clearing(a)' = {},
         \A b \in Address \ {a} : Clearing(b)' = Clearing(b),
         Takes(s, a) \/ Uses(s, a) \/ Leaves(s, a)
  PROVE  Ownership!Next
<1>1. /\ TypeOK /\ ip[a] \in IP /\ NoBlanks /\ FreeHasNoTags
      /\ Service \cap Reserved = {} /\ ip[a].tags \subseteq Known
  BY TagAssumption, BooksParts DEF BooksInv, TypeOK, NoBlanks, IP, Tag, Known
<1>2. /\ lease[a] = [type |-> ip[a].type, users |-> ip[a].tags]
      /\ LeaseOf(a)' = [type |-> ip'[a].type, users |-> ip'[a].tags \cap Known]
  BY <1>1, LeaseByTags DEF lease
<1>3. CASE Takes(s, a)
  <2>1. lease[a] = Ownership!Free
    BY <1>1, <1>2, <1>3 DEF Takes, Exists, FreeHasNoTags, Ownership!Free
  <2>2. /\ ip'[a].type = "ephemeral" /\ ip'[a].tags = {s}
        /\ \A b \in Address \ {a} : LeaseOf(b)' = LeaseOf(b)
    BY <1>1, <1>3, OthersLease DEF Takes
  <2>3. LeaseOf(a)' = [type |-> "ephemeral", users |-> {s}]
    BY <1>2, <2>2 DEF Known
  <2>4. Ownership!Acquire(s, a)
    BY <2>1, <2>2, <2>3, LeaseSet DEF Ownership!Acquire, Ownership!Set
  <2> QED
    BY <2>4 DEF Ownership!Next
<1>4. CASE Uses(s, a)
  <2>1. /\ ip'[a].type = ip[a].type /\ ip'[a].tags = ip[a].tags \cup {s}
        /\ \A b \in Address \ {a} : LeaseOf(b)' = LeaseOf(b)
    BY <1>1, <1>4, OthersLease DEF Uses
  <2>2. LeaseOf(a)' = [lease[a] EXCEPT !.users = @ \cup {s}]
    <3>1. (ip[a].tags \cup {s}) \cap Known = ip[a].tags \cup {s}
      BY <1>1 DEF Known
    <3> QED
      BY <1>2, <2>1, <3>1
  <2>3. lease[a].type # "free" /\ lease[a].users \cap Reserved = {}
    BY <1>2, <1>4 DEF Uses, Exists
  <2>4. Ownership!Share(s, a)
    BY <2>1, <2>2, <2>3, LeaseSet DEF Ownership!Share, Ownership!Set
  <2> QED
    BY <2>4 DEF Ownership!Next
<1>5. CASE Leaves(s, a)
  <2> DEFINE rest == ip[a].tags \ {s}
             gone == ip[a].type = "ephemeral" /\ rest = {}
  <2>1. s \in lease[a].users /\ lease[a].users \ {s} = rest /\ lease[a].type = ip[a].type
    BY <1>2, <1>5 DEF Leaves
  <2>2. CASE gone
    <3>1. /\ ip'[a].type = "free" /\ ip'[a].tags = {}
          /\ \A b \in Address \ {a} : LeaseOf(b)' = LeaseOf(b)
      BY <1>1, <1>5, <2>2, OthersLease DEF Leaves
    <3>2. LeaseOf(a)' = Ownership!Free
      BY <1>2, <3>1 DEF Ownership!Free
    <3>3. lease' = [lease EXCEPT ![a] = Ownership!Free]
      BY <3>1, <3>2, LeaseSet
    <3> QED
      BY <2>1, <2>2, <3>3 DEF Ownership!Next, Ownership!Leave, Ownership!Set
  <2>3. CASE ~gone
    <3>1. /\ ip'[a].type = ip[a].type /\ ip'[a].tags = rest
          /\ \A b \in Address \ {a} : LeaseOf(b)' = LeaseOf(b)
      BY <1>1, <1>5, <2>3, OthersLease DEF Leaves
    <3>2. LeaseOf(a)' = [lease[a] EXCEPT !.users = rest]
      <4>1. rest \cap Known = rest
        BY <1>1
      <4> QED
        BY <1>2, <3>1, <4>1
    <3>3. lease' = [lease EXCEPT ![a] = [lease[a] EXCEPT !.users = rest]]
      BY <3>1, <3>2, LeaseSet
    <3> QED
      BY <2>1, <2>3, <3>3 DEF Ownership!Next, Ownership!Leave, Ownership!Set
  <2> QED
    BY <2>2, <2>3
<1> QED
  BY <1>3, <1>4, <1>5

LEMMA KeepsRefines ==
  ASSUME Keeps PROVE UNCHANGED lease
<1>1. \A a \in Address : LeaseOf(a)' = LeaseOf(a)
  BY LeaseByTags DEF Keeps
<1> QED
  BY <1>1 DEF lease

(* Clearing the tags changes no lease: the rollback is the user now. *)
LEMMA ClearsRefines ==
  ASSUME BooksInv, NEW s \in Service, NEW a \in Address, Clears(s, a),
         \A b \in Address \ {a} : Clearing(b)' = Clearing(b)
  PROVE  UNCHANGED lease
<1>1. /\ ip[a].type = "ephemeral" /\ ip[a].tags = {s}
      /\ ip'[a].type = "ephemeral" /\ ip'[a].tags = {}
      /\ \A b \in Address \ {a} : LeaseOf(b)' = LeaseOf(b)
  BY BooksParts, OthersLease DEF Clears
<1>2. LeaseOf(a)' = LeaseOf(a)
  <2>1. /\ (ip[a].tags \cap Known) \cup Clearing(a) = {s}
        /\ (ip'[a].tags \cap Known) \cup Clearing(a)' = {s}
    BY <1>1 DEF Clears, Known
  <2> QED
    BY <1>1, <2>1, LeaseByTags
<1> QED
  BY <1>1, <1>2 DEF lease

LEMMA FreesRefines ==
  ASSUME BooksInv, NEW s \in Service, NEW a \in Address, Frees(s, a),
         \A b \in Address \ {a} : Clearing(b)' = Clearing(b)
  PROVE  Ownership!Next
<1>1. /\ ip[a].type = "ephemeral" /\ ip[a].tags = {}
      /\ ip'[a].type = "free" /\ ip'[a].tags = {}
      /\ \A b \in Address \ {a} : LeaseOf(b)' = LeaseOf(b)
  BY BooksParts, OthersLease DEF Frees
<1>2. LeaseOf(a)' = Ownership!Free
  BY <1>1, LeaseByTags DEF Frees, Ownership!Free
<1>3. LeaseOf(a) = [type |-> "ephemeral", users |-> {s}]
  BY <1>1, LeaseByTags DEF Frees
<1>4. /\ lease[a].type = "ephemeral" /\ s \in lease[a].users
      /\ lease[a].users \ {s} = {}
  BY <1>3 DEF lease
<1>5. lease' = [lease EXCEPT ![a] = Ownership!Free]
  BY <1>1, <1>2, LeaseSet
<1> QED
  BY <1>4, <1>5 DEF Ownership!Next, Ownership!Leave, Ownership!Set

LEMMA OthersRefine ==
  ASSUME BooksInv, NEW a \in Address, TakenElsewhere(a),
         Clearing(a) = {}, Clearing(a)' = {},
         \A b \in Address \ {a} : Clearing(b)' = Clearing(b)
  PROVE  Ownership!Next
<1>1. TypeOK /\ FreeHasNoTags /\ ip[a].type = "free"
  BY DEF BooksInv, WorkersInv, LockInv, TypeInv, TakenElsewhere, Exists
<1>2. lease[a] = Ownership!Free
  BY <1>1, LeaseByTags DEF lease, FreeHasNoTags, Ownership!Free
<1>3. CASE Becomes(a, "static", {})
  <2>1. /\ LeaseOf(a)' = [type |-> "static", users |-> {}]
        /\ \A b \in Address \ {a} : LeaseOf(b)' = LeaseOf(b)
    BY <1>1, <1>3, OthersLease, LeaseByTags
  <2>2. lease' = [lease EXCEPT ![a] = [type |-> "static", users |-> {}]]
    BY <2>1, LeaseSet
  <2> QED
    BY <1>2, <2>2 DEF Ownership!Next, Ownership!AllocateElsewhere, Ownership!Set
<1>4. ASSUME NEW t \in Reserved, Becomes(a, "ephemeral", {t}) PROVE Ownership!Next
  <2>1. /\ ip'[a].type = "ephemeral" /\ ip'[a].tags = {t}
        /\ \A b \in Address \ {a} : LeaseOf(b)' = LeaseOf(b)
    BY <1>1, <1>4, OthersLease
  <2>2. LeaseOf(a)' = [type |-> "ephemeral", users |-> {t}]
    <3>1. {t} \cap Known = {t}
      BY DEF Known
    <3> QED
      BY <2>1, <3>1, LeaseByTags
  <2>3. lease' = [lease EXCEPT ![a] = [type |-> "ephemeral", users |-> {t}]]
    BY <2>1, <2>2, LeaseSet
  <2> QED
    BY <1>2, <2>3 DEF Ownership!Next, Ownership!AllocateElsewhere, Ownership!Set
<1> QED
  BY <1>3, <1>4 DEF TakenElsewhere

LEMMA InitRefines == Init => Ownership!Init
<1> SUFFICES ASSUME Init PROVE Ownership!Init
  OBVIOUS
<1>1. ip = Inventory /\ \A a \in Address : Clearing(a) = {}
  BY DEF Init, Idle, Clearing
<1>2. \A a \in Address :
        lease[a] = [type |-> Inventory[a].type, users |-> Inventory[a].tags \cap Known]
  BY <1>1, LeaseByTags DEF lease
<1>3. ASSUME NEW a \in Address
      PROVE  /\ lease[a] \in Ownership!Lease
             /\ lease[a].users \cap Service = {}
             /\ lease[a].type = "free" => lease[a] = Ownership!Free
  <2> DEFINE users == Inventory[a].tags \cap Known
  <2>1. /\ Inventory[a] \in IP /\ Inventory[a].tags \cap Service = {}
        /\ Inventory[a].type = "free" => Inventory[a].tags = {}
    BY InventoryAssumption
  <2>2. /\ Inventory[a].type \in {"free", "ephemeral", "static"}
        /\ users \in SUBSET (Service \cup Reserved) /\ users \cap Service = {}
        /\ Inventory[a].type = "free" => users = {}
    BY <2>1 DEF IP, Known
  <2>3. lease[a] = [type |-> Inventory[a].type, users |-> users]
    BY <1>2
  <2>4. lease[a].type = Inventory[a].type /\ lease[a].users = users
    BY <2>3
  <2> HIDE DEF users
  <2> QED
    BY <2>2, <2>3, <2>4 DEF Ownership!Lease, Ownership!Free
<1>4. Ownership!TypeOK
  BY <1>3 DEF lease, Ownership!TypeOK
<1> QED
  BY <1>3, <1>4 DEF Ownership!Init

LEMMA EffectsRefine == BooksInv /\ Effects => [Ownership!Next]_lease
<1> SUFFICES ASSUME BooksInv, Effects PROVE Ownership!Next \/ UNCHANGED lease
  OBVIOUS
<1>1. ASSUME NEW a \in Address, \A b \in Address \ {a} : Clearing(b)' = Clearing(b),
             ChangesUsers(a)
      PROVE  Ownership!Next
  BY <1>1, UsersRefine, OthersRefine DEF ChangesUsers
<1>2. ASSUME NEW a \in Address, \A b \in Address \ {a} : Clearing(b)' = Clearing(b),
             NEW s \in Service, Clears(s, a) \/ Frees(s, a)
      PROVE  Ownership!Next \/ UNCHANGED lease
  BY <1>2, ClearsRefines, FreesRefines
<1> QED
  BY <1>1, <1>2, KeepsRefines DEF Effects

LEMMA NextRefines == BooksInv /\ RollbackAlone /\ [Next]_vars => [Ownership!Next]_lease
BY NextEffect, EffectsRefine

LEMMA WorkersImplementOwnership ==
  OneCluster /\ Answered /\ Spec /\ []RollbackAlone => ImplementsOwnership
<1> QED
  BY InitRefines, NextRefines, WorkersBooksHold, PTL
     DEF Spec, ImplementsOwnership, Ownership!Spec

-----------------------------------------------------------------------------
(* Several workers, where nothing is rolled back.                          *)

(* LoadBalancer implements AddressOwnership for every number of workers,   *)
(* services, addresses and retries: all that the remote calls of their     *)
(* syncs do to the addresses of a project is to let services get, share    *)
(* and leave them, each in one step (loadbalancer.go:78, 214).             *)
THEOREM SeveralWorkersImplement ==
  OneCluster /\ Answered /\ NeverRolledBack /\ Spec => ImplementsOwnership
BY NoneRollsBack, WorkersImplementOwnership, PTL

(* Nor is an ephemeral address left there without a tag that accounts for  *)
(* it: it is freed with the last one, although several services take their *)
(* tags from it at a time (loadbalancer.go:149, 254, 289).                 *)
THEOREM SeveralWorkersAccount ==
  OneCluster /\ Answered /\ NeverRolledBack /\ Spec => []Accounted /\ LastTagFrees
<1>1. BooksInv => Accounted
  BY DEF BooksInv
<1> QED
  BY <1>1, NoneRollsBack, WorkersBooksHold, WorkersLastTagFrees, PTL

-----------------------------------------------------------------------------
(* One worker: no rollback meets anybody.                                  *)

LEMMA OneIsOneCluster == OneWorker => OneCluster
BY DEF OneWorker, OneCluster

(* With one worker and answered calls the addresses of the project are     *)
(* accounted for in every reachable state, and a list of tags a sync works *)
(* with is the address's own: what a call writes back is what it read and  *)
(* its one change (loadbalancer.go:261, 317).                              *)
THEOREM BooksHold == OneWorker /\ Answered /\ Spec => []BooksInv
BY OneIsOneCluster, OneRollsBack, WorkersBooksHold, PTL

(* With one worker and answered calls, no ephemeral address is ever left   *)
(* without a tag that accounts for it (loadbalancer.go:159, 254).          *)
THEOREM AccountedHolds == OneWorker /\ Answered /\ Spec => []Accounted
<1>1. BooksInv => Accounted
  BY DEF BooksInv
<1> QED
  BY <1>1, BooksHold, PTL

(* With one worker and answered calls, an ephemeral address is freed with  *)
(* the tag of its last user (loadbalancer.go:289, 295).  The first attempt *)
(* of the retry loop does it: LB_retry shows what an attempt after a       *)
(* failed one makes of the list.                                           *)
THEOREM LastTagFreesHolds == OneWorker /\ Answered /\ Spec => LastTagFrees
BY OneIsOneCluster, OneRollsBack, WorkersLastTagFrees, PTL

(* With one worker and answered calls, LoadBalancer implements             *)
(* AddressOwnership (loadbalancer.go:78, 214).                             *)
THEOREM ImplementsOwnershipHolds == OneWorker /\ Answered /\ Spec => ImplementsOwnership
BY OneIsOneCluster, OneRollsBack, WorkersImplementOwnership, PTL
=============================================================================
