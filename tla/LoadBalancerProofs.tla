------------------------- MODULE LoadBalancerProofs -------------------------
(***************************************************************************)
(* What TLAPS proves of LoadBalancer for every number of clusters,         *)
(* services, addresses, workers, attempts and faults.                      *)
(***************************************************************************)
EXTENDS LoadBalancer, TLAPS

(* The steps of a sync that works on one address. *)
AddressStep == {"find_fixed", "use", "get_service", "put_service", "config",
                "clear_tags", "free_ip", "patch"}

(* A sync that works on an address has one: without this a step could      *)
(* append the missing address to a status, and TypeOK is not inductive.    *)
AddressKnown == \A s \in Service :
                  job[s].step \in AddressStep => job[s].addr \in Address

TypeInv == TypeOK /\ AddressKnown

USE ClusterAssumption, TagAssumption, NoneAssumption, InventoryAssumption,
    PinnableAssumption, BoundAssumption, MayFailAssumption

LEMMA StepValues ==
  /\ Step = {"find_fixed", "find_tagged", "remove", "use", "acquire",
             "get_service", "put_service", "config", "clear_tags", "free_ip",
             "idle", "lock_update", "lock_allocate", "patch", "cleanup"}
BY DEF Step, UpdateSection, AllocateSection

LEMMA FreeType == Free \in IP
BY DEF Free, IP

LEMMA AbsentType == Absent \in Object
BY DEF Absent, Object

LEMMA IdleType == Idle \in Job
BY FreeType, AbsentType, StepValues DEF Idle, Job, Nothing

LEMMA UpdateIPType ==
  ASSUME ip \in [Address -> IP], NEW a, NEW tags \in SUBSET Tag
  PROVE  UpdateIP(a, tags) \in [Address -> IP]
BY DEF UpdateIP, Exists, IP

LEMMA FreeIPType ==
  ASSUME ip \in [Address -> IP], NEW a
  PROVE  FreeIP(a) \in [Address -> IP]
BY FreeType DEF FreeIP

LEMMA UnlockType ==
  ASSUME NEW lock \in [Cluster -> Service \cup {None}], NEW s
  PROVE  Unlock(lock, s) \in [Cluster -> Service \cup {None}]
BY DEF Unlock

LEMMA InitType == Init => TypeInv
<1> SUFFICES ASSUME Init PROVE TypeInv
  OBVIOUS
<1>1. TypeOK
  BY IdleType, AbsentType DEF Init, TypeOK
<1>2. AddressKnown
  BY DEF Init, AddressKnown, AddressStep, Idle
<1> QED
  BY <1>1, <1>2 DEF TypeInv

-----------------------------------------------------------------------------
(* What the helpers the actions are built from leave behind.               *)

(* The part of TypeInv about the syncs and the mutexes. *)
JobInv == /\ job \in [Service -> Job]
          /\ updLock \in [Cluster -> Service \cup {None}]
          /\ allocLock \in [Cluster -> Service \cup {None}]
          /\ AddressKnown

LEMMA TypeInvJob == TypeInv => JobInv
BY DEF TypeInv, TypeOK, JobInv

LEMMA SetJob ==
  ASSUME JobInv, NEW s \in Service, NEW j \in Job,
         j.step \in AddressStep => j.addr \in Address,
         job' = [job EXCEPT ![s] = j]
  PROVE  job' \in [Service -> Job] /\ AddressKnown'
BY DEF JobInv, AddressKnown

LEMMA KeepLocks ==
  ASSUME JobInv, NEW s \in Service, NEW j \in Job,
         j.step \in AddressStep => j.addr \in Address,
         job' = [job EXCEPT ![s] = j], UNCHANGED <<updLock, allocLock>>
  PROVE  JobInv'
BY SetJob DEF JobInv

(* Only the step of sync s, and what else a record of Job may take without  *)
(* disturbing AddressKnown.                                                *)
LEMMA WithStep ==
  ASSUME NEW j \in Job, NEW next \in Step
  PROVE  /\ [j EXCEPT !.step = next] \in Job
         /\ [j EXCEPT !.step = next].step = next
         /\ [j EXCEPT !.step = next].addr = j.addr
BY DEF Job

LEMMA FaultType ==
  ASSUME TypeOK, NEW call, Fault(call) \/ UNCHANGED faults
  PROVE  faults' \in 0..MaxFaults
BY DEF TypeOK, Fault

LEMMA WorksType ==
  ASSUME TypeOK, NEW a, NEW after \in [Address -> IP], Works(a, after)
  PROVE  ip' \in [Address -> IP] /\ faults' \in 0..MaxFaults
BY DEF TypeOK, Works

LEMMA FailsType ==
  ASSUME TypeOK, NEW a, NEW call, NEW after \in [Address -> IP],
         Fails(a, call, after)
  PROVE  ip' \in [Address -> IP] /\ faults' \in 0..MaxFaults
BY FaultType DEF TypeOK, Fails

LEMMA ReturnErrorType ==
  ASSUME JobInv, NEW s \in Service, ReturnError(s)
  PROVE  JobInv'
<1>1. Idle.step \notin AddressStep
  BY IdleType DEF Idle, AddressStep
<1>2. job' \in [Service -> Job] /\ AddressKnown'
  BY <1>1, IdleType, SetJob DEF ReturnError
<1> QED
  BY <1>2, UnlockType DEF JobInv, ReturnError, Release

LEMMA ReturnNilType ==
  ASSUME JobInv, NEW s \in Service, NEW next \in {"patch", "cleanup"},
         next = "patch" => job[s].addr \in Address, ReturnNil(s, next)
  PROVE  JobInv'
<1> DEFINE j == [Idle EXCEPT !.step = next, !.obj = job[s].obj, !.addr = job[s].addr]
<1>1. j \in Job
  BY IdleType, StepValues DEF JobInv, Job
<1>2. j.step = next /\ j.addr = job[s].addr
  BY IdleType DEF Job
<1>3. job' = [job EXCEPT ![s] = j]
  BY DEF ReturnNil
<1> HIDE DEF j
<1>4. j.step \in AddressStep => j.addr \in Address
  BY <1>2 DEF AddressStep
<1>5. job' \in [Service -> Job] /\ AddressKnown'
  BY <1>1, <1>3, <1>4, SetJob
<1> QED
  BY <1>5, UnlockType DEF JobInv, ReturnNil, Release

LEMMA GoOnType ==
  ASSUME JobInv, NEW s \in Service, NEW next \in Step,
         next \in AddressStep => job[s].addr \in Address, GoOn(s, next)
  PROVE  JobInv'
<1> DEFINE j == [job[s] EXCEPT !.step = next, !.tries = 0]
<1>0. job[s] \in Job
  BY DEF JobInv
<1>1. j \in Job /\ j.step = next /\ j.addr = job[s].addr
  <2>1. [job[s] EXCEPT !.step = next] \in Job
    BY <1>0 DEF Job
  <2> QED
    BY <1>0, <2>1 DEF Job
<1>2. job' = [job EXCEPT ![s] = j]
  BY DEF GoOn, JobInv
<1> HIDE DEF j
<1>3. job' \in [Service -> Job] /\ AddressKnown'
  BY <1>1, <1>2, SetJob
<1> QED
  BY <1>3 DEF JobInv, GoOn

-----------------------------------------------------------------------------
(* One lemma per action. *)

LEMMA StartSyncType ==
  ASSUME TypeInv, NEW s \in Service, StartSync(s) PROVE TypeInv'
<1>1. Entry(view[s]) \in {"lock_update", "cleanup", "lock_allocate"}
  BY DEF Entry
<1>2. view[s] \in Object
  BY DEF TypeInv, TypeOK
<1> DEFINE j == [Idle EXCEPT !.step = Entry(view[s]), !.obj = view[s],
                   !.addr = IF view[s].life = "live" THEN view[s].spec ELSE None]
<1>3. j \in Job
  BY <1>1, <1>2, IdleType, StepValues DEF Job, Object
<1>4. job' = [job EXCEPT ![s] = j]
  BY DEF StartSync
<1>5. job' \in [Service -> Job]
  BY <1>3, <1>4 DEF TypeInv, TypeOK
<1>6. TypeOK'
  BY <1>5 DEF TypeInv, TypeOK, StartSync
<1>7. j.step = Entry(view[s])
  BY IdleType DEF Job
<1> HIDE DEF j
<1>8. AddressKnown'
  BY <1>1, <1>4, <1>7 DEF TypeInv, TypeOK, AddressKnown, AddressStep
<1> QED
  BY <1>6, <1>8 DEF TypeInv

LEMMA PatchStatusType ==
  ASSUME TypeInv, NEW s \in Service, PatchStatus(s) PROVE TypeInv'
<1>1. JobInv'
  BY TypeInvJob, IdleType, SetJob DEF PatchStatus, JobInv, Idle, AddressStep
<1>2. job[s].obj \in Object /\ job[s].addr \in Address /\ api[s] \in Object
  BY DEF TypeInv, TypeOK, Job, AddressKnown, AddressStep, PatchStatus
<1>3. [api[s] EXCEPT !.status = job[s].obj.status \cup {job[s].addr}] \in Object
  BY <1>2 DEF Object
<1>4. api' \in [Service -> Object]
  BY <1>3 DEF PatchStatus, TypeInv, TypeOK
<1>5. faults' \in 0..MaxFaults
  BY FaultType DEF TypeInv, PatchStatus
<1> QED
  BY <1>1, <1>4, <1>5 DEF TypeInv, TypeOK, JobInv, PatchStatus

LEMMA RemoveFinalizerType ==
  ASSUME TypeInv, NEW s \in Service, RemoveFinalizer(s) PROVE TypeInv'
<1>1. JobInv'
  BY TypeInvJob, IdleType, SetJob DEF RemoveFinalizer, JobInv, Idle, AddressStep
<1>2. api' \in [Service -> Object]
  BY AbsentType DEF RemoveFinalizer, TypeInv, TypeOK
<1>3. faults' \in 0..MaxFaults
  BY FaultType DEF TypeInv, RemoveFinalizer
<1> QED
  BY <1>1, <1>2, <1>3 DEF TypeInv, TypeOK, JobInv, RemoveFinalizer

LEMMA ObserveType ==
  ASSUME TypeInv, NEW s \in Service, Observe(s) PROVE TypeInv'
BY DEF TypeInv, TypeOK, AddressKnown, Observe

LEMMA LockUpdateType ==
  ASSUME TypeInv, NEW s \in Service, LockUpdate(s) PROVE TypeInv'
<1> DEFINE next == IF job[s].addr = None THEN "find_tagged" ELSE "find_fixed"
           j == [job[s] EXCEPT !.step = next]
<1>1. job[s] \in Job /\ next \in Step
  BY StepValues DEF TypeInv, TypeOK
<1>2. j \in Job /\ j.step = next /\ j.addr = job[s].addr
  BY <1>1 DEF Job
<1>3. j.step \in AddressStep => j.addr \in Address
  BY <1>1, <1>2 DEF Job, AddressStep
<1>4. job' = [job EXCEPT ![s] = j]
  BY DEF LockUpdate, TypeInv, TypeOK
<1> HIDE DEF j
<1>5. JobInv'
  BY <1>2, <1>3, <1>4, TypeInvJob, SetJob DEF JobInv, LockUpdate
<1> QED
  BY <1>5 DEF TypeInv, TypeOK, JobInv, LockUpdate

LEMMA FindProjectIPType ==
  ASSUME TypeInv, NEW s \in Service, FindProjectIP(s) PROVE TypeInv'
<1> DEFINE j == [job[s] EXCEPT !.step = "find_tagged", !.snap = ip[job[s].addr]]
<1>1. job[s] \in Job /\ job[s].addr \in Address /\ ip[job[s].addr] \in IP
  BY DEF TypeInv, TypeOK, AddressKnown, AddressStep, FindProjectIP
<1>2. j \in Job /\ j.step = "find_tagged"
  <2>1. [job[s] EXCEPT !.step = "find_tagged"] \in Job
    BY <1>1, StepValues DEF Job
  <2> QED
    BY <1>1, <2>1 DEF Job
<1>3. j.step \in AddressStep => j.addr \in Address
  BY <1>2 DEF AddressStep
<1>4. JobInv'
  <2>1. CASE ReturnError(s)
    BY <2>1, TypeInvJob, ReturnErrorType
  <2>2. CASE /\ job' = [job EXCEPT ![s].step = "find_tagged", ![s].snap = ip[job[s].addr]]
             /\ UNCHANGED <<updLock, allocLock>>
    <3>1. job' = [job EXCEPT ![s] = j]
      BY <2>2 DEF TypeInv, TypeOK
    <3> HIDE DEF j
    <3> QED
      BY <1>2, <1>3, <2>2, <3>1, TypeInvJob, KeepLocks
  <2> QED
    BY <2>1, <2>2, Zenon DEF FindProjectIP
<1>5. faults' \in 0..MaxFaults
  BY FaultType DEF TypeInv, FindProjectIP
<1>6. UNCHANGED <<ip, api, view, edits>>
  BY DEF FindProjectIP
<1> QED
  BY <1>4, <1>5, <1>6 DEF TypeInv, TypeOK, JobInv

LEMMA FindProjectIPsWithTagType ==
  ASSUME TypeInv, NEW s \in Service, FindProjectIPsWithTag(s) PROVE TypeInv'
<1> DEFINE f == [a \in Address |-> IF s \in ip[a].tags /\ a # job[s].addr
                                   THEN ip[a] ELSE Free]
           j == [job[s] EXCEPT !.step = "remove", !.found = f]
<1>1. job[s] \in Job /\ f \in [Address -> IP]
  BY FreeType DEF TypeInv, TypeOK
<1> HIDE DEF f
<1>2. j \in Job /\ j.step = "remove"
  <2>1. [job[s] EXCEPT !.step = "remove"] \in Job
    BY <1>1, StepValues DEF Job
  <2> QED
    BY <1>1, <2>1 DEF Job
<1>3. j.step \in AddressStep => j.addr \in Address
  BY <1>2 DEF AddressStep
<1>4. JobInv'
  <2>1. CASE ReturnError(s)
    BY <2>1, TypeInvJob, ReturnErrorType
  <2>2. CASE /\ job' = [job EXCEPT ![s].step = "remove", ![s].found = f]
             /\ UNCHANGED <<updLock, allocLock>>
    <3>1. job' = [job EXCEPT ![s] = j]
      BY <2>2 DEF TypeInv, TypeOK
    <3> HIDE DEF j
    <3> QED
      BY <1>2, <1>3, <2>2, <3>1, TypeInvJob, KeepLocks
  <2> QED
    BY <2>1, <2>2, Zenon DEF FindProjectIPsWithTag, f
<1>5. faults' \in 0..MaxFaults
  BY FaultType DEF TypeInv, FindProjectIPsWithTag
<1>6. UNCHANGED <<ip, api, view, edits>>
  BY DEF FindProjectIPsWithTag
<1> QED
  BY <1>4, <1>5, <1>6 DEF TypeInv, TypeOK, JobInv

LEMMA RemoveServiceTagType ==
  ASSUME TypeInv, NEW s \in Service, NEW a \in Address, RemoveServiceTag(s, a)
  PROVE  TypeInv'
<1> DEFINE unused == /\ job[s].found[a].type = "ephemeral"
                     /\ WithoutTag(s, a) = {}
           call == IF unused THEN "free" ELSE "update"
           after == IF unused THEN FreeIP(a) ELSE UpdateIP(a, WithoutTag(s, a))
           worked == [job[s] EXCEPT !.found = [job[s].found EXCEPT ![a] = Free],
                                    !.tries = 0]
           failed == [job[s] EXCEPT !.found = [job[s].found EXCEPT ![a] = AfterAttempt(s, a)],
                                    !.tries = job[s].tries + 1]
<1>1. job[s] \in Job /\ job[s].found[a] \in IP /\ job[s].step = "remove"
  BY DEF TypeInv, TypeOK, Job, RemoveServiceTag
<1>2. WithoutTag(s, a) \in SUBSET Tag
  BY <1>1 DEF WithoutTag, IP
<1>3. after \in [Address -> IP]
  BY <1>2, FreeIPType, UpdateIPType DEF TypeInv, TypeOK
<1>4. AfterAttempt(s, a) \in IP
  BY <1>1, <1>2 DEF AfterAttempt, IP, Tag
<1>5. worked \in Job /\ worked.step = "remove"
  <2>1. [job[s] EXCEPT !.found = [job[s].found EXCEPT ![a] = Free]] \in Job
    BY <1>1, FreeType DEF Job
  <2> QED
    BY <1>1, <2>1 DEF Job
<1>6. failed \in Job /\ failed.step = "remove"
  <2>1. [job[s] EXCEPT !.found = [job[s].found EXCEPT ![a] = AfterAttempt(s, a)]] \in Job
    BY <1>1, <1>4 DEF Job
  <2>2. job[s].tries + 1 \in Nat
    BY <1>1 DEF Job
  <2> QED
    BY <1>1, <2>1, <2>2 DEF Job
<1>7. UNCHANGED <<api, view, edits>>
  BY DEF RemoveServiceTag
<1> HIDE DEF after, call, unused
<1>8. CASE /\ Works(a, after)
           /\ job' = [job EXCEPT ![s].found[a] = Free, ![s].tries = 0]
           /\ UNCHANGED <<updLock, allocLock>>
  <2>1. job' = [job EXCEPT ![s] = worked]
    BY <1>8 DEF TypeInv, TypeOK
  <2> HIDE DEF worked
  <2>2. JobInv'
    BY <1>5, <1>8, <2>1, TypeInvJob, KeepLocks DEF AddressStep
  <2> QED
    BY <1>3, <1>7, <1>8, <2>2, WorksType DEF TypeInv, TypeOK, JobInv
<1>9. CASE /\ Fails(a, call, after)
           /\ job' = [job EXCEPT ![s].found[a] = AfterAttempt(s, a), ![s].tries = @ + 1]
           /\ UNCHANGED <<updLock, allocLock>>
  <2>1. job' = [job EXCEPT ![s] = failed]
    BY <1>9 DEF TypeInv, TypeOK
  <2> HIDE DEF failed
  <2>2. JobInv'
    BY <1>6, <1>9, <2>1, TypeInvJob, KeepLocks DEF AddressStep
  <2> QED
    BY <1>3, <1>7, <1>9, <2>2, FailsType DEF TypeInv, TypeOK, JobInv
<1>10. CASE Fails(a, call, after) /\ ReturnError(s)
  <2>1. JobInv'
    BY <1>10, TypeInvJob, ReturnErrorType
  <2> QED
    BY <1>3, <1>7, <1>10, <2>1, FailsType DEF TypeInv, TypeOK, JobInv
<1> QED
  BY <1>8, <1>9, <1>10, Zenon DEF RemoveServiceTag, after, call, unused

LEMMA EndRemoveType ==
  ASSUME TypeInv, NEW s \in Service, EndRemove(s) PROVE TypeInv'
<1>1. job[s] \in Job
  BY DEF TypeInv, TypeOK
<1>2. CASE job[s].addr = None /\ ReturnNil(s, "cleanup")
  BY <1>2, TypeInvJob, ReturnNilType DEF EndRemove, TypeInv, TypeOK, JobInv
<1>3. CASE job[s].addr # None /\ GoOn(s, "use")
  <2>1. job[s].addr \in Address
    BY <1>1, <1>3 DEF Job
  <2>2. JobInv'
    BY <1>3, <2>1, TypeInvJob, GoOnType, StepValues
  <2> QED
    BY <2>2 DEF EndRemove, TypeInv, TypeOK, JobInv
<1> QED
  BY <1>2, <1>3, Zenon DEF EndRemove

LEMMA UseIPInClusterType ==
  ASSUME TypeInv, NEW s \in Service, UseIPInCluster(s) PROVE TypeInv'
<1> DEFINE a == job[s].addr
           after == UpdateIP(a, job[s].snap.tags \cup {s})
<1>1. job[s] \in Job /\ a \in Address
  BY DEF TypeInv, TypeOK, AddressKnown, AddressStep, UseIPInCluster
<1>2. job[s].snap.tags \cup {s} \in SUBSET Tag
  BY <1>1 DEF Job, IP, Tag
<1>3. after \in [Address -> IP]
  BY <1>2, UpdateIPType DEF TypeInv, TypeOK
<1>4. UNCHANGED <<api, view, edits>>
  BY DEF UseIPInCluster
<1> HIDE DEF after
<1>5. CASE Works(a, after) /\ ReturnNil(s, "patch")
  <2>1. JobInv'
    BY <1>1, <1>5, TypeInvJob, ReturnNilType
  <2> QED
    BY <1>3, <1>4, <1>5, <2>1, WorksType DEF TypeInv, TypeOK, JobInv
<1>6. CASE (Fails(a, "update", after) \/ UNCHANGED <<ip, faults>>) /\ ReturnError(s)
  <2>1. JobInv'
    BY <1>6, TypeInvJob, ReturnErrorType
  <2>2. ip' \in [Address -> IP] /\ faults' \in 0..MaxFaults
    BY <1>3, <1>6, FailsType DEF TypeInv, TypeOK
  <2> QED
    BY <1>4, <2>1, <2>2 DEF TypeInv, TypeOK, JobInv
<1> QED
  BY <1>5, <1>6, Zenon DEF UseIPInCluster, after

LEMMA LockAllocateType ==
  ASSUME TypeInv, NEW s \in Service, LockAllocate(s) PROVE TypeInv'
<1> DEFINE j == [job[s] EXCEPT !.step = "acquire"]
<1>1. UNCHANGED <<ip, api, view, updLock, faults, edits>>
  BY DEF LockAllocate
<1>2. CASE job' = [job EXCEPT ![s] = Idle] /\ UNCHANGED allocLock
  <2>1. JobInv'
    BY <1>1, <1>2, TypeInvJob, IdleType, KeepLocks DEF Idle, AddressStep
  <2> QED
    BY <1>1, <2>1 DEF TypeInv, TypeOK, JobInv
<1>3. CASE /\ job' = [job EXCEPT ![s].step = "acquire"]
           /\ allocLock' = [allocLock EXCEPT ![ClusterOf[s]] = s]
  <2>1. job[s] \in Job /\ "acquire" \in Step
    BY StepValues DEF TypeInv, TypeOK
  <2>2. j \in Job /\ j.step = "acquire"
    BY <2>1, WithStep
  <2>3. job' = [job EXCEPT ![s] = j]
    BY <1>3 DEF TypeInv, TypeOK
  <2> HIDE DEF j
  <2>4. job' \in [Service -> Job] /\ AddressKnown'
    BY <2>2, <2>3, TypeInvJob, SetJob DEF AddressStep
  <2> QED
    BY <1>1, <1>3, <2>4 DEF TypeInv, TypeOK
<1> QED
  BY <1>2, <1>3, Zenon DEF LockAllocate

LEMMA AcquireIPType ==
  ASSUME TypeInv, NEW s \in Service, AcquireIP(s) PROVE TypeInv'
<1>1. UNCHANGED <<api, view, edits>>
  BY DEF AcquireIP
<1>2. ASSUME NEW a \in Address,
             ip' = [ip EXCEPT ![a] = [type |-> "ephemeral", tags |-> {s}]]
      PROVE  ip' \in [Address -> IP]
  <2>1. [type |-> "ephemeral", tags |-> {s}] \in IP
    BY DEF IP, Tag
  <2> QED
    BY <1>2, <2>1 DEF TypeInv, TypeOK
<1>3. ASSUME NEW a \in Address,
             ip' = [ip EXCEPT ![a] = [type |-> "ephemeral", tags |-> {s}]],
             job' = [job EXCEPT ![s].addr = a, ![s].step = "get_service"],
             UNCHANGED <<updLock, allocLock, faults>>
      PROVE  TypeInv'
  <2> DEFINE j == [job[s] EXCEPT !.addr = a, !.step = "get_service"]
  <2>1. job[s] \in Job /\ "get_service" \in Step
    BY StepValues DEF TypeInv, TypeOK
  <2>2. [job[s] EXCEPT !.addr = a] \in Job /\ [job[s] EXCEPT !.addr = a].addr = a
    BY <2>1 DEF Job
  <2>3. j \in Job /\ j.addr = a
    BY <2>1, <2>2, WithStep
  <2>4. job' = [job EXCEPT ![s] = j]
    BY <1>3 DEF TypeInv, TypeOK
  <2> HIDE DEF j
  <2>5. JobInv'
    BY <1>3, <2>3, <2>4, TypeInvJob, KeepLocks
  <2> QED
    BY <1>1, <1>2, <1>3, <2>5 DEF TypeInv, TypeOK, JobInv
<1>4. ASSUME ip' \in [Address -> IP], NEW call, Fault(call) \/ UNCHANGED faults,
             ReturnError(s)
      PROVE  TypeInv'
  <2>1. JobInv'
    BY <1>4, TypeInvJob, ReturnErrorType
  <2>2. faults' \in 0..MaxFaults
    BY <1>4, FaultType DEF TypeInv
  <2> QED
    BY <1>1, <1>4, <2>1, <2>2 DEF TypeInv, TypeOK, JobInv
<1>5. CASE \E a \in Address :
             /\ ip' = [ip EXCEPT ![a] = [type |-> "ephemeral", tags |-> {s}]]
             /\ \/ /\ job' = [job EXCEPT ![s].addr = a, ![s].step = "get_service"]
                   /\ UNCHANGED <<updLock, allocLock, faults>>
                \/ Fault("allocate") /\ ReturnError(s)
  <2>1. PICK a \in Address :
             /\ ip' = [ip EXCEPT ![a] = [type |-> "ephemeral", tags |-> {s}]]
             /\ \/ /\ job' = [job EXCEPT ![s].addr = a, ![s].step = "get_service"]
                   /\ UNCHANGED <<updLock, allocLock, faults>>
                \/ Fault("allocate") /\ ReturnError(s)
    BY <1>5
  <2>2. ip' \in [Address -> IP]
    BY <1>2, <2>1
  <2>3. CASE Fault("allocate") /\ ReturnError(s)
    BY <1>4, <2>2, <2>3
  <2>4. CASE /\ job' = [job EXCEPT ![s].addr = a, ![s].step = "get_service"]
             /\ UNCHANGED <<updLock, allocLock, faults>>
    BY <1>3, <2>1, <2>4, Zenon
  <2> QED
    BY <2>1, <2>3, <2>4, Zenon
<1>6. CASE /\ UNCHANGED ip
           /\ UNCHANGED faults \/ Fault("allocate")
           /\ ReturnError(s)
  BY <1>4, <1>6 DEF TypeInv, TypeOK
<1> QED
  BY <1>5, <1>6, Zenon DEF AcquireIP

LEMMA GetServiceType ==
  ASSUME TypeInv, NEW s \in Service, GetService(s) PROVE TypeInv'
<1>1. UNCHANGED <<ip, api, view, updLock, allocLock, edits>>
  BY DEF GetService
<1>2. job[s] \in Job /\ job[s].addr \in Address
  BY DEF TypeInv, TypeOK, AddressKnown, AddressStep, GetService
<1>3. faults' \in 0..MaxFaults
  BY FaultType, Zenon DEF TypeInv, GetService
<1>4. ASSUME NEW j \in Job, j.addr = job[s].addr, job' = [job EXCEPT ![s] = j]
      PROVE  TypeInv'
  <2>1. JobInv'
    BY <1>1, <1>2, <1>4, TypeInvJob, KeepLocks
  <2> QED
    BY <1>1, <1>3, <2>1 DEF TypeInv, TypeOK, JobInv
<1>5. CASE job' = [job EXCEPT ![s].step = "put_service", ![s].fresh = TRUE]
  <2> DEFINE j == [job[s] EXCEPT !.step = "put_service", !.fresh = TRUE]
  <2>1. /\ [job[s] EXCEPT !.step = "put_service"] \in Job
        /\ [job[s] EXCEPT !.step = "put_service"].addr = job[s].addr
    BY <1>2, WithStep, StepValues
  <2>2. j \in Job /\ j.addr = job[s].addr
    BY <2>1 DEF Job
  <2>3. job' = [job EXCEPT ![s] = j]
    BY <1>5 DEF TypeInv, TypeOK
  <2> QED
    BY <1>4, <2>2, <2>3
<1>6. CASE job' = [job EXCEPT ![s].step = "clear_tags"]
  <2> DEFINE j == [job[s] EXCEPT !.step = "clear_tags"]
  <2>1. j \in Job /\ j.addr = job[s].addr
    BY <1>2, WithStep, StepValues
  <2>2. job' = [job EXCEPT ![s] = j]
    BY <1>6 DEF TypeInv, TypeOK
  <2> QED
    BY <1>4, <2>1, <2>2
<1> QED
  BY <1>5, <1>6, Zenon DEF GetService

LEMMA UpdateServiceType ==
  ASSUME TypeInv, NEW s \in Service, UpdateService(s) PROVE TypeInv'
<1> DEFINE written == [api EXCEPT ![s].spec = job[s].addr]
<1>1. UNCHANGED <<ip, view, updLock, allocLock, edits>>
  BY DEF UpdateService
<1>2. job[s] \in Job /\ job[s].addr \in Address /\ api[s] \in Object
  BY DEF TypeInv, TypeOK, AddressKnown, AddressStep, UpdateService
<1>3. written \in [Service -> Object]
  <2>1. [api[s] EXCEPT !.spec = job[s].addr] \in Object
    BY <1>2 DEF Object
  <2> QED
    BY <2>1 DEF TypeInv, TypeOK
<1> HIDE DEF written
<1>4. api' \in [Service -> Object] /\ faults' \in 0..MaxFaults
  <2>1. CASE api' = written /\ UNCHANGED faults
    BY <1>3, <2>1 DEF TypeInv, TypeOK
  <2>2. CASE UNCHANGED <<api, faults>>
    BY <2>2 DEF TypeInv, TypeOK
  <2>3. CASE Fault("service") /\ api' \in {api, written}
    BY <1>3, <2>3, FaultType DEF TypeInv, TypeOK
  <2>4. CASE Fault("service") /\ api' \in {api}
    BY <2>4, FaultType DEF TypeInv, TypeOK
  <2>5. CASE Fault("service") /\ api' \in IF job[s].fresh THEN {api, written} ELSE {api}
    BY <2>3, <2>4, <2>5, Zenon
  <2> QED
    BY <2>1, <2>2, <2>5, Zenon DEF UpdateService, written
<1>5. ASSUME NEW j \in Job, j.addr = job[s].addr, job' = [job EXCEPT ![s] = j]
      PROVE  TypeInv'
  <2>1. JobInv'
    BY <1>1, <1>2, <1>5, TypeInvJob, KeepLocks
  <2> QED
    BY <1>1, <1>4, <2>1 DEF TypeInv, TypeOK, JobInv
<1>6. ASSUME NEW next \in Step, job' = [job EXCEPT ![s].step = next]
      PROVE  TypeInv'
  <2> DEFINE j == [job[s] EXCEPT !.step = next]
  <2>1. j \in Job /\ j.addr = job[s].addr
    BY <1>2, WithStep
  <2>2. job' = [job EXCEPT ![s] = j]
    BY <1>6 DEF TypeInv, TypeOK
  <2> QED
    BY <1>5, <2>1, <2>2
<1>7. CASE job' = [job EXCEPT ![s].step = "get_service", ![s].tries = @ + 1]
  <2> DEFINE j == [job[s] EXCEPT !.step = "get_service", !.tries = job[s].tries + 1]
  <2>1. /\ [job[s] EXCEPT !.step = "get_service"] \in Job
        /\ [job[s] EXCEPT !.step = "get_service"].addr = job[s].addr
    BY <1>2, WithStep, StepValues
  <2>2. job[s].tries + 1 \in Nat
    BY <1>2 DEF Job
  <2>3. j \in Job /\ j.addr = job[s].addr
    BY <2>1, <2>2 DEF Job
  <2>4. job' = [job EXCEPT ![s] = j]
    BY <1>7, <2>1 DEF TypeInv, TypeOK
  <2> QED
    BY <1>5, <2>3, <2>4
<1>8. "config" \in Step /\ "clear_tags" \in Step
  BY StepValues
<1>9. CASE \/ job' = [job EXCEPT ![s].step = "config"]
           \/ job' = [job EXCEPT ![s].step = "clear_tags"]
  BY <1>6, <1>8, <1>9
<1> QED
  BY <1>7, <1>9, Zenon DEF UpdateService

LEMMA UpdateLoadBalancerConfigType ==
  ASSUME TypeInv, NEW s \in Service, UpdateLoadBalancerConfig(s) PROVE TypeInv'
<1>1. UNCHANGED <<ip, api, view, edits>>
  BY DEF UpdateLoadBalancerConfig
<1>2. job[s].addr \in Address
  BY DEF TypeInv, TypeOK, AddressKnown, AddressStep, UpdateLoadBalancerConfig
<1>3. CASE ReturnNil(s, "patch") /\ UNCHANGED faults
  BY <1>1, <1>2, <1>3, TypeInvJob, ReturnNilType DEF TypeInv, TypeOK, JobInv
<1>4. CASE GoOn(s, "clear_tags") /\ Fault("config")
  <2>1. JobInv'
    BY <1>2, <1>4, TypeInvJob, GoOnType, StepValues
  <2> QED
    BY <1>1, <1>4, <2>1, FaultType DEF TypeInv, TypeOK, JobInv
<1> QED
  BY <1>3, <1>4, Zenon DEF UpdateLoadBalancerConfig

LEMMA RollbackTagsType ==
  ASSUME TypeInv, NEW s \in Service, RollbackTags(s) PROVE TypeInv'
<1> DEFINE a == job[s].addr
           after == UpdateIP(a, {})
<1>1. UNCHANGED <<api, view, edits>>
  BY DEF RollbackTags
<1>2. a \in Address
  BY DEF TypeInv, TypeOK, AddressKnown, AddressStep, RollbackTags
<1>3. after \in [Address -> IP]
  BY UpdateIPType DEF TypeInv, TypeOK
<1> HIDE DEF after
<1>4. CASE Works(a, after) /\ GoOn(s, "free_ip")
  <2>1. JobInv'
    BY <1>2, <1>4, TypeInvJob, GoOnType, StepValues
  <2> QED
    BY <1>1, <1>3, <1>4, <2>1, WorksType DEF TypeInv, TypeOK, JobInv
<1>5. CASE Fails(a, "update", after) /\ ReturnError(s)
  <2>1. JobInv'
    BY <1>5, TypeInvJob, ReturnErrorType
  <2> QED
    BY <1>1, <1>3, <1>5, <2>1, FailsType DEF TypeInv, TypeOK, JobInv
<1> QED
  BY <1>4, <1>5, Zenon DEF RollbackTags, after

LEMMA RollbackFreeType ==
  ASSUME TypeInv, NEW s \in Service, RollbackFree(s) PROVE TypeInv'
<1>1. UNCHANGED <<api, view, edits>> /\ ReturnError(s)
  BY DEF RollbackFree
<1>2. JobInv'
  BY <1>1, TypeInvJob, ReturnErrorType
<1>3. ip' \in [Address -> IP] /\ faults' \in 0..MaxFaults
  BY FreeIPType, WorksType, FailsType DEF RollbackFree, TypeInv, TypeOK
<1> QED
  BY <1>1, <1>2, <1>3 DEF TypeInv, TypeOK, JobInv

LEMMA CrashType ==
  ASSUME TypeInv, NEW c \in Cluster, Crash(c) PROVE TypeInv'
<1>1. job' \in [Service -> Job] /\ AddressKnown'
  BY IdleType DEF TypeInv, TypeOK, AddressKnown, AddressStep, Idle, Crash
<1>2. faults' \in 0..MaxFaults
  BY FaultType DEF TypeInv, Crash
<1> QED
  BY <1>1, <1>2 DEF TypeInv, TypeOK, Crash

LEMMA EditType ==
  ASSUME TypeInv, NEW s \in Service, NEW o \in Object, Edit(s, o) PROVE TypeInv'
<1> DEFINE j == [job[s] EXCEPT !.fresh = FALSE]
<1>1. job[s] \in Job
  BY DEF TypeInv, TypeOK
<1>2. j \in Job /\ j.step = job[s].step /\ j.addr = job[s].addr
  BY <1>1 DEF Job
<1>3. job' = [job EXCEPT ![s] = j]
  BY DEF Edit, TypeInv, TypeOK
<1> HIDE DEF j
<1>4. JobInv'
  BY <1>2, <1>3, TypeInvJob, KeepLocks DEF Edit, JobInv, AddressKnown
<1> QED
  BY <1>4 DEF TypeInv, TypeOK, JobInv, Edit

LEMMA UserType ==
  ASSUME TypeInv, NEW s \in Service, User(s) PROVE TypeInv'
<1>1. api[s] \in Object
  BY DEF TypeInv, TypeOK
<1>2. CASE CreateService(s)
  <2>1. \A a \in Pinnable \cup {None} :
          [life |-> "live", spec |-> a, status |-> {}] \in Object
    BY DEF Object
  <2> QED
    BY <1>2, <2>1, EditType DEF CreateService
<1>3. CASE PinAddress(s)
  <2>1. \A a \in Pinnable \cup {None} : [api[s] EXCEPT !.spec = a] \in Object
    BY <1>1 DEF Object
  <2> QED
    BY <1>3, <2>1, EditType DEF PinAddress
<1>4. CASE DeleteService(s)
  <2>1. [api[s] EXCEPT !.life = "deleting"] \in Object
    BY <1>1 DEF Object
  <2> QED
    BY <1>4, <2>1, EditType DEF DeleteService
<1> QED
  BY <1>2, <1>3, <1>4 DEF User

LEMMA AllocateElsewhereType ==
  ASSUME TypeInv, NEW a \in Address, AllocateElsewhere(a) PROVE TypeInv'
<1>1. {[type |-> "static", tags |-> {}]}
        \cup {[type |-> "ephemeral", tags |-> {t}] : t \in Reserved} \subseteq IP
  BY DEF IP, Tag
<1>2. ip' \in [Address -> IP]
  BY <1>1 DEF TypeInv, TypeOK, AllocateElsewhere
<1>3. edits' \in 0..MaxEdits
  BY DEF TypeInv, TypeOK, AllocateElsewhere
<1> QED
  BY <1>2, <1>3 DEF TypeInv, TypeOK, AddressKnown, AllocateElsewhere

-----------------------------------------------------------------------------

LEMMA NextType == TypeInv /\ [Next]_vars => TypeInv'
<1> SUFFICES ASSUME TypeInv, [Next]_vars PROVE TypeInv'
  OBVIOUS
<1>1. ASSUME NEW s \in Service, StartSync(s) \/ Sync(s) \/ Observe(s) \/ User(s)
      PROVE  TypeInv'
  <2>1. CASE Ensure(s)
    BY <2>1, LockUpdateType, FindProjectIPType, FindProjectIPsWithTagType,
       RemoveServiceTagType, EndRemoveType, UseIPInClusterType, LockAllocateType,
       AcquireIPType, GetServiceType, UpdateServiceType,
       UpdateLoadBalancerConfigType, RollbackTagsType, RollbackFreeType DEF Ensure
  <2>2. CASE PatchStatus(s) \/ RemoveFinalizer(s)
    BY <2>2, PatchStatusType, RemoveFinalizerType
  <2>3. CASE StartSync(s) \/ Observe(s) \/ User(s)
    BY <2>3, StartSyncType, ObserveType, UserType
  <2> QED
    BY <1>1, <2>1, <2>2, <2>3 DEF Sync
<1>2. ASSUME NEW c \in Cluster, Crash(c) PROVE TypeInv'
  BY <1>2, CrashType
<1>3. ASSUME NEW a \in Address, AllocateElsewhere(a) PROVE TypeInv'
  BY <1>3, AllocateElsewhereType
<1>4. CASE UNCHANGED vars
  BY <1>4 DEF vars, TypeInv, TypeOK, AddressKnown
<1> QED
  BY <1>1, <1>2, <1>3, <1>4 DEF Next

THEOREM TypeCorrect == Spec => []TypeInv
<1> QED
  BY InitType, NextType, PTL DEF Spec

(* Every variable keeps its type: in particular what a sync writes into a  *)
(* status or into spec.loadBalancerIP is an address.                       *)
THEOREM TypeOKHolds == Spec => []TypeOK
<1>1. TypeInv => TypeOK
  BY DEF TypeInv
<1> QED
  BY <1>1, TypeCorrect, PTL

-----------------------------------------------------------------------------
(* The mutexes.  LockDiscipline is inductive on top of TypeInv: a step      *)
(* moves its own sync within a section, into one whose mutex it takes free, *)
(* or out of every section with both mutexes given back.                   *)

LockInv == TypeInv /\ LockDiscipline

(* Sync s goes to step next, the others stay where they are. *)
Moves(s, next) == /\ job'[s].step = next
                  /\ \A t \in Service \ {s} : job'[t] = job[t]

LEMMA Disjoint ==
  /\ UpdateSection \cap AllocateSection = {}
  /\ \A x \in {"idle", "lock_update", "lock_allocate", "patch", "cleanup"} :
       x \notin UpdateSection /\ x \notin AllocateSection
BY DEF UpdateSection, AllocateSection

LEMMA WithinSection ==
  ASSUME LockInv, NEW s \in Service, NEW next, Moves(s, next),
         next \in UpdateSection <=> job[s].step \in UpdateSection,
         next \in AllocateSection <=> job[s].step \in AllocateSection,
         UNCHANGED <<updLock, allocLock>>
  PROVE  LockDiscipline'
<1> SUFFICES ASSUME NEW t \in Service
             PROVE  /\ job'[t].step \in UpdateSection <=> updLock'[ClusterOf[t]] = t
                    /\ job'[t].step \in AllocateSection <=> allocLock'[ClusterOf[t]] = t
  BY DEF LockDiscipline
<1> USE DEF LockInv, LockDiscipline, Moves
<1>1. CASE t = s
  BY <1>1
<1>2. CASE t # s
  BY <1>2
<1> QED
  BY <1>1, <1>2

LEMMA OutOfSections ==
  ASSUME LockInv, NEW s \in Service, NEW next, Moves(s, next), Release(s),
         next \notin UpdateSection \cup AllocateSection
  PROVE  LockDiscipline'
<1> SUFFICES ASSUME NEW t \in Service
             PROVE  /\ job'[t].step \in UpdateSection <=> updLock'[ClusterOf[t]] = t
                    /\ job'[t].step \in AllocateSection <=> allocLock'[ClusterOf[t]] = t
  BY DEF LockDiscipline
<1>1. ClusterOf[t] \in Cluster
  OBVIOUS
<1>2. CASE t = s
  BY <1>1, <1>2 DEF LockInv, LockDiscipline, Moves, Release, Unlock
<1>3. CASE t # s
  BY <1>1, <1>3 DEF LockInv, LockDiscipline, Moves, Release, Unlock
<1> QED
  BY <1>2, <1>3

LEMMA IdleMoves ==
  ASSUME TypeInv, NEW s \in Service, job' = [job EXCEPT ![s] = Idle]
  PROVE  Moves(s, "idle")
BY DEF TypeInv, TypeOK, Moves, Idle

LEMMA ReturnErrorLocks ==
  ASSUME LockInv, NEW s \in Service, ReturnError(s) PROVE LockDiscipline'
<1>1. Moves(s, "idle")
  BY IdleMoves DEF ReturnError, LockInv
<1> QED
  BY <1>1, Disjoint, OutOfSections DEF ReturnError

LEMMA ReturnNilLocks ==
  ASSUME LockInv, NEW s \in Service, NEW next \in {"patch", "cleanup"},
         ReturnNil(s, next)
  PROVE  LockDiscipline'
<1>1. Moves(s, next)
  <2>1. [Idle EXCEPT !.step = next, !.obj = job[s].obj, !.addr = job[s].addr].step = next
    BY DEF Idle
  <2> QED
    BY <2>1 DEF ReturnNil, Moves, LockInv, TypeInv, TypeOK
<1> QED
  BY <1>1, Disjoint, OutOfSections DEF ReturnNil

LEMMA GoOnLocks ==
  ASSUME LockInv, NEW s \in Service, NEW next, GoOn(s, next),
         next \in UpdateSection <=> job[s].step \in UpdateSection,
         next \in AllocateSection <=> job[s].step \in AllocateSection
  PROVE  LockDiscipline'
<1>1. Moves(s, next)
  BY DEF GoOn, Moves, LockInv, TypeInv, TypeOK, Job
<1> QED
  BY <1>1, WithinSection DEF GoOn

LEMMA LockUpdateLocks ==
  ASSUME LockInv, NEW s \in Service, LockUpdate(s) PROVE LockDiscipline'
<1>1. Moves(s, IF job[s].addr = None THEN "find_tagged" ELSE "find_fixed")
  BY DEF LockUpdate, Moves, LockInv, TypeInv, TypeOK, Job
<1>2. job'[s].step \in UpdateSection /\ job'[s].step \notin AllocateSection
  BY <1>1 DEF Moves, UpdateSection, AllocateSection
<1>3. /\ updLock[ClusterOf[s]] = None
      /\ updLock' = [updLock EXCEPT ![ClusterOf[s]] = s]
      /\ UNCHANGED allocLock
      /\ job[s].step \notin UpdateSection \cup AllocateSection
  BY Disjoint DEF LockUpdate
<1> SUFFICES ASSUME NEW t \in Service
             PROVE  /\ job'[t].step \in UpdateSection <=> updLock'[ClusterOf[t]] = t
                    /\ job'[t].step \in AllocateSection <=> allocLock'[ClusterOf[t]] = t
  BY DEF LockDiscipline
<1>4. ClusterOf[t] \in Cluster /\ ClusterOf[s] \in Cluster
  OBVIOUS
<1>5. CASE t = s
  BY <1>2, <1>3, <1>4, <1>5 DEF LockInv, TypeInv, TypeOK, LockDiscipline
<1>6. CASE t # s
  BY <1>1, <1>3, <1>4, <1>6 DEF LockInv, TypeInv, TypeOK, LockDiscipline, Moves
<1> QED
  BY <1>5, <1>6

LEMMA LockAllocateLocks ==
  ASSUME LockInv, NEW s \in Service, LockAllocate(s) PROVE LockDiscipline'
<1>1. CASE job' = [job EXCEPT ![s] = Idle] /\ UNCHANGED allocLock
  <2>1. Moves(s, "idle")
    BY <1>1, IdleMoves DEF LockInv
  <2>2. job[s].step = "lock_allocate" /\ UNCHANGED <<updLock, allocLock>>
    BY <1>1 DEF LockAllocate
  <2> QED
    BY <2>1, <2>2, Disjoint, WithinSection
<1>2. CASE /\ job' = [job EXCEPT ![s].step = "acquire"]
           /\ allocLock' = [allocLock EXCEPT ![ClusterOf[s]] = s]
  <2>1. Moves(s, "acquire")
    BY <1>2 DEF Moves, LockInv, TypeInv, TypeOK, Job
  <2>2. job'[s].step \in AllocateSection /\ job'[s].step \notin UpdateSection
    BY <2>1 DEF Moves, UpdateSection, AllocateSection
  <2>3. /\ allocLock[ClusterOf[s]] = None
        /\ UNCHANGED updLock
        /\ job[s].step \notin UpdateSection \cup AllocateSection
    BY Disjoint DEF LockAllocate
  <2> SUFFICES ASSUME NEW t \in Service
               PROVE  /\ job'[t].step \in UpdateSection <=> updLock'[ClusterOf[t]] = t
                      /\ job'[t].step \in AllocateSection <=> allocLock'[ClusterOf[t]] = t
    BY DEF LockDiscipline
  <2>4. ClusterOf[t] \in Cluster /\ ClusterOf[s] \in Cluster
    OBVIOUS
  <2>5. CASE t = s
    BY <1>2, <2>2, <2>3, <2>4, <2>5 DEF LockInv, TypeInv, TypeOK, LockDiscipline
  <2>6. CASE t # s
    BY <1>2, <2>1, <2>3, <2>4, <2>6 DEF LockInv, TypeInv, TypeOK, LockDiscipline, Moves
  <2> QED
    BY <2>5, <2>6
<1> QED
  BY <1>1, <1>2, Zenon DEF LockAllocate

LEMMA UpdatePathLocks ==
  ASSUME LockInv, NEW s \in Service,
         \/ FindProjectIP(s) \/ FindProjectIPsWithTag(s)
         \/ \E a \in Address : RemoveServiceTag(s, a)
         \/ EndRemove(s) \/ UseIPInCluster(s)
  PROVE  LockDiscipline'
<1> USE DEF UpdateSection, AllocateSection
<1>1. CASE FindProjectIP(s)
  <2>1. CASE /\ job' = [job EXCEPT ![s].step = "find_tagged", ![s].snap = ip[job[s].addr]]
             /\ UNCHANGED <<updLock, allocLock>>
    <3>1. Moves(s, "find_tagged")
      BY <2>1 DEF Moves, LockInv, TypeInv, TypeOK, Job
    <3>2. job[s].step = "find_fixed"
      BY <1>1 DEF FindProjectIP
    <3> QED
      BY <2>1, <3>1, <3>2, WithinSection
  <2> QED
    BY <1>1, <2>1, ReturnErrorLocks, Zenon DEF FindProjectIP
<1>2. CASE FindProjectIPsWithTag(s)
  <2> DEFINE f == [a \in Address |-> IF s \in ip[a].tags /\ a # job[s].addr
                                     THEN ip[a] ELSE Free]
  <2>1. CASE /\ job' = [job EXCEPT ![s].step = "remove", ![s].found = f]
             /\ UNCHANGED <<updLock, allocLock>>
    <3> HIDE DEF f
    <3>1. Moves(s, "remove")
      BY <2>1 DEF Moves, LockInv, TypeInv, TypeOK, Job
    <3>2. job[s].step = "find_tagged"
      BY <1>2 DEF FindProjectIPsWithTag
    <3> QED
      BY <2>1, <3>1, <3>2, WithinSection
  <2> QED
    BY <1>2, <2>1, ReturnErrorLocks, Zenon DEF FindProjectIPsWithTag
<1>3. ASSUME NEW a \in Address, RemoveServiceTag(s, a) PROVE LockDiscipline'
  <2>1. job[s].step = "remove"
    BY <1>3 DEF RemoveServiceTag
  <2>2. CASE /\ job' = [job EXCEPT ![s].found[a] = Free, ![s].tries = 0]
             /\ UNCHANGED <<updLock, allocLock>>
    <3>1. Moves(s, "remove")
      BY <2>1, <2>2 DEF Moves, LockInv, TypeInv, TypeOK, Job
    <3> QED
      BY <2>1, <2>2, <3>1, WithinSection
  <2>3. CASE /\ job' = [job EXCEPT ![s].found[a] = AfterAttempt(s, a), ![s].tries = @ + 1]
             /\ UNCHANGED <<updLock, allocLock>>
    <3>1. Moves(s, "remove")
      BY <2>1, <2>3 DEF Moves, LockInv, TypeInv, TypeOK, Job
    <3> QED
      BY <2>1, <2>3, <3>1, WithinSection
  <2> QED
    BY <1>3, <2>2, <2>3, ReturnErrorLocks, Zenon DEF RemoveServiceTag
<1>4. CASE EndRemove(s)
  <2>1. job[s].step = "remove"
    BY <1>4 DEF EndRemove
  <2>2. ReturnNil(s, "cleanup") \/ GoOn(s, "use")
    BY <1>4 DEF EndRemove
  <2> QED
    BY <2>1, <2>2, ReturnNilLocks, GoOnLocks
<1>5. CASE UseIPInCluster(s)
  <2>1. ReturnNil(s, "patch") \/ ReturnError(s)
    BY <1>5 DEF UseIPInCluster
  <2> QED
    BY <2>1, ReturnNilLocks, ReturnErrorLocks
<1> QED
  BY <1>1, <1>2, <1>3, <1>4, <1>5

LEMMA AllocatePathLocks ==
  ASSUME LockInv, NEW s \in Service,
         \/ AcquireIP(s) \/ GetService(s) \/ UpdateService(s)
         \/ UpdateLoadBalancerConfig(s) \/ RollbackTags(s) \/ RollbackFree(s)
  PROVE  LockDiscipline'
<1> USE DEF UpdateSection, AllocateSection
<1>1. CASE AcquireIP(s)
  <2>1. job[s].step = "acquire"
    BY <1>1 DEF AcquireIP
  <2>2. ASSUME NEW a \in Address, UNCHANGED <<updLock, allocLock>>,
               job' = [job EXCEPT ![s].addr = a, ![s].step = "get_service"]
        PROVE  LockDiscipline'
    <3>1. Moves(s, "get_service")
      BY <2>2 DEF Moves, LockInv, TypeInv, TypeOK, Job
    <3> QED
      BY <2>1, <2>2, <3>1, WithinSection
  <2>3. \/ ReturnError(s)
        \/ \E a \in Address :
             /\ job' = [job EXCEPT ![s].addr = a, ![s].step = "get_service"]
             /\ UNCHANGED <<updLock, allocLock>>
    BY <1>1, Zenon DEF AcquireIP
  <2> QED
    BY <2>2, <2>3, ReturnErrorLocks, Zenon
<1>2. CASE GetService(s)
  <2>1. job[s].step = "get_service" /\ UNCHANGED <<updLock, allocLock>>
    BY <1>2 DEF GetService
  <2>2. Moves(s, "put_service") \/ Moves(s, "clear_tags")
    BY <1>2 DEF GetService, Moves, LockInv, TypeInv, TypeOK, Job
  <2> QED
    BY <2>1, <2>2, WithinSection
<1>3. CASE UpdateService(s)
  <2>1. job[s].step = "put_service" /\ UNCHANGED <<updLock, allocLock>>
    BY <1>3 DEF UpdateService
  <2>2. Moves(s, "config") \/ Moves(s, "get_service") \/ Moves(s, "clear_tags")
    <3>1. CASE job' = [job EXCEPT ![s].step = "config"]
      BY <3>1 DEF Moves, LockInv, TypeInv, TypeOK, Job
    <3>2. CASE job' = [job EXCEPT ![s].step = "get_service", ![s].tries = @ + 1]
      BY <3>2 DEF Moves, LockInv, TypeInv, TypeOK, Job
    <3>3. CASE job' = [job EXCEPT ![s].step = "clear_tags"]
      BY <3>3 DEF Moves, LockInv, TypeInv, TypeOK, Job
    <3> QED
      BY <1>3, <3>1, <3>2, <3>3, Zenon DEF UpdateService
  <2> QED
    BY <2>1, <2>2, WithinSection
<1>4. CASE UpdateLoadBalancerConfig(s)
  BY <1>4, ReturnNilLocks, GoOnLocks DEF UpdateLoadBalancerConfig
<1>5. CASE RollbackTags(s)
  <2>1. job[s].step = "clear_tags" /\ (GoOn(s, "free_ip") \/ ReturnError(s))
    BY <1>5 DEF RollbackTags
  <2> QED
    BY <2>1, GoOnLocks, ReturnErrorLocks
<1>6. CASE RollbackFree(s)
  BY <1>6, ReturnErrorLocks DEF RollbackFree
<1> QED
  BY <1>1, <1>2, <1>3, <1>4, <1>5, <1>6

LEMMA OutsideLocks ==
  ASSUME LockInv, NEW s \in Service,
         StartSync(s) \/ PatchStatus(s) \/ RemoveFinalizer(s) \/ Observe(s) \/ User(s)
  PROVE  LockDiscipline'
<1>1. CASE StartSync(s)
  <2>1. Entry(view[s]) \in {"lock_update", "cleanup", "lock_allocate"}
    BY DEF Entry
  <2>2. Moves(s, Entry(view[s]))
    BY <1>1 DEF StartSync, Moves, LockInv, TypeInv, TypeOK, Idle
  <2>3. job[s].step = "idle" /\ UNCHANGED <<updLock, allocLock>>
    BY <1>1 DEF StartSync
  <2> QED
    BY <2>1, <2>2, <2>3, Disjoint, WithinSection
<1>2. CASE PatchStatus(s) \/ RemoveFinalizer(s)
  <2>1. /\ job' = [job EXCEPT ![s] = Idle]
        /\ UNCHANGED <<updLock, allocLock>>
        /\ job[s].step \in {"patch", "cleanup"}
    BY <1>2 DEF PatchStatus, RemoveFinalizer
  <2>2. Moves(s, "idle")
    BY <2>1, IdleMoves DEF LockInv
  <2> QED
    BY <2>1, <2>2, Disjoint, WithinSection
<1>3. CASE Observe(s)
  BY <1>3 DEF Observe, LockInv, LockDiscipline
<1>4. ASSUME NEW o, Edit(s, o) PROVE LockDiscipline'
  <2>1. Moves(s, job[s].step)
    BY <1>4 DEF Edit, Moves, LockInv, TypeInv, TypeOK, Job
  <2> QED
    BY <1>4, <2>1, WithinSection DEF Edit
<1>5. CASE User(s)
  BY <1>4, <1>5, Zenon DEF User, CreateService, PinAddress, DeleteService
<1> QED
  BY <1>1, <1>2, <1>3, <1>5

LEMMA CrashLocks ==
  ASSUME LockInv, NEW c \in Cluster, Crash(c) PROVE LockDiscipline'
<1> SUFFICES ASSUME NEW t \in Service
             PROVE  /\ job'[t].step \in UpdateSection <=> updLock'[ClusterOf[t]] = t
                    /\ job'[t].step \in AllocateSection <=> allocLock'[ClusterOf[t]] = t
  BY DEF LockDiscipline
<1>1. ClusterOf[t] \in Cluster
  OBVIOUS
<1>2. Idle.step \notin UpdateSection /\ Idle.step \notin AllocateSection
  BY Disjoint DEF Idle
<1>3. CASE ClusterOf[t] = c
  BY <1>1, <1>2, <1>3 DEF Crash, LockInv, TypeInv, TypeOK
<1>4. CASE ClusterOf[t] # c
  BY <1>1, <1>4 DEF Crash, LockInv, TypeInv, TypeOK, LockDiscipline
<1> QED
  BY <1>3, <1>4

LEMMA NextLocks == LockInv /\ [Next]_vars => LockInv'
<1> SUFFICES ASSUME LockInv, [Next]_vars PROVE LockInv'
  OBVIOUS
<1>1. TypeInv'
  BY NextType DEF LockInv
<1>2. ASSUME NEW s \in Service, StartSync(s) \/ Sync(s) \/ Observe(s) \/ User(s)
      PROVE  LockDiscipline'
  <2>1. CASE Ensure(s)
    BY <2>1, LockUpdateLocks, UpdatePathLocks, LockAllocateLocks, AllocatePathLocks
       DEF Ensure
  <2> QED
    BY <1>2, <2>1, OutsideLocks DEF Sync
<1>3. ASSUME NEW c \in Cluster, Crash(c) PROVE LockDiscipline'
  BY <1>3, CrashLocks
<1>4. ASSUME UNCHANGED <<job, updLock, allocLock>> PROVE LockDiscipline'
  BY <1>4 DEF LockInv, LockDiscipline
<1>5. ASSUME NEW a \in Address, AllocateElsewhere(a) PROVE LockDiscipline'
  BY <1>4, <1>5 DEF AllocateElsewhere
<1>6. LockDiscipline'
  BY <1>2, <1>3, <1>4, <1>5 DEF Next, vars
<1> QED
  BY <1>1, <1>6 DEF LockInv

(* On every path through EnsureLoadBalancer and EnsureLoadBalancerDeleted, *)
(* with any number of services and workers, whatever fails: a sync is in   *)
(* the section of a mutex exactly while it holds it, so at most one sync   *)
(* per metal-ccm changes tag lists, or allocates, at a time.               *)
THEOREM LockDisciplineHolds == Spec => []LockDiscipline
<1>1. Init => LockInv
  <2>1. Init => LockDiscipline
    BY Disjoint DEF Init, LockDiscipline, Idle
  <2> QED
    BY <2>1, InitType DEF LockInv
<1>2. LockInv => LockDiscipline
  BY DEF LockInv
<1> QED
  BY <1>1, <1>2, NextLocks, PTL DEF Spec

-----------------------------------------------------------------------------
(* The way of a sync through its steps.                                    *)

Flow ==
  {<<"lock_update", "find_fixed">>, <<"lock_update", "find_tagged">>,
   <<"find_fixed", "find_tagged">>, <<"find_tagged", "remove">>, <<"remove", "remove">>,
   <<"remove", "cleanup">>, <<"remove", "use">>, <<"use", "patch">>,
   <<"lock_allocate", "acquire">>, <<"acquire", "get_service">>,
   <<"get_service", "put_service">>, <<"get_service", "clear_tags">>,
   <<"put_service", "get_service">>, <<"put_service", "config">>,
   <<"put_service", "clear_tags">>, <<"config", "patch">>, <<"config", "clear_tags">>,
   <<"clear_tags", "free_ip">>}

(* The sync of s ends or goes on; the object it was called with stays, and *)
(* so does its address but for the one it acquires.                        *)
GoesFlow(s) ==
  /\ \A t \in Service \ {s} : job'[t] = job[t]
  /\ job[s].step # "idle"
  /\ \/ job'[s] = Idle
     \/ /\ <<job[s].step, job'[s].step>> \in Flow
        /\ job'[s].obj = job[s].obj
        /\ job'[s].addr = job[s].addr \/ job[s].step = "acquire"

LEMMA FlowOut ==
  ASSUME JobInv, NEW s \in Service, job[s].step # "idle", job' = [job EXCEPT ![s] = Idle]
  PROVE  GoesFlow(s)
BY DEF JobInv, GoesFlow

LEMMA FlowNil ==
  ASSUME JobInv, NEW s \in Service, NEW next, <<job[s].step, next>> \in Flow,
         job[s].step # "idle", ReturnNil(s, next)
  PROVE  GoesFlow(s)
BY DEF JobInv, GoesFlow, ReturnNil, Idle

LEMMA FlowOn ==
  ASSUME JobInv, NEW s \in Service, NEW next, <<job[s].step, next>> \in Flow,
         job[s].step # "idle", GoOn(s, next)
  PROVE  GoesFlow(s)
BY DEF JobInv, GoesFlow, GoOn, Job

LEMMA UpdateFlow ==
  ASSUME JobInv, NEW s \in Service,
         \/ LockUpdate(s) \/ FindProjectIP(s) \/ FindProjectIPsWithTag(s)
         \/ \E a \in Address : RemoveServiceTag(s, a)
         \/ EndRemove(s) \/ UseIPInCluster(s)
  PROVE  GoesFlow(s)
<1>1. CASE LockUpdate(s)
  BY <1>1 DEF LockUpdate, JobInv, GoesFlow, Job, Flow
<1>2. CASE FindProjectIP(s)
  <2>1. CASE ReturnError(s)
    BY <1>2, <2>1, FlowOut DEF FindProjectIP, ReturnError
  <2>2. CASE ~ReturnError(s)
    BY <1>2, <2>2 DEF FindProjectIP, JobInv, GoesFlow, Job, Flow
  <2> QED
    BY <2>1, <2>2
<1>3. CASE FindProjectIPsWithTag(s)
  <2>1. CASE ReturnError(s)
    BY <1>3, <2>1, FlowOut DEF FindProjectIPsWithTag, ReturnError
  <2>2. CASE ~ReturnError(s)
    BY <1>3, <2>2 DEF FindProjectIPsWithTag, JobInv, GoesFlow, Job, Flow
  <2> QED
    BY <2>1, <2>2
<1>4. ASSUME NEW a \in Address, RemoveServiceTag(s, a) PROVE GoesFlow(s)
  <2>1. job[s].step = "remove"
    BY <1>4 DEF RemoveServiceTag
  <2>2. \/ ReturnError(s)
        \/ job' = [job EXCEPT ![s].found[a] = Free, ![s].tries = 0]
        \/ job' = [job EXCEPT ![s].found[a] = AfterAttempt(s, a), ![s].tries = @ + 1]
    BY <1>4, Zenon DEF RemoveServiceTag
  <2>3. CASE ReturnError(s)
    BY <2>1, <2>3, FlowOut DEF ReturnError
  <2> QED
    BY <2>1, <2>2, <2>3 DEF JobInv, GoesFlow, Job, Flow
<1>5. CASE EndRemove(s)
  <2>1. job[s].step = "remove" /\ (ReturnNil(s, "cleanup") \/ GoOn(s, "use"))
    BY <1>5 DEF EndRemove
  <2> QED
    BY <2>1, FlowNil, FlowOn DEF Flow
<1>6. CASE UseIPInCluster(s)
  <2>1. job[s].step = "use" /\ (ReturnNil(s, "patch") \/ ReturnError(s))
    BY <1>6, Zenon DEF UseIPInCluster
  <2> QED
    BY <2>1, FlowNil, FlowOut DEF Flow, ReturnError
<1> QED
  BY <1>1, <1>2, <1>3, <1>4, <1>5, <1>6

LEMMA AllocateFlow ==
  ASSUME JobInv, NEW s \in Service,
         \/ LockAllocate(s) \/ AcquireIP(s) \/ GetService(s) \/ UpdateService(s)
         \/ UpdateLoadBalancerConfig(s) \/ RollbackTags(s) \/ RollbackFree(s)
  PROVE  GoesFlow(s)
<1>1. CASE LockAllocate(s)
  BY <1>1 DEF LockAllocate, JobInv, GoesFlow, Job, Flow
<1>2. CASE AcquireIP(s)
  <2>1. job[s].step = "acquire"
    BY <1>2 DEF AcquireIP
  <2>2. \/ ReturnError(s)
        \/ \E a \in Address :
             job' = [job EXCEPT ![s].addr = a, ![s].step = "get_service"]
    BY <1>2, Zenon DEF AcquireIP
  <2>3. CASE ReturnError(s)
    BY <2>1, <2>3, FlowOut DEF ReturnError
  <2>4. ASSUME NEW a \in Address,
               job' = [job EXCEPT ![s].addr = a, ![s].step = "get_service"]
        PROVE  GoesFlow(s)
    <3>1. job'[s].step = "get_service" /\ job'[s].obj = job[s].obj
      BY <2>4 DEF JobInv, Job
    <3> QED
      BY <2>1, <2>4, <3>1 DEF JobInv, GoesFlow, Flow
  <2> QED
    BY <2>2, <2>3, <2>4
<1>3. CASE GetService(s)
  BY <1>3 DEF GetService, JobInv, GoesFlow, Job, Flow
<1>4. CASE UpdateService(s)
  BY <1>4 DEF UpdateService, JobInv, GoesFlow, Job, Flow
<1>5. CASE UpdateLoadBalancerConfig(s)
  <2>1. job[s].step = "config" /\ (ReturnNil(s, "patch") \/ GoOn(s, "clear_tags"))
    BY <1>5 DEF UpdateLoadBalancerConfig
  <2> QED
    BY <2>1, FlowNil, FlowOn DEF Flow
<1>6. CASE RollbackTags(s)
  <2>1. job[s].step = "clear_tags" /\ (GoOn(s, "free_ip") \/ ReturnError(s))
    BY <1>6, Zenon DEF RollbackTags
  <2> QED
    BY <2>1, FlowOn, FlowOut DEF Flow, ReturnError
<1>7. CASE RollbackFree(s)
  BY <1>7, FlowOut DEF RollbackFree, ReturnError
<1> QED
  BY <1>1, <1>2, <1>3, <1>4, <1>5, <1>6, <1>7

(* A step of the sync of a service is one along Flow, or its last.         *)
LEMMA SyncFlow ==
  ASSUME JobInv, NEW s \in Service, Sync(s) PROVE GoesFlow(s)
<1>1. CASE PatchStatus(s) \/ RemoveFinalizer(s)
  BY <1>1, FlowOut DEF PatchStatus, RemoveFinalizer
<1> QED
  BY <1>1, UpdateFlow, AllocateFlow DEF Sync, Ensure
=============================================================================
