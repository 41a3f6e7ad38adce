# metal-ccm in TLA+

metal-ccm is the Kubernetes cloud controller manager of metal-stack. It gives
services of type `LoadBalancer` an address of their project, has MetalLB or
Cilium announce the addresses over BGP, and keeps the labels of nodes in line
with the tags of their machines. This directory models the part of it that
keeps state, checks it with TLC, and proves its safety properties with TLAPS. Paths below are relative to the repository.

## The system

| Component | State it keeps | Operations | Talks to |
|---|---|---|---|
| load balancer controller, `pkg/controllers/loadbalancer/loadbalancer.go` | three mutexes; everything else is in the metal-api (tags of addresses) and the API server (spec and status of services) | `GetLoadBalancer`, `EnsureLoadBalancer`, `EnsureLoadBalancerDeleted`, `UpdateLoadBalancer`, `UpdateLoadBalancerConfig` | called by the service controller of k8s.io/cloud-provider and by the housekeeper; calls the metal-api (`pkg/resources/metal/ip.go`) and the API server |
| load balancer configuration, `pkg/controllers/loadbalancer/config/` | custom resources in the cluster: BGP peers, address pools, advertisements, node annotations | `New`, `WriteCRs` for MetalLB and for Cilium | the API server |
| housekeeper, `pkg/controllers/housekeeping/` | time of the last tag sync, time of the last config sync, count of failed health checks | four tickers (tags, config, SSH keys, health) and the node informer's handlers | all of the above |
| machine client, `pkg/resources/metal/machine.go` | two caches of machines with an expiry of a minute, for each of its two instances | lookups by id and by hostname, `UpdateMachineTags` | the metal-api |
| instances and zones, `pkg/controllers/instances`, `zones` | none | answers about a node's machine | asked by the node controllers of k8s.io/cloud-provider; ask the machine client |
| wiring, `main.go`, `metal/cloud.go` | none after the start | `NewCloud`, `Initialize` | |

**What is hard about it.** No database and no locks are shared between the
actors: which services use an address is written only in the tag list of the
address, and an update replaces the whole list. Every operation is a sequence of
remote calls; each may fail before or after it took effect; the object an
operation works on comes from a cache; the process may die between two calls;
a failed operation is retried from the start by the service controller, and one
loop inside it is retried in place (`retrygo.Do`). Three kinds of goroutines
(service workers, the tickers, the node informer) call
`UpdateLoadBalancerConfig`, each with a list of nodes read earlier.

**What makes each component correct.**

* Load balancer controller: an address in a service's status carries the
  service's tag; no update loses another service's tag; an ephemeral address is
  freed with its last tag, an address of somebody else is left alone; nothing is
  held for a deleted service; a mutex is released on every path; every service
  is served in the end and every deleted one goes away. Where the code falls short of
  this is listed under Findings.
* Configuration: writers do not interleave; a successful call leaves exactly what
  it computed; a rewrite never interrupts what stays; the configuration follows
  the cluster.
* Housekeeper: every node gets its labels, and every machine the cluster's tag and
  SSH key; the tags of a machine are not lost; the process ends when
  health checks go on failing.
* Machine client and instances: an answer is at most a minute old, and an error is
  not taken for "does not exist", so that no node is deleted by mistake.
* Together: an address in a status is announced, and one that was given up is not.

The hazards of the code, each at its line and with the properties that cover it,
are listed in `PROJECT.json`.

## Modules

| Module | Content |
|---|---|
| `AddressOwnership` | abstract: what happens to the addresses of a project, without the calls it takes |
| `LoadBalancer` | the load balancer controller on top of the metal-api, with its callers and users; implements `AddressOwnership` |
| `LoadBalancerProofs` | its types and its mutexes |
| `OneWorkerProofs` | what holds in the default deployment, one worker of one cluster |
| `WorkersProofs` | what holds with any number of workers of one cluster as long as no rollback runs |
| `OwnershipProofs` | the books of the addresses and the refinement of `AddressOwnership`, with one worker and with several |
| `LBConfig` | the configuration, its writers, nodes and addresses |
| `LBConfigProofs` | its types, mutual exclusion, and that a rewrite does not interrupt |
| `WrittenProofs` | that a successful call leaves what it computed |
| `CCM` | `LoadBalancer` and `LBConfig` composed |
| `CCMProofs` | the invariants of both carried over to it, that what is published is announced, and its refinement |
| `MetalService` | the machines of a project, and the lookups and caches of the machine client |
| `Instances` | extends it with the nodes, the answers of the instances controller, and what the node controllers make of them |
| `Housekeeping` | extends that with the housekeeper and the process |
| `HousekeepingProofs` | its invariant and theorems |
| `MCLoadBalancer`, `MCLBConfig`, `MCCCM`, `MCHousekeeping` | instances for TLC |

`LoadBalancer` and `LBConfig` each stand alone: `LoadBalancer` sees the
configuration as a call that works or fails (`UpdateLoadBalancerConfig`), and
`LBConfig` sees the addresses as a set that changes (`held`, `Hold`). `CCM`
replaces both stand-ins by the real thing. The housekeeper's tag sync meets the
other two only in the ASN label of a node (`LabelNode`), and shares no state with
them otherwise.

### LoadBalancer

| Variable | In the code |
|---|---|
| `ip` | what the metal-api stores per address: type and tags |
| `api`, `view` | a service object (alive or being deleted, `spec.loadBalancerIP`, ingress of the status) at the API server and in the informer's cache |
| `job` | the local variables of the sync that runs for a service, and its program counter `step` |
| `updLock`, `allocLock` | `ipUpdateMutex`, `ipAllocateMutex`, one of each per metal-ccm |
| `faults`, `edits` | bounds: failed calls and restarts, actions of users |

A sync starts with `StartSync`, on the object the cache shows, and goes one of
four ways (`Entry`):

    EnsureLoadBalancer, fixed ip    lock_update, find_fixed, find_tagged, remove*, use, patch
    EnsureLoadBalancer, allocating  lock_allocate, acquire, (get_service, put_service)*, config, patch
        after an error              clear_tags, free_ip
    EnsureLoadBalancerDeleted       lock_update, find_tagged, remove*, cleanup
    no load balancer to delete      cleanup

Each step is an action named after the function it translates, and is one remote
call with all that follows up to the next one. `Works` and `Fails` are how a call
on an address may end; `Fault` makes a call fail without effect or with its
answer lost. `ReturnError` and `ReturnNil` run the deferred unlocks.
`removeServiceTag` edits the tag list in place, which zeroes the tail of the
array the caller still uses (`AfterAttempt`): what a retry then sees is modelled,
with the empty string as the tag `Blank`.

A wait on `configWriteMutex` is part of the call `UpdateLoadBalancerConfig` here.

Abstractions: a tag list is a set (the code may append a tag or an ingress twice;
no property depends on how often), a service stands for its own tag, `Reserved`
for the machine and egress tags that `useIPInCluster` refuses, and all addresses
are of one network. A service name that is deleted and created again is the same
service and tag, as in the code. `Edit` makes the object a running sync has read
outdated, which stands for its resourceVersion.

### LBConfig

`writer` holds the calls of `UpdateLoadBalancerConfig` in progress: one per
service worker, the ticker, and the node informer. A call is given nodes
(`ServiceSync` any part of them, since the service controller passes only nodes it
deems eligible), waits for `lock` (`configWriteMutex`), asks for the addresses
(`FindClusterIPs`, which leaves out addresses of machines and egress ones: `held`
is what remains), and goes through the loops of `WriteCRs`; `todo` is what the
loop it is in has left. `NextStep` is the order of the loops: `delete_peers`,
`write_peers`, `delete_pools`, `write_pools`, then `adverts` for MetalLB and
`annotate` for Cilium. `backend` is chosen at the start. The names of the custom
resources are what the code matches them by: a peer's is its ASN, a pool's its
network and type.

`Fail` ends a call after any of its remote calls; a call that took effect and
lost its answer is the call followed by `Fail`. A node joins without its ASN
label; the tag sync (`LabelNode`) gives it the one of its machine, which no other
node has.

### AddressOwnership

An address has a lease: free, or ephemeral or static with the set of its users. A
service acquires a free address, shares one that exists, or leaves one, and an
ephemeral one is free again with its last user; somebody else may get a free one.
`LoadBalancer` maps to it by `LeaseOf`: the users of an address are those whose
tags it has, and the service whose rollback has cleared the tags and is about to
free the address, since to the outside clearing and freeing are one. All other
steps stutter. `ImplementsOwnership` checks initial states and steps.

### CCM

The syncs of `LoadBalancer`, except that in the step `config` a sync makes a real
call of `LBConfig` (`CallConfig`, `ConfigStep`, `AfterConfig`): it waits for
`configWriteMutex`, finds the addresses that have a service's tag at that moment
(`Held`, the `held` of `LBConfig`), goes through the loops, and comes back with or
without an error, also the error of a node that has no ASN label yet. The ticker is
the other writer; a restart ends all of it at once. The node informer's writes and
`UpdateLoadBalancer` are the same calls with another caller and stay in `LBConfig`,
as do changes of nodes.

### MetalService, Instances, Housekeeping

| Variable | In the code |
|---|---|
| `machine`, `metalUp` | the metal-api: the machines of the project, and whether it answers |
| `byID`, `byHost` | `machineByUUIDCache` and `machineByHostnameCache` of the two `MetalService`s, one of the cloud provider's controllers and one of the housekeeper |
| `node` | the API server: the nodes, with provider id and labels |
| `running` | whether the process runs |
| `sync` | the tag syncs in progress, by who started them: nodes listed, machines still to be looked up, tags found |
| `recent`, `added` | whether `lastTagSync` is less than `SyncTagsMinimalInterval` (five seconds) old; nodes whose addition `AddFunc` has yet to see |
| `apiErrors` | `metalAPIErrors` |
| `faults`, `changes` | bounds: outages, failed calls and restarts; changes of machines |

A sync is `StartTagSync`, then `GetMachine` for each node (`getMachineTags`, the
first error ends the sync), then for each node `UpdateNodeLabels` and, if the tags
found lack the cluster's, `MarkMachine`, then `EndTagSync`. Two may run at once:
the ticker's, and one of the informer. `AddFunc` compares with `lastTagSync`, which
the ticker's goroutine writes without a lock; while it may be writing, `AddFunc`
finds any time in it (`TornRead`). `SyncSSHKey` is one round of the loop over nodes; without an
SSH key (`KeyConfigured`) there is none.
`CheckMetalAPIHealth` counts and ends the process (`Stop`), which loses caches and
local state; `Start` needs a healthy metal-api. `MonitorNode` and `InitializeNode`
are the node controllers of k8s.io/cloud-provider, which run in the same process and
act on `InstanceExists` and `InstanceMetadata`.

Abstractions: tags are one value per key (`NewTagMap`), the label of a tag has its
key and value. An entry of a cache holds what its users read of it (`Kept`: the
controllers read only which machine it is). An entry may expire at any time, since
time is not modelled: what holds then holds for entries of any age. Booting takes
longer than a minute, so that no entry from before an allocation is left when its
node registers (`Booted`); a node whose machine is gone may be removed by whoever
took the machine (`Removed`).

## Runs

| Run | Question | Bounds |
|---|---|---|
| `LB_two_workers` | What do the mutexes buy when syncs run concurrently, and calls fail? `TypeOK`, `LockDiscipline`, `PublishedIsHeld`, `DeletedIsReleased`, `OwnTagOnly` | 2 services, 2 workers, 3 addresses (free, static, a machine's), 2 faults except those that lead to a rollback or of `FreeIP`, 4 actions of users |
| `LB_accounting` | Are addresses neither leaked nor taken from others, as long as the calls that change an existing address are answered? `Accounted`, `LastTagFrees`, `KeepsForeign`, and the refinement `ImplementsOwnership` | the same with 1 worker and with rollbacks, without faults of `UpdateIP` and `FreeIP` and without restarts; allocating may fail before or after it took effect |
| `LB_live` | Is every service served, and every deleted one gone, in the end? `ServedUnlessUnpinned`, `EventuallyGone` | 2 services, 3 addresses, 1 fault, 3 actions |
| `CFG_safety` | Do three writers keep out of each other's way? `TypeOK`, `MutualExclusion`, `Written`, `Undisturbed`, `WithdrawnIsFree` | 2 nodes, 2 ASNs, 2 hosts, 2 addresses of different types, 2 changes, 1 fault, both backends |
| `CFG_live` | Does the configuration follow the cluster? `Converges`, `EventuallyAnnotated` | 1 node, 2 addresses of one pool, 2 changes, 1 fault, both backends |
| `CCM_announce` | Is what a status shows announced, and what was given up withdrawn? `PublishedIsAnnounced`, `EventuallyAnnounced`, `EventuallyWithdrawn` | 1 service, 1 free address and 1 acquired by a user, 1 node without its label, 2 actions of users, 1 fault, both backends |
| `HK_sync` | Do nodes and machines get into line, are nodes and users' tags safe from old answers, does the process end? `TypeOK`, `NodesSurvive`, `QuietOnceMarked`, `EventuallyLabelled`, `EventuallyMarked`, `UnhealthyEnds` | 1 node, 2 machines of which one may replace the other, 2 changes or 1 and a fault, 1 failed health check instead of 60 |
| `LB_retry` | violation of `LastTagFrees` | 1 service, 1 failed `FreeIP` |
| `LB_stuck` | violation of `EventuallyServed` | 1 service, 1 failed config update |
| `LB_absent` | violation of `AbsentMeansNone` | 1 service, no fault |
| `LB_rollback` | violation of `RollbackClearsOwn` | 2 services, 2 workers, no fixed address, 2 failed config updates |
| `HK_blocked` | violation of `EventuallyLabelled` | 2 nodes, 1 machine may be freed, nobody removes its node; no SSH key |

What the passing runs show, beyond that nothing is wrong:

* `PublishedIsHeld` and `OwnTagOnly` hold with two workers only thanks to
  `ipUpdateMutex` (their mutant drops it), and only as long as no rollback runs
  (`LB_rollback`). With one worker they, and `DeletedIsReleased`, are proved for all
  failures, rollbacks included (`OneWorkerProofs`), although the allocating path does not
  take that mutex.
* `DeletedIsReleased` holds even after lost answers: deletion searches by tag and
  not by what the objects say.
* `Accounted` needs that the calls which change an existing address are answered.
  The ways to leave an address without a tag are a failed `FreeIP` (in the
  rollback, or before the retry of `LB_retry`), a failed `UpdateIP` of a removal, whose
  retry stores an empty string beside another service's tag (once that tag is gone too,
  the empty string keeps the address), a lost answer of `UpdateIP` in
  the rollback, and a restart between its two calls. A lost answer of `AllocateIP` does
  no such harm: the address it allocated has the service's tag.
* `Converges` holds although service workers may write a configuration of part of
  the nodes at any time: the ticker lists all of them again. It needs that nodes
  get their labels, since one node without one fails the whole call.
* `ImplementsOwnership` holds because a step of a sync changes one address by one
  tag, although the code writes whole lists: with one worker the list a sync works
  with is still the address's own.
* `PublishedIsAnnounced` holds with the ticker writing in between: the address has
  its tag before the sync asks for the mutex, so every later call finds it.
  `EventuallyAnnounced` covers the path of a fixed address, which writes no
  configuration itself and relies on the ticker.
* `EventuallyLabelled` and `EventuallyMarked` hold although a sync fails for all
  nodes when one machine is not found and works on answers of any age, provided
  that the nodes of machines taken away get removed (`HK_blocked` shows that the code
  does not see to it) and that the metal-api comes back.
* `NodesSurvive` depends on `InstanceExists` passing the error of a lookup on.
* `QuietOnceMarked` is what is left of "tags are not lost": until every machine has
  the cluster tag and no older copy is around, a write-back may undo a user's change.

### Findings

1. `LB_retry` (`loadbalancer.go:291`). `slices.DeleteFunc` works in place. When
   `FreeIP` fails, the retry finds `[""]` instead of the service's tag, concludes
   that another tag remains, and stores the list: the call succeeds, the ephemeral
   address is neither tagged nor freed, and nothing refers to it any more.
2. `LB_stuck` (`loadbalancer.go:187`). The rollback after a failed update of the
   configuration frees the address but leaves it in `spec.loadBalancerIP`, so the
   retries look for an address that is not allocated, until a user intervenes (or
   until somebody else gets the address).
3. `LB_absent` (`loadbalancer.go:68`). Whether a load balancer exists is judged by
   the cached status. A service deleted between the tagging of its address and the
   arrival of its status loses its finalizer without `EnsureLoadBalancerDeleted`.
4. `LB_rollback` (`loadbalancer.go:163`). "We know that we freshly acquired a new IP
   that's not used for anything else" (161-162), but the rollback runs under
   `ipAllocateMutex`, and tags are added to an address under `ipUpdateMutex`. With two
   workers a service that names the address in its spec gets its tag in between and
   loses it. It takes no user for that: the first rollback (2.) leaves an address in
   the spec of its service, a second service acquires it, the first one's retry tags it
   again, and the second one's update of the configuration fails as well.
5. `HK_blocked` (`tags.go:38`). The comment at `tags.go:29` says that the sync labels
   the nodes of the project. One node whose machine has been freed is an error of
   `getMachineTags`, which ends the sync for all nodes; and since `InstanceExists`
   passes the lookup's error on (`instances.go:167`) instead of answering "does not
   exist", the node lifecycle controller does not delete that node either. No node
   gets a label, and no new one its ASN, until somebody else removes the node.

Seen while modelling, without a run of their own:

* A user's pin written during an allocating sync is overwritten at
  `loadbalancer.go:187`.
* What `LB_rollback` shows of two workers may also happen between the controllers of
  two clusters in a project. Where users pin services, one failure is enough for it.
* What `LB_retry` shows of `FreeIP` happens to `UpdateIP` too: an empty string stays
  beside another service's tag, and the address is not freed with that tag
  (`LastTagFrees` fails in `LB_accounting` once `"update"` may fail).
* A service that is pinned to another address loses its old one first (121). If tagging
  the new one then fails (126) and the user removes the pin, its status still names
  the freed address, every sync ends at 143-147, and it is never served. So
  `EventuallyServed` fails in `LB_live`, and `ServedUnlessUnpinned`, which excepts that
  end, is what holds.
* Stale `BGPAdvertisement`s stay when the last pool goes
  (`config/metallb_config.go:139`), which `Written` therefore excepts.
* `InstanceShutdown` answers true and an error at once (`instances.go:178`).
* The label of a tag that is gone stays on the node (`node.go:36`).

### Bounds, symmetry, deadlock

`Attempts` is 2 (10 in retry-go) since an attempt after the second sees the same
list as the second; `ConflictSteps` is 2 or 5, and at 5 exceeds what `MaxEdits`
lets users do, as do real conflicts. Two services are the least that share an
address; three addresses give a free one, a static one and a machine's, or for
liveness two free ones and a static one: a lost allocation, or somebody else, may then
take the last address, which `ServedUnlessUnpinned` allows for (`NoneLeft`). Its three
actions of users are the least that create a service, pin it and unpin it. `MaxFaults`, `MaxEdits` and `MaxChanges` bound what the environment
does, never the controller. `LBConfig` starts with every node registered, without
label and address, and nodes may leave and join again: 2 changes are enough for two
nodes with addresses, for a node whose address changes, and for the addresses of
the services to move from one pool to another. `MaxAPIErrors` is 1 since the
counter is only compared with its limit and reset. In `HK_sync` one node is enough
for what concerns its machine, with a second machine to take the place of the first;
that one node stops the others is `HK_blocked`. `MaxEvents` bounds faults and changes
together, which keeps a liveness check of all interleavings within minutes. In
`CCM_announce` one service is enough for two writers with different lists of
addresses; it may change from the address it was given to the pinned one and back.
Services are symmetric in the safety runs, and so are
nodes, ASNs and hosts in `CFG_safety`. The load balancer runs switch off deadlock
checking: with no service left and no action of users allowed the system rests.
`LBConfig`, `CCM` and `Housekeeping` never do, as their tickers tick.

### Fairness

`LoadBalancer`: a sync goes on (weak fairness of `Sync`, since calls are answered
or time out), the cache catches up (`Observe`), and a service waiting for a worker
or a mutex gets it (strong fairness of `StartSync`, `LockUpdate`,
`LockAllocate`): the work queue hands out keys in order, and Go's mutex is
starvation-free. Users and faults are not fair. `Lag = FALSE` in `LB_live` means
that a sync starts on a current object. With an outdated one `ServedUnlessUnpinned`
fails even so: a sync may allocate a second address, or free the one the status
names by now, and no later sync repairs a status that has an address
(`loadbalancer.go:143`). With a current one it holds, and excepts the two ways in which a
service may stay without an address of its own for good: its status names one and its
spec does not (`Unpinned`, see the findings), or no address of the project is
free and none is fixed (`NoneLeft`).

`LBConfig`: the ticker ticks, the mutex is granted in turn, calls are answered,
and nodes get their labels; service workers and the informer owe nothing. `CCM`
combines the two.

`Housekeeping`: the process is started again (it is a deployment), tickers tick,
calls are answered or fail, cache entries expire, kubelets register their nodes, the
node controllers work, and if `Removed` nodes of lost machines are removed. That the
metal-api comes back is not assumed but a premise of the properties that need it.
`NodeAdded` is not fair: `AddFunc` may ignore a node, and the ticker alone suffices.

## Proofs

`LoadBalancerProofs` proves for every value of the constants that satisfies the
assumptions of `LoadBalancer` (any clusters, services, addresses, any inventory,
any number of workers, any bounds):

* `TypeCorrect`, `TypeOKHolds`: `Spec => []TypeInv`, with `TypeOK` as a part. It is
  not inductive alone: that `job.addr` is an address (and not `None`) in the steps
  that use it is needed for the updates of `ip` and of the status (`AddressKnown`).
* `LockDisciplineHolds`: `Spec => []LockDiscipline`. It is inductive relative to
  the types: entering a section needs the mutex free, every return releases it, and
  a restart of one metal-ccm leaves those of the others alone (a mutex belongs to
  the services of its cluster).

`LBConfigProofs` proves for any nodes, ASNs, hosts, addresses, pools, workers and
bounds that satisfy the assumptions of `LBConfig`:

* `TypeCorrect`, `TypeOKHolds`: the types need that a call past `find_ips` has
  labelled nodes (else its peers would have no ASN) and that what is left to
  annotate are nodes (`CallInv`).
* `MutualExclusionHolds`: inductive relative to the types.
* `UndisturbedHolds`, `WithdrawnIsFreeHolds`: action properties, from mutual
  exclusion and `ContentInv`, which says of every reachable state that no two nodes
  have the same ASN, neither in the cluster nor in the list a call was given
  (otherwise one peer would overwrite the other), that a pool holds only addresses
  of its network and type, and that what a call is about to delete is not part
  of its configuration. Each step then changes one kind of resource, by the holder
  of the mutex (`WhoWrites`), and keeps what the configuration names (`PeersKept`,
  `PoolsKept`). That ASNs differ is what the model assumes of the metal-api
  (`LabelNode`).

`WrittenProofs` proves `Written` (`WrittenHolds`), for any number of writers and
resources: `Progress` says for each loop of `WriteCRs` which part of the
configuration is in place already (foreign resources gone, then those the loop has
done with present and the only ones of their name), each loop turns its part into
what the next one starts from (`LoopEnds`), and mutual exclusion means that only the
call in the section has to be looked at (`Alone`).

`OneWorkerProofs` assumes `OneWorker`: one worker and one cluster, the default of
the service controller (`--concurrent-service-syncs=1`). With more of either these
properties are false as they stand, since a list of tags is read, changed and written
back without anything that would notice a change in between; what is left with
several workers is in `WorkersProofs`. The invariant `OneInv` says, on top of types and mutexes:

* `Alone`: at most one sync runs;
* `FreeHasNoTags`: a free address has no tags;
* `SnapshotCurrent`, `FoundCovers`: the list of tags a sync has read and not yet
  written is the one the address still has, and what it has found for a service
  covers all addresses with its tag;
* `AcquiredIsOwn`: an address the sync has acquired carries no tag but its own, so
  the rollback may clear all of them;
* `Holds`, `Released`: what is about to be published is held, and what is about to be
  reported as deleted is not.

From it follow `PublishedIsHeld`, `DeletedIsReleased` and, as an action property,
`OwnTagOnly`, with every fault of the model, lost answers and
restarts included.

`WorkersProofs` is about one cluster with any number of workers
(`--concurrent-service-syncs` above 1). Two mutexes keep apart the syncs that take
tags away or use a fixed address, and those that acquire one; nothing keeps a sync of
the first kind from one of the second, and where they meet is the rollback
(`LB_rollback`: it may clear the tag of an address another sync is about to publish). `RollbackAlone` says of a state that
they do not: the address of a rollback has no tag but the service's, and no sync under
`ipUpdateMutex` works on it. The code does not guarantee that, so it is a hypothesis of
lemmas and of no theorem. The theorems are about
the deployments in which it is an invariant:

* one worker (`OneRollsBack`, from `OneInv`);
* no rollback at all, because writing the service and the configuration never fails
  and users change a service less often than it is written again after a conflict
  (`NeverRolledBack`, as in `LB_two_workers`). That nothing is rolled back then is
  `NoneRollsBack`, by `Straight`, which counts a change of the user's for each conflict.

Besides, `FreesAnswered`: `FreeIP` is answered truthfully. Updates may be lost, repeated
and answered wrongly, and the process may die anywhere. Without it the retry of
`LB_retry` stores its list over an address that is free by then, or another's.

`WorkersInv` has the locks, that no address is used by services and reserved at once
(`Apart`), and for each sync what it relies on (`SyncFacts`): `SnapshotCurrent`,
`FoundCovers`, `Holds` and `Released` as above, `Acquired` (an acquired address has the
service's tag, and may have others by now), and `FoundOurs`: an address found and not
dealt with is still allocated, has the type it was found with, is nobody's reserved
one, lists no service that is gone, and if the service's tag is its last one, then
it is the only one in the list. The proof sorts what a step may do to an address
(`Touches`) and shows for every other sync that what it relies on is kept
(`TouchKeeps`): the two mutexes exclude the steps of the same section, and
`RollbackAlone` the one pair across sections. The theorems are `SeveralWorkersHold`
(`PublishedIsHeld`, `OwnTagOnly`: what `LB_two_workers` checks),
`SeveralWorkersRelease` (`DeletedIsReleased`) and `SeveralWorkersKeepForeign`, and for
one worker `KeepsForeignHolds`.

`OwnershipProofs` assumes `Answered`: the calls that change an existing address
(`UpdateIP`, `FreeIP`) are answered and the process does not die between them, and no
address has an empty tag at the start. Without it a rollback or a retry leaves an
address that nobody accounts for (the ways are listed above), and `LastTagFrees` is false
(`LB_retry`). `BooksInv` adds to `WorkersInv`
what then holds besides: `Accounted`; the list a sync takes a tag from is the address's
own (`FoundCurrent`) and has no `Blank` in it, since only a retry would put one there;
and an address whose tags a rollback has cleared has none until it is freed (`Cleared`).
`Effects` lists what a step may do to an address and to the set of syncs that are
clearing it (`Clearing`, which the lease counts among the users). `Accounted` and the
refinement are read off it: each effect is one of `Acquire`, `Share`, `Leave` and
`AllocateElsewhere`, or a stutter. That a rollback meets nobody makes its two
calls one lease given up: between them nobody shares the address. `AccountedHolds`,
`LastTagFreesHolds` and `ImplementsOwnershipHolds` are the case of one worker,
rollbacks included; `SeveralWorkersAccount` and `SeveralWorkersImplement` that of
several and `NeverRolledBack`.

`CCMProofs` proves about the composition, with nothing assumed but its assumptions on
constants:

* `CCMInvHolds`, and from it `CCMTypeCorrect`, `MutexesHold` (all three mutexes) and
  `CCMWrittenHolds` (`Written`), for any number of workers. A step of the composition
  is for `LoadBalancer` a step of its own, or the end of a call that was refused
  without a fault (a node without its label), or none (`LBStep`); for `LBConfig` it
  is a step of its own, or a change of the addresses that leaves the writers alone
  (`Beside`). Each part's invariant has to survive the steps the part does not know.
  `CCMInv` adds to the two invariants that a writer in progress belongs to a sync
  that waits for it (`Link`).

`AnnouncedInv` ties an acquired address to the configuration: it adds to `CCMInv` that a
sync on a fixed address was given one (`FixedPath`, which tells the two ways to the step
`patch` apart), that a call past `find_ips` has the address being published in its
list (`Covered`), and that it is in a pool (`IsAnnounced`). A call in the section may
rewrite the pools only from such a list, and `Progress` of `WrittenProofs` says which
pools it leaves behind. All it needs from the addresses is that the one being
published is held from the call on (`OwnHeld`). For `Workers = 1`, the default of the
service controller, that comes from `OneInv` and that the address is the service's
alone (`StillOwn`), with nothing assumed of the calls: `AnnouncedInvHolds`,
`PublishedIsAnnouncedHolds` and `CCMHeldHolds` (`PublishedIsHeld`). `CCMKeepsForeign`
needs `FreesAnswered`, `CCMImplementsOwnership` (with `Accounted`) needs `Answered`. With
several workers nothing is proved of the addresses in the composition beyond locks and
`Written`: a call may be refused there without a fault, so that rollbacks are part
of it.

The composition has one cluster.

`HousekeepingProofs` proves about `Housekeeping`, with nothing assumed but its
assumptions on constants:

* `TypeOKHolds`. Not inductive alone: that a sync writes a list of tags (and not
  `None`) needs `MarkPending`, which says why a sync is about to write.
* `NodesSurviveHolds`, from `AllocatedCached`: no cached answer lacks an allocation,
  so `InstanceExists` answers "no" without an error for no machine at all.
* `QuietOnceMarkedHolds`: `MarkPending` contradicts that all is marked, so nobody is
  about to write, and every lookup finds marked tags again.

Model-checked only: all liveness (`ServedUnlessUnpinned`, `EventuallyGone`, `Converges`,
`EventuallyAnnotated`, `EventuallyLabelled`, `EventuallyMarked`, `UnhealthyEnds`,
`EventuallyAnnounced`, `EventuallyWithdrawn`), which is out of the prover's reach.
Every invariant and every action property of a passing run is proved, on the
conditions named above.

## Not modelled

* `main.go`, flags, environment variables and the registration of schemes: no
  behaviour after the start. `NewCloud` is there as far as it refuses to start
  (`Start`).
* Zones: stateless, one lookup per answer, and nothing of theirs is written anywhere
  in this repository.
* Of the instances controller: `nodeAddresses`, `InstanceType`, `InstanceShutdown` and
  the methods of the first interface. They read fields off the lookups that are
  modelled; what the callers do with a value and an error at once is theirs.
* The contents of SSH keys, the spelling of tags, labels and resource names, the
  choice of the network in `acquireIP`, klog.
* The panic on a node without annotations (`node.go:52`): its effect, a restart, is
  `Crash`; that it comes back after each restart is not followed.
* Ownership of addresses with two clusters in a project: false as it stands, see
  above. The two-cluster instance of `LoadBalancer` is covered by the type and
  mutex theorems only.

The service and node controllers, the metal-api, the API server and the informers
are modelled as far as the code depends on them and are marked external.

## Plan

Written in this order: `LoadBalancer`, `LBConfig`, their first proofs,
`AddressOwnership`, `MetalService` with `Instances` and `Housekeeping`, `CCM`, then
the proofs for the default deployment, `Written`, the housekeeper, the composition, several
workers and the refinement.
What is left, the most useful first:

1. What does hold with two clusters in a project, stated in `AddressOwnership` as
   leases per cluster.
2. `nodeAddresses` as an operator, against a declarative definition of the addresses
   of a machine.
