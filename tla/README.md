# Verification of cluster-api-provider-outscale

TLA+ models of the controllers of the Outscale infrastructure provider for Cluster
API, of its public IP allocator and of the webhooks and conversions of its API, the
TLC runs that check them on small instances, and TLAPS proofs about the cluster and machine
controllers, alone and together, the allocator and the API for instances of every size.

## The system

The provider runs in one manager process. Users and Cluster API create
`OscCluster` and `OscMachine` objects in the Kubernetes API server; a controller
for each kind turns an object into resources of an Outscale account and keeps
the ids of those resources in the object's status. A *pass* (`Reconcile`)

1. reads the object from the informer's cache, which may be behind the server;
2. runs one handler after another, each of which looks resources up (by the id in
   the status, otherwise by tag or client token), creates what is missing, and
   records the object's generation for its reconciler when it is done;
3. in a deferred `Close`, sends two merge patches: metadata and spec, then status.

An error ends the pass, and a later one starts from whatever Close has saved.

| Part | State | Operations | Hard behaviours |
|---|---|---|---|
| OscCluster controller (`controllers/osccluster_*.go`, `cloud/scope/cluster.go`) | spec, finalizer, endpoint; status: resource ids, generation per reconciler, ready | handlers for net, subnets, internet service, route tables, NAT service, net peering and its routes, net access points, security groups, load balancer, bastion; the same backwards for the deletion | calls that succeed without an answer, stale copies, two patches of which one fails, edits in the middle of a pass, order of creation and deletion |
| Cluster resource tracker (`osccluster_resources.go`) | none of its own: status and cloud | lookup and tracking of each resource | adoption of what an earlier pass made and could not save |
| Spec getters (`cloud/scope/cluster.go`) | none: functions of `spec.network` | subnets, NAT services, route tables and security groups, listed or by default; lookup by name, role, subregion | defaults that must agree with each other, order of the spec, a byte that wraps |
| Security group rules (`osccluster_securitygroup.go`) | rules in the cloud | add what is missing, then remove what is not in the spec | interrupted half-way, shared with the CCM, access must not be lost meanwhile |
| Public IPs (`publicip.go`) | ids in the status; IPs of a pool are known by a tag | allocate, from a pool too, track again, free | known to the status only; linked while their user terminates; two passes take the same IP of a pool |
| OscMachine controller (`controllers/oscmachine_*.go`, `cloud/scope/machine.go`) | ProviderID, VM, IP and GPU ids, generation, failure domain, ready | place, allocate GPU and IP, create, link GPU, start, link to the load balancer, tag; unlink, delete | passes over several machines at once, restarts, resources that change state over several passes |
| Multi-AZ allocator (`oscmachine_multiaz.go`) | in memory: workers of a deployment and their subregions | refresh, allocate | memory refreshed from a cache that lags behind |
| API objects (`api/v1beta1`, `api/v1beta2`) | the stored object, in v1beta2 | create and update in either version: admission by the v1beta1 webhooks, conversion both ways | fields lost on the way through the other version, rules that look at one update only |
| OscMachineTemplate controller (`oscmachinetemplate_*.go`) | `status.capacity`, a finalizer of earlier versions | publish the capacity of the VM type, remove the finalizer | patches computed from an older template |
| Outscale API (`cloud/services`) | the account | one request per operation | refused deletions, asynchronous VMs, NAT services and GPUs |

The cluster controller publishes readiness, on which the machine controller waits;
the cluster's teardown waits until no Machine is left; machines use the subnets,
security groups and the load balancer of the cluster; the cloud controller manager (CCM)
of the workload cluster changes rules of its security groups. Every spec that a controller
reads was admitted and converted first. Other parts (tenants, metadata, main) are listed in
`PROJECT.json` with the reason why they are not modelled.

What makes the parts correct:

- cluster: what a generation records is really there; nothing is built twice;
  a ready cluster stays usable; the teardown leaves nothing, stays away from what is
  reused, and ends; passes settle; no route leads into a peering that is gone;
- spec and rules: the getters agree with each other; recorded rules are exactly those of
  the spec; a change of the rules never shuts the nodes out of the API;
- machine: one VM per machine and none left behind; a recorded machine is complete;
  the load balancer has live backends only; creation and deletion end;
- public IPs: a lost race for an IP of a pool is repaired; nobody's deletion takes an IP from
  under its user; holders of IPs can be deleted;
- both controllers: no pass that returns early is forgotten; cluster and machines never wait for
  each other; the network stays under a VM whenever the cluster is deleted;
- API: what identifies a machine never changes; reading and writing back an object in the
  old version loses nothing; a cluster that was created fits its net; templates get their capacity.

`PROJECT.json` lists the hazards, line by line, with the properties aimed at them.

## Modules

| Module | Models |
|---|---|
| `OutscaleCloud` | the account as the cluster controller uses it: what each request of `cloud/services` changes, which deletions the cloud refuses (a subnet, group or net in use), and what the cloud completes later |
| `ClusterScope` | `OscCluster` in server and cache, the options that select handlers, the scope of a pass, the order of the handlers (`BuildOrder`, `DeleteOrder`), `NeedReconciliation`, `SetReconciliationGeneration`, `Close`, and the world around: informer, crash, edit, deletion, Machines |
| `ClusterNetwork` | tracker and handlers of net, subnets, internet service, route tables, NAT service |
| `ClusterPeering` | the same for net peering, its routes and net access points |
| `ClusterAccess` | the same for security groups, load balancer, bastion |
| `ClusterTeardown` | `reconcileDelete` and the deleting handlers |
| `OscCluster` | the composition: `Init`, `Next`, fairness, properties |
| `ClusterSpec` | the getters of `cloud/scope/cluster.go` as operators on a record `n` that stands for `spec.network` |
| `SecurityRules` | `reconcileSecurityGroup` with its rules one by one, on the groups that `ClusterSpec` computes; informer, edits, faults, the CCM |
| `AZAllocator` | `MultiAZAllocator` |
| `MachineScope` | the `OscMachine`s in server and cache, the scopes of concurrent passes, `Close`, the world around, and the cloud as machines use it |
| `OscMachine` | `reconcileVm`, `reconcileDelete`, what the cloud does meanwhile, fairness, properties |
| `MachineContract` | what an infrastructure machine promises to Cluster API: the abstract specification that `OscMachine` implements |
| `IpPool` | `AllocateIP`, `RetrackIP` and `DeallocateIP` in concurrent passes over clusters with NAT services and machines with public IPs |
| `ApiConversion` | `ConvertTo` and `ConvertFrom` of clusters and machines |
| `ApiValidation` | the field checks of `osccluster_validation.go`, `oscmachine_validation.go` and the defaults they use |
| `Lifecycle` | both controllers together: watches, early returns, pauses, resync, and the wait of the cluster for its machines |
| `OscApi` | one object in the API server: clients of both versions, webhooks, conversion, and the machine template controller |
| `MCOscCluster`, `MCOscMachine`, `MCSecurityRules`, `MCIpPool`, `MCOscApi`, `MCLifecycle` | constants for TLC |
| `OscCluster_proofs`, `OscCluster_teardown`, `OscMachine_proofs`, `OscMachine_refinement`, `OscMachine_complete`, `IpPool_proofs`, `Lifecycle_proofs`, `OscApi_proofs` | TLAPS proofs |

### How state and actions correspond to the code

`obj` is the object in the API server, `cache` the informer's version of it, `old` the
patch helper's copy, `mem` the copy that handlers change, `at` where the pass is: the
handler (`phase`), the place in it (`step`) and its loop variables. `cloud` is the
account; ids are numbers given out in order and 0 is "no entry in the status".

A handler is cut into actions at the requests that change the cloud, because these are
the points where a pass can be interrupted; lookups belong to the action that uses
them. `Call` gives a request its three outcomes: done, done but unanswered, not done.
`LookupFails` lets a pass end with an error at any point between two actions, which
also stands for the deadline of a pass. `Close` is two actions, since
the patch helper of Cluster API sends two requests and tries the second whatever
became of the first. `Merge` is the merge patch: fields that the pass did not change
keep the server's value. `Crash` and `Restart` lose the scopes (and the allocator) and
patch nothing. A pass that returns before it has a scope (paused, no owner, no tenant)
is a pass that does not start.

Data are abstracted to what the properties tell apart: a subnet is its range, a security
group has its rules or not, a route table has its routes or not, the load balancer is
absent, untagged or tagged. `Configs` has the options of `spec.network` that a cluster may be
created with, `Specs` the sets of subnets that edits choose from.

`SecurityRules` looks at one handler of the same pass more closely, and so has its own, smaller
state: the rules of each group, the public IPs of the NAT services, and of the object only
`spec.network`, the generation and what is recorded of it. A rule is a flow, a port
(protocol and port range together, by their use) and one IP range, since the code creates and
deletes rules one range at a time. `Missing` and `Unwanted` are computed when a group is read,
as in the code, and the calls follow one by one.

`IpPool` keeps of a pass what concerns an IP: find the NAT service or VM, allocate, link,
and for a deletion delete the resource, deallocate, remove the finalizer, Close. A holder is
a cluster or a machine. The numbers from 1 to the size of the pool are the IPs with the
pool's tag; later numbers are IPs that the provider creates. A NAT service links its IP when
it is created and is refused one that is linked; a VM carries the name of its IP and is
given it when it boots, if it is free. `Edit` takes a spec out of the pool or into it: what a
holder has by then was allocated under another spec.

`Lifecycle` composes the two controllers at the level of objects: Cluster, OscCluster, Machine and
OscMachine in the server (`srv`) and each in its informer (`seen`), the work queues, and of a
pass what it reads (`ClusterPass`, `MachinePass`) and, in a second step, what it does. Its
steps stand for whole passes of `OscCluster` and `OscMachine`: a build leaves the network up or
partly built, a teardown takes the load balancer and then, if no VM is left in it, the net.
An OscCluster may be deleted at any time, by its user or with its Cluster, also while Machines are
being created; the history variable `met` tells the machines that `ListMachines` had before a
teardown began from those that it had not. An informer that learns of a version puts work into the queues as `SetupWithManager` and
`OscClusterToOscMachines` say; passes that return early are not repeated. The fairness that the
other modules assume of the start of a pass (it is started again while there is work) is what
`MachinesAwake` and `MachinesStart` show here.

In `OscApi`, `stored` is the object in v1beta2; `Spoke` and `Hub` are the two conversions and
`View` and `Storage` what a client of a version reads and writes. `past` and `via` record the
specs since the creation and the version of the last write, for the properties. A CIDR range is a
block of addresses out of `Blocks`, of which two are disjoint or nested as prefixes are, or a text that does not parse; a VM type is its parts, a list of rules a
sequence of records; fields that no check reads are together in `others`.

### The contract of a machine

`MachineContract` has three variables per machine: `life` (absent, pending, ready, deleting,
gone, or dropped: deleted before the finalizer was saved), `providerID`, and `vm` (none, live,
dead). Its steps say that a machine gets a VM only while it exists, becomes ready only with a
live VM and stays ready until its deletion, gets a provider ID once and never another, loses
its VM only when it is being deleted, and goes only when no VM of it is live. `OscMachine`
maps its state to it with `Life` and `VmLife`, and `KeepsContract` is the contract's
specification under this mapping; lost replies, stale copies, patches that merge an older
copy, restarts and the several objects a pass handles are all stutters or steps of it.

## Runs

| Run | Instance | Shows |
|---|---|---|
| `cluster_faults` | public and private subnet, internet, load balancer; 2 faults | `RecordedIsBuilt`, `ReadyIsBuilt`, `NatBehindGateway`, `TornDown`, `IpsBounded`, `NoDuplicates`, `TypeOK` |
| `cluster_edits` | bastion instead of load balancer; or reused net and security groups; or no internet access, a peering and a net access point. A subnet comes or goes; 1 fault, 1 edit | `RecordedIsBuilt`, `TornDown`, `NoDuplicates`, `NoBlackHole`, `ReusedKept` |
| `cluster_liveness` | as `cluster_faults`, 1 fault, fair | `Settles`, `DeletionCompletes` |
| `cluster_rules` | eight versions of `spec.network`: default, restricted sources, two subregions, closed to the outside with additional rules and a bastion, manual subnets and groups, two subnets of one role in one subregion beside subnets without roles or names, route tables listed by the user, a net at the end of its byte; 1 fault, 1 edit, the CCM opens and closes one port; fair | `RecordedRulesExact`, `NodesKeepAccess`, `ControlPlanesReachable`, `RouteTablesServeSubnets`, `RulesSettle` |
| `api` | clusters, cluster templates, machines, machine templates; six samples of a spec whose fields edits mix; 4 writes, 1 fault, fair | `MachineIdentityKept`, `RoundTripStable`, `CreatedClusterFits`, `CapacitySettles`, `TemplateDeletionCompletes` |
| `ip_pool` | two clusters on a pool of two IPs; a cluster and a machine on a pool of one; a cluster on the pool beside a machine with an IP of its own; 1 fault, or 1 edit of a spec's pool; fair | `IpsInUseKept`, `PoolSettles`, `PoolDeletionCompletes` |
| `lifecycle` | a cluster and a control plane node, an OscCluster that may be deleted at any time; one failed pass or one pause, fair | `NetworkUnderMachines`, `MachinesAwake`, `MachinesStart`, `DeletionsEnd` |
| `machine_faults` | a worker with public IP and GPU and two subregions, or a control plane node with reconciliation rule `random`, one with a failure domain and one without; 2 faults, fair | `KeepsContract`, `OneVm`, `RecordedIsComplete`, `VmsReleased`, `IpsBounded`, `BackendsAlive`, `MachineSettles`, `MachineDeletionCompletes`, `TypeOK` |

Four more runs end in a counterexample to what a comment or a page of the docs says;
`PROJECT.json` quotes the sentence under `findings`:

- `cluster_reuse_net`: a teardown with a reused net deletes security groups of that net
  that the provider did not create;
- `cluster_lost_ip`: a teardown that starts from a version older than the last status
  patch leaves the NAT service's public IP allocated, with no call failing;
- `machine_provider_id`: a VM adopted after a restart never gets a ProviderID;
- `api_reused_ids`: a cluster that reuses its net, created through v1beta1, is stored
  without the ids of net and subnets.

Further deviations met while modelling, which have no run of their own:

- when the first patch of Close fails and the second does not, the load balancer is recorded
  as finished for a cluster without an endpoint (`Settles` exempts it);
- the comment of `DeallocateIP` says that it does nothing for an IP of a pool, but the check
  for a link comes first: a cluster that lost the race for an IP, tracks it and is deleted
  then waits until the other holder frees it (`PoolDeletionCompletes` exempts it);
- `GetSubnet` takes the first subnet with the name or with the role in the subregion, so that
  an earlier subnet of the role wins over the one that a machine or a route table names, and
  the second subnet of a role in a subregion gets no route table; nor does a subnet that has
  neither a name nor roles (`RouteTablesServeSubnets` exempts both);
- `ValidateSubnetCidr` refuses a subnet with the words "subnet must be contained in net", but asks
  only that the two overlap: a subnet that holds the whole net is accepted
  (`CreatedClusterFits` exempts it). It compares nothing when the net has no range, and clusters
  are not validated on update;
- a machine that the cloud creates with an IP of the pool that another has taken comes up without
  a public IP, and no later pass allocates one (`PoolSettles` exempts it); the comment of
  `allocateFromPool` expects the creation to fail;
- a machine whose spec names a pool frees no IP when it is deleted, also not one of its own
  that it got before the pool was added to its spec;
- a control plane node without a failure domain is never placed where there are several subregions
  and `subregionMode` is not `random`: the allocator lists workers only (`MachineSettles` exempts it);
- `refreshWorkers` forgets subregions that it has given and that are not published yet, so
  that a worker created while another boots may be placed beside it;
- a worker keeps the subregion it was given when that has no GPU left, against the comment at
  `oscmachine_vm.go:74`;
- a machine deleted before its GPU is attached leaves the GPU allocated, although
  `docs/src/topics/config-fgpu.md` says that GPUs are released with the VM;
- the cluster controller does not watch Clusters: an OscCluster whose Cluster is seen later, or
  whose Cluster ends its pause, waits for the resync (five minutes by default), and so do the
  deletions of machines that are woken by neither (before the cluster is ready, or while the
  OscCluster is being deleted);
- the teardown asks `ListMachines` once, and the list comes from two informers: machines that they
  show later lose the load balancer while they live. Their VMs keep the network, which the cloud
  does not let go (`NetworkUnderMachines` says both);
- if the OscCluster goes before `ListMachines` had a machine, or before its first pass has saved the
  finalizer, that machine can never be deleted, because `Reconcile` returns without an OscCluster
  before it looks at the deletion (`DeletionsEnd` exempts it as `LeftBehind`);
- a machine that goes before its first Close may leave a VM, which then blocks the teardown of
  the net (`DeletionsEnd` exempts it);
- a template whose VM type has no capacity by name keeps the one of its former type.

`TornDown`, `Settles` and `DeletionCompletes` name the states that the code is known to
leave behind or never to leave, so that everything else is still checked: a net whose tag
call failed and an internet service whose link call failed (at most one per fault), a
load balancer without its tag, an endpoint lost as above, a subnet dropped from the spec.
`RecordedRulesExact` exempts surplus rules of a port where the CCM has a rule, which the code
skips, and `ControlPlanesReachable` control planes in a public subnet, which the code passes over.

### Bounds

`MaxFaults` bounds failed or unanswered calls, failed patches and crashes in a behaviour;
`MaxEdits` bounds edits. Two faults are the least that combine (a lost reply whose
recovery is interrupted, a lost reply and a failed patch), and the properties stated
"at most one more per fault" (of a machine: per fault and machine) are linear in them. Everything else is unbounded: any
number of passes, any lag of the informer. Two subnets tell the public one, which the NAT
service and the bastion need, from the others; one security group serves load balancer and
bastion. Machines share only the allocator and the load balancer's set of backends,
so `machine_faults` has one machine at a time (`MaxMachines` bounds how many are
created in a behaviour), of any of three kinds, and the proofs cover any number, with a worker that
has a failure domain and a disabled load balancer among what they cover and the run does not have.
In `cluster_rules` one edit takes any version of the spec to
any other with the same net, which is every kind of change of rules there is; the versions
include one that lists an IP of a NAT service among its sources and one with a range that
occurs twice. In `ip_pool` two holders are what a race takes; a third would only repeat it.
Fleets with an edit of the pool have no fault, to keep them small; the proof of `IpsInUseKept` has both.
`lifecycle` has one machine, since machines do not wait for each other, and one of its troubles
(`MaxTroubles`): a pass that fails at any of its points, or a pause of the Cluster or the OscCluster.
In `api` a creation, and updates that set, clear and set a field again, take four writes
(`MaxWrites`); a sample has each field once with values that pass and once with one that is
refused, at or beside the limit of its check.

The passing runs have 45 thousand to 2.1 million states. Deadlock is checked in the cluster
runs, where `Done` is the one final state. The machine, `api`, `ip_pool` and `lifecycle` runs
do not check it: these systems may stop once every object was created, deleted and has gone,
or the bound on writes or troubles is used up; that what must end does end there is a
liveness property where the code promises it.

### Fairness

`FairSpec` assumes weak fairness of the steps of a pass and of its start (errors are requeued
with back-off, waits by `RequeueAfter`, and the manager resyncs periodically), of the
informer, of what the cloud has begun (VM, NAT service and GPU transitions), and that
Cluster API deletes the Machines of a deleted cluster and publishes readiness. `SecurityRules`
assumes it of the steps of a pass, of the informer, and of the start of a pass while the
generation is not recorded; passes that start by chance are not fair. `IpPool` assumes it of
the steps of each holder's pass, its informer, and the boot and end of its VM or NAT service;
`OscApi` of the steps of the template controller and its informer; `Lifecycle` of informers,
queues, resync and the controllers of Cluster API, but not of the start of any particular pass. Faults, edits,
creations, deletions and the CCM are not fair.

## Proofs

`OscCluster_proofs` proves seven properties of the cluster controller for any set of subnets and
security groups, any options, any mode of each reconciler, and any number of faults and edits:
`TypeOK`, `RecordedIsBuilt`, `ReadyIsBuilt`, `NatBehindGateway`, `NoDuplicates`, `IpsBounded`, and
`ReusedKept` for clusters that reuse their security groups (without that it is false, as
`cluster_reuse_net` shows). They follow from one inductive invariant, `ClusterInv`, which TLC
confirmed first on instances in which every option occurs. It says two different things before and during a
teardown:

- `Spared` is the line between them: Machines exist, or the informer does not know of the
  deletion, or a pass that began to build has not ended. `Passes` says why a step of the
  deletion never meets such a state, and a crossed line is never crossed back.
- While `Spared`, `BuildInv` holds. `CloudOk` says what the account looks like: one tagged net, all in
  it, one linked service, one table per subnet, one NAT service, and that behind a gateway.
  `CopyOk` says of *every* copy of the object (`obj`, `cache`, `old`, `mem`) that the ids in it
  are those of what is there and that what it has recorded is made. Since a copy is judged
  by the cloud and not by other copies, stale copies, lost patches and merges of old fields are
  harmless, and a crash loses nothing that is needed.
- `Grows` is what a building step may do to the cloud. It keeps every `CopyOk` (`GrowsCopy`) and
  everything made (`GrowsMade`), so that a handler has to be proved only for its own resource.
- From a right copy every lookup finds the one resource there is (`NetLookup`, `SubnetLookup` and
  so on). That is why a handler creates only what is not there, and why what is
  made is found again (`MadeIsBuilt`).
- `BehindOk` says that all that comes before the handler a pass is in has been made, `LoopsOk` and
  `CallsOk` what its loops and unfinished requests have done. `Skip` keeps `BehindOk` because of
  `CopyOk`: what is recorded is made.
- `IpsOwed` counts an IP that a NAT service or bastion is still to get as if it were there; an IP
  is asked for when it is owed, and only a fault loses one.
- During the teardown `Shrinks` is all a step may do. It makes no duplicate and no IP, and, with
  `ReuseSpared`, takes nothing that is reused.

Every action has a lemma of its own (`CreateNetOk`, `DeleteSubnetOk`, ...), most by way of `BuildCall`,
`BuildNext`, `TearCalls` and the like, which do once what every handler of that form needs. The proof
uses `NamesAssumption` and `ScopeAssumption`, which every cluster run evaluates.

`OscCluster_teardown` proves the other two invariants of the cluster controller, `TornDown` and
`NoBlackHole`, for the same constants. Neither is inductive: `TornDown` speaks of the state after
the last step, and says nothing of the many states in which part of the cluster has gone;
`NoBlackHole` does not tell why a peering has no routes left when it is deleted. `TearInv`, which
TLC confirmed first on instances with load balancer, bastion, peering and faults, is inductive together with
`ClusterInv`. It holds before and during the teardown:

- `Held`: all that was made is in the one tagged net, and a load balancer or a VM that is not
  terminated keeps the public subnet there. As the cloud refuses to delete a net or a subnet in
  use, all else has gone when the net goes. The argument does not look at the order of the deleting
  handlers or at what an earlier pass has managed to delete.
- `Traced`: every copy of the object that names a net names the tagged one, as long as that is there,
  and a copy that names a peering names the tagged one. So a teardown that starts from a stale
  status still finds them (`LookupTrace`), and "no net found" means that the net has gone.
- `RoutesOk`, `NoRoutes`: routes to a peering lead to the tagged, active one, and none is left when
  a pass reaches `dPeering`.
- `StraysOk`: nets that were never tagged and internet services that are not linked are
  `Lost` unless the handler that made or unlinked them still waits for the answer to its next
  call (`TagsNext`, `LinksNext`); each that is lost has a fault of its own.
- `Finalized`: no copy of the object is without its finalizer, and no pass about to remove it,
  before the net has gone (`Gone`). A patch of an old copy can therefore not remove it early.

A building step keeps `TearInv` because `ClusterInv` says more (`BuildTear`, which uses `Builds`, the
frame that the lemmas of `OscCluster_proofs` also prove). For the teardown `Wanes` and `Eases`
are all that a deleting step may do to the cloud, `WaneTear` shows once that such a step keeps
`TearInv`, and each handler has a lemma that it is such a step.

`OscMachine_proofs` proves `TypeCorrect == Spec => []TypeOK`, one lemma per action. The
part that is not bookkeeping is placement: the allocator answers "unknown" or "" for
workers it cannot place, and those must not become the subregion of a VM. The proof uses
`PlacementAssumption` and `MachineAssumption`, which every machine run evaluates.

The module also proves `OneVm`, `VmsReleased` and `BackendsAlive` for every number
of machines and faults, from one inductive invariant, `IInv`, which TLC confirmed on
the instances first. None of the three is inductive alone:

- `FreshIds`, `OwnVms`, `NamesAgree`: ids are never used again; a VM whose id some copy of
  a machine (`obj`, `cache`, `old`, `mem`) holds is that machine's; and all copies of a
  machine whose VM is listed name that VM or none. They make the lookup by status as good
  as the one by client token.
- `NoVmYet`: between a lookup that found nothing and `CreateVm` no VM of the machine
  exists. With `OneVm` it shows that a VM is never created beside another.
- `GoneIsCondemned`, `DeletionIsFinal`: if the VM of a machine is going or has gone, the
  informer knows of the deletion and no building pass is under way; so no pass mistakes a
  VM that has gone for one that is still to be created.
- `Released`: past the VM step of a deletion, and after the finalizer is removed, every VM
  of the machine is shutting down or terminated. It carries `VmsReleased`.
- `VmAtHand`, `BackendsBalanced`: a pass that links, starts, tags, unlinks or deletes
  holds the id of the machine's VM, and backends are live VMs of control plane nodes (and none if
  the load balancer is disabled), no longer linked when the deletion reaches the VM. They carry `BackendsAlive`.

`HarmlessStep` collects the argument for actions that change neither VMs nor the names of
VMs; `GoneStep`, `DeleteVmStep`, `VanishStep` and `RestartStep` treat the others.
`NextInv` puts the actions together and `Invariance` is `Spec => []IInv`.

`OscMachine_refinement` proves `ContractKept == Spec => KeepsContract`: every step of the
controller is a step of `MachineContract`, or changes nothing the contract shows. To `IInv` it
adds (`ContractInv`) what a refinement mapping on `obj` and `cloud` needs to know of the other
copies: `OnePid` (no two copies hold different provider IDs), `NamedHasVm` and the like (a copy
that is named or ready belongs to a machine that has had its VM, so that a patch from an old
copy cannot publish either too early), and `NeverHeld` and `RemovedIsGone` (which objects may
go, and when). The same module proves `IpsBoundedAlways`. Its invariant `IpInv` keeps a
ledger (`Ledger`): who asked for each IP and after how many faults; no machine asks twice after
the same number of faults, since from the first request on it is building or has built its VM
(`Charged`). The proof
showed that the property was first stated too strongly, one IP per machine and one more per
fault of all machines: a `Restart` is one fault and loses the scopes of all passes at once, so
that two machines can each lose an IP by it (TLC finds this with two machines). What holds is
one more per fault *and machine*, which is what `IpsBounded` says now.

`OscMachine_complete` proves `RecordedIsCompleteAlways`. The recorded generation says something
about seven handlers at once, so the invariant (`CompleteInv`) follows each resource from the
lookup to the status: `VmPhases`, `GpuPhases` (what is there when a pass has reached a step),
`OwnGpus`, `GpuOfVm` (the GPU a pass handles is the machine's, in the subregion of its VM),
`Domains` (a published failure domain is that of the VM), `Behind` (what an older copy names, the
API server names too, so that a merge patch cannot take it away), and `RecordedServes` (a copy
with a recorded generation has a VM that serves). `Generations` says that no copy is ahead of
the API server. `BuildsUndeleted` and `Unborn` bound
when a pass may build.

`IpPool_proofs` proves `IpsInUseKeptAlways == Spec => []IpsInUseKept` for any fleet, pool size and
number of faults and edits. The property is not inductive: that a deletion takes no IP from under
another holder depends on who may track it. `IpInv` adds `Owned` (an IP that is not the pool's is
named by one holder only, in all copies of its object and in its resource), `Fresh` (a new
IP is named by nobody), `LinksWhatIsThere` (a pass about to link an IP has one that exists, which
nobody else may delete) and `DeletesFirst` (a pass about to give its IP back has deleted
what used it). `StepKeeps` says once what a step of a pass may do to the cloud and the scope;
`ContinueKeeps`, `CallKeeps`, `CopyKeeps` and `CloseKeeps` apply it. TLC confirmed `IpInv`
first. `PoolSettles` and `PoolDeletionCompletes` are liveness and stay with TLC.

`Lifecycle_proofs` proves `NetworkUnderMachinesAlways` and `MachinesAwakeAlways` for any number
of machines and troubles, and for an OscCluster that is deleted at any time. The first rests on
`NetworkInv`. What anything knows has existed (`KnownHasExisted`); an OscCluster goes only by a
deletion, which from its readiness on a finalizer holds up (`ClusterHeldUntilDeleted`), and once it
has gone nothing builds it again (`NotBuiltAgain`). A machine that is `met` stays in the list of
`ListMachines` as long as its OscMachine exists, and a machine that has a pass or a VM is no longer
`unmet` (`ListedUntilGone`); so a teardown passes over no machine that the list has had
(`TeardownIsLast`). `VmsOnNetwork` adds that only a ready cluster has VMs. For the second, `AwakeInv` adds `NothingMissed`: a machine that is not queued has, as far as
the informers show, nothing to do that its pass does not see to; whatever an informer learns that
gives it something to do queues it. This is the argument by which `SetupWithManager` needs no more watches than it has.

`OscApi_proofs` proves `ApiTypeCorrect`, `MachineIdentityAlways`, `RoundTripAlways` and
`CreatedClusterFitsAlways` for every set of specs that clients may try (the runs use six
samples). What was written through v1beta1 is `Bare`: it lacks the fields that v1beta1 does not
have, and on such specs the two conversions are inverse. `LatestFollows` makes the pairwise rule
of `ValidateUpdate` a rule about the whole history: each later spec of a machine agrees with
all earlier ones. `AcceptedFits` goes through the checks of the creation one by one; a subnet that
overlaps the net lies in it or holds it because blocks are nested (`BlocksAssumption`). Apart from that
the proof needs of the constants only that the samples are specs, and that there is one.

Only model-checked:

- liveness, which is outside the prover's reach (`Settles`, `DeletionCompletes`, `RulesSettle`,
  `PoolSettles`, `PoolDeletionCompletes`, `MachineSettles`, `MachineDeletionCompletes`,
  `MachinesStart`, `DeletionsEnd`, `CapacitySettles`, `TemplateDeletionCompletes`);
- `SecurityRules`: its properties are about what `SelectSeq` and folds over lists of rules
  compute (`RecordedRulesExact`, `ControlPlanesReachable`, `RouteTablesServeSubnets`), and the
  getters it uses are recursive; both need induction over data.

## What the models leave out

- In `OscCluster` and `OscMachine` no IP comes from a pool; `IpPool` treats pools. The management net has one route table, and there is one service
  with a net access point. Peerings that were deleted stay listed, as the code expects.
- Options other than the subnets do not change while a cluster lives in `OscCluster`; a feature
  that is switched off leaves behind what it has built.
- In `SecurityRules` groups are not deleted, and the NAT services of the spec are there when the
  pass reaches the groups. Of the cloud it is taken that a new group lets everything out,
  that a rule which the group has already got may be refused, and that a rule of the CCM
  is listed together with the IP ranges of the same port. Of route tables `ClusterSpec` has which
  ones there are and which subnets they look up; the routes in them are in `ClusterNetwork`.
- The informer jumps to the newest version, and never goes back to an older one, as it
  might after a failover to another API server.
- Nobody but the provider changes the account (in particular no VM dies by itself).
- The client token of `CreateVms` is used for lookup; that the cloud refuses or
  deduplicates a second creation is not assumed, which makes `OneVm` stronger. The lookup by the
  `Name` tag, for VMs of earlier versions, finds the same VMs here. No spec names the id of a VM
  (`spec.node.vm.resourceId`), and a failure domain is a subregion, not the name of a subnet as it
  could be up to v0.4.0.
- `FailureReason` and `FailureMessage` of a machine, on which a pass returns at once, are set by
  nobody.
- VM state, addresses, volumes, failure domains of the cluster and conditions in the
  status mirror other state and feed nothing back.
- `OscApi` takes from the manifests under `config/` that v1beta2 is stored, that the conversion webhook
  serves clusters, cluster templates and machines and not machine templates (which keep the
  fields of both versions), and that requests of v1beta2 reach the v1beta1 validators
  converted. controller-runtime gives `ValidateUpdate` the old object first, so that `r` in the
  code is the old one. A write on an older version of the object is a conflict, so that
  reading, changing and writing are one step. `OscVm.SetDefaultValue` is never called.
- In `IpPool` the finalizers are set at the start, and each holder has one IP. That the cloud
  refuses a NAT service a linked IP is assumed, as the comment of `allocateFromPool` does; of a VM that
  names a linked IP both outcomes are modelled.
- Not modelled: tenants and credentials (a Secret is read and a client built at the start of a
  pass; failure is a pass that does not start), provider ID strings and client metadata
  (formatting), of the manager flags and registration (its sync period is `Resync`), generated deep copies and mocks.
- One `OscCluster` in `OscCluster`; labels and names, which are taken to be distinct.

## Plan

Done: the inventory, the three controllers with all their handlers, the allocators of
subregions and public IPs, the spec getters and the security group rules, webhooks,
validation and conversion, the machine contract as an abstract specification, the runs
above, the proofs about the cluster and its teardown, machines, the pool, the lifecycle and the API. In order of importance, what is left:

1. Proofs about `SecurityRules`, as far as they do not need induction over lists.
2. Lemmas about `AZAllocator` (an allocation goes to a subregion with the fewest known workers).
3. GPU capacity in one subregion only, against the comment at `oscmachine_vm.go:74`.
