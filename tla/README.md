# TLA+ models of TenantCNI

TenantCNI gives every tenant of a Kubernetes cluster a network of its own: on
each node a /24 subnet, a bridge, a VXLAN device to the tenant's other nodes,
and firewall rules that keep the tenants of a node apart. Two programs do it:

* the **CNI plugin** (`cmd/tenantcni`): one short-lived process for each ADD,
  DEL and CHECK the container runtime asks for;
* the **node daemon** (`cmd/tenantcnid`): a controller with an informer on the
  `Tenant` objects, one on the pods, and one worker goroutine.

They share no memory. They meet in JSON files under `/var/lib/cni/tenantcni`,
some guarded by `flock`, and in the kernel's devices. The daemons of different
nodes meet in the `Tenant` objects of the API server.

## 1. Inventory

| Component | State | Operations | Hard behaviour |
|---|---|---|---|
| IP allocator of a tenant (`network/ipam/ipam.go`, `tenant_store.go`) | `<tenant>.json`: bridge, map address → container, last address; flock | AllocateIP, ReleaseIP, CheckIP, AllocateTenant (rewrites the file without the lock), DeleteTenantStore | processes interleave; load before lock; truncate-then-write; kills; end of the subnet |
| CNI plugin (`cmd/tenantcni`) | the interface in a container's namespace | cmdAdd, cmdDel, cmdCheck | every step can fail with nothing undone; commands are repeated |
| Pod list (`pod_store.go`, `controller/handlers.go`) | `podlist.json`: pod name → tenant | handlePodAdd (locked), getTenantPod and deletePod (not locked) | lost updates; ADD before the informer's event; DEL of a pod that lives on |
| Node store (`node_store.go`) | AvailableList, TenantList | AllocateTenant, reclaiming in deleteTenant, reset in `main()` | restart; double Add; no subnet left |
| Tenant controller (`pkg/controller`) | work queue, lister | addTenant, updateTenant, deleteTenant | late events; refreshed objects; conflicts; panics; events put back at the tail |
| Bridges and veths (`backend/bridge.go`) | the tenant's bridge with its gateway address, interfaces | CreateTenantBridge, SetupVeth, DelVeth, CheckVeth, DeleteTenantBridge | two ADDs make one bridge; it is deleted while an ADD has it looked up; a command that stops half-way leaves a bridge or an interface nobody completes |
| VXLAN, rules (`backend/vxlan.go`, `routing`) | device, ARP/FDB/routes, iptables | created by the controller | calls whose errors are dropped; never cleaned up completely; reused with an old MAC |
| Daemon start-up (`cmd/tenantcnid`, `crd/register.go`, `k8s/kube.go`) | the resource type, the default `Tenant` object | RegisterTenantCRD, GetNodes, NodeStore, RegisterDefaultTenant, Run | daemons come up in any order; the type is not established yet; nodes join later |
| Generated clients, logging | none of their own | | |

What makes each of them correct:

* *allocator*: an address on a running container's interface is leased to that
  container, to it alone; nobody has two; DEL leaves no lease behind; the lock
  excludes and is given back; ADD answers.
* *pod list*: a pod is plugged into the tenant of its annotation; an edit
  touches one entry; a pod on the node is listed until its DEL; every pod is
  served; DEL can be repeated.
* *controller and node store*: no subnet is used twice; store and node store
  agree; tenants that are set up are isolated; at rest, the node is configured
  as the Tenant objects say; it comes to rest.
* *start-up and mesh*: whichever daemon creates the default tenant, its nodes all
  come to be served; what a node publishes is what it uses; members reach each
  other; nobody writes another node's entry.
* *a tenant's life on a node*: an overlap of ADD and DEL with provisioning and
  deletion gives no address twice; a running pod has its gateway; a deleted
  tenant leaves nothing.

The hazards, each at its line, are in `PROJECT.json`.

## 2. Modules

| Module | Models |
|---|---|
| `LeaseTable` | abstract: a table of leases changed by atomic Grant and Release, or lost |
| `TenantIPAM` | the allocator, plugin processes and the daemon's write of one tenant's store |
| `TenantIPAM_proofs` | theorems about `TenantIPAM`: types, the lock, one address per container |
| `TenantIPAM_lease_proofs` | theorems about its leases, and that it implements `LeaseTable` |
| `PodStore` | the pod list, the plugin's use of it, the pod informer |
| `PodStore_proofs` | theorems about `PodStore`: its three safety properties and what a step may edit |
| `TenantController` | informer, queue, worker and NodeStore of one node's daemon |
| `TenantController_proofs` | theorems about its NodeStore, its tenant stores and its firewall rules |
| `TenantController_type_proofs` | its types, and lemmas about the lists in `Spec.Nodes` |
| `TenantController_rest_proofs` | that a daemon at rest has done everything the objects ask of it |
| `VtepRegistry` | abstract: what Spec.Nodes promises its readers, a register per node |
| `VxlanMesh` | one tenant on several nodes: VTEPs published and entered, device, ARP, FDB, routes |
| `ClusterStart` | `main()` on every node, the CRD, the default tenant; completes `VxlanMesh` to a specification |
| `ClusterStart_proofs` | theorems about the cluster: the registry, the mesh at rest, the founders |
| `TenantLifecycle` | tenants created and deleted on one node against ADD and DEL of their pods |
| `TenantLifecycle_proofs` | theorems about its addresses, gateways and deletions |
| `MCTenantIPAM`, `MCPodStore`, `MCTenantController`, `MCClusterStart`, `MCTenantLifecycle` | instances for TLC |

`TenantIPAM` and `PodStore` are two views of the same plugin process: the first
takes the tenant as known, the second takes addresses and interfaces as a step
that works or not. `TenantController` takes from both only what plugin commands do
to a tenant's subnet: they leave a blank `{}` store where there was none
(`PodCommand`), or write one later than they loaded it (`LateWrite`). `VxlanMesh` takes the same
controller across nodes, and `TenantLifecycle` puts its provisioning and deletion
together with the plugin's processes: each takes as one step what another module
cuts finer, and says so in its head comment.

**TenantIPAM.** `file` is the JSON file (missing, torn, or whole with its data),
`writer` and `readers` the flock, `pc`, `op`, `data`, `cursor` a process per
container, `iface` what the kernel has, `daemon` the state of AllocateTenant's
write. One action per system call that another process can come between:
`OpenStore`, `CreateEmpty`, `FillEmpty` (LoadTenantData before the lock),
`TakeLock`, `LoadAdd`/`LoadDel`/`LoadCheck`, `Probe` (one turn of the loop),
`Truncate`, `Fill`, `FillLast`, `Unlock`, `SetupVeth`, `DelVeth`, `CheckVeth`,
and outside the code `Invoke`, `Kill` and `DaemonCrash`. Addresses are offsets
in the subnet. `net.IP(gtw)`, which turns the gateway's *text* into bytes, is
modelled by what it yields: something NextIP cannot advance (`GatewayBytes`).
`damaged` records that leases were lost, which the code cannot exclude.

**PodStore.** The same file semantics; `phase` says what a load is for,
`pending` are the informer's events, `sandbox` and `api` the runtime's and the
API's view of a pod. `torn` records that two rewrites overlapped or one was cut
short. The lock of handlePodAdd is left out because nobody else takes it. An
overlapped write leaves one of the texts or a mixture that does not parse.

**TenantController.** `api`, `watch`, `cache` are the Tenant objects, changes on their
way, and the lister; `queue`, `pc`, `ev`, `view`, `loaded` the worker, with its copies
of the object and of the tenant's store; `node`, `store`, `altered` (the store has an
edited VNI or Prefix), `vxlan`, `routes`, `dropped`, `accepted`, `labelled` what it
changes. A handler is cut at its effects (`Add`, `Provision`, `LoadStore`, `Publish`,
`CreateVxlan`, `LabelNode`, `InsertRules`; `Delete`, `DeleteDevices`, `DeleteStore`,
`Reclaim`; `UpdateMembership`, `Update`, `Revert`). `Deliver` is the watch at work;
`Relist` is what client-go does when it broke and cannot be resumed: all that happened
to an object meanwhile becomes one event, and one that is gone a tombstone, on which
deleteTenant panics (`DeleteTombstone`). A nil dereference or an index out of range is
`Restart`: the panic ends the process, the next one rewrites the NodeStore and lists
the objects in any order. `Spec.Nodes` keeps its order, because addTenant uses an
index across a refresh. A VTEP stands for VtepIp and NodeIP. VtepMac is drawn at
random, so it is never what it was before: a change in the watch and an event carry
`mac`, whether this node has published a new one, and updateTenant takes the nodes to
differ if so. `starved` holds the tenants whose last Add found no subnet: their store
stays as it was, and publishing from it again may change nothing, in which case nobody
is told.

A call may fail at every step, and what follows is what the handler does about it.
The API server refuses the update or the label: the handler returns the error, and the
tenant is `failed`. InitVxlanDevice fails: a panic. AllowForwardingTenant,
BlockTenant2TenantTraffic, AddARP, AddFDB, AddRoutes, the deletion of devices and
store, and AllocateTenant's write of the store: the error is logged or dropped, the
handler goes on and succeeds. The model has the rules (`missed`, pairs of subnets) and
the entries (`refused`) that were refused when they were last due, and the tenants
whose store is not what the daemon meant it to be (`astray`). A plugin reaches the
store as well. `LoadTenantData` reads, and calls os.Create when there is no file;
AllocateIP and ReleaseIP rewrite the whole file. If the daemon writes the store in
between, which it does without the lock, the plugin then empties it or puts an older
one back (`past` has what it may have read): `LateWrite`, after which the tenant is
`astray` until it is given a subnet again. The revert of edited fields writes back what
the store holds, which after a restart are the edited values.

**VxlanMesh and ClusterStart.** The object is the sequence `log` of its versions;
a node's lister holds one of them (`seen`), an event in its `queue` names one. So
stale listers, late events and the API server's conflict check (`Taken`) come out
of one number per node. `made` numbers the MAC addresses a node makes up, which
NewHardwareAddr draws at random: never one that was there before. `Add`
(AllocateTenant), `Publish` (with the index found before the object was
refreshed), `CreateVxlan` (a device that is there keeps MAC and address; a failure may
leave it down, so `raised` holds those that are up),
`UpdateMembership` (the event put back at the tail), `Update` (AddARP, AddFDB and
AddRoutes, node after node), `Delete`. Any of the three calls for any node may fail
alone, and a route through a device that is down always does (`Routable`). The handler
then goes on and the event is done with, or the daemon dies in the middle. `gaps[n]`
holds the nodes whose entries n's last update could not all make; the next one that
can takes them out. A failed deletion of device or store is passed over likewise.

`ClusterStart` has the five steps of `main()`: `RegisterTenantCRD`, `WriteNodeStore`,
`RegisterDefaultTenant` (fatal until the API server has established the type),
`StartController`; a new node (`AddNode`), `Establish`, and `Crash` at any point.
Three history variables carry no code: `gaps`; `founders`, the nodes there were when
the first daemon listed them; and `misplaced`, that a daemon has written into another
node's entry because users changed the list between its look-up of the index and its
write (a listed hazard). `failed` are nodes whose Add ended in an error, which the
code logs and drops.

`Registry == INSTANCE VtepRegistry WITH list <- Current`: every step of the
cluster changes the object as one step of the registry does, or leaves it: it is
created, a node is listed or taken off by users, or a node writes its own register
with a MAC it has never published. The exception is a step after which `misplaced`
is true.

**TenantLifecycle.** A store is read in one step and rewritten in one, and what
matters is identity: a process locks the lock *file* it has opened (`proc.lock`
against `removed`), and plugs into the bridge *device* it has looked up (`proc.link`
against `deleted`). The plugin: `Invoke`, `FirstLoad` and `FirstCreate` (the load
before the lock: read, and os.Create if there was no file), `Load` and `Create` (the
same under the lock, with what AllocateIP or ReleaseIP then decides), `WriteStore`,
`FindBridge`, `LinkAdd`, `AddrAdd`, `SetupVeth`, `DelVeth`. `Kill` is the runtime's
time-out or a call that fails, and cuts `AddrAdd` and `SetupVeth` short between any of
their netlink calls: `LeaveBridge` leaves the bridge without its gateway, or with it
and down; `LeaveVeth` leaves the interface bare, with its address, or with its route
too, on no bridge. The daemon: `AllocateTenant`, `DeleteTenant` (store loaded, bridge
deleted), `RemoveEntry` (os.RemoveAll, file by file in either order),
`RemoveDirectory` (and the subnet goes back), `StoreStays` (DeleteTenantStore fails
and the subnet goes back all the same), `DaemonCrash`. A deletion of the bridge that
fails is an alternative of `DeleteTenant` (`Fails`).

Three sets say what the properties leave out, each for a reason of its own:

* `disturbed`: tenants that were provisioned or deleted while a pod of theirs was
  plugged or a command for one ran, or were provisioned while a bridge of theirs was
  left over, and those whose store an os.Create has emptied because the command had
  found no file before AllocateTenant wrote it; and those for which a command began
  while they were being deleted or their store was older than the daemon. deleteTenant
  asks for the pods to be deleted and does not wait; the daemon's restart counts for the
  tenants in use. Nothing is promised to them. One behaviour this excludes is worth
  knowing. An ADD that opens the lock file while DeleteTenantStore is removing it holds
  a lock on a file without a name; when the tenant is created again, the next ADD makes
  and locks a new file, both scan the same store, and one address is given out twice.
* `abandoned`: tenants whose deletion a crash of the daemon cut short or made it
  forget (the new daemon's informer does not list them), or in whose deletion a call
  failed. Their bridge or store may stay. Everything else is still promised to them:
  no subnet in the NodeStore, no interface, no address given twice.
* `unfinished`: bridges whose maker stopped between LinkAdd and LinkSetUp. Later ADDs
  take such a bridge as it is, without a gateway or down; their pods are still
  promised to be on it with the right route.

## 3. Runs

Passing runs:

| Run | Bounds | Shows |
|---|---|---|
| `tenant_ipam` | 2 containers, N = 4 (two host addresses), any number of commands and kills | `TypeOK`, `LockDiscipline`, `OneAddressPerContainer`, `LeaseBacksInterface`, `NoLeakedLease`, refinement of `LeaseTable`, `LockReleased` |
| `pod_store` | 2 pods of two tenants, 1 on the host's network, 1 fault | `OwnTenantsNetwork`, `PluggedPodIsListed`, `OneEntryAtATime`, `PodServed` |
| `tenant_controller` | 2 tenants, 3 subnets, 3 changes or faults, at most 1 fault (crash, failing call, broken watch, late write) | `SubnetsApart`, `StoresAgree`, `TenantsIsolated`, `RestMeansConfigured`, `Settles` |
| `cluster` | 1 founder, 1 node that joins the cluster, 2 subnets, 1 join, leave, crash or handler in which calls fail (`MaxEvents`) | `MeshAtRest`, `FoundersServed`, `KeepsRegistry`, `Settles` |
| `lifecycle` | 2 tenants, 2 pods, 2 subnets, 3 host numbers, 3 commands (`MaxCommands`), 2 creations, deletions, crashes, kills or failing deletions (`MaxEvents`) | `AddressesApart`, `GatewayServed`, `CleanRemoval` |

Why these bounds are enough to be interesting: two containers on two addresses
exhaust the subnet, reuse an address and run the scan over its end; a second
process is all a lost update needs; one fault leaves a torn file or a half-done
DEL, which is then met by every other step. In the controller three changes
reach create, leave and join again, a change between any two steps of a handler,
a double Add, a deletion seen as a tombstone, and one fault with two changes around it:
a crash, a call that fails, a store rewritten late. The
inductive invariant behind `RestMeansConfigured` was checked without liveness on more:
one tenant with five changes, two of them faults (1,807,749 states), and two tenants
with one subnet between them and four changes (5,486,954 states), where a node also
leaves and joins again unseen. In `cluster` (115,000 states) a founder
that is alone creates the object with itself only, so the second node is served
only if users list it; the one event is that, or a crash that provisions a node
twice and so moves it to another VTEP while the other node enters the first, or an
update with any combination of failing calls. Three
nodes add a second reader of the same register, not another kind of step. In
`lifecycle` (3.7 million states after symmetry) three commands are two ADDs and a
DEL, two events a tenant deleted and created again, or another created on the
subnet it gave back, or a deletion that fails or is cut short, or an ADD that stops
half-way and is repeated. `SYMMETRY` exchanges the tenants with each other and the pods
with each other, whom no definition tells apart; therefore no liveness property is
checked there. In `MCPodStore` the constraint
`FewFaultsOnceTorn` stops behaviours that combine lost entries with a fault,
where all but one property hold trivially.

`CHECK_DEADLOCK FALSE` stands where the system may stop: when every pod is gone,
or no more changes of the Tenant objects come.

Runs that find the code at odds with what it says (details under `findings`):

| Run | Property | What happens |
|---|---|---|
| `alloc_spin` | `AllocateReturns` | at the end of the subnet the scan spins with the lock held |
| `restart_wipes` | `RestartKeepsLeases` | a restarted daemon drops the leases of running containers |
| `pod_list_races` | `PodServedDespiteRaces` | an unlocked deletePod erases another pod's entry |
| `pod_del_repeat` | `DelCompletes` | a DEL that failed late cannot be repeated |
| `subnets_exhausted` | `Settles` | one tenant too many: the daemon panics at every start |
| `late_delete` | `RestMeansProvisioned` | an old Delete tears down a re-created tenant |
| `stale_mac` | `MembersReach` | a VXLAN device that outlives its provisioning keeps a MAC that is no longer announced |

Accordingly the passing runs say what holds *outside* of these: properties about
leases hold until the store is `damaged`, those about the pod list until it is
`torn`; `tenant_controller` has as many subnets as it needs and users who do not
bring back what they removed (`Recreates = FALSE`); a tenant whose last Add was
given up with an error, or that the node left and joined again while the watch was
broken (`failed`), is not promised to be configured, because updateTenant sees no
change of membership and publishes nothing; entries for the other node are not
promised to a tenant whose last Add found no subnet left (`starved`), as the object
may then stay what it is and no update follow. Where the code drops the error of a
call, the promise is that nothing is missing but what that call would have made:
`TenantsIsolated` lacks at most the rules in `missed`, `RestMeansConfigured` what is in
`refused`, `MeshAtRest` entries for nodes in `gaps`; each of these is due again with the
next Add, Update or change, and counts again once it succeeds. Stores that a plugin
rewrote late, or that the daemon could not write or remove (`astray`), are exempt from
`StoresAgree`, `TenantsIsolated` and `RestMeansConfigured`. `MeshAtRest`
promises that the entries are what was published, and that the peer is reached when
its device is up and still has the MAC its store announces. What `lifecycle` promises
holds of tenants that are not `disturbed`, bridges and stores of `abandoned` ones apart,
and gateways of bridges that are not `unfinished`.

These exemptions are behaviours of the code, and worth a repair: a refused DROP rule
leaves two tenants connected until one of them is added again (add.go:147), a failed
ARP, FDB or route call a node unreachable until the object changes
(update.go:128-142), an ADD stopped inside CreateTenantBridge every later pod of the
tenant without its gateway (bridge.go:18), a plugin's os.Create a provisioned tenant
without a store (tenant_store.go:102), a failed or forgotten deletion a bridge and a
store on the node (delete.go:119-132). No document of the repository promises
otherwise, so they are listed as hazards and not as findings.

**Fairness.** `TenantIPAM`: a started process keeps running (weak fairness of
its steps; the lock is not promised to anyone in particular). `PodStore`: the
same, the informer delivers, and the kubelet repeats ADD while a pod lives and
DEL while it is being deleted, which is what it does. `TenantController`: the
watch delivers and the worker, `wait.Until` around an endless loop, goes on.
`ClusterStart`: the API server establishes a registered type and delivers its
changes (`Establish`, `Inform`), each daemon's `main()` and worker go on (`Start`,
`Work`), and the kubelet starts a DaemonSet's container again whenever it ends.
All are weak fairness per node; nothing is assumed of nodes, users or faults.
`TenantLifecycle` states none: nothing of its promise is a matter of time.

## 4. Theorems

### The allocator

`TenantIPAM_proofs` and `TenantIPAM_lease_proofs` prove, for every finite or
infinite set of containers, every subnet with at least one host, and daemon
restarts or none:

* `TypeCorrect`, `Spec => []TypeOK`. Inductive as it stands, on two facts about
  the allocator: `NextIP` never leaves the subnet (`NextIPType`) and every
  operator that edits a copy of the store yields a store again (`DataTypes`).
* `LockExcludes`, `Spec => []LockDiscipline`. LockDiscipline speaks of program
  counters only and says nothing of what the lock's state is, so a process could
  walk in beside the holder. The inductive invariant `LockInv` ties the two: an
  ADD or DEL in the critical section *is* the `writer`, a CHECK there is one of
  the `readers`, and a writer excludes readers.
* `OneAddress`, `Spec => []OneAddressPerContainer`. The table of leases is now
  the file's, now a process's copy, so `InjInv` asks the same of the file and of
  *every* copy, and adds why the scan may give an address out: while a process
  probes, its own copy has no lease of its container. It needs no lock: the
  property survives torn files, kills and restarts, because no step mixes two
  copies.
* `InterfacesAreBacked`, `Spec => []LeaseBacksInterface`; `NothingLeaks`,
  `Spec => NoLeakedLease`; `StoreImplementsLeaseTable`,
  `Spec => ImplementsLeaseTable` (`Spec => Leases!Spec` under the mapping of
  `TenantIPAM`). All three come from two further invariants.
  `OwnInv` says what a process's copy holds at each point of its command: an ADD
  past its scan has its container at the address it will return, a DEL about to
  write has no lease of its container left, a copy without a bridge is empty.
  `LeaseInv` relates copies and file until leases are lost: a process that has
  the lock works on the file's table, and before it writes it differs from that
  by its own lease alone (`Differs`); a command past its unlock finds its effect
  in the table. It needs to know that the second load cannot fall back on the
  stale first one: once the tenant is provisioned the file holds a bridge or
  somebody is writing it (`Provisioned`), and nobody else writes it under the
  lock. `TableStep` is the heart of the refinement: the table changes when a
  process truncates the file to write, and at no other point. That step maps to
  `Grant` or `Release`, a step that sets `damaged` to `Lose`, all others to
  stuttering.

Each proof has one step per action; what an action leaves alone is a lemma of
its own (`LockInvKept`, `InjInvKept`, `OwnInvKept`, `OthersKept`). All the
inductive invariants were first checked by TLC on the instance of `tenant_ipam`,
and on the same with daemon restarts (2 million states).

The assumptions used are those `TenantIPAM` names: `N >= 3`, `Nobody` is no
container, `Restarts` is a Boolean. TLC evaluates them in every run.

### The node of a daemon

`TenantController_proofs` proves, for every finite set of tenants, every list of
distinct subnets, any number of changes and faults, and late events of any age:

* `SubnetsStayApart`, `Spec => []SubnetsApart`. With the types of the NodeStore
  (`NodeInv`) it is inductive, on the condition that events name tenants
  (`QueueInv`): Provision takes the head of the AvailableList (`TakeApart`), Reclaim
  appends the subnet of a tenant that has one (`ReclaimApart`), `main()` writes a
  list of distinct subnets (`FreshNodeApart`), and nothing else touches it
  (`NodeSteps`).
* `StoresStayAgreed`, `Spec => []StoresAgree`. AllocateTenant writes the TenantList
  first and the store later; deleteTenant removes the store first and the list entry
  last. `AgreeInv` says what holds in between: a tenant being provisioned has its
  list entry, one whose subnet is being reclaimed has no store, and what the handler has
  `loaded` is that subnet, all this of tenants that are not `astray`. `PastInv` gives the
  types of what late commands write.
* `TenantsStayIsolated`, `Spec => []TenantsIsolated`. Rules are written once, by the
  tenant that is added later, and never removed. `IsoInv` extends the property to
  every point of the handlers: two tenants with stores are isolated unless one of
  them is still being added (`Adding`) or was given up, but for the rules in
  `missed`. It needs `AgreeInv`: the rules are made from the TenantList and the store
  that was loaded, and must speak of the subnets in the stores.

All three stop at the first daemon restart where the property does (`restarted`).
The queue's content needs no invariant beyond `QueueInv`: the theorems hold for any
order in which events arrive. The assumptions used are those `TenantController`
names: the subnets are distinct and none of the marker values, `Tenants` is finite.
TLC checked the inductive invariants on the instance of `tenant_controller` first.

### The controller at rest

`TenantController_type_proofs` and `TenantController_rest_proofs` prove, under the same
assumptions:

* `TypeCorrect`, `Spec => []TypeOK`. The types are not inductive by themselves:
  updateTenant and Publish index `Spec.Nodes`, and `WithVtep` must yield a list that
  names nobody twice (`Joined`, `Left`, `Written`). `TypeInv` adds that an Add which
  has published had loaded a store with a subnet (`AddInv`).
* `RestConfigured`, `~Recreates => (Spec => []RestMeansConfigured)`. The hypothesis is
  the one `tenant_controller` runs under; `late_delete` shows that it is needed. The
  property speaks of states where nothing is under way, so the invariant must say, of
  every other state, what is still to come and that it suffices. `RestInv` has these
  parts:
  * `WorldInv`: the lister's object and the changes in the watch are one sequence of
    versions (`Points`, `At`) that ends with the API server's (`VersionInv`); what
    users removed is in none after the removal (`GoneInv`); the index a handler has
    found for this node stays right in all later versions, as long as the node stays
    (`OrderInv`).
  * `EventInv`: while the node is in a tenant, a loss of membership is never the last
    word in the queue (`RegainInv`). Updates are counted as taking effect after all
    other events, because updateTenant puts them back at the tail. An update that is
    queued for an object the lister no longer has is for one that is gone for ever
    (`LateInv`).
  * `ServedInv`, for each tenant of the node that is not `astray` and for which nothing
    that adds or deletes it is queued: its Add has come as far as the worker's label
    says; once that has published, the object has the store's VTEP, and the entries of
    the other node are there, were refused, or an update that enters them is still to
    come (`Entered`).

The search for the proof corrected the model. In an earlier form, where an unchanged
object always counted as a change of MAC, `RestMeansConfigured` was false beyond the
bounds of the run: a tenant given no new subnet publishes the VTEP it has published
before. The model therefore says which updates carry a new MAC, and `starved` records
the exception.

### The pod list

`PodStore_proofs` proves, for any set of pods, whichever of them share a name, and any
number of faults:

* `TypeCorrect`, with what an actor's label says of its command (`ProcInv`).
* `OneEntry`, `Spec => OneEntryAtATime`. `WriteInv`: until rewrites overlap, one actor
  at most is between its load and the end of its store, and what it will store is the
  file's list with its one entry edited.
* `OwnNetwork`, `Spec => []OwnTenantsNetwork`, if pods that share a name share the
  tenant (`OneTenantPerName`), and `PluggedListed`, `Spec => []PluggedPodIsListed`, if
  no two pods share a name (`NamesDiffer`). The list is keyed by the name without the
  namespace, so neither holds otherwise: the informer's event for one pod overwrites
  the other's tenant, and the DEL of one removes the entry of both. A cluster where
  pods of two namespaces never share a name meets both hypotheses, as does the
  instance of `pod_store`.

### The cluster

`ClusterStart_proofs` proves, for every finite set of nodes, any order of start-up, any
number of joins, leaves, crashes and failing calls (each ARP, FDB and route call by
itself):

* `TypeCorrect`. `InformerInv` adds what the queue may hold: versions a node has seen,
  the later ones after the earlier, and for each update the later versions' updates
  behind it.
* `RegistryKept`, `Spec => KeepsRegistry`, the refinement of `VtepRegistry`. `ObjectInv`
  says that a store holds the MAC its node made up last and an entry one that its own
  node made up, so that what is published is new or is the store's.
* `MembersMeet`, `Spec => []MeshAtRest`. `MemberInv`: a node that stays on the list has
  its VTEP published, is about to, has given up, or has an Add to come. `TablesInv`: a
  node that has handled everything it has been told has the entries of all others of
  its object's list, those in its `gaps` apart.
* `FoundersJoin`, `Spec => []FoundersServed`. Whoever is about to create the object has
  all founders on its list (`FoundersInv`); until users change it, every version lists
  the same nodes at the same places (`ListInv`), so a stale index is harmless.

### A tenant's life

`TenantLifecycle_proofs` proves `TypeCorrect`, `AddressesStayApart`
(`Spec => []AddressesApart`), `GatewaysServed` (`Spec => []GatewayServed`) and
`RemovalIsClean` (`Spec => []CleanRemoval`) for every finite set of tenants and pods, any
number of commands, creations and deletions, and deaths or failing calls at any point
(with the exemptions of section 2), with subnets for all (`LifecycleAssumption`; for the
want of them see `subnets_exhausted`). One inductive invariant, `Inv`, carries all four:

* `NodeInv`, `QueueInv`: a subnet is available or one tenant's; the events in the queue
  turn the tenants provisioned into the tenants wanted.
* `LockInv`: two commands that have opened the same lock file do not both write the
  store. This is all a lock gives here, as the file can be removed and made again.
* `TrustInv`, for each tenant not `disturbed`: how far its provisioning or deletion is
  (`StageInv`); a command has opened the lock file that is there, and what it is about
  to write has all leases of the others (`CommandInv`); a plugged pod is on the bridge,
  in its tenant's subnet, with its lease (`PlugInv`); the bridge has its gateway or
  will and is up, unless its maker stopped (`BridgeInv`).

`StageInv` has what `abandoned` stands for: a tenant that is not provisioned has no
bridge and no store unless its deletion was abandoned or an event to add it is on its
way. What a step leaves alone is one lemma for all tenants but the one it is about
(`KeptInv`). TLC checked `Inv`, apart from `QueueInv`, which is a quantifier over
functions, on the instance of `lifecycle` and on one with two commands and three events
(3,875,553 states).

### Only model-checked

Every invariant and every action property of the passing runs is stated by a theorem
above. Liveness stays with TLC: `LockReleased`, `PodServed` and both `Settles`. A proof
would need the actions' ENABLED and the induction of a well-founded measure under weak
fairness, which the installed backends do not handle.

## 5. Not modelled

* Generated client code, deep copies, logging, the manifests: no state of this
  system. The ConfigMap and `ip_forward` are read or set once, and no other part
  depends on them; their failure is a crash.
* Netlink and iptables calls are modelled by what they leave behind. DelARP, DelFDB,
  CheckARP and their like are called by nobody.
* The request to delete a tenant's pods in deleteTenant, and which pods are chosen:
  nothing waits for it. Its DELs come as any DEL does.
* Names and formats: bridge and VXLAN names cut to the kernel's length (tenants
  whose names are too long share `br-default`'s fate in the code), MTU, VNI values,
  the route's mask, which is taken from `Spec.Prefix` while subnets are always /24,
  and the difference between `Spec.Name` and `metadata.name`.
* `VxlanMesh` follows one tenant, created by a daemon; the deletion of the object is
  in `TenantController` and `TenantLifecycle`, which see one node.

## 6. Plan

Done so far: all modules above, and proofs of their safety properties. Left:

1. An abstract node ("the tenants listed are configured, each with a subnet of its
   own") implemented by `TenantController`, with the refinement proved from `StoreInv`
   and `TypeInv`.
2. Deletion of the object in `VxlanMesh`, with a second tenant on the same nodes.
3. An abstract pod list (an entry per name, edited at once) implemented by `PodStore`
   until it is `torn`.
