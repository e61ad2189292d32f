-------------------------- MODULE TenantController --------------------------
(***************************************************************************)
(* The daemon of ONE node (cmd/tenantcnid, pkg/controller): the tenant      *)
(* informer, the work queue and its one worker, which gives the tenants of  *)
(* the node their subnets (NodeStore), their stores and devices, and        *)
(* publishes the node's VTEP in the Tenant objects.                         *)
(*                                                                         *)
(* The informer delivers the API server's changes late but in order, or, when its *)
(* watch breaks, lists again: lister (cache) and events are behind the API.  A handler is   *)
(* cut into steps at its effects on files, devices and the API, so that API *)
(* changes, pods and crashes come in between.  A panic ends the daemon; the *)
(* next one starts over from main(), with the files of the node in place.   *)
(* What the daemon writes into a tenant's store besides the subnet, and     *)
(* plugins among themselves, are module TenantIPAM; the pod list is         *)
(* PodStore.  A tenant's device is known by the tenant, although its name   *)
(* has the VNI, and the NodeStore's own file can be written.                *)
(***************************************************************************)
EXTENDS Integers, FiniteSets, SequencesExt

CONSTANTS
  Tenants,     \* names of Tenant objects
  Default,     \* "defaulttenant", whose traffic is not to be blocked
  NodeSubnets, \* ListSubnets of the node's CIDR: a sequence of /24 subnets
  None,        \* no subnet, no file
  Remote,      \* the VTEP that the other node publishes
  Blank,       \* a tenant store that holds "{}"
  Recreates,   \* whether users bring back a tenant, or a tenant's other node,
               \* that they removed
  MaxChanges,  \* BOUND: changes of the Tenant objects by other parties, and faults
  MaxFaults    \* BOUND: crashes, failing calls, broken watches, and plugin commands
               \* that write a store later than it was loaded

Subnets == {NodeSubnets[i] : i \in DOMAIN NodeSubnets}

ASSUME SubnetsAssumption ==
  /\ NodeSubnets \in Seq(Subnets)
  /\ \A i, j \in DOMAIN NodeSubnets : NodeSubnets[i] = NodeSubnets[j] => i = j
  /\ None \notin Subnets \cup Tenants /\ Blank \notin Subnets /\ None # Blank
  /\ Remote \notin Subnets \cup {None}
ASSUME TenantsAssumption == IsFiniteSet(Tenants)
ASSUME BoundsAssumption == MaxChanges \in Nat /\ MaxFaults \in Nat
ASSUME RecreatesAssumption == Recreates \in BOOLEAN

VARIABLES
  api,        \* the Tenant objects
  watch,      \* changes on their way to the informer, and whether they publish a new MAC
  cache,      \* the lister
  queue,      \* the work queue
  pc,         \* where the worker is
  ev,         \* the event it works on
  view,       \* its copy of the object (newTenant)
  loaded,     \* its copy of the tenant's store (TenantStore.Data)
  node,       \* NodeStore.Data: AvailableList and TenantList
  store,      \* the tenant stores: the subnet, Blank, or None
  altered,    \* tenants whose store has an edited VNI or Prefix
  past,       \* what the daemon has written into a tenant's store
  vxlan,      \* tenants whose VXLAN device exists
  routes,     \* tenants with all entries for the remote nodes on that device
  dropped,    \* pairs of subnets with a DROP rule from the first to the second
  accepted,   \* subnets with ACCEPT rules
  labelled,   \* tenants in the labels of the Node object
  failed,     \* tenants whose last Add event was given up with an error, or whose
              \* leaving and coming back the informer missed
  starved,    \* tenants whose last Add found no subnet left: their store stays as it was
  astray,     \* tenants whose store a late command has rewritten, or a failing call
              \* left as it was, since they were last given a subnet
  missed,     \* pairs of subnets whose DROP rule the kernel refused when it was last due
  refused,    \* tenants whose ACCEPT rules, or entries, the kernel refused when they
              \* were last due, since they were last added
  restarted,  \* the daemon has been started again
  removed,    \* what users have removed
  changes, faults

world   == <<api, watch, cache>>
worker  == <<pc, ev, view, loaded>>
stores  == <<store, altered, past>>
rules   == <<dropped, accepted>>
devices == <<vxlan, routes, rules, labelled>>
skipped == <<missed, refused>>
ghosts  == <<restarted, failed, starved, astray, skipped>>
bounds  == <<removed, changes, faults>>
vars    == <<world, queue, worker, node, stores, devices, ghosts, bounds>>

\* A Tenant object: whether it exists, its Spec.Nodes with the VTEP that each
\* node published (this node, or one that stands for the others), and whether a
\* user edited the VNI or the Prefix.
Entry == [name : {"me", "peer"}, vtep : Subnets \cup {None, Remote}]
Listed(name) == [name |-> name, vtep |-> None]
NodeLists == {l \in UNION {[1 .. n -> Entry] : n \in 0 .. 2} :
                \A i, j \in DOMAIN l : l[i].name = l[j].name => i = j}

Objects == [exists : BOOLEAN, nodes : NodeLists, edited : BOOLEAN]

Absent == [exists |-> FALSE, nodes |-> <<>>, edited |-> FALSE]

\* existsNode, and the index of a node in the list.
Has(o, name)   == \E i \in DOMAIN o.nodes : o.nodes[i].name = name
Here(o)        == Has(o, "me")
Index(o, name) == CHOOSE i \in DOMAIN o.nodes : o.nodes[i].name = name

\* mac: this node has published another VtepMac, which is drawn at random.
Event(k, t, o, n, m) == [type |-> k, tenant |-> t, old |-> o, new |-> n, mac |-> m]
NoEvent == Event("none", None, Absent, Absent, FALSE)
Events  == [type : {"none", "Add", "Update", "Delete", "Tombstone"},
            tenant : Tenants \cup {None}, old : Objects, new : Objects, mac : BOOLEAN]

\* What a tenant's store holds: the subnet, and whether VNI and Prefix are edited ones.
Contents == [subnet : Subnets \cup {None, Blank}, edited : BOOLEAN]
Nothing  == [subnet |-> None, edited |-> FALSE]

Labels == {"idle", "provision", "load", "publish", "vxlan", "label", "rules", "revert",
           "devices", "unstore", "reclaim"}

TypeOK ==
  /\ api \in [Tenants -> Objects] /\ cache \in [Tenants -> Objects]
  /\ watch \in Seq([tenant : Tenants, obj : Objects, mac : BOOLEAN])
  /\ queue \in Seq(Events)
  /\ pc \in Labels /\ ev \in Events /\ view \in Objects /\ loaded \in Contents
  /\ node \in [avail : Seq(Subnets), list : [Tenants -> Subnets \cup {None}]]
  /\ store \in [Tenants -> Subnets \cup {None, Blank}] /\ altered \in SUBSET Tenants
  /\ past \in [Tenants -> SUBSET Contents]
  /\ vxlan \in SUBSET Tenants /\ routes \in SUBSET Tenants
  /\ labelled \in SUBSET Tenants /\ failed \in SUBSET Tenants /\ starved \in SUBSET Tenants
  /\ dropped \in SUBSET (Subnets \X Subnets) /\ accepted \in SUBSET Subnets
  /\ astray \in SUBSET Tenants /\ missed \in SUBSET (Subnets \X Subnets)
  /\ refused \in SUBSET (Tenants \X {"accept", "entries"})
  /\ removed \in SUBSET (Tenants \X {"me", "peer", "object"})
  /\ restarted \in BOOLEAN
  /\ changes \in 0 .. MaxChanges /\ faults \in 0 .. MaxFaults

-----------------------------------------------------------------------------
(* Helpers.                                                                *)

Provisioned(t) == store[t] \in Subnets

\* LoadTenantData leaves "{}" where there was no store.
Touched(t) == IF store[t] = None THEN [store EXCEPT ![t] = Blank] ELSE store

\* What LoadTenantData reads.
Content(t) == [subnet |-> Touched(t)[t], edited |-> t \in altered]

\* A set with x in it, or not.
Marked(S, x, b) == IF b THEN S \cup {x} ELSE S \ {x}

\* The API server takes an update only of the newest version of the object.
Current(t) == \A i \in DOMAIN watch : watch[i].tenant # t

\* The API stores object o of tenant t, and the informers will hear of it.
Put(t, o, m) ==
  /\ api' = [api EXCEPT ![t] = o]
  /\ watch' = Append(watch, [tenant |-> t, obj |-> o, mac |-> m])
  /\ UNCHANGED cache

Goto(l) == pc' = l /\ UNCHANGED <<ev, view, loaded>>

\* processNextItem forgets the event, whether or not its handler succeeded.
Done == pc' = "idle" /\ ev' = NoEvent /\ view' = Absent /\ loaded' = Nothing

GiveUp(t) == Done /\ failed' = failed \cup {t} /\ UNCHANGED <<restarted, starved, astray, skipped>>

\* Something out of the ordinary happens.
Fault ==
  /\ faults < MaxFaults /\ changes + faults < MaxChanges
  /\ faults' = faults + 1
  /\ UNCHANGED <<removed, changes>>

\* The API server refuses an update: it is not of the newest version, or another reason.
Refuses(t) == (~Current(t) /\ UNCHANGED bounds) \/ Fault

\* The NodeStore main() starts with: every subnet available, no tenant.
FreshNode == [avail |-> NodeSubnets, list |-> [t \in Tenants |-> None]]

Orders(S) == {s \in [1 .. Cardinality(S) -> S] :
                \A i, j \in DOMAIN s : s[i] = s[j] => i = j}

\* The daemon dies (of a panic, a signal, ...) and is started again: the new one
\* rewrites the NodeStore, and its informer lists the objects in some order.
Restart ==
  /\ Done
  /\ node' = FreshNode
  /\ cache' = api /\ watch' = <<>> /\ UNCHANGED api
  /\ \E s \in Orders({t \in Tenants : api[t].exists}) :
       queue' = [i \in DOMAIN s |-> Event("Add", s[i], Absent, api[s[i]], FALSE)]
  /\ restarted' = TRUE /\ failed' = {} /\ starved' = {} /\ UNCHANGED <<astray, skipped>>

\* reflect.DeepEqual on Spec.Nodes.
NodesDiffer(e) == e.old.nodes # e.new.nodes \/ e.mac

\* The object has another node that has published its VTEP.
Initialised(o) == Has(o, "peer") /\ o.nodes[Index(o, "peer")].vtep # None

-----------------------------------------------------------------------------
(* The informer.                                                           *)

\* What has happened to an object, seen from the lister.
Kind(old, new, gone) ==
  CASE ~old.exists -> "Add" [] old.exists /\ ~new.exists -> gone [] OTHER -> "Update"

\* The lister is updated, and handleAdd, handleUpdate or handleDelete appends an
\* event.  Events are pointers: the queue never merges two of them.
Deliver ==
  LET t   == Head(watch).tenant
      new == Head(watch).obj
  IN
  /\ watch # <<>>
  /\ watch' = Tail(watch)
  /\ cache' = [cache EXCEPT ![t] = new]
  /\ queue' = Append(queue, Event(Kind(cache[t], new, "Delete"), t, cache[t], new, Head(watch).mac))
  /\ UNCHANGED <<api, worker, node, stores, devices, ghosts, bounds>>

\* Tenants with changes that the informer has not received.
Lost == {watch[i].tenant : i \in DOMAIN watch}

\* This node has left t, or t was deleted, and it is in t again, all unseen.
CameBack(t) ==
  /\ Here(cache[t]) /\ Here(api[t])
  /\ \E i \in DOMAIN watch : watch[i].tenant = t /\ ~Here(watch[i].obj)

\* This node has published a new MAC for t, unseen.
NewMac(t) == \E i \in DOMAIN watch : watch[i].tenant = t /\ watch[i].mac

\* The watch breaks and is too old to be resumed: the informer lists the objects
\* again.  All that happened to an object meanwhile is one event, and objects that
\* are gone come last, as DeletedFinalStateUnknown.  The events of objects that are
\* what they were are left out: updateTenant finds no change in them.
Relist ==
  /\ watch # <<>>
  /\ Fault
  /\ \E s \in Orders({t \in Lost : cache[t] # api[t] \/ NewMac(t)}) :
       /\ \A i, j \in DOMAIN s : i < j /\ api[s[j]].exists => api[s[i]].exists
       /\ queue' = queue \o [i \in DOMAIN s |->
            Event(Kind(cache[s[i]], api[s[i]], "Tombstone"), s[i], cache[s[i]], api[s[i]],
                  NewMac(s[i]))]
  /\ watch' = <<>> /\ cache' = api
  /\ failed' = failed \cup {t \in Tenants : CameBack(t)}
  /\ UNCHANGED <<api, worker, node, stores, devices, restarted, starved, astray, skipped>>

-----------------------------------------------------------------------------
(* addTenant.                                                              *)

\* Variant: the subnet taken stays in the list.
KeepsHead(avail) == avail

\* AllocateTenant takes the first available subnet.
RestOf(avail) == Tail(avail)

\* The worker takes the event and looks the tenant up in the lister; AllocateTenant
\* writes the NodeStore.  Without a subnet it logs that and returns nil.
Add ==
  LET t == Head(queue).tenant IN
  /\ pc = "idle" /\ queue # <<>> /\ Head(queue).type = "Add"
  /\ IF ~cache[t].exists                         \* tenant is nil: panic
       THEN Restart
       ELSE /\ queue' = Tail(queue)
            /\ UNCHANGED <<world, restarted, missed>>
            /\ IF ~Here(cache[t])
                 THEN Done /\ UNCHANGED <<node, failed, starved, astray, refused>>
                 ELSE /\ ev' = Head(queue) /\ view' = cache[t] /\ UNCHANGED loaded
                      /\ failed' = failed \ {t} /\ refused' = refused \ {<<t, "entries">>}
                      /\ IF node.avail = <<>>
                           THEN /\ pc' = "load" /\ starved' = starved \cup {t}
                                /\ UNCHANGED <<node, astray>>
                           ELSE /\ pc' = "provision" /\ starved' = starved \ {t}
                                /\ astray' = astray \ {t}
                                /\ node' = [avail |-> RestOf(node.avail),
                                            list |-> [node.list EXCEPT ![t] = Head(node.avail)]]
  /\ UNCHANGED <<stores, devices, bounds>>

\* AllocateTenant writes the tenant's store, with the VNI and the Prefix of the object; an
\* error is ignored.
Provision ==
  LET t == ev.tenant IN
  /\ pc = "provision"
  /\ \/ /\ store' = [store EXCEPT ![t] = node.list[t]]
        /\ altered' = Marked(altered, t, view.edited)
        /\ past' = [past EXCEPT ![t] = @ \cup {[subnet |-> node.list[t], edited |-> view.edited]}]
        /\ UNCHANGED <<astray, bounds>>
     \/ /\ Fault
        /\ astray' = astray \cup {t}
        /\ UNCHANGED stores
  /\ Goto("load")
  /\ UNCHANGED <<world, queue, node, devices, restarted, failed, starved, skipped>>

\* The handler loads the store, once.
LoadStore ==
  LET t == ev.tenant IN
  /\ pc = "load"
  /\ store' = Touched(t) /\ loaded' = Content(t)
  /\ pc' = "publish" /\ UNCHANGED <<ev, view>>
  /\ UNCHANGED <<world, queue, node, altered, past, devices, ghosts, bounds>>

\* The VTEP goes into the object, at the index this node had in the object when
\* the event was taken.  A new store has a new MAC, an old one perhaps; an update
\* that changes nothing is none.  A conflict is retried, on whatever the lister holds,
\* and given up after five attempts; with any other error the handler returns at once.
Publish ==
  LET t == ev.tenant
      o == cache[t]
      i == Index(view, "me")
      s == loaded.subnet
  IN
  /\ pc = "publish"
  /\ \/ /\ ~o.exists                             \* not in the lister
        /\ GiveUp(t) /\ UNCHANGED <<world, queue, node, bounds>>
     \/ /\ o.exists
        /\ s \notin Subnets \/ i \notin DOMAIN o.nodes   \* nil Vxlan, index out of range
        /\ Restart /\ UNCHANGED bounds
     \/ /\ o.exists /\ s \in Subnets /\ i \in DOMAIN o.nodes
        /\ \/ /\ Current(t)
              /\ \E m \in IF t \in starved THEN BOOLEAN ELSE {TRUE} :
                   IF m \/ o.nodes[i].vtep # s
                     THEN Put(t, [o EXCEPT !.nodes[i].vtep = s], m)
                     ELSE UNCHANGED world
              /\ pc' = "vxlan" /\ view' = o /\ UNCHANGED <<ev, loaded, ghosts, bounds>>
           \/ ~Current(t) /\ UNCHANGED <<world, worker, ghosts, bounds>>
           \/ Refuses(t) /\ GiveUp(t) /\ UNCHANGED world
        /\ UNCHANGED <<queue, node>>
  /\ UNCHANGED <<stores, devices>>

\* InitVxlanDevice, if the tenant has more than one node; when that fails, before or after
\* the device was made, the log line after it panics.
CreateVxlan ==
  /\ pc = "vxlan"
  /\ \/ /\ vxlan' = IF Has(view, "peer") THEN vxlan \cup {ev.tenant} ELSE vxlan
        /\ Goto("label")
        /\ UNCHANGED <<world, queue, node, ghosts, bounds>>
     \/ /\ Has(view, "peer") /\ Fault /\ Restart
        /\ vxlan' \in {vxlan, vxlan \cup {ev.tenant}}
  /\ UNCHANGED <<stores, routes, rules, labelled>>

\* StoreTenantAnnotationNode; when the API refuses it the handler returns.
LabelNode ==
  /\ pc = "label"
  /\ \/ /\ labelled' = labelled \cup {ev.tenant}
        /\ Goto("rules") /\ UNCHANGED <<ghosts, bounds>>
     \/ GiveUp(ev.tenant) /\ Fault /\ UNCHANGED labelled
  /\ UNCHANGED <<world, queue, node, stores, vxlan, routes, rules>>

\* Variant: no tenant is cut off.
BlocksNobody(t) == {}

\* The subnets of every other tenant of the NodeStore but the default one.
Others(t) == {node.list[u] : u \in {v \in Tenants \ {t, Default} : node.list[v] # None}}

\* They are to be cut off, by one rule in each direction.
BlockedBy(t) == ({loaded.subnet} \X Others(t)) \cup (Others(t) \X {loaded.subnet})

\* AllowForwardingTenant and BlockTenant2TenantTraffic.  What the kernel refuses is logged
\* at most, and the handler goes on; the second rule of a pair is not tried when the
\* first was refused.
InsertRules ==
  LET t == ev.tenant IN
  /\ pc = "rules"
  /\ \/ /\ accepted' = accepted \cup {loaded.subnet}
        /\ dropped' = dropped \cup BlockedBy(t)
        /\ missed' = missed \ BlockedBy(t) /\ refused' = refused \ {<<t, "accept">>}
        /\ UNCHANGED bounds
     \/ /\ Fault
        /\ \E a \in BOOLEAN, lost \in SUBSET BlockedBy(t) :
             /\ \A s \in Others(t) : <<loaded.subnet, s>> \in lost => <<s, loaded.subnet>> \in lost
             /\ accepted' = IF a THEN accepted \cup {loaded.subnet} ELSE accepted
             /\ refused' = Marked(refused, <<t, "accept">>, ~a)
             /\ dropped' = dropped \cup (BlockedBy(t) \ lost)
             /\ missed' = (missed \ BlockedBy(t)) \cup lost
  /\ Done
  /\ UNCHANGED <<world, queue, node, stores, vxlan, routes, labelled, restarted, failed, starved, astray>>

-----------------------------------------------------------------------------
(* updateTenant.                                                           *)

\* Variant: the membership of this node is not looked at.
ForgetsMembership ==
  /\ pc = "idle" /\ queue # <<>> /\ Head(queue).type = "Update"
  /\ Here(Head(queue).new) # Here(Head(queue).old)
  /\ queue' = Tail(queue)
  /\ UNCHANGED <<world, worker, node, stores, devices, ghosts, bounds>>

\* Variant: the event itself goes back into the queue.
RequeuesItself ==
  /\ pc = "idle" /\ queue # <<>> /\ Head(queue).type = "Update"
  /\ Here(Head(queue).new) # Here(Head(queue).old)
  /\ queue' = Append(Tail(queue), Head(queue))
  /\ UNCHANGED <<world, worker, node, stores, devices, ghosts, bounds>>

\* This node has come into the object, or gone out of it: the handler appends an
\* event of its own, behind whatever is queued.
UpdateMembership ==
  LET e == Head(queue) IN
  /\ pc = "idle" /\ queue # <<>> /\ e.type = "Update"
  /\ Here(e.new) # Here(e.old)
  /\ queue' = Append(Tail(queue),
                IF Here(e.new) THEN Event("Add", e.tenant, Absent, e.new, FALSE)
                              ELSE Event("Delete", e.tenant, e.old, Absent, FALSE))
  /\ UNCHANGED <<world, worker, node, stores, devices, ghosts, bounds>>

\* Another change.  With a change of the nodes the handler goes on with the lister's
\* object and adds the ARP, FDB and route entries of the initialised remote nodes
\* to the VXLAN device, which the kernel may refuse, at most logged; then it looks for
\* edited fields, and loads the store to write them back.
Update ==
  LET e == Head(queue)
      t == e.tenant
      remote == NodesDiffer(e) /\ Here(e.new)
      o == IF remote THEN cache[t] ELSE e.new
      adds == remote /\ Initialised(o)
      panics == (remote /\ ~o.exists) \/ (adds /\ (~Provisioned(t) \/ t \notin vxlan))
      reverts == Here(o) /\ o.edited # e.old.edited
  IN
  /\ pc = "idle" /\ queue # <<>> /\ e.type = "Update"
  /\ Here(e.new) = Here(e.old)
  /\ store' = IF adds \/ (reverts /\ ~panics) THEN Touched(t) ELSE store
  /\ IF panics
       THEN Restart /\ UNCHANGED <<routes, bounds>>
       ELSE /\ queue' = Tail(queue)
            /\ \/ /\ adds
                  /\ routes' = routes \cup {t} /\ refused' = refused \ {<<t, "entries">>}
                  /\ UNCHANGED bounds
               \/ /\ adds /\ Fault
                  /\ refused' = refused \cup {<<t, "entries">>} /\ UNCHANGED routes
               \/ ~adds /\ UNCHANGED <<routes, refused, bounds>>
            /\ IF reverts
                 THEN pc' = "revert" /\ ev' = e /\ loaded' = Content(t) /\ UNCHANGED view
                 ELSE Done
            /\ UNCHANGED <<world, node, restarted, failed, starved, astray, missed>>
  /\ UNCHANGED <<altered, past, vxlan, rules, labelled>>

\* UpdateTenantResource writes the VNI and the Prefix of the tenant's store back.
Revert ==
  LET t == ev.tenant
      o == cache[t]
      s == loaded.subnet
  IN
  /\ pc = "revert"
  /\ \/ ~o.exists /\ Done /\ UNCHANGED <<world, queue, node, ghosts, bounds>>
     \/ o.exists /\ s \notin Subnets /\ Restart /\ UNCHANGED bounds    \* nil Vxlan: panic
     \/ /\ o.exists /\ s \in Subnets
        /\ \/ /\ Current(t)
              /\ IF o.edited # loaded.edited
                   THEN Put(t, [o EXCEPT !.edited = loaded.edited], FALSE) ELSE UNCHANGED world
              /\ Done /\ UNCHANGED bounds
           \/ ~Current(t) /\ UNCHANGED <<world, worker, bounds>>
           \/ Refuses(t) /\ Done /\ UNCHANGED world
        /\ UNCHANGED <<queue, node, ghosts>>
  /\ UNCHANGED <<stores, devices>>

-----------------------------------------------------------------------------
(* deleteTenant.                                                           *)

\* The handler asks the API to delete the tenant's pods, which go when they go, and
\* loads the store for the names of the devices.  When it cannot ask for the name of
\* the node it returns.
Delete ==
  LET e == Head(queue) IN
  /\ pc = "idle" /\ queue # <<>> /\ e.type = "Delete"
  /\ \/ /\ (~Here(e.old) /\ UNCHANGED bounds) \/ Fault
        /\ queue' = Tail(queue) /\ Done /\ UNCHANGED <<world, node, store, ghosts>>
     \/ /\ Here(e.old) /\ UNCHANGED bounds
        /\ store' = Touched(e.tenant)
        /\ IF ~Provisioned(e.tenant)              \* nil Bridge: panic
             THEN Restart
             ELSE /\ queue' = Tail(queue)
                  /\ pc' = "devices" /\ ev' = e
                  /\ UNCHANGED <<world, view, loaded, node, ghosts>>
  /\ UNCHANGED <<altered, past, devices>>

\* DeletedFinalStateUnknown is no Tenant: the type assertion panics.
DeleteTombstone ==
  /\ pc = "idle" /\ queue # <<>> /\ Head(queue).type = "Tombstone"
  /\ Restart
  /\ UNCHANGED <<stores, devices, bounds>>

\* DeleteTenantBridge and DeleteVxLANDevice, whose failure is logged.
DeleteDevices ==
  /\ pc = "devices"
  /\ \/ vxlan' = vxlan \ {ev.tenant} /\ routes' = routes \ {ev.tenant} /\ UNCHANGED bounds
     \/ Fault /\ UNCHANGED <<vxlan, routes>>
  /\ Goto("unstore")
  /\ UNCHANGED <<world, queue, node, stores, rules, labelled, ghosts>>

\* Variant: the store stays.
KeepsStore ==
  /\ pc = "unstore" /\ Goto("reclaim")
  /\ UNCHANGED <<world, queue, node, stores, devices, ghosts, bounds>>

\* DeleteTenantStore, whose failure is logged.
DeleteStore ==
  LET t == ev.tenant IN
  /\ pc = "unstore"
  /\ \/ /\ store' = [store EXCEPT ![t] = None] /\ altered' = altered \ {t}
        /\ UNCHANGED <<astray, bounds>>
     \/ Fault /\ astray' = astray \cup {t} /\ UNCHANGED <<store, altered>>
  /\ Goto("reclaim")
  /\ UNCHANGED <<world, queue, node, past, devices, restarted, failed, starved, skipped>>

\* Variant: whether the TenantList has the tenant is not looked at.
ReclaimedAnyway(n, t) ==
  [avail |-> Append(n.avail, n.list[t]), list |-> [n.list EXCEPT ![t] = None]]

\* The subnet of the tenant goes from the TenantList back to the AvailableList.
Reclaimed(n, t) ==
  IF n.list[t] = None THEN n
  ELSE [avail |-> Append(n.avail, n.list[t]), list |-> [n.list EXCEPT ![t] = None]]

Reclaim ==
  /\ pc = "reclaim"
  /\ node' = Reclaimed(node, ev.tenant)
  /\ Done
  /\ UNCHANGED <<world, queue, stores, devices, ghosts, bounds>>

-----------------------------------------------------------------------------
(* Everybody else.                                                         *)

Change(t, o) ==
  /\ changes + faults < MaxChanges
  /\ changes' = changes + 1
  /\ Put(t, o, FALSE)
  /\ UNCHANGED <<queue, worker, node, stores, devices, ghosts, faults>>

\* Users create, edit and delete Tenant objects; the daemons of other nodes publish.
Create(t) ==
  /\ ~api[t].exists /\ (Recreates \/ <<t, "object">> \notin removed)
  /\ \E l \in {<<>>, <<Listed("me")>>, <<Listed("peer")>>,
               <<Listed("me"), Listed("peer")>>, <<Listed("peer"), Listed("me")>>} :
       Change(t, [Absent EXCEPT !.exists = TRUE, !.nodes = l])
  /\ UNCHANGED removed

Join(t, n) ==
  /\ api[t].exists /\ ~Has(api[t], n)
  /\ Recreates \/ n = "me" \/ <<t, n>> \notin removed
  /\ Change(t, [api[t] EXCEPT !.nodes = Append(@, Listed(n))]) /\ UNCHANGED removed

Leave(t, n) ==
  /\ Has(api[t], n)
  /\ Change(t, [api[t] EXCEPT !.nodes = RemoveAt(@, Index(api[t], n))])
  /\ removed' = removed \cup {<<t, n>>}

PeerPublishes(t) ==
  /\ Has(api[t], "peer") /\ api[t].nodes[Index(api[t], "peer")].vtep # Remote
  /\ Change(t, [api[t] EXCEPT !.nodes[Index(api[t], "peer")].vtep = Remote])
  /\ UNCHANGED removed

Edit(t) ==
  /\ api[t].exists
  /\ Change(t, [api[t] EXCEPT !.edited = ~@]) /\ UNCHANGED removed

RemoveObject(t) ==
  /\ api[t].exists
  /\ Change(t, Absent) /\ removed' = removed \cup {<<t, "object">>}

\* The CNI plugin's ADD or DEL for a pod of the tenant loads the store, and leaves a
\* blank one where there was none.
PodCommand(t) ==
  /\ store' = Touched(t)
  /\ UNCHANGED <<world, queue, worker, node, altered, past, devices, ghosts, bounds>>

\* A command that loaded the store earlier writes it now: a blank one, where it had found
\* none (os.Create), or what the daemon had written then.
LateWrite(t) ==
  /\ Fault
  /\ \E c \in past[t] \cup {[subnet |-> Blank, edited |-> FALSE]} :
       /\ c # Content(t)
       /\ store' = [store EXCEPT ![t] = c.subnet] /\ altered' = Marked(altered, t, c.edited)
  /\ astray' = IF pc = "provision" /\ ev.tenant = t THEN astray ELSE astray \cup {t}
  /\ UNCHANGED <<world, queue, worker, node, past, devices, restarted, failed, starved, skipped>>

Crash ==
  /\ Fault
  /\ Restart
  /\ UNCHANGED <<stores, devices>>

-----------------------------------------------------------------------------
Init ==
  /\ api = [t \in Tenants |-> Absent] /\ cache = api
  /\ watch = <<>> /\ queue = <<>>
  /\ pc = "idle" /\ ev = NoEvent /\ view = Absent /\ loaded = Nothing
  /\ node = FreshNode
  /\ store = [t \in Tenants |-> None] /\ altered = {} /\ past = [t \in Tenants |-> {}]
  /\ vxlan = {} /\ routes = {} /\ dropped = {} /\ accepted = {} /\ labelled = {}
  /\ failed = {} /\ starved = {} /\ astray = {} /\ missed = {} /\ refused = {}
  /\ restarted = FALSE /\ removed = {} /\ changes = 0 /\ faults = 0

\* What the daemon does by itself.
Work ==
  \/ Add \/ Provision \/ LoadStore \/ Publish \/ CreateVxlan \/ LabelNode \/ InsertRules
  \/ UpdateMembership \/ Update \/ Revert
  \/ Delete \/ DeleteTombstone \/ DeleteDevices \/ DeleteStore \/ Reclaim

Next ==
  \/ Deliver \/ Relist \/ Work \/ Crash
  \/ \E t \in Tenants : \/ Create(t) \/ Join(t, "me") \/ Join(t, "peer")
                        \/ Leave(t, "me") \/ Leave(t, "peer") \/ PeerPublishes(t)
                        \/ Edit(t) \/ RemoveObject(t)
                        \/ PodCommand(t) \/ LateWrite(t)

Spec == Init /\ [][Next]_vars

\* The API server's changes arrive, and the worker keeps working.
FairSpec == Spec /\ WF_vars(Deliver) /\ WF_vars(Work)

-----------------------------------------------------------------------------
(* Properties.                                                             *)

\* No subnet is given to two tenants, or is available while a tenant has it.
SubnetsApart ==
  /\ \A i, j \in DOMAIN node.avail : node.avail[i] = node.avail[j] => i = j
  /\ \A t, u \in Tenants : node.list[t] = node.list[u] /\ node.list[t] # None => t = u
  /\ \A i \in DOMAIN node.avail, t \in Tenants : node.avail[i] # node.list[t]

\* As long as the daemon has not been restarted, a tenant's store and the NodeStore
\* agree on the tenant's subnet whenever no handler is between the two, unless the store
\* was rewritten late or not written.
StoresAgree ==
  ~restarted /\ pc # "provision" =>
    \A t \in Tenants \ astray : Provisioned(t) => store[t] = node.list[t]

\* Two tenants that have been added to the node are cut off from each other in both
\* directions, but for rules that the kernel refused.
TenantsIsolated ==
  ~restarted /\ pc = "idle" =>
    \A t, u \in Tenants \ ({Default} \cup failed \cup astray) :
      t # u /\ Provisioned(t) /\ Provisioned(u) =>
        <<store[t], store[u]>> \in dropped \cup missed

\* Nothing under way: every change has been seen and worked on.
Quiet == watch = <<>> /\ queue = <<>> /\ pc = "idle"

\* The daemon comes to rest after the last change, restarts and panics included.
Settles == []<>Quiet

\* At rest, a tenant of this node whose Add succeeded is fully configured, and its
\* object carries the VTEP address of the store, unless the node left it and joined it
\* again unseen, or its store was rewritten late or not written; it has entries for the
\* other node once that one has published, unless there was no subnet left for that Add.
\* Only rules and entries that the kernel refused when they were last due are missing.
RestMeansConfigured ==
  Quiet =>
    \A t \in Tenants \ (failed \cup astray) : Here(api[t]) =>
      /\ Provisioned(t) /\ api[t].nodes[Index(api[t], "me")].vtep = store[t]
      /\ t \in labelled /\ (store[t] \in accepted \/ <<t, "accept">> \in refused)
      /\ Initialised(api[t]) /\ t \notin starved =>
           t \in vxlan /\ (t \in routes \/ <<t, "entries">> \in refused)

\* At rest, a tenant of this node is provisioned.
RestMeansProvisioned ==
  Quiet => \A t \in Tenants \ (failed \cup astray) : Here(api[t]) => Provisioned(t)

=============================================================================
