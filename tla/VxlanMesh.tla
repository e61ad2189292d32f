------------------------------ MODULE VxlanMesh ------------------------------
(***************************************************************************)
(* ONE tenant on several nodes (pkg/network/backend/vxlan.go,               *)
(* pkg/network/routing/routes.go, and the parts of pkg/controller that use  *)
(* them).  The daemon of each node gives its VXLAN device a MAC address and *)
(* an IP address, publishes them in its entry of the Tenant object, and     *)
(* enters what the other nodes published into the ARP, FDB and routing      *)
(* tables of its own device.                                                *)
(*                                                                         *)
(* The object is the sequence of its versions.  A node's lister holds one   *)
(* of them, and an event in its queue names one.  What a handler does on    *)
(* its own node between two accesses to the object is one step: nobody else *)
(* sees it (TenantController cuts the same handlers at all their effects).  *)
(* Each call of such a step may fail, and the daemon may die in the middle. *)
(* How the daemons come up is module ClusterStart, which completes this one *)
(* to a specification.                                                      *)
(***************************************************************************)
EXTENDS Integers, FiniteSets, SequencesExt

CONSTANTS
  Nodes,
  SubnetCount,  \* /24 subnets in the CIDR of a node
  Unset,        \* no VTEP, no device
  MaxEvents     \* BOUND: changes of the object by users, crashes, and handlers in
                \* which calls fail, however many do

\* The k-th MAC address a node makes up, the base address of its k-th subnet.
Macs == Nodes \X Nat
Ips  == Nodes \X (1 .. SubnetCount)
Vteps == [node : Nodes, ip : Ips, mac : Macs]
Entry == [name : Nodes, vtep : Vteps \cup {Unset}]
Listed(n) == [name |-> n, vtep |-> Unset]

ASSUME MeshAssumption ==
  /\ IsFiniteSet(Nodes)
  /\ SubnetCount \in Nat \ {0}
  /\ MaxEvents \in Nat
  /\ Unset \notin Vteps \cup Macs

VARIABLES
  log,       \* the versions of Spec.Nodes, oldest first
  seen,      \* the version n's lister holds; 0 before its informer has listed
  queue,     \* n's work queue
  pc,        \* where the main goroutine of n's daemon, or its worker, is
  index,     \* the place of n in the list of the event it works on
  subnets,   \* the NodeStore of n: available subnets, and the one of the tenant
  made,      \* how many MAC addresses n has made up
  store,     \* the VTEP in n's tenant store
  device,    \* the MAC address that n's VXLAN device has
  raised,    \* nodes whose device has been given its IP address and is up
  arp, fdb, routes,   \* the entries of n that go through the device
  gaps,      \* the nodes for which n's last update could not make all the entries:
             \* the errors were logged or dropped, and the event is done with
  failed,    \* nodes whose last Add was given up with an error
  misplaced, \* a daemon has written its VTEP into another node's entry
  changes, faults

informer == <<seen, queue>>
worker   == <<pc, index>>
files    == <<subnets, made, store>>
tables   == <<arp, fdb, routes, gaps>>
kernel   == <<device, raised, tables>>
bounds   == <<changes, faults>>
object   == <<log, misplaced>>
meshVars == <<object, informer, worker, files, kernel, failed, bounds>>

Event(kind, v) == [kind |-> kind, version |-> v]
Events == [kind : {"Add", "Update", "Delete"}, version : Nat]

WorkerLabels == {"idle", "publish", "vxlan"}

MeshTypeOK ==
  /\ log \in Seq(Seq(Entry))
  /\ seen \in [Nodes -> 0 .. Len(log)]
  /\ queue \in [Nodes -> Seq(Events)]
  /\ \A n \in Nodes : \A i \in DOMAIN queue[n] : queue[n][i].version \in 1 .. seen[n]
  /\ index \in [Nodes -> Nat]
  /\ subnets \in [Nodes -> [avail : Seq(1 .. SubnetCount), mine : 0 .. SubnetCount]]
  /\ made \in [Nodes -> Nat]
  /\ store \in [Nodes -> Vteps \cup {Unset}]
  /\ device \in [Nodes -> Macs \cup {Unset}] /\ raised \in SUBSET Nodes
  /\ arp \in [Nodes -> SUBSET [ip : Ips, mac : Macs]]
  /\ fdb \in [Nodes -> SUBSET [mac : Macs, node : Nodes]]
  /\ routes \in [Nodes -> SUBSET Ips] /\ gaps \in [Nodes -> SUBSET Nodes]
  /\ failed \in SUBSET Nodes /\ misplaced \in BOOLEAN
  /\ changes \in 0 .. MaxEvents /\ faults \in 0 .. MaxEvents

-----------------------------------------------------------------------------
(* Helpers.                                                                *)

Has(l, n)   == \E i \in DOMAIN l : l[i].name = n
Index(l, n) == CHOOSE i \in DOMAIN l : l[i].name = n

Current == IF log = <<>> THEN <<>> ELSE log[Len(log)]

\* refreshTenant: what n's lister holds.
Lister(n) == IF seen[n] = 0 THEN <<>> ELSE log[seen[n]]

Goto(n, l) == pc' = [pc EXCEPT ![n] = l]
Pop(n)     == queue' = [queue EXCEPT ![n] = Tail(@)]
Ready(n, kind) == pc[n] = "idle" /\ queue[n] # <<>> /\ Head(queue[n]).kind = kind

Fault == changes + faults < MaxEvents /\ faults' = faults + 1 /\ UNCHANGED changes

\* The daemon dies, of a panic, a fatal error or a signal.  The kubelet starts the
\* container again; files and devices are where they were.
Restart(n) ==
  /\ Goto(n, "register")
  /\ queue' = [queue EXCEPT ![n] = <<>>] /\ seen' = [seen EXCEPT ![n] = 0]
  /\ index' = [index EXCEPT ![n] = 0]
  /\ failed' = failed \ {n}

-----------------------------------------------------------------------------
(* The informer.                                                           *)

\* The next version arrives: handleUpdate appends an event with the old and the new
\* object.
Deliver(n) ==
  /\ pc[n] \in WorkerLabels /\ seen[n] < Len(log)
  /\ seen' = [seen EXCEPT ![n] = @ + 1]
  /\ queue' = [queue EXCEPT ![n] = Append(@, Event("Update", seen[n] + 1))]
  /\ UNCHANGED <<object, worker, files, kernel, failed, bounds>>

-----------------------------------------------------------------------------
(* addTenant.                                                              *)

\* NewHardwareAddr: random, so never one that was there before.
NewHardwareAddr(n) == <<n, made[n] + 1>>

\* AllocateTenant takes the first available subnet and writes the tenant's store.
\* Without a subnet it leaves everything as it is.
AllocateTenant(n) ==
  LET s == subnets[n].avail IN
  IF s = <<>> THEN UNCHANGED files
  ELSE /\ subnets' = [subnets EXCEPT ![n] = [avail |-> Tail(s), mine |-> Head(s)]]
       /\ made' = [made EXCEPT ![n] = @ + 1]
       /\ store' = [store EXCEPT ![n] =
                      [node |-> n, ip |-> <<n, Head(s)>>, mac |-> NewHardwareAddr(n)]]

\* The worker takes the event and looks into the lister, not at the event's object.
Add(n) ==
  /\ Ready(n, "Add")
  /\ Pop(n)
  /\ failed' = failed \ {n}
  /\ IF Has(Lister(n), n)
       THEN /\ AllocateTenant(n)
            /\ index' = [index EXCEPT ![n] = Index(Lister(n), n)]
            /\ Goto(n, "publish")
       ELSE UNCHANGED <<worker, files>>
  /\ UNCHANGED <<object, seen, kernel, bounds>>

\* Variant: the API takes the copy whatever has changed since.
TakenAnyway(n) == TRUE

\* The API takes an update of the newest version only.
Taken(n) == seen[n] = Len(log)

\* The VTEP of the store goes into the entry at the index found in the first copy,
\* of the copy the lister holds now.  A conflict is retried, and given up after five
\* attempts; any other error at once.  A copy with one node means no VXLAN device.
Publish(n) ==
  LET o == Lister(n)
      i == index[n]
  IN
  /\ pc[n] = "publish"
  /\ \/ /\ store[n] = Unset \/ i \notin DOMAIN o   \* nil Vxlan, index out of range
        /\ Restart(n)
        /\ UNCHANGED <<object, bounds>>
     \/ /\ store[n] # Unset /\ i \in DOMAIN o
        /\ \/ /\ Taken(n)
              /\ log' = Append(log, [o EXCEPT ![i].vtep = store[n]])
              /\ misplaced' = (misplaced \/ o[i].name # n)
              /\ Goto(n, IF Len(o) > 1 THEN "vxlan" ELSE "idle")
              /\ UNCHANGED <<failed, bounds>>
           \/ /\ (~Taken(n) /\ UNCHANGED bounds) \/ Fault
              /\ Goto(n, "idle") /\ failed' = failed \cup {n}
              /\ UNCHANGED object
        /\ index' = [index EXCEPT ![n] = 0]
        /\ UNCHANGED informer
  /\ UNCHANGED <<files, kernel>>

\* newVxlanDevice: the MAC address of the device the store asks for.
NewVxlanDevice(n) == store[n].mac

\* ensureVxlan: a device that is there keeps its MAC address.
EnsuredVxlan(n) == IF device[n] = Unset THEN NewVxlanDevice(n) ELSE device[n]

\* InitVxlanDevice; when it fails the log line after it dereferences nil.  It may
\* fail before there is a device, or leave one without its address or down.
CreateVxlan(n) ==
  /\ pc[n] = "vxlan"
  /\ \/ /\ device' = [device EXCEPT ![n] = EnsuredVxlan(n)]
        /\ raised' = raised \cup {n}
        /\ Goto(n, "idle")
        /\ UNCHANGED <<informer, index, failed, bounds>>
     \/ /\ Restart(n) /\ Fault
        /\ \E d \in {device[n], EnsuredVxlan(n)} : device' = [device EXCEPT ![n] = d]
        /\ UNCHANGED raised
  /\ UNCHANGED <<object, files, tables>>

-----------------------------------------------------------------------------
(* updateTenant.                                                           *)

\* The places of the initialised remote nodes in a list.
Remotes(n, l) == {i \in DOMAIN l : l[i].name # n /\ l[i].vtep # Unset}

\* Variant: an entry for the address that is there stays.
ARPKept(S, l, R) ==
  S \cup {[ip |-> l[i].vtep.ip, mac |-> l[i].vtep.mac] :
            i \in {i \in R : \A e \in S : e.ip # l[i].vtep.ip}}

\* NeighSet for the nodes at the places R, one after the other: it replaces the
\* entry with the same key, so of two places with one key the later one's stays.
AddARP(S, l, R) ==
  {e \in S : \A i \in R : e.ip # l[i].vtep.ip} \cup
  {[ip |-> l[i].vtep.ip, mac |-> l[i].vtep.mac] :
     i \in {i \in R : \A j \in R : j > i => l[j].vtep.ip # l[i].vtep.ip}}
AddFDB(S, l, R) ==
  {e \in S : \A i \in R : e.mac # l[i].vtep.mac} \cup
  {[mac |-> l[i].vtep.mac, node |-> l[i].vtep.node] :
     i \in {i \in R : \A j \in R : j > i => l[j].vtep.mac # l[i].vtep.mac}}

\* RouteAdd for the remote subnets; the route to the VTEP itself, which it needs for
\* a moment, is taken away again.
AddRoutes(S, l, R) == S \cup {l[i].vtep.ip : i \in R}

\* The handler wants entries for the nodes at the places R of list l, each of them
\* with three calls of its own: AddARP succeeds for the places A, AddFDB for F and
\* AddRoutes for G.
AddEntries(n, l, R, A, F, G) ==
  LET done == A \cap F \cap G IN
  /\ arp'    = [arp    EXCEPT ![n] = AddARP(@, l, A)]
  /\ fdb'    = [fdb    EXCEPT ![n] = AddFDB(@, l, F)]
  /\ routes' = [routes EXCEPT ![n] = AddRoutes(@, l, G)]
  /\ gaps'   = [gaps   EXCEPT ![n] =
                   (@ \ {l[i].name : i \in done}) \cup {l[i].name : i \in R \ done}]
  /\ UNCHANGED <<device, raised>>

\* The kernel takes no route through a device that is down.
Routable(n, R) == IF n \in raised THEN R ELSE {}

\* This node has come into the list or gone out of it: an event of its own goes to
\* the end of the queue.
UpdateMembership(n) ==
  LET e   == Head(queue[n])
      old == log[e.version - 1]
      new == log[e.version]
  IN
  /\ Ready(n, "Update")
  /\ Has(new, n) # Has(old, n)
  /\ queue' = [queue EXCEPT ![n] =
       Append(Tail(@), Event(IF Has(new, n) THEN "Add" ELSE "Delete", e.version))]
  /\ UNCHANGED <<object, seen, worker, files, kernel, failed, bounds>>

\* Any other change of the list: the entries of all remote nodes the lister's object
\* has, of node after node.  A call that fails is logged or not even that; the handler
\* goes on and the event is forgotten.  A crash leaves the calls that were made.  The
\* blank store, or the device that is not there, is only looked at when there is such
\* a node.
Update(n) ==
  LET new == log[Head(queue[n]).version]
      old == log[Head(queue[n]).version - 1]
      l   == Lister(n)
      remotes == Remotes(n, l)
  IN
  /\ Ready(n, "Update")
  /\ Has(new, n) = Has(old, n)
  /\ \/ /\ ~Has(new, n) \/ remotes = {}
        /\ Pop(n) /\ UNCHANGED <<seen, worker, kernel, failed, bounds>>
     \/ /\ Has(new, n) /\ remotes # {}
        /\ store[n] = Unset \/ device[n] = Unset      \* nil Vxlan, nil device
        /\ Restart(n) /\ UNCHANGED <<kernel, bounds>>
     \/ /\ Has(new, n) /\ remotes # {} /\ store[n] # Unset /\ device[n] # Unset
        /\ \/ /\ AddEntries(n, l, remotes, remotes, remotes, Routable(n, remotes))
              /\ Pop(n) /\ UNCHANGED <<seen, worker, failed, bounds>>
           \/ /\ \E A, F \in SUBSET remotes, G \in SUBSET Routable(n, remotes) :
                   AddEntries(n, l, remotes, A, F, G)
              /\ Fault
              /\ Restart(n) \/ (Pop(n) /\ UNCHANGED <<seen, worker, failed>>)
  /\ UNCHANGED <<object, files>>

-----------------------------------------------------------------------------
(* deleteTenant.                                                           *)

\* The subnet the TenantList has for the tenant becomes the last available one.
Reclaimed(s) == IF s.mine = 0 THEN s ELSE [avail |-> Append(s.avail, s.mine), mine |-> 0]

\* The device goes, and the entries that go through it with it.
DeleteVxLANDevice(n) ==
  /\ device' = [device EXCEPT ![n] = Unset] /\ raised' = raised \ {n}
  /\ arp' = [arp EXCEPT ![n] = {}] /\ fdb' = [fdb EXCEPT ![n] = {}]
  /\ routes' = [routes EXCEPT ![n] = {}] /\ gaps' = [gaps EXCEPT ![n] = {}]

DeleteTenantStore(n) == store' = [store EXCEPT ![n] = Unset]

\* Device, store, and the subnet is reclaimed.  A deletion that fails is logged and
\* the rest is done all the same; a crash leaves what was not done yet.
Delete(n) ==
  /\ Ready(n, "Delete")
  /\ \/ /\ store[n] = Unset                           \* nil Bridge
        /\ Restart(n) /\ UNCHANGED <<files, kernel, bounds>>
     \/ /\ store[n] # Unset
        /\ \/ /\ DeleteVxLANDevice(n) /\ DeleteTenantStore(n)
              /\ Pop(n) /\ UNCHANGED <<seen, worker, failed, bounds>>
           \/ /\ DeleteVxLANDevice(n) \/ UNCHANGED kernel
              /\ DeleteTenantStore(n) \/ UNCHANGED store
              /\ Fault
              /\ Restart(n) \/ (Pop(n) /\ UNCHANGED <<seen, worker, failed>>)
        /\ subnets' = [subnets EXCEPT ![n] = Reclaimed(@)]
        /\ UNCHANGED made
  /\ UNCHANGED object

-----------------------------------------------------------------------------
(* Users, and the composition.                                             *)

Change(l) ==
  /\ changes + faults < MaxEvents
  /\ changes' = changes + 1
  /\ log' = Append(log, l)
  /\ UNCHANGED <<misplaced, informer, worker, files, kernel, failed, faults>>

\* Users list a node in an existing object, or take one off.
Join(n) ==
  /\ log # <<>> /\ ~Has(Current, n)
  /\ Change(Append(Current, Listed(n)))

Leave(n) ==
  /\ Has(Current, n)
  /\ Change(RemoveAt(Current, Index(Current, n)))

MeshInit ==
  /\ log = <<>>
  /\ seen = [n \in Nodes |-> 0] /\ queue = [n \in Nodes |-> <<>>]
  /\ index = [n \in Nodes |-> 0]
  /\ subnets = [n \in Nodes |-> [avail |-> <<>>, mine |-> 0]]
  /\ made = [n \in Nodes |-> 0]
  /\ store = [n \in Nodes |-> Unset]
  /\ device = [n \in Nodes |-> Unset] /\ raised = {}
  /\ arp = [n \in Nodes |-> {}] /\ fdb = [n \in Nodes |-> {}]
  /\ routes = [n \in Nodes |-> {}] /\ gaps = [n \in Nodes |-> {}]
  /\ failed = {} /\ misplaced = FALSE /\ changes = 0 /\ faults = 0

-----------------------------------------------------------------------------
(* What the tables amount to.                                              *)

Entered(n, ip, mac, m) ==
  /\ ip \in routes[n]
  /\ \E e \in arp[n] : e.ip = ip /\ e.mac = mac
  /\ \E e \in fdb[n] : e.mac = mac /\ e.node = m

\* A packet for m's subnet arrives: it is sent to a MAC address that m's device has,
\* and both devices are up.
Reaches(n, m) ==
  /\ device[m] # Unset /\ {n, m} \subseteq raised
  /\ Entered(n, store[m].ip, device[m], m)

=============================================================================
