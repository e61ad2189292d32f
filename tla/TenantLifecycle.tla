--------------------------- MODULE TenantLifecycle ---------------------------
(***************************************************************************)
(* Tenants that come and go on ONE node while pods are plugged and          *)
(* unplugged: the daemon's AllocateTenant, deleteTenant and                 *)
(* DeleteTenantStore, and the plugin's ADD and DEL, on what they share: the *)
(* directory of each tenant's store with its lock file, and its bridge      *)
(* (pkg/network/ipam, pkg/network/backend/bridge.go, pkg/controller,        *)
(* cmd/tenantcni).                                                         *)
(*                                                                         *)
(* An flock is on the FILE a process has opened.  DeleteTenantStore removes *)
(* that file, so later processes lock another one.  A bridge, too, is the   *)
(* device a process has looked up, not the name.                            *)
(*                                                                         *)
(* A store is read in one step and rewritten in one.  Calls that no other   *)
(* process sees between are one step too, which Kill cuts short after any   *)
(* of them.  Torn files, and the order in which addresses are tried, are    *)
(* the subject of TenantIPAM, the pod list of PodStore, and the other       *)
(* disturbances of the work queue of TenantController.  Bridge names are    *)
(* short enough to be used.                                                 *)
(***************************************************************************)
EXTENDS Integers, FiniteSets, SequencesExt

CONSTANTS
  Tenants,
  Pods,         \* container ids
  Subnets,      \* number of /24 subnets in the node's CIDR
  HostCount,    \* host numbers of a subnet
  Nobody,       \* the owner of a free address
  MaxCommands,  \* BOUND: CNI commands of the runtime
  MaxEvents     \* BOUND: tenants created and deleted by users, crashes, kills and
                \* deletions that fail

ASSUME LifecycleAssumption ==
  /\ IsFiniteSet(Tenants) /\ IsFiniteSet(Pods)
  /\ HostCount \in Nat /\ Subnets \in Nat /\ Subnets >= Cardinality(Tenants)
  /\ Nobody \notin Pods \cup Tenants
  /\ MaxCommands \in Nat /\ MaxEvents \in Nat

Hosts == 1 .. HostCount

\* TenantData: the tenant's subnet (0: no Bridge, no TenantCIDR), its leases, and the
\* host number given last (0: the gateway).
TenantData ==
  [subnet : 0 .. Subnets, ips : [Hosts -> Pods \cup {Nobody}], last : 0 .. HostCount]
NewData(s) == [subnet |-> s, ips |-> [h \in Hosts |-> Nobody], last |-> 0]
Blank  == NewData(0)
NoFile == NewData(-1)

\* An interface: subnet and host number of its address, its default gateway (known
\* by its subnet), and whether its host end is on a bridge: the last call of an ADD
\* puts it there, and it is lost when the bridge is deleted.
BareIface == [subnet |-> 0, host |-> 0, gateway |-> 0, on |-> "never"]
NoIface   == [BareIface EXCEPT !.subnet = -1]
Ifaces == [subnet : 0 .. Subnets, host : Hosts \cup {0}, gateway : 0 .. Subnets,
           on : {"never", "yes", "lost"}]

VARIABLES
  wanted,     \* the Tenant objects that list this node
  queue,      \* the daemon's work queue
  daemon,     \* what its worker does: [at, tenant, left]
  avail,      \* NodeStore: AvailableList
  mine,       \* NodeStore: TenantList, 0 for a tenant that is not in it
  dir,        \* the tenants whose directory exists
  file,       \* <tenant>.json
  removed,    \* how many lock files of the tenant have been removed
  bridge,     \* the gateways on the tenant's bridge
  up,         \* tenants whose bridge is set up
  deleted,    \* how many bridges of the tenant have been deleted
  tenantOf,   \* the tenant the pod list has for the pod
  proc,       \* the plugin process that serves the pod
  iface,      \* the interface of the pod
  stopping,   \* the runtime asked for DEL and no DEL has succeeded yet
  disturbed,  \* tenants provisioned or deleted while something of theirs was in use, or
              \* provisioned with a bridge left over; those a command began for while
              \* they were deleted or their store was older than the daemon; and those
              \* whose store a plugin that had found none has emptied
  abandoned,  \* tenants whose deletion was cut short or forgotten by a crash of the
              \* daemon, or in whose deletion a call failed
  unfinished, \* bridges whose maker stopped before they had a gateway and were up
  commands, events

worker  == <<queue, daemon>>
node    == <<avail, mine>>
stores  == <<dir, file, removed>>
bridges == <<bridge, up, deleted, unfinished>>
pods    == <<tenantOf, iface, stopping>>
bounds  == <<commands, events>>
ghosts  == <<disturbed, abandoned>>
vars    == <<wanted, worker, node, stores, bridges, proc, pods, ghosts, bounds>>

NoBridge == {0}   \* what bridge[t] is when there is none

Labels == {"idle", "first", "firstCreate", "load", "create", "write",
           "bridge", "linkAdd", "addrAdd", "veth", "net"}

\* Where the process is, its command, TenantStore.Data, the lock file it has opened,
\* the gateway cmdAdd has read, the host number AllocateIP returns, and the bridge
\* that was looked up.
Process ==
  [at : Labels, op : {"ADD", "DEL", "none"}, data : TenantData, lock : Nat,
   gateway : 0 .. Subnets, host : Hosts \cup {0}, link : Nat]
NoProcess ==
  [at |-> "idle", op |-> "none", data |-> Blank, lock |-> 0,
   gateway |-> 0, host |-> 0, link |-> 0]

\* The daemon is about to remove the entries of a tenant's directory that are left, or
\* the directory itself.
Resting == [at |-> "idle", tenant |-> Nobody, left |-> {}]

TypeOK ==
  /\ wanted \in SUBSET Tenants
  /\ queue \in Seq([kind : {"Add", "Delete"}, tenant : Tenants])
  /\ daemon \in [at : {"idle", "entries", "dir"}, tenant : Tenants \cup {Nobody}, left : SUBSET {"lock", "data"}]
  /\ avail \in Seq(1 .. Subnets) /\ mine \in [Tenants -> 0 .. Subnets]
  /\ dir \in SUBSET Tenants
  /\ file \in [Tenants -> TenantData \cup {NoFile}]
  /\ \A t \in Tenants : file[t] # NoFile => t \in dir
  /\ removed \in [Tenants -> Nat] /\ deleted \in [Tenants -> Nat]
  /\ bridge \in [Tenants -> (SUBSET (1 .. Subnets)) \cup {NoBridge}] /\ up \in SUBSET Tenants
  /\ tenantOf \in [Pods -> Tenants]
  /\ proc \in [Pods -> Process]
  /\ iface \in [Pods -> Ifaces \cup {NoIface}] /\ stopping \in [Pods -> BOOLEAN]
  /\ disturbed \in SUBSET Tenants /\ abandoned \in SUBSET Tenants /\ unfinished \in SUBSET Tenants
  /\ commands \in 0 .. MaxCommands /\ events \in 0 .. MaxEvents

-----------------------------------------------------------------------------
(* Helpers.                                                                *)

Here(p)   == tenantOf[p]
Data(t)   == IF file[t] = NoFile THEN Blank ELSE file[t]
HasBridge(t) == bridge[t] # NoBridge
Leased(d, p) == {h \in Hosts : d.ips[h] = p}
Ahead(d)  == {h \in Hosts : h > d.last /\ d.ips[h] = Nobody}

Goto(p, l) == proc' = [proc EXCEPT ![p].at = l]

\* The process ends: normally, with an error, by a panic, or killed.
Exit(p) == proc' = [proc EXCEPT ![p] = NoProcess]

\* A pod of t is plugged, or a command for one is running.
InUse(t) == \E p \in Pods : Here(p) = t /\ (iface[p] # NoIface \/ proc[p].at # "idle")

\* The daemon is deleting t, or t's store is older than the daemon.
Unsettled(t) == daemon.tenant = t \/ (mine[t] = 0 /\ Data(t).subnet # 0)

Happens == events < MaxEvents /\ events' = events + 1 /\ UNCHANGED commands

\* Variant: the directory is not made.
MakesNothing(t) == UNCHANGED <<dir, removed>>

\* NewTenantStore makes the directory and, in it, the lock file, and opens it.
MakeStore(t) == dir' = dir \cup {t} /\ UNCHANGED removed

\* LoadTenantData has found no file and makes an empty one: whatever has been put there
\* meanwhile is gone.  Without a directory it fails.
CreateFile(t) ==
  /\ file' = IF t \in dir THEN [file EXCEPT ![t] = Blank] ELSE file
  /\ disturbed' = IF t \in dir /\ Data(t).subnet # 0 THEN disturbed \cup {t} ELSE disturbed

-----------------------------------------------------------------------------
(* The plugin.                                                             *)

\* The pod runs: its ADD has succeeded, and the runtime has not asked for DEL.
Runs(p) == iface[p].on # "never" /\ ~stopping[p]

\* The runtime starts the plugin; getTenantPod finds the tenant of the pod, and
\* NewTenantStore opens its store.  An ADD that did not succeed may be repeated.
Invoke(p, o) ==
  LET t == Here(p) IN
  /\ proc[p].at = "idle"
  /\ commands < MaxCommands /\ commands' = commands + 1
  /\ o = "ADD" => ~stopping[p] /\ ~Runs(p)
  /\ MakeStore(t)
  /\ proc' = [proc EXCEPT ![p].at = "first", ![p].op = o, ![p].lock = removed[t]]
  /\ stopping' = [stopping EXCEPT ![p] = @ \/ o = "DEL"]
  /\ disturbed' = IF Unsettled(t) THEN disturbed \cup {t} ELSE disturbed
  /\ UNCHANGED <<wanted, worker, node, file, bridges, tenantOf, iface, abandoned, events>>

\* What a command makes of its first copy of the store.  cmdAdd takes bridge and
\* gateway from it, and panics when there are none.
TakeFirst(p, d) ==
  IF proc[p].op = "ADD" /\ d.subnet = 0
    THEN Exit(p)
    ELSE proc' = [proc EXCEPT ![p].at = "load", ![p].data = d, ![p].gateway = d.subnet]

\* The first load, without the lock, its error ignored.
FirstLoad(p) ==
  LET t == Here(p) IN
  /\ proc[p].at = "first"
  /\ IF file[t] = NoFile THEN Goto(p, "firstCreate") ELSE TakeFirst(p, file[t])
  /\ UNCHANGED <<wanted, worker, node, stores, bridges, pods, ghosts, bounds>>

FirstCreate(p) ==
  /\ proc[p].at = "firstCreate"
  /\ CreateFile(Here(p))
  /\ TakeFirst(p, Blank)
  /\ UNCHANGED <<wanted, worker, node, dir, removed, bridges, pods, abandoned, bounds>>

\* Variant: flocks exclude nobody.
LockIgnored(p) == TRUE

\* Nobody else has locked the file that p has opened.
LockFree(p) ==
  \A q \in Pods \ {p} :
    proc[q].at \in {"create", "write"} => Here(q) # Here(p) \/ proc[q].lock # proc[p].lock

\* What AllocateIP does with the store it has loaded.  The scan goes up from the last
\* address; one that runs off the end of the subnet ends in the runtime's time-out,
\* here at once.
AllocateFrom(p, d) ==
  IF d.subnet = 0 THEN Exit(p)                      \* nil Bridge
  ELSE IF Leased(d, p) # {}
    THEN \E h \in Leased(d, p) :
           proc' = [proc EXCEPT ![p].at = "bridge", ![p].data = d, ![p].host = h]
  ELSE IF Ahead(d) = {} THEN Exit(p)
    ELSE LET h == Min(Ahead(d)) IN
           proc' = [proc EXCEPT ![p].at = "write", ![p].host = h,
                                ![p].data = [d EXCEPT !.ips[h] = p, !.last = h]]

\* What ReleaseIP does with it.
ReleaseFrom(p, d) ==
  IF Leased(d, p) = {} THEN Goto(p, "net")
  ELSE \E h \in Leased(d, p) :
         proc' = [proc EXCEPT ![p].at = "write", ![p].data = [d EXCEPT !.ips[h] = Nobody]]

\* AllocateIP and ReleaseIP: Lock and load.
Load(p) ==
  LET d == file[Here(p)] IN
  /\ proc[p].at = "load" /\ LockFree(p)
  /\ \/ d = NoFile /\ Goto(p, "create")
     \/ d # NoFile /\ proc[p].op = "ADD" /\ AllocateFrom(p, d)
     \/ d # NoFile /\ proc[p].op = "DEL" /\ ReleaseFrom(p, d)
  /\ UNCHANGED <<wanted, worker, node, stores, bridges, pods, ghosts, bounds>>

\* A load that fails, because the directory is gone, leaves an ADD the data of the
\* first one, and ends a DEL.
Create(p) ==
  LET t == Here(p) IN
  /\ proc[p].at = "create"
  /\ CreateFile(t)
  /\ \/ proc[p].op = "ADD" /\ AllocateFrom(p, IF t \in dir THEN Blank ELSE proc[p].data)
     \/ proc[p].op = "DEL" /\ IF t \in dir THEN ReleaseFrom(p, Blank) ELSE Exit(p)
  /\ UNCHANGED <<wanted, worker, node, dir, removed, bridges, pods, abandoned, bounds>>

\* StoreTenantData, which fails when the directory is gone, and Unlock.
WriteStore(p) ==
  LET t == Here(p) IN
  /\ proc[p].at = "write"
  /\ IF t \in dir
       THEN /\ file' = [file EXCEPT ![t] = proc[p].data]
            /\ Goto(p, IF proc[p].op = "ADD" THEN "bridge" ELSE "net")
       ELSE Exit(p) /\ UNCHANGED file
  /\ UNCHANGED <<wanted, worker, node, dir, removed, bridges, pods, ghosts, bounds>>

\* CreateTenantBridge: a bridge of that name is taken as it is.
FindBridge(p) ==
  LET t == Here(p) IN
  /\ proc[p].at = "bridge"
  /\ IF HasBridge(t)
       THEN proc' = [proc EXCEPT ![p].at = "veth", ![p].link = deleted[t]]
       ELSE Goto(p, "linkAdd")
  /\ UNCHANGED <<wanted, worker, node, stores, bridges, pods, ghosts, bounds>>

\* LinkAdd makes a bridge that is down; that somebody else has just added it (EEXIST)
\* is fine.
LinkAdd(p) ==
  LET t == Here(p) IN
  /\ proc[p].at = "linkAdd"
  /\ bridge' = [bridge EXCEPT ![t] = IF HasBridge(t) THEN @ ELSE {}]
  /\ proc' = [proc EXCEPT ![p].at = "addrAdd", ![p].link = deleted[t]]
  /\ UNCHANGED <<wanted, worker, node, stores, up, deleted, unfinished, pods, ghosts, bounds>>

\* The bridge p has looked up is still there.
StillThere(p) == HasBridge(Here(p)) /\ proc[p].link = deleted[Here(p)]

\* Variant: the address is not put on.
NoAddress(t, g) == bridge[t]

WithAddress(t, g) == bridge[t] \cup {g}

\* AddrAdd and LinkSetUp; an error when the bridge has the address already.
AddrAdd(p) ==
  LET t == Here(p)
      g == proc[p].gateway
  IN
  /\ proc[p].at = "addrAdd"
  /\ IF StillThere(p) /\ g \notin bridge[t]
       THEN bridge' = [bridge EXCEPT ![t] = WithAddress(t, g)] /\ up' = up \cup {t} /\ Goto(p, "veth")
       ELSE Exit(p) /\ UNCHANGED <<bridge, up>>
  /\ UNCHANGED <<wanted, worker, node, stores, deleted, unfinished, pods, ghosts, bounds>>

\* The interface that SetupVeth makes, with its address and its default route.
Veth(p) == [subnet |-> proc[p].data.subnet, host |-> proc[p].host,
            gateway |-> proc[p].gateway, on |-> "never"]

\* SetupVeth: an error when there is an interface.  The interface is made first; then
\* its host end is connected to the bridge, which fails when that is gone.
SetupVeth(p) ==
  /\ proc[p].at = "veth"
  /\ iface' = IF iface[p] # NoIface THEN iface
              ELSE [iface EXCEPT ![p] =
                      [Veth(p) EXCEPT !.on = IF StillThere(p) THEN "yes" ELSE "never"]]
  /\ Exit(p)
  /\ UNCHANGED <<wanted, worker, node, stores, bridges, tenantOf, stopping, ghosts, bounds>>

\* DelVeth; an error when there is no interface.
DelVeth(p) ==
  /\ proc[p].at = "net"
  /\ IF iface[p] # NoIface
       THEN /\ iface' = [iface EXCEPT ![p] = NoIface]
            /\ stopping' = [stopping EXCEPT ![p] = FALSE]
       ELSE UNCHANGED <<iface, stopping>>
  /\ Exit(p)
  /\ UNCHANGED <<wanted, worker, node, stores, bridges, tenantOf, ghosts, bounds>>

\* A bridge that was just made is left without its gateway, or with it and down.
LeaveBridge(p) ==
  LET t == Here(p) IN
  /\ proc[p].at = "addrAdd" /\ StillThere(p) /\ proc[p].gateway \notin bridge[t]
  /\ \E b \in {bridge[t], WithAddress(t, proc[p].gateway)} : bridge' = [bridge EXCEPT ![t] = b]
  /\ unfinished' = unfinished \cup {t}
  /\ UNCHANGED iface

\* The interface is left as SetupVeth's calls have made it so far: bare, with its
\* address, or with its default route too, and on no bridge.
LeaveVeth(p) ==
  /\ proc[p].at = "veth" /\ iface[p] = NoIface
  /\ \E i \in {BareIface, [Veth(p) EXCEPT !.gateway = 0], Veth(p)} : iface' = [iface EXCEPT ![p] = i]
  /\ UNCHANGED <<bridge, unfinished>>

\* The runtime's time-out, or a call of the kernel's that fails: the command ends, and
\* nothing is undone.
Kill(p) ==
  /\ proc[p].at # "idle"
  /\ Happens
  /\ Exit(p)
  /\ \/ LeaveBridge(p)
     \/ LeaveVeth(p)
     \/ /\ ~(proc[p].at = "addrAdd" /\ StillThere(p) /\ proc[p].gateway \notin bridge[Here(p)])
        /\ UNCHANGED <<bridge, unfinished, iface>>
  /\ UNCHANGED <<wanted, worker, node, stores, up, deleted, tenantOf, stopping, ghosts>>

-----------------------------------------------------------------------------
(* The daemon.                                                             *)

At(l) == daemon.at = l
Rests == daemon' = Resting

\* The next event of the queue.
Ready(kind, t) ==
  At("idle") /\ queue # <<>> /\ Head(queue) = [kind |-> kind, tenant |-> t]

Orders(S) == {s \in [1 .. Cardinality(S) -> S] : \A i, j \in DOMAIN s : s[i] = s[j] => i = j}

\* What ListSubnets makes of the node's CIDR.
ListSubnets == [i \in 1 .. Subnets |-> i]

FreshNodeStore == avail' = ListSubnets /\ mine' = [t \in Tenants |-> 0]

\* The daemon starts anew, with a fresh NodeStore, and the informer lists the tenants
\* there are.  What it was deleting or about to delete is forgotten.
Restart ==
  /\ Rests
  /\ \E s \in Orders(wanted) :
       queue' = [i \in DOMAIN s |-> [kind |-> "Add", tenant |-> s[i]]]
  /\ FreshNodeStore
  /\ disturbed' = disturbed \cup {t \in Tenants : InUse(t)}
  /\ abandoned' = abandoned \cup {t \in Tenants \ wanted : HasBridge(t) \/ Data(t).subnet # 0}

\* addTenant: AllocateTenant takes the first available subnet, and writes a new store
\* without taking its lock.  A tenant that the lister no longer has is a panic.
AllocateTenant(t) ==
  /\ Ready("Add", t)
  /\ IF t \in wanted
       THEN /\ queue' = Tail(queue)
            /\ avail' = Tail(avail)
            /\ mine' = [mine EXCEPT ![t] = Head(avail)]
            /\ MakeStore(t)
            /\ file' = [file EXCEPT ![t] = NewData(Head(avail))]
            /\ disturbed' = IF HasBridge(t) \/ (InUse(t) /\ Data(t).subnet # 0)
                              THEN disturbed \cup {t} ELSE disturbed
            /\ abandoned' = abandoned \ {t}
            /\ UNCHANGED daemon
       ELSE Restart /\ UNCHANGED stores
  /\ UNCHANGED <<wanted, bridges, proc, pods, bounds>>

\* Variant: the bridge stays.
KeepsBridge(t) == UNCHANGED <<bridges, iface>>

\* The bridge goes, and the interfaces that were on it are on none.
DeleteTenantBridge(t) ==
  /\ bridge' = [bridge EXCEPT ![t] = NoBridge]
  /\ up' = up \ {t}
  /\ deleted' = [deleted EXCEPT ![t] = IF HasBridge(t) THEN @ + 1 ELSE @]
  /\ unfinished' = unfinished \ {t}
  /\ iface' = [p \in Pods |-> IF Here(p) = t /\ HasBridge(t) /\ iface[p].on = "yes"
                                THEN [iface[p] EXCEPT !.on = "lost"] ELSE iface[p]]

\* A call of the deletion fails; that is logged, and the deletion goes on.
Fails(t) == Happens /\ abandoned' = abandoned \cup {t}

\* deleteTenant: the API server is asked to delete the pods (their DELs come when they
\* come), the store is loaded, and the bridge deleted.  A store without a bridge is a
\* panic.
DeleteTenant(t) ==
  /\ Ready("Delete", t)
  /\ MakeStore(t)
  /\ file' = [file EXCEPT ![t] = Data(t)]
  /\ IF Data(t).subnet # 0
       THEN /\ queue' = Tail(queue)
            /\ daemon' = [at |-> "entries", tenant |-> t, left |-> {"lock", "data"}]
            /\ \/ DeleteTenantBridge(t) /\ UNCHANGED <<abandoned, bounds>>
               \/ Fails(t) /\ UNCHANGED <<bridges, iface>>
            /\ disturbed' = IF InUse(t) THEN disturbed \cup {t} ELSE disturbed
            /\ UNCHANGED node
       ELSE Restart /\ UNCHANGED <<bridges, iface, bounds>>
  /\ UNCHANGED <<wanted, proc, tenantOf, stopping>>

\* DeleteTenantStore removes the files of the directory one by one, in the order of
\* their names, which depends on the tenant's.
RemoveEntry(e) ==
  LET t == daemon.tenant IN
  /\ At("entries") /\ e \in daemon.left
  /\ IF e = "lock" THEN removed' = [removed EXCEPT ![t] = @ + 1] /\ UNCHANGED file
                   ELSE file' = [file EXCEPT ![t] = NoFile] /\ UNCHANGED removed
  /\ daemon' = [daemon EXCEPT !.left = @ \ {e}, !.at = IF daemon.left = {e} THEN "dir" ELSE @]
  /\ UNCHANGED <<wanted, queue, node, dir, bridges, proc, pods, ghosts, bounds>>

\* The subnet of the TenantList becomes the last available one.
Reclaim(t) ==
  /\ avail' = IF mine[t] = 0 THEN avail ELSE Append(avail, mine[t])
  /\ mine' = [mine EXCEPT ![t] = 0]
  /\ Rests

\* Then the directory, with what has been made in it meanwhile.
RemoveDirectory ==
  LET t == daemon.tenant IN
  /\ At("dir")
  /\ dir' = dir \ {t}
  /\ file' = [file EXCEPT ![t] = NoFile]
  /\ removed' = [removed EXCEPT ![t] = @ + 1]
  /\ Reclaim(t)
  /\ UNCHANGED <<wanted, queue, bridges, proc, pods, ghosts, bounds>>

\* A file or the directory cannot be read or removed: DeleteTenantStore returns, and
\* the subnet is reclaimed all the same.
StoreStays ==
  LET t == daemon.tenant IN
  /\ daemon.at \in {"entries", "dir"}
  /\ Fails(t)
  /\ Reclaim(t)
  /\ UNCHANGED <<wanted, queue, stores, bridges, proc, pods, disturbed>>

Daemon ==
  \/ \E t \in Tenants : AllocateTenant(t) \/ DeleteTenant(t)
  \/ \E e \in {"lock", "data"} : RemoveEntry(e)
  \/ RemoveDirectory
  \/ StoreStays

DaemonCrash ==
  /\ Happens
  /\ Restart
  /\ UNCHANGED <<wanted, stores, bridges, proc, pods>>

-----------------------------------------------------------------------------
Init ==
  /\ wanted \in SUBSET Tenants
  /\ queue \in {[i \in DOMAIN s |-> [kind |-> "Add", tenant |-> s[i]]] : s \in Orders(wanted)}
  /\ daemon = Resting
  /\ avail = ListSubnets /\ mine = [t \in Tenants |-> 0]
  /\ dir = {} /\ file = [t \in Tenants |-> NoFile] /\ removed = [t \in Tenants |-> 0]
  /\ bridge = [t \in Tenants |-> NoBridge] /\ up = {} /\ deleted = [t \in Tenants |-> 0]
  /\ tenantOf \in [Pods -> Tenants]
  /\ proc = [p \in Pods |-> NoProcess]
  /\ iface = [p \in Pods |-> NoIface] /\ stopping = [p \in Pods |-> FALSE]
  /\ disturbed = {} /\ abandoned = {} /\ unfinished = {}
  /\ commands = 0 /\ events = 0

\* Users create a tenant, or delete it; the informer adds the event.
Change(t) ==
  /\ Happens
  /\ wanted' = IF t \in wanted THEN wanted \ {t} ELSE wanted \cup {t}
  /\ queue' = Append(queue, [kind |-> IF t \in wanted THEN "Delete" ELSE "Add", tenant |-> t])
  /\ UNCHANGED <<daemon, node, stores, bridges, proc, pods, ghosts>>

Step(p) ==
  \/ FirstLoad(p) \/ FirstCreate(p) \/ Load(p) \/ Create(p) \/ WriteStore(p)
  \/ FindBridge(p) \/ LinkAdd(p) \/ AddrAdd(p) \/ SetupVeth(p) \/ DelVeth(p)

Next ==
  \/ \E t \in Tenants : Change(t)
  \/ Daemon \/ DaemonCrash
  \/ \E p \in Pods : \/ \E o \in {"ADD", "DEL"} : Invoke(p, o)
                     \/ Step(p) \/ Kill(p)

Spec == Init /\ [][Next]_vars

-----------------------------------------------------------------------------
(* Properties.                                                             *)

Trusted(t) == t \notin disturbed

\* The pod has an address that the runtime has not asked to be given back.
Addressed(p) == iface[p].subnet > 0 /\ ~stopping[p]

\* No two pods on the node carry one address, whatever subnet has gone round, whatever
\* lock file a process has locked, and wherever commands, deletions and daemons have
\* stopped, unless the tenant of one was provisioned or deleted while it was in use, or
\* its store emptied.
AddressesApart ==
  \A p, q \in Pods :
    /\ p # q /\ Addressed(p) /\ Addressed(q)
    /\ Trusted(Here(p)) /\ Trusted(Here(q))
    => <<iface[p].subnet, iface[p].host>> # <<iface[q].subnet, iface[q].host>>

\* Somebody is about to put the gateway on the bridge of t.
BeingMade(t) == \E p \in Pods : Here(p) = t /\ proc[p].at = "addrAdd" /\ StillThere(p)

\* A running pod reaches its gateway: its interface is on the bridge, which is up and has
\* the gateway its default route names, in the subnet of its address.
GatewayServed ==
  \A p \in Pods :
    Runs(p) /\ Trusted(Here(p)) =>
      /\ iface[p].on = "yes" /\ iface[p].gateway = iface[p].subnet
      /\ \/ iface[p].gateway \in bridge[Here(p)] /\ Here(p) \in up
         \/ BeingMade(Here(p))
         \/ Here(p) \in unfinished

AtRest == queue = <<>> /\ At("idle") /\ \A p \in Pods : proc[p].at = "idle"

\* At rest, a tenant that is not wanted has left no subnet and no interface behind, and,
\* unless its deletion was abandoned, no bridge and no store; one that is wanted has a
\* store of its own subnet.  Disturbed tenants are excepted.
CleanRemoval ==
  AtRest => \A t \in Tenants \ disturbed :
    IF t \in wanted
      THEN mine[t] # 0 /\ file[t].subnet = mine[t]
      ELSE /\ mine[t] = 0 /\ \A p \in Pods : Here(p) = t => iface[p] = NoIface
           /\ t \notin abandoned => ~HasBridge(t) /\ Data(t).subnet = 0

=============================================================================
