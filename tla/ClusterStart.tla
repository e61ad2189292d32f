---------------------------- MODULE ClusterStart ----------------------------
(***************************************************************************)
(* The daemons of a cluster coming up (cmd/tenantcnid/main.go,              *)
(* pkg/crd/register.go, pkg/k8s/kube.go), and the default tenant they form  *)
(* a mesh of.  Every daemon registers the resource type, lists the nodes,   *)
(* writes its NodeStore anew, creates the default Tenant object unless      *)
(* another one has, and starts its controller.  Nodes are added to the      *)
(* cluster at any time; a daemon that dies starts over.                     *)
(*                                                                         *)
(* CRD: the API server takes objects of a new type only some time after the *)
(* type was registered ("established").  A call of the start-up that fails  *)
(* for any other reason ends the daemon, by log.Fatal or by the nil it      *)
(* left: Crash.  Of the calls of the handlers some end it, the errors of    *)
(* others are dropped: VxlanMesh.                                           *)
(***************************************************************************)
EXTENDS VxlanMesh

CONSTANT Founders   \* nodes of the cluster when the DaemonSet is deployed

ASSUME FoundersAssumption == Founders \subseteq Nodes

VARIABLES
  cluster,    \* the Node objects
  crd,        \* the resource type
  nodeList,   \* what n's daemon got from GetNodes, until it has used it
  founders    \* nodes that were there when the first of them asked

startVars == <<cluster, crd, nodeList, founders>>
vars == <<meshVars, startVars>>

StartLabels == {"register", "store", "tenant", "controller"}

TypeOK ==
  /\ MeshTypeOK
  /\ pc \in [Nodes -> {"absent"} \cup StartLabels \cup WorkerLabels]
  /\ cluster \in SUBSET Nodes /\ founders \in SUBSET Nodes
  /\ crd \in {"absent", "registered", "established"}
  /\ nodeList \in [Nodes -> SUBSET Nodes]

-----------------------------------------------------------------------------
(* main().                                                                 *)

\* Variant: a type that is there already is an error.
RefusesExisting(n) ==
  /\ pc[n] = "register" /\ crd = "absent"
  /\ crd' = "registered"
  /\ Goto(n, "store")
  /\ UNCHANGED <<object, informer, index, files, kernel, failed, bounds,
                 cluster, nodeList, founders>>

\* RegisterTenantCRD; that the type is there already is fine.
RegisterTenantCRD(n) ==
  /\ pc[n] = "register"
  /\ crd' = IF crd = "absent" THEN "registered" ELSE crd
  /\ Goto(n, "store")
  /\ UNCHANGED <<object, informer, index, files, kernel, failed, bounds,
                 cluster, nodeList, founders>>

\* Variant: the loop runs once too often.
OneSubnetMore == [i \in 1 .. SubnetCount + 1 |-> i]

\* What ListSubnets makes of the node's CIDR.
ListSubnets == [i \in 1 .. SubnetCount |-> i]

\* NewNodeStore, AddNodeIP, AddNodeCIDR and AddAvailableTenantList: a store without
\* tenants, whatever the file held.  (Nobody else reads it, so its three rewrites are
\* one step.)
FreshNodeStore == [avail |-> ListSubnets, mine |-> 0]

\* GetNodes, and the NodeStore is written.
WriteNodeStore(n) ==
  /\ pc[n] = "store"
  /\ nodeList' = [nodeList EXCEPT ![n] = cluster]
  /\ founders' = IF founders = {} THEN cluster ELSE founders
  /\ subnets' = [subnets EXCEPT ![n] = FreshNodeStore]
  /\ Goto(n, "tenant")
  /\ UNCHANGED <<object, informer, index, made, store, kernel, failed, bounds, cluster, crd>>

Orders(S) == {s \in [1 .. Cardinality(S) -> S] : \A i, j \in DOMAIN s : s[i] = s[j] => i = j}

\* Variant: the object is created with the own node only.
ListsItself(n) ==
  IF log = <<>> THEN log' = <<<<Listed(n)>>>> ELSE UNCHANGED log

\* The object is created with every node of the list; that it exists already is fine.
CreateTenant(n) ==
  IF log = <<>>
    THEN \E s \in Orders(nodeList[n]) : log' = <<[i \in DOMAIN s |-> Listed(s[i])]>>
    ELSE UNCHANGED log

\* RegisterDefaultTenant.  Before the type is established the API knows no such
\* resource, and log.Fatal ends the daemon.
RegisterDefaultTenant(n) ==
  /\ pc[n] = "tenant"
  /\ \/ /\ crd = "established"
        /\ CreateTenant(n)
        /\ Goto(n, "controller")
        /\ UNCHANGED <<informer, index, failed>>
     \/ /\ crd # "established"
        /\ Restart(n)
        /\ UNCHANGED log
  /\ nodeList' = [nodeList EXCEPT ![n] = {}]
  /\ UNCHANGED <<misplaced, files, kernel, bounds, cluster, crd, founders>>

\* GetConfigMap, EnableIPForwarding, NewController and Run: the informer lists the
\* object, handleAdd enters it, and once the cache has synced the worker starts.
StartController(n) ==
  /\ pc[n] = "controller"
  /\ seen' = [seen EXCEPT ![n] = Len(log)]
  /\ queue' = [queue EXCEPT ![n] = <<Event("Add", Len(log))>>]
  /\ Goto(n, "idle")
  /\ UNCHANGED <<object, index, files, kernel, failed, bounds, startVars>>

Start(n) ==
  \/ RegisterTenantCRD(n) \/ WriteNodeStore(n)
  \/ RegisterDefaultTenant(n) \/ StartController(n)

\* What the worker of n does by itself, and what its informer does.
Work(n) ==
  \/ UNCHANGED startVars /\ Add(n)
  \/ UNCHANGED startVars /\ Publish(n)
  \/ UNCHANGED startVars /\ CreateVxlan(n)
  \/ UNCHANGED startVars /\ UpdateMembership(n)
  \/ UNCHANGED startVars /\ Update(n)
  \/ UNCHANGED startVars /\ Delete(n)

Inform(n) == UNCHANGED startVars /\ Deliver(n)

-----------------------------------------------------------------------------
(* The rest of the world.                                                  *)

Running(n) == pc[n] # "absent"

\* The API server establishes the type.
Establish ==
  /\ crd = "registered"
  /\ crd' = "established"
  /\ UNCHANGED <<meshVars, cluster, nodeList, founders>>

\* A node joins the cluster; the DaemonSet starts a daemon on it.
AddNode(n) ==
  /\ n \notin cluster
  /\ cluster' = cluster \cup {n}
  /\ Goto(n, "register")
  /\ UNCHANGED <<object, informer, index, files, kernel, failed, bounds, crd, nodeList, founders>>

Crash(n) ==
  /\ Running(n) /\ pc[n] # "register"
  /\ Fault
  /\ Restart(n)
  /\ nodeList' = [nodeList EXCEPT ![n] = {}]
  /\ UNCHANGED <<object, files, kernel, cluster, crd, founders>>

-----------------------------------------------------------------------------
Init ==
  /\ MeshInit
  /\ pc = [n \in Nodes |-> IF n \in Founders THEN "register" ELSE "absent"]
  /\ cluster = Founders /\ founders = {}
  /\ crd = "absent"
  /\ nodeList = [n \in Nodes |-> {}]

Next ==
  \/ Establish
  \/ \E n \in Nodes :
       \/ Start(n) \/ Work(n) \/ Inform(n)
       \/ AddNode(n) \/ Crash(n)
       \/ UNCHANGED startVars /\ Join(n)
       \/ UNCHANGED startVars /\ Leave(n)

Spec == Init /\ [][Next]_vars

\* The API server establishes the type and delivers its changes, and every daemon
\* that runs goes on: the kubelet starts it again whenever it ends.
FairSpec ==
  /\ Spec
  /\ WF_vars(Establish)
  /\ \A n \in Nodes : /\ WF_vars(Start(n))
                      /\ WF_vars(Work(n))
                      /\ WF_vars(Inform(n))

-----------------------------------------------------------------------------
(* Properties.                                                             *)

Quiet == \A n \in cluster : pc[n] = "idle" /\ queue[n] = <<>> /\ seen[n] = Len(log)

Published(n) == Current[Index(Current, n)].vtep

\* Nodes of the cluster that the object lists and whose daemon did not give up.
Members == {n \in cluster \ failed : Has(Current, n)}

\* The other members whose last update made all the entries for m.
Informed(m) == {n \in Members \ {m} : m \notin gaps[n]}

\* At rest, what a member has published is what its store says, and every other
\* member has entered exactly that, unless a call of its last update failed; so it
\* reaches the member, unless the device there is older than its store and has kept
\* another MAC address, or was left down by an InitVxlanDevice that failed.
MeshAtRest ==
  Quiet /\ ~misplaced =>
    \A m \in Members :
      /\ Published(m) = store[m]
      /\ \A n \in Informed(m) :
           /\ Entered(n, store[m].ip, store[m].mac, m)
           /\ device[m] = store[m].mac /\ m \in raised => Reaches(n, m)

\* At rest, the members whose devices are up are reached by every member that could
\* make its entries for them.
MembersReach ==
  Quiet => \A m \in Members \cap raised : \A n \in Informed(m) : Reaches(n, m)

\* Whichever daemon creates the object, and whatever is added to the cluster
\* meanwhile: at rest every node that was there when the first daemon listed the
\* nodes is in the object and has its VTEP published, unless users took nodes off
\* or its daemon gave up.
FoundersServed ==
  Quiet /\ changes = 0 => founders \ failed \subseteq {n \in Members : Published(n) # Unset}

\* The object keeps what VtepRegistry promises its readers, as long as no daemon
\* writes at an index that a change by users has made another node's.
Registry == INSTANCE VtepRegistry WITH list <- Current
KeepsRegistry == Registry!Init /\ [][Registry!Next \/ misplaced']_Current

\* The cluster comes to rest after the last change and fault.
Settles == []<>Quiet

=============================================================================
