------------------------------ MODULE PodStore ------------------------------
(***************************************************************************)
(* The list of pods of ONE node (pkg/network/ipam/pod_store.go): a JSON map *)
(* from pod names to tenants in podlist.json.  The daemon's pod informer    *)
(* enters a pod when it first sees it (handlePodAdd, under the file's       *)
(* flock); the CNI plugin, one process per call, looks the tenant up for    *)
(* ADD and DEL (getTenantPod) and takes the pod out in DEL (deletePod),     *)
(* both without the lock.  As nobody but the daemon's one handler goroutine *)
(* ever takes that lock, it excludes nothing and is left out here.          *)
(*                                                                         *)
(* Every load and every rewrite of the file is the sequence of system calls *)
(* of the code; rewriting truncates first.  What cmdAdd and cmdDel do       *)
(* to addresses and interfaces is module TenantIPAM; here it works or not.  *)
(***************************************************************************)
EXTENDS Naturals

CONSTANTS
  Pods,         \* pod objects of the Kubernetes API, of any namespace
  HostNetwork,  \* those with hostNetwork: the runtime calls no CNI for them
  Names,        \* pod names: two namespaces may use the same one
  NameOf,       \* NameOf[p] is the name of pod p
  Tenants,
  Annotation,   \* Annotation[p] is the tenant p's annotation names, or None
  DefaultTenant,
  None,
  Daemon,       \* the handler goroutine of the pod informer
  MaxFaults     \* BOUND: failures, kills and crashes of a behaviour

ASSUME PodsAssumption ==
  /\ HostNetwork \subseteq Pods
  /\ NameOf \in [Pods -> Names]
  /\ Annotation \in [Pods -> Tenants \cup {None}]
  /\ DefaultTenant \in Tenants
  /\ None \notin Tenants /\ None \notin Pods
  /\ Daemon \notin Pods
  /\ MaxFaults \in Nat

CniPods == Pods \ HostNetwork
Actors  == CniPods \cup {Daemon}

PodData == [Names -> Tenants \cup {None}]
NoPods  == [n \in Names |-> None]

File == [state : {"missing", "empty", "garbage", "whole"}, pods : PodData]
Unreadable(s) == [state |-> s, pods |-> NoPods]
Whole(m)      == [state |-> "whole", pods |-> m]

VARIABLES
  file,     \* podlist.json
  pc,       \* where an actor is
  phase,    \* what its load is for: to find a tenant, or to edit the list
  copy,     \* PodStore.Data of the actor
  cmd,      \* the CNI command a pod's process serves
  cur,      \* the pod whose Add event the daemon handles
  pending,  \* pods whose Add event the informer has not handed out yet
  api,      \* the pod object
  net,      \* the tenant whose bridge the pod's sandbox is plugged into
  torn,     \* two rewrites overlapped, or one was cut short: entries are lost
  sandbox,  \* pods with a sandbox: an ADD was tried and no DEL has succeeded
  delisted, \* pods that a DEL has taken out of the list
  faults

proc  == <<pc, phase, copy, cmd, cur>>
world == <<pending, api, net, sandbox, delisted>>
vars  == <<file, proc, world, torn, faults>>

Labels == {"idle", "read", "create", "fillEmpty", "attach", "release",
           "truncate", "fill", "unplug"}

TypeOK ==
  /\ file \in File
  /\ pc \in [Actors -> Labels]
  /\ phase \in [Actors -> {"none", "find", "edit"}]
  /\ copy \in [Actors -> PodData]
  /\ cmd \in [CniPods -> {"none", "ADD", "DEL"}]
  /\ cur \in Pods \cup {None}
  /\ pending \in SUBSET Pods
  /\ api \in [Pods -> {"live", "leaving", "gone"}]
  /\ net \in [CniPods -> Tenants \cup {None}]
  /\ sandbox \in SUBSET CniPods
  /\ torn \in BOOLEAN
  /\ delisted \in SUBSET CniPods
  /\ faults \in 0 .. MaxFaults

-----------------------------------------------------------------------------
(* The list.                                                               *)

\* Variants: the annotation is not looked at; the pod's name is entered.
IgnoresAnnotation(p) == DefaultTenant
EntersName(p) == NameOf[p]

\* handlePodAdd: the tenant of the annotation, the default one without it.
TenantOf(p) == IF Annotation[p] = None THEN DefaultTenant ELSE Annotation[p]

\* Variants: an edit starts from the empty list; DEL takes out every pod; the
\* handler enters nothing.
EditsOnlyOwn(a, m) ==
  IF a = Daemon THEN [NoPods EXCEPT ![NameOf[cur]] = TenantOf(cur)]
                ELSE [m EXCEPT ![NameOf[a]] = None]
RemovesAll(a, m)    == IF a = Daemon THEN [m EXCEPT ![NameOf[cur]] = TenantOf(cur)] ELSE NoPods
EntersNothing(a, m) == IF a = Daemon THEN m ELSE [m EXCEPT ![NameOf[a]] = None]

\* The edit of the loaded list: handlePodAdd enters, deletePod takes out.
Edit(a, m) ==
  IF a = Daemon THEN [m EXCEPT ![NameOf[cur]] = TenantOf(cur)]
                ELSE [m EXCEPT ![NameOf[a]] = None]

\* The list an actor has just loaded: LoadPodData fails on a file that does not
\* parse, the error is ignored, and the empty list of NewPodStore stays.
Loaded == IF file.state = "whole" THEN file.pods ELSE NoPods

Rewriting(a) == pc[a] \in {"truncate", "fill"}

Goto(a, l) == pc' = [pc EXCEPT ![a] = l]

\* The process ends, or the handler returns.
Exit(a) ==
  /\ Goto(a, "idle")
  /\ phase' = [phase EXCEPT ![a] = "none"]
  /\ copy' = [copy EXCEPT ![a] = NoPods]
  /\ cmd' = IF a = Daemon THEN cmd ELSE [cmd EXCEPT ![a] = "none"]
  /\ cur' = IF a = Daemon THEN None ELSE cur

Fault == faults < MaxFaults /\ faults' = faults + 1

\* The actor has list m in memory.  getTenantPod's caller retries until the pod
\* is in it; the edits go on to store it, except that a pod on the host's network
\* is not entered.
UseList(a, m) ==
  CASE phase[a] = "find" /\ m[NameOf[a]] = None ->
         Goto(a, "read") /\ UNCHANGED <<phase, copy, cmd, cur>>
    [] phase[a] = "find" /\ m[NameOf[a]] # None ->
         /\ Goto(a, IF cmd[a] = "ADD" THEN "attach" ELSE "release")
         /\ copy' = [copy EXCEPT ![a] = [NoPods EXCEPT ![NameOf[a]] = m[NameOf[a]]]]
         /\ UNCHANGED <<phase, cmd, cur>>
    [] phase[a] = "edit" /\ cur \in HostNetwork /\ a = Daemon ->
         Exit(a)
    [] OTHER ->
         /\ Goto(a, "truncate")
         /\ copy' = [copy EXCEPT ![a] = Edit(a, m)]
         /\ UNCHANGED <<phase, cmd, cur>>

-----------------------------------------------------------------------------
(* LoadPodData and StorePodData.                                           *)

\* os.ReadFile.  The load of an edit that starts while another actor is between
\* its load and the end of its store sees a list that is about to change.
Read(a) ==
  /\ pc[a] = "read"
  /\ IF file.state = "missing"
       THEN Goto(a, "create") /\ UNCHANGED <<phase, copy, cmd, cur>>
       ELSE UseList(a, Loaded)
  /\ torn' = (torn \/ (phase[a] = "edit" /\ \E b \in Actors : b # a /\ Rewriting(b)))
  /\ UNCHANGED <<file, world, faults>>

\* os.Create, which truncates a file that has come into being meanwhile.
Create(a) ==
  /\ pc[a] = "create"
  /\ file' = Unreadable("empty")
  /\ torn' = (torn \/ file.pods # NoPods)
  /\ Goto(a, "fillEmpty")
  /\ UNCHANGED <<phase, copy, cmd, cur, world, faults>>

\* f.Write("{}"): over a longer list it leaves text that does not parse.
FillEmpty(a) ==
  /\ pc[a] = "fillEmpty"
  /\ \/ /\ file.state # "garbage" /\ file.pods = NoPods
        /\ file' = Whole(NoPods)
     \/ /\ file.state \in {"whole", "garbage"}
        /\ file' = Unreadable("garbage")
  /\ torn' = (torn \/ file'.state = "garbage"
                   \/ (phase[a] = "edit" /\ \E b \in Actors : b # a /\ Rewriting(b)))
  /\ UseList(a, NoPods)
  /\ UNCHANGED <<world, faults>>

\* os.WriteFile: truncate ...
Truncate(a) ==
  /\ pc[a] = "truncate"
  /\ file' = Unreadable("empty")
  /\ delisted' = IF a = Daemon THEN delisted \ {cur} ELSE delisted \cup {a}
  /\ Goto(a, "fill")
  /\ UNCHANGED <<phase, copy, cmd, cur, pending, api, net, sandbox, torn, faults>>

\* ... and write.  Over the text of another writer, a shorter text leaves the
\* tail of the longer one.
Fill(a) ==
  /\ pc[a] = "fill"
  /\ \/ file' = Whole(copy[a])
     \/ /\ file.state = "garbage" \/ (file.pods # NoPods /\ file.pods # copy[a])
        /\ file' = Unreadable("garbage")
  /\ IF a = Daemon
       THEN Exit(a)
       ELSE Goto(a, "unplug") /\ UNCHANGED <<phase, copy, cmd, cur>>
  /\ UNCHANGED <<world, torn, faults>>

-----------------------------------------------------------------------------
(* cmdAdd and cmdDel.                                                      *)

\* The runtime starts ADD for a living pod that has no network, and DEL for any
\* sandbox: as the pod is deleted, to replace the sandbox of a pod that lives on,
\* or to clear up after an ADD that failed.
Invoke(p, c) ==
  /\ pc[p] = "idle"
  /\ \/ c = "ADD" /\ api[p] = "live" /\ net[p] = None
     \/ c = "DEL" /\ p \in sandbox
  /\ sandbox' = sandbox \cup {p}
  /\ Goto(p, "read")
  /\ phase' = [phase EXCEPT ![p] = "find"]
  /\ cmd' = [cmd EXCEPT ![p] = c]
  /\ UNCHANGED <<file, copy, cur, pending, api, net, delisted, torn, faults>>

\* The address and the veth of the tenant found in the list.
Attach(p) ==
  /\ pc[p] = "attach"
  /\ \/ net' = [net EXCEPT ![p] = copy[p][NameOf[p]]] /\ UNCHANGED faults
     \/ Fault /\ UNCHANGED net
  /\ Exit(p)
  /\ UNCHANGED <<file, pending, api, sandbox, delisted, torn>>

\* ReleaseIP and GetNS; only if both work does DEL go on to deletePod.
Release(p) ==
  /\ pc[p] = "release"
  /\ \/ /\ Goto(p, "read")
        /\ phase' = [phase EXCEPT ![p] = "edit"]
        /\ UNCHANGED <<copy, cmd, cur, faults>>
     \/ Exit(p) /\ Fault
  /\ UNCHANGED <<file, world, torn>>

\* DelVeth, the last step of DEL.  It fails when there is no interface to delete
\* (netlink's "Link not found" is not os.ErrNotExist).
Unplug(p) ==
  /\ pc[p] = "unplug"
  /\ \/ /\ net[p] # None
        /\ net' = [net EXCEPT ![p] = None]
        /\ sandbox' = sandbox \ {p}
        /\ UNCHANGED faults
     \/ /\ net[p] = None \/ faults < MaxFaults
        /\ faults' = IF net[p] = None THEN faults ELSE faults + 1
        /\ UNCHANGED <<net, sandbox>>
  /\ Exit(p)
  /\ UNCHANGED <<file, pending, api, delisted, torn>>

\* The runtime kills the process, or the retry of getTenantPod gives up.
Kill(p) ==
  /\ pc[p] # "idle"
  /\ Fault
  /\ Exit(p)
  /\ torn' = (torn \/ pc[p] = "fill")
  /\ UNCHANGED <<file, world>>

-----------------------------------------------------------------------------
(* The API, the informer and the daemon.                                   *)

\* Somebody deletes the pod.  (Nothing here happens when a pod on the host's
\* network goes: handlePodDelete does nothing, and no CNI runs for it.)
DeletePod(p) ==
  /\ api[p] = "live"
  /\ api' = [api EXCEPT ![p] = "leaving"]
  /\ UNCHANGED <<file, proc, pending, net, sandbox, delisted, torn, faults>>

\* The kubelet lets go of a pod once it has no sandbox any more.
ForgetPod(p) ==
  /\ api[p] = "leaving"
  /\ p \notin sandbox
  /\ api' = [api EXCEPT ![p] = "gone"]
  /\ UNCHANGED <<file, proc, pending, net, sandbox, delisted, torn, faults>>

\* The informer calls handlePodAdd, once for every pod: resyncs and updates go to
\* handlePodUpdate, which is empty, as handlePodDelete is.
HandlePodAdd(p) ==
  /\ pc[Daemon] = "idle"
  /\ p \in pending
  /\ pending' = pending \ {p}
  /\ cur' = p
  /\ phase' = [phase EXCEPT ![Daemon] = "edit"]
  /\ Goto(Daemon, "read")
  /\ UNCHANGED <<file, copy, cmd, api, net, sandbox, delisted, torn, faults>>

\* The daemon is restarted; the new one's informer lists every pod there is.
DaemonRestart ==
  /\ Fault
  /\ Exit(Daemon)
  /\ pending' = {p \in Pods : api[p] \in {"live", "leaving"}}
  /\ torn' = (torn \/ pc[Daemon] = "fill")
  /\ UNCHANGED <<file, api, net, sandbox, delisted>>

-----------------------------------------------------------------------------
\* The pods have been created; their Add events are under way.
Init ==
  /\ file = Unreadable("missing")
  /\ pc = [a \in Actors |-> "idle"]
  /\ phase = [a \in Actors |-> "none"]
  /\ copy = [a \in Actors |-> NoPods]
  /\ cmd = [p \in CniPods |-> "none"]
  /\ cur = None
  /\ pending = Pods
  /\ api = [p \in Pods |-> "live"]
  /\ net = [p \in CniPods |-> None]
  /\ sandbox = {}
  /\ torn = FALSE
  /\ delisted = {}
  /\ faults = 0

\* What an actor does by itself once it runs.
Step(a) ==
  \/ Read(a) \/ Create(a) \/ FillEmpty(a) \/ Truncate(a) \/ Fill(a)
  \/ a # Daemon /\ (Attach(a) \/ Release(a) \/ Unplug(a))

Next ==
  \/ \E a \in Actors : Step(a)
  \/ \E p \in CniPods : Kill(p) \/ DeletePod(p) \/ ForgetPod(p) \/ \E c \in {"ADD", "DEL"} : Invoke(p, c)
  \/ \E p \in Pods : HandlePodAdd(p)
  \/ DaemonRestart

Spec == Init /\ [][Next]_vars

\* Started processes keep running, the informer hands out its events, and the
\* kubelet does not give a pod up: it repeats ADD and DEL.
Fairness ==
  /\ \A a \in Actors : WF_vars(Step(a))
  /\ \A p \in Pods : WF_vars(HandlePodAdd(p))
  /\ \A p \in CniPods : /\ WF_vars(Invoke(p, "ADD") /\ api[p] = "live")
                        /\ WF_vars(Invoke(p, "DEL") /\ api[p] = "leaving")
                        /\ WF_vars(ForgetPod(p))

FairSpec == Spec /\ Fairness

-----------------------------------------------------------------------------
(* Properties.                                                             *)

\* The list the file holds once the rewrite in progress, if any, is done.
List ==
  IF \E a \in Actors : pc[a] = "fill"
    THEN copy[CHOOSE a \in Actors : pc[a] = "fill"]
    ELSE file.pods

\* A pod is plugged into the network of its own tenant: the one of its annotation,
\* or the default one (when no two namespaces use its name).
OwnTenantsNetwork ==
  \A p \in CniPods :
    net[p] \in {None, IF Annotation[p] = None THEN DefaultTenant ELSE Annotation[p]}

\* As long as no two rewrites overlap and none is cut short, a rewrite changes the
\* entry of one pod: the one that is handled, or the one whose DEL runs.
OneEntryAtATime ==
  [][~torn' => \A n \in Names : List'[n] # List[n] =>
       \/ cur # None /\ n = NameOf[cur] /\ List'[n] = TenantOf(cur)
       \/ \E p \in CniPods : n = NameOf[p] /\ cmd[p] = "DEL" /\ List'[n] = None]_vars

\* A pod that has its network and has not been through DEL is in the list: its DEL
\* will find the tenant.
PluggedPodIsListed ==
  ~torn => \A p \in CniPods :
             net[p] # None /\ p \notin delisted => List[NameOf[p]] = TenantOf(p)

\* Every pod gets its network, unless it is deleted first, entries were lost to
\* overlapping rewrites, or a DEL had taken the living pod out of the list.
PodServed ==
  \A p \in CniPods :
    api[p] = "live" ~> (net[p] # None \/ api[p] # "live" \/ torn \/ p \in delisted)

\* The same, with nothing excused but a DEL: no entry is lost to other processes.
PodServedDespiteRaces ==
  \A p \in CniPods :
    api[p] = "live" ~> (net[p] # None \/ api[p] # "live" \/ p \in delisted)

\* A pod that is being deleted is torn down in the end, unless its entry was lost to
\* overlapping rewrites: DEL can be repeated after it has failed.
DelCompletes ==
  \A p \in CniPods : api[p] = "leaving" ~> (api[p] = "gone" \/ torn)

=============================================================================
