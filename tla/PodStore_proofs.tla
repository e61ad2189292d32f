--------------------------- MODULE PodStore_proofs ---------------------------
(***************************************************************************)
(* Proofs about PodStore, for any set of pods, whatever the names, and any  *)
(* number of failures.                                                      *)
(***************************************************************************)
EXTENDS PodStore, TLAPS

\* What an actor is doing tells why: only DEL edits the list for a pod, and the
\* daemon edits it for the pod of its event.
ProcInv ==
  /\ \A a \in Actors : pc[a] # "idle" => phase[a] \in {"find", "edit"}
  /\ \A a \in Actors : pc[a] \in {"truncate", "fill", "unplug"} => phase[a] = "edit"
  /\ \A p \in CniPods : pc[p] # "idle" => cmd[p] \in {"ADD", "DEL"}
  /\ \A p \in CniPods : pc[p] = "release" \/ phase[p] = "edit" => cmd[p] = "DEL"
  /\ pc[Daemon] # "idle" => phase[Daemon] = "edit" /\ cur \in Pods

TypeInv == TypeOK /\ ProcInv

-----------------------------------------------------------------------------
(* What the constants give.                                                 *)

\* Pods and their tenants are in the model's sets.
LEMMA Constants ==
  /\ CniPods \subseteq Pods /\ Daemon \in Actors /\ Daemon \notin CniPods
  /\ \A a \in Actors : a # Daemon => a \in CniPods
  /\ \A p \in Pods : NameOf[p] \in Names /\ TenantOf(p) \in Tenants
  /\ None \notin Tenants /\ None \notin Pods
  /\ NoPods \in PodData
  /\ \A n \in Names : NoPods[n] = None
BY PodsAssumption DEF CniPods, Actors, TenantOf, NoPods, PodData

\* Editing a list gives a list.
LEMMA EditType ==
  ASSUME TypeInv, NEW a \in Actors, NEW m \in PodData, pc[a] # "idle"
  PROVE  Edit(a, m) \in PodData
<1>1. CASE a = Daemon
  BY <1>1, Constants DEF TypeInv, ProcInv, Edit, PodData
<1>2. CASE a # Daemon
  BY <1>2, Constants DEF Edit, PodData
<1> QED
  BY <1>1, <1>2

\* What an actor does with a list it has loaded: it loads again, goes on with the
\* tenant it found, leaves, or stores the list it has edited.
LEMMA UseListCases ==
  ASSUME TypeInv, NEW a \in Actors, pc[a] # "idle", NEW m \in PodData, UseList(a, m)
  PROVE  \/ /\ phase[a] = "find" /\ a \in CniPods
            /\ Goto(a, "read") /\ UNCHANGED <<phase, copy, cmd, cur>>
         \/ /\ phase[a] = "find" /\ a \in CniPods /\ m[NameOf[a]] \in Tenants
            /\ \/ cmd[a] = "ADD" /\ Goto(a, "attach")
               \/ cmd[a] = "DEL" /\ Goto(a, "release")
            /\ copy' = [copy EXCEPT ![a] = [NoPods EXCEPT ![NameOf[a]] = m[NameOf[a]]]]
            /\ UNCHANGED <<phase, cmd, cur>>
         \/ a = Daemon /\ Exit(a)
         \/ /\ phase[a] = "edit" /\ Goto(a, "truncate")
            /\ a = Daemon => cur \in CniPods
            /\ copy' = [copy EXCEPT ![a] = Edit(a, m)]
            /\ UNCHANGED <<phase, cmd, cur>>
<1>0. phase[a] \in {"find", "edit"} /\ (phase[a] = "find" => a \in CniPods)
  BY Constants DEF TypeInv, ProcInv
<1>1. CASE phase[a] = "find" /\ m[NameOf[a]] = None
  BY <1>0, <1>1 DEF UseList
<1>2. CASE phase[a] = "find" /\ m[NameOf[a]] # None
  <2>1. m[NameOf[a]] \in Tenants /\ cmd[a] \in {"ADD", "DEL"}
    BY <1>0, <1>2, Constants DEF PodData, TypeInv, ProcInv
  <2> QED
    BY <1>0, <1>2, <2>1 DEF UseList
<1>3. CASE phase[a] = "edit" /\ cur \in HostNetwork /\ a = Daemon
  BY <1>3 DEF UseList
<1>4. CASE phase[a] = "edit" /\ ~(cur \in HostNetwork /\ a = Daemon)
  <2>1. a = Daemon => cur \in CniPods
    BY <1>4 DEF TypeInv, ProcInv, CniPods
  <2> QED
    BY <1>4, <2>1 DEF UseList
<1> QED
  BY <1>0, <1>1, <1>2, <1>3, <1>4

-----------------------------------------------------------------------------
(* Types.                                                                   *)

\* The part of the types and of ProcInv that is about the actors' own state.
ProcTypeOK ==
  /\ pc \in [Actors -> Labels]
  /\ phase \in [Actors -> {"none", "find", "edit"}]
  /\ copy \in [Actors -> PodData]
  /\ cmd \in [CniPods -> {"none", "ADD", "DEL"}]
  /\ cur \in Pods \cup {None}

\* An actor that ends leaves the others as they are.
LEMMA ExitType ==
  ASSUME ProcTypeOK, ProcInv, NEW a \in Actors, Exit(a)
  PROVE  ProcTypeOK' /\ ProcInv'
<1>1. ProcTypeOK'
  BY Constants DEF ProcTypeOK, Exit, Goto, Labels
<1>2. pc' = [pc EXCEPT ![a] = "idle"] /\ phase' = [phase EXCEPT ![a] = "none"]
  BY DEF Exit, Goto
<1>3. CASE a = Daemon
  BY <1>1, <1>2, <1>3, Constants DEF ProcTypeOK, ProcInv, Exit
<1>4. CASE a # Daemon
  BY <1>1, <1>2, <1>4, Constants DEF ProcTypeOK, ProcInv, Exit
<1> QED
  BY <1>1, <1>3, <1>4

\* A step of one actor to a place its phase allows.
LEMMA GotoType ==
  ASSUME ProcTypeOK, ProcInv, NEW a \in Actors, NEW l \in Labels, Goto(a, l),
         UNCHANGED <<phase, cmd, cur>>, pc[a] # "idle",
         l \in {"truncate", "fill", "unplug"} => phase[a] = "edit",
         a # Daemon /\ l = "release" => cmd[a] = "DEL",
         copy' \in [Actors -> PodData]
  PROVE  ProcTypeOK' /\ ProcInv'
<1>1. pc' = [pc EXCEPT ![a] = l] /\ ProcTypeOK'
  BY DEF ProcTypeOK, Goto
<1> QED
  BY <1>1, Constants DEF ProcTypeOK, ProcInv

\* Going on with a list keeps the types.
LEMMA UseListType ==
  ASSUME TypeInv, NEW a \in Actors, pc[a] # "idle", NEW m \in PodData, UseList(a, m)
  PROVE  ProcTypeOK' /\ ProcInv'
<1>0. ProcTypeOK /\ ProcInv
  BY DEF TypeInv, TypeOK, ProcTypeOK
<1>1. CASE phase[a] = "find" /\ Goto(a, "read") /\ UNCHANGED <<phase, copy, cmd, cur>>
  BY <1>0, <1>1, GotoType DEF Labels, ProcTypeOK
<1>2. CASE /\ phase[a] = "find" /\ a \in CniPods /\ m[NameOf[a]] \in Tenants
           /\ \/ cmd[a] = "ADD" /\ Goto(a, "attach")
              \/ cmd[a] = "DEL" /\ Goto(a, "release")
           /\ copy' = [copy EXCEPT ![a] = [NoPods EXCEPT ![NameOf[a]] = m[NameOf[a]]]]
           /\ UNCHANGED <<phase, cmd, cur>>
  <2>1. [NoPods EXCEPT ![NameOf[a]] = m[NameOf[a]]] \in PodData
    BY <1>2, Constants DEF PodData
  <2>2. copy' \in [Actors -> PodData]
    BY <1>0, <1>2, <2>1 DEF ProcTypeOK
  <2> QED
    BY <1>0, <1>2, <2>2, GotoType DEF Labels
<1>3. CASE a = Daemon /\ Exit(a)
  BY <1>0, <1>3, ExitType
<1>4. CASE /\ phase[a] = "edit" /\ Goto(a, "truncate")
           /\ copy' = [copy EXCEPT ![a] = Edit(a, m)]
           /\ UNCHANGED <<phase, cmd, cur>>
  <2>1. copy' \in [Actors -> PodData]
    BY <1>0, <1>4, EditType DEF ProcTypeOK
  <2> QED
    BY <1>0, <1>4, <2>1, GotoType DEF Labels
<1> QED
  BY <1>1, <1>2, <1>3, <1>4, UseListCases

\* The file after any step that writes it.
LEMMA FileType ==
  /\ \A s \in {"missing", "empty", "garbage"} : Unreadable(s) \in File
  /\ \A m \in PodData : Whole(m) \in File
BY Constants DEF File, Unreadable, Whole

\* Every step of the actors, the runtime, the API and the informer keeps the types.
LEMMA TypeStep == ASSUME TypeInv, [Next]_vars PROVE TypeInv'
<1> USE DEF TypeInv
<1>0. ProcTypeOK /\ file.pods \in PodData /\ Loaded \in PodData /\ NoPods \in PodData
  BY Constants DEF TypeOK, ProcTypeOK, File, Loaded
<1>f. ASSUME Fault PROVE faults' \in 0 .. MaxFaults
  BY <1>f, PodsAssumption DEF Fault, TypeOK
<1> DEFINE WorldOK == /\ file \in File /\ pending \in SUBSET Pods
                      /\ api \in [Pods -> {"live", "leaving", "gone"}]
                      /\ net \in [CniPods -> Tenants \cup {None}]
                      /\ sandbox \in SUBSET CniPods /\ torn \in BOOLEAN
                      /\ delisted \in SUBSET CniPods /\ faults \in 0 .. MaxFaults
<1>w. WorldOK /\ (ProcTypeOK' /\ WorldOK' => TypeOK')
  BY DEF TypeOK, ProcTypeOK
<1>1. CASE UNCHANGED vars
  BY <1>1, <1>w, <1>0 DEF vars, proc, world, TypeOK, ProcInv, ProcTypeOK
<1>2. ASSUME NEW a \in Actors, Read(a) PROVE TypeInv'
  <2>1. WorldOK'
    BY <1>2, <1>w DEF Read, world
  <2>2. CASE Goto(a, "create") /\ UNCHANGED <<phase, copy, cmd, cur>>
    BY <1>0, <1>2, <1>w, <2>1, <2>2, GotoType DEF Read, Labels, ProcTypeOK
  <2>3. CASE UseList(a, Loaded)
    BY <1>0, <1>2, <1>w, <2>1, <2>3, UseListType DEF Read
  <2> QED
    BY <1>2, <2>2, <2>3 DEF Read
<1>3. ASSUME NEW a \in Actors, Create(a) PROVE TypeInv'
  <2>1. WorldOK'
    BY <1>3, <1>w, FileType DEF Create, world
  <2> QED
    BY <1>0, <1>3, <1>w, <2>1, GotoType DEF Create, Labels, ProcTypeOK
<1>4. ASSUME NEW a \in Actors, FillEmpty(a) PROVE TypeInv'
  <2>1. WorldOK'
    BY <1>0, <1>4, <1>w, FileType DEF FillEmpty, world
  <2> QED
    BY <1>0, <1>4, <1>w, <2>1, UseListType DEF FillEmpty
<1>5. ASSUME NEW a \in Actors, Truncate(a) PROVE TypeInv'
  <2>1. WorldOK'
    BY <1>5, <1>w, FileType, Constants DEF Truncate
  <2>2. phase[a] = "edit"
    BY <1>5 DEF Truncate, ProcInv
  <2> QED
    BY <1>0, <1>5, <1>w, <2>1, <2>2, GotoType DEF Truncate, Labels, ProcTypeOK
<1>6. ASSUME NEW a \in Actors, Fill(a) PROVE TypeInv'
  <2>1. WorldOK'
    BY <1>0, <1>6, <1>w, FileType DEF Fill, world, ProcTypeOK
  <2>2. CASE Exit(a)
    BY <1>0, <1>w, <2>1, <2>2, ExitType
  <2>3. CASE Goto(a, "unplug") /\ UNCHANGED <<phase, copy, cmd, cur>>
    <3>1. phase[a] = "edit" /\ pc[a] # "idle"
      BY <1>6 DEF Fill, ProcInv
    <3> QED
      BY <1>0, <1>w, <2>1, <2>3, <3>1, GotoType DEF Labels, ProcTypeOK
  <2> QED
    BY <1>6, <2>2, <2>3 DEF Fill
<1>7. ASSUME NEW p \in CniPods, Attach(p) PROVE TypeInv'
  <2>1. p \in Actors /\ copy[p][NameOf[p]] \in Tenants \cup {None}
    BY <1>0, Constants DEF Actors, ProcTypeOK, PodData
  <2>2. WorldOK'
    BY <1>7, <1>w, <1>f, <2>1 DEF Attach
  <2> QED
    BY <1>0, <1>7, <1>w, <2>1, <2>2, ExitType DEF Attach
<1>8. ASSUME NEW p \in CniPods, Release(p) PROVE TypeInv'
  <2>1. p \in Actors /\ p # Daemon
    BY Constants DEF Actors
  <2>2. WorldOK'
    BY <1>8, <1>w, <1>f DEF Release, world
  <2>3. CASE Exit(p)
    BY <1>0, <1>w, <2>1, <2>2, <2>3, ExitType
  <2>4. CASE Goto(p, "read") /\ phase' = [phase EXCEPT ![p] = "edit"] /\ UNCHANGED <<copy, cmd, cur>>
    <3>1. cmd[p] = "DEL"
      BY <1>8 DEF Release, ProcInv
    <3>2. pc' = [pc EXCEPT ![p] = "read"] /\ ProcTypeOK'
      BY <1>0, <2>1, <2>4 DEF ProcTypeOK, Goto, Labels
    <3>3. ProcInv'
      BY <1>0, <2>1, <2>4, <3>1, <3>2, Constants DEF ProcTypeOK, ProcInv
    <3> QED
      BY <1>w, <2>2, <3>2, <3>3
  <2> QED
    BY <1>8, <2>3, <2>4 DEF Release
<1>9. ASSUME NEW p \in CniPods, Unplug(p) PROVE TypeInv'
  <2>1. p \in Actors
    BY DEF Actors
  <2>2. WorldOK'
    BY <1>9, <1>w, PodsAssumption DEF Unplug
  <2> QED
    BY <1>0, <1>9, <1>w, <2>1, <2>2, ExitType DEF Unplug
<1>10. ASSUME NEW p \in CniPods, Kill(p) PROVE TypeInv'
  <2>1. p \in Actors
    BY DEF Actors
  <2>2. WorldOK'
    BY <1>10, <1>w, <1>f DEF Kill, world
  <2> QED
    BY <1>0, <1>10, <1>w, <2>1, <2>2, ExitType DEF Kill
<1>11. ASSUME NEW p \in CniPods, DeletePod(p) \/ ForgetPod(p) PROVE TypeInv'
  <2>1. ProcTypeOK' /\ ProcInv'
    BY <1>0, <1>11 DEF DeletePod, ForgetPod, proc, ProcTypeOK, ProcInv
  <2>2. WorldOK'
    BY <1>11, <1>w DEF DeletePod, ForgetPod
  <2> QED
    BY <1>w, <2>1, <2>2
<1>12. ASSUME NEW p \in CniPods, NEW c \in {"ADD", "DEL"}, Invoke(p, c) PROVE TypeInv'
  <2>1. p \in Actors /\ p # Daemon
    BY Constants DEF Actors
  <2>2. WorldOK'
    BY <1>12, <1>w DEF Invoke
  <2>3. /\ pc' = [pc EXCEPT ![p] = "read"] /\ phase' = [phase EXCEPT ![p] = "find"]
        /\ ProcTypeOK'
    BY <1>0, <1>12, <2>1 DEF Invoke, Goto, ProcTypeOK, Labels
  <2>4. ProcInv'
    BY <1>0, <1>12, <2>1, <2>3, Constants DEF Invoke, ProcTypeOK, ProcInv
  <2> QED
    BY <1>w, <2>2, <2>3, <2>4
<1>13. ASSUME NEW p \in Pods, HandlePodAdd(p) PROVE TypeInv'
  <2>1. WorldOK'
    BY <1>13, <1>w DEF HandlePodAdd
  <2>2. /\ pc' = [pc EXCEPT ![Daemon] = "read"] /\ phase' = [phase EXCEPT ![Daemon] = "edit"]
        /\ ProcTypeOK'
    BY <1>0, <1>13, Constants DEF HandlePodAdd, Goto, ProcTypeOK, Labels
  <2>3. ProcInv'
    BY <1>0, <1>13, <2>2, Constants DEF HandlePodAdd, ProcTypeOK, ProcInv
  <2> QED
    BY <1>w, <2>1, <2>2, <2>3
<1>14. ASSUME DaemonRestart PROVE TypeInv'
  <2>1. WorldOK'
    BY <1>14, <1>w, <1>f DEF DaemonRestart
  <2> QED
    BY <1>0, <1>14, <1>w, <2>1, Constants, ExitType DEF DaemonRestart
<1> QED
  BY <1>1, <1>2, <1>3, <1>4, <1>5, <1>6, <1>7, <1>8, <1>9, <1>10, <1>11, <1>12, <1>13, <1>14, Constants
     DEF Next, Step

\* The types hold at the start.
LEMMA TypeInit == Init => TypeInv
<1> SUFFICES ASSUME Init PROVE TypeInv
  OBVIOUS
<1>1. file \in File
  BY FileType DEF Init
<1>2. 0 \in 0 .. MaxFaults
  BY PodsAssumption
<1>3. TypeOK
  BY <1>1, <1>2, Constants DEF Init, TypeOK, Labels
<1>4. ProcInv
  BY Constants DEF Init, ProcInv, Actors
<1> QED
  BY <1>3, <1>4 DEF TypeInv

\* The invariant that makes TypeOK inductive holds in every reachable state.
LEMMA TypeInvHolds == Spec => []TypeInv
BY TypeInit, TypeStep, PTL DEF Spec

\* TypeOK: every variable keeps its type; in particular the daemon has a pod
\* whenever it edits the list, so the list only ever gets pods' tenants.
THEOREM TypeCorrect == Spec => []TypeOK
<1>1. TypeInv => TypeOK
  BY DEF TypeInv
<1> QED
  BY <1>1, TypeInvHolds, PTL

-----------------------------------------------------------------------------
(* Rewrites of the file.                                                    *)

\* A file that does not hold a list holds no entry.  As long as no rewrites have
\* overlapped, one actor at most is between its load and the end of its store: it
\* stores the edit of what the file held, and nobody writes while it is empty.
WriteInv ==
  /\ file.state # "whole" => file.pods = NoPods
  /\ ~torn => /\ file.state # "garbage"
              /\ \A a, b \in Actors : Rewriting(a) /\ Rewriting(b) => a = b
              /\ \A a \in Actors : pc[a] = "truncate" => copy[a] = Edit(a, file.pods)
              /\ \A a \in Actors : pc[a] = "fill" => file.pods = NoPods

\* What is read is what the file holds.
LEMMA LoadedIsFile == WriteInv => Loaded = file.pods
BY DEF WriteInv, Loaded

\* The list is the one that is being written, or the one in the file.
LEMMA ListNow ==
  ASSUME WriteInv, ~torn
  PROVE  /\ \A a \in Actors : pc[a] = "fill" => List = copy[a]
         /\ (\A a \in Actors : pc[a] # "fill") => List = file.pods
BY DEF WriteInv, List, Rewriting

\* The same of the next state.
LEMMA ListNext ==
  ASSUME WriteInv', ~torn'
  PROVE  /\ \A a \in Actors : pc'[a] = "fill" => List' = copy'[a]
         /\ (\A a \in Actors : pc'[a] # "fill") => List' = file'.pods
BY DEF WriteInv, List, Rewriting

\* What the file holds stays the same, unless entries are lost.
KeepsFile ==
  /\ torn => torn'
  /\ file'.state # "whole" => file'.pods = NoPods
  /\ ~torn' => file'.pods = file.pods /\ file'.state # "garbage"

\* A step in which no actor starts or ends a rewrite leaves the list alone.
LEMMA NoRewrite ==
  ASSUME TypeInv, WriteInv, KeepsFile,
         \A a \in Actors : \/ pc'[a] = pc[a] /\ copy'[a] = copy[a]
                           \/ pc'[a] \notin {"truncate", "fill"},
         \A a \in Actors : pc[a] = "fill" => pc'[a] = "fill" \/ torn',
         pc'[Daemon] = "truncate" => cur' = cur
  PROVE  WriteInv' /\ (~torn' => List' = List)
<1>1. WriteInv'
  BY DEF WriteInv, KeepsFile, Rewriting, Edit
<1>2. ASSUME ~torn' PROVE List' = List
  <2>1. ~torn /\ file'.pods = file.pods
    BY <1>2 DEF KeepsFile
  <2>2. CASE \E a \in Actors : pc[a] = "fill"
    <3>1. PICK a \in Actors : pc[a] = "fill"
      BY <2>2
    <3>2. pc'[a] = "fill" /\ copy'[a] = copy[a]
      BY <1>2, <3>1
    <3> QED
      BY <1>1, <1>2, <2>1, <3>1, <3>2, ListNow, ListNext
  <2>3. CASE \A a \in Actors : pc[a] # "fill"
    <3>1. \A a \in Actors : pc'[a] # "fill"
      BY <2>3
    <3> QED
      BY <1>1, <1>2, <2>1, <2>3, <3>1, ListNow, ListNext
  <2> QED
    BY <2>2, <2>3
<1> QED
  BY <1>1, <1>2

\* An actor that goes on to store its edit of what the file holds, with nobody else
\* about to write, leaves the list alone.
LEMMA StartRewrite ==
  ASSUME TypeInv, WriteInv, KeepsFile, NEW a \in Actors, NEW m \in PodData,
         ~Rewriting(a), pc' = [pc EXCEPT ![a] = "truncate"],
         copy' = [copy EXCEPT ![a] = Edit(a, m)], cur' = cur,
         ~torn' => m = file.pods,
         ~torn' => ~ \E b \in Actors : b # a /\ Rewriting(b)
  PROVE  WriteInv' /\ (~torn' => List' = List)
<1>1. /\ pc'[a] = "truncate" /\ copy'[a] = Edit(a, m)
      /\ \A b \in Actors \ {a} : pc'[b] = pc[b] /\ copy'[b] = copy[b]
  BY DEF TypeInv, TypeOK
<1>2. WriteInv'
  <2>1. file'.state # "whole" => file'.pods = NoPods
    BY DEF KeepsFile
  <2>2. ASSUME ~torn'
        PROVE  /\ file'.state # "garbage" /\ file'.pods = file.pods
               /\ \A b \in Actors : Rewriting(b)' => b = a
               /\ copy'[a] = Edit(a, file.pods)'
               /\ \A b \in Actors : pc'[b] # "fill"
    BY <1>1, <2>2 DEF KeepsFile, Rewriting, Edit
  <2> QED
    BY <2>1, <2>2 DEF WriteInv, Rewriting
<1>3. ASSUME ~torn' PROVE List' = List
  <2>1. ~torn /\ file'.pods = file.pods
    BY <1>3 DEF KeepsFile
  <2>2. \A b \in Actors : pc[b] # "fill" /\ pc'[b] # "fill"
    BY <1>1, <1>3 DEF Rewriting
  <2> QED
    BY <1>2, <1>3, <2>1, <2>2, ListNow, ListNext
<1> QED
  BY <1>2, <1>3

\* The same, whatever an actor does with the list it has loaded.
LEMMA UseListKeepsList ==
  ASSUME TypeInv, WriteInv, KeepsFile, NEW a \in Actors, NEW m \in PodData,
         pc[a] \in {"read", "fillEmpty"}, UseList(a, m),
         ~torn' => m = file.pods,
         ~torn' => ~ (phase[a] = "edit" /\ \E b \in Actors : b # a /\ Rewriting(b))
  PROVE  WriteInv' /\ (~torn' => List' = List)
<1>0. pc \in [Actors -> Labels] /\ copy \in [Actors -> PodData] /\ pc[a] # "idle"
  BY DEF TypeInv, TypeOK
<1>1. CASE a \in CniPods /\ Goto(a, "read") /\ UNCHANGED <<copy, cur>>
  BY <1>0, <1>1, NoRewrite DEF Goto
<1>2. CASE /\ a \in CniPods /\ (Goto(a, "attach") \/ Goto(a, "release"))
           /\ copy' = [copy EXCEPT ![a] = [NoPods EXCEPT ![NameOf[a]] = m[NameOf[a]]]]
           /\ cur' = cur
  BY <1>0, <1>2, NoRewrite DEF Goto
<1>3. CASE a = Daemon /\ Exit(a)
  BY <1>0, <1>3, NoRewrite DEF Exit, Goto
<1>4. CASE /\ phase[a] = "edit" /\ Goto(a, "truncate")
           /\ copy' = [copy EXCEPT ![a] = Edit(a, m)] /\ cur' = cur
  BY <1>4, StartRewrite DEF Goto, Rewriting
<1> QED
  BY <1>0, <1>1, <1>2, <1>3, <1>4, UseListCases

\* An actor that writes leaves no other trace than its edit.
LEMMA TruncateEdits ==
  ASSUME TypeInv, WriteInv, NEW a \in Actors, Truncate(a)
  PROVE  WriteInv' /\ (~torn' => List' = Edit(a, List))
<1>1. /\ pc' = [pc EXCEPT ![a] = "fill"] /\ copy' = copy /\ torn' = torn /\ Rewriting(a)
      /\ file' = Unreadable("empty") /\ pc[a] = "truncate"
  BY DEF Truncate, Goto, Rewriting
<1>2. pc'[a] = "fill" /\ \A b \in Actors \ {a} : pc'[b] = pc[b]
  BY <1>1 DEF TypeInv, TypeOK
<1>3. WriteInv'
  BY <1>1, <1>2 DEF WriteInv, Unreadable, Rewriting
<1>4. ASSUME ~torn' PROVE List' = Edit(a, List)
  <2>1. \A b \in Actors : pc[b] # "fill"
    BY <1>1, <1>4 DEF WriteInv, Rewriting
  <2>2. List = file.pods /\ copy[a] = Edit(a, file.pods)
    BY <1>1, <1>4, <2>1, ListNow DEF WriteInv
  <2>3. List' = copy[a]
    BY <1>1, <1>2, <1>3, <1>4, ListNext
  <2> QED
    BY <2>2, <2>3
<1> QED
  BY <1>3, <1>4

\* The write that ends a rewrite leaves the list alone.
LEMMA FillKeepsList ==
  ASSUME TypeInv, WriteInv, NEW a \in Actors, Fill(a)
  PROVE  WriteInv' /\ (~torn' => List' = List)
<1>1. /\ pc \in [Actors -> Labels] /\ pc[a] = "fill" /\ torn' = torn /\ Rewriting(a)
      /\ file' = Whole(copy[a]) \/ file' = Unreadable("garbage")
  BY DEF Fill, TypeInv, TypeOK, Rewriting
<1>2. pc'[a] \in {"idle", "unplug"} /\ \A b \in Actors \ {a} : pc'[b] = pc[b]
  BY <1>1 DEF Fill, Exit, Goto
<1>3. ASSUME ~torn PROVE file' = Whole(copy[a])
  BY <1>1, <1>3 DEF Fill, WriteInv
<1>4. ASSUME ~torn PROVE \A b \in Actors : ~Rewriting(b)'
  BY <1>1, <1>2, <1>4 DEF WriteInv, Rewriting
<1>5. file'.state # "whole" => file'.pods = NoPods
  BY <1>1 DEF Whole, Unreadable
<1>6. WriteInv'
  BY <1>1, <1>3, <1>4, <1>5 DEF WriteInv, Whole, Rewriting
<1>7. ASSUME ~torn' PROVE List' = List
  <2>1. List' = copy[a]
    BY <1>1, <1>3, <1>4, <1>6, <1>7, ListNext DEF Rewriting, Whole
  <2> QED
    BY <1>1, <1>7, <2>1, ListNow
<1> QED
  BY <1>6, <1>7

\* Steps that touch neither the file nor a rewrite, except to cut one short.
LEMMA OtherStepsKeepList ==
  ASSUME TypeInv, WriteInv,
         \/ UNCHANGED vars
         \/ \E p \in CniPods : \/ Attach(p) \/ Release(p) \/ Unplug(p) \/ Kill(p)
                               \/ DeletePod(p) \/ ForgetPod(p)
                               \/ \E c \in {"ADD", "DEL"} : Invoke(p, c)
         \/ \E p \in Pods : HandlePodAdd(p)
         \/ DaemonRestart
  PROVE  WriteInv' /\ (~torn' => List' = List)
<1>0. /\ pc \in [Actors -> Labels] /\ copy \in [Actors -> PodData]
      /\ \A p \in CniPods : p \in Actors /\ p # Daemon
  BY Constants DEF TypeInv, TypeOK, Actors
<1>k. ASSUME file' = file, torn => torn' PROVE KeepsFile
  BY <1>k DEF KeepsFile, WriteInv
<1>1. CASE UNCHANGED vars
  BY <1>1, <1>k, NoRewrite DEF vars, proc
<1>2. ASSUME NEW p \in CniPods, Attach(p) \/ Release(p) \/ Unplug(p) \/ Kill(p)
      PROVE  WriteInv' /\ (~torn' => List' = List)
  <2>1. /\ file' = file /\ (torn => torn') /\ cur' = cur
        /\ pc[p] = "fill" => torn'
    <3>1. CASE Attach(p)
      BY <1>0, <3>1 DEF Attach, Exit
    <3>2. CASE Release(p)
      BY <1>0, <3>2 DEF Release, Exit
    <3>3. CASE Unplug(p)
      BY <1>0, <3>3 DEF Unplug, Exit
    <3>4. CASE Kill(p)
      BY <1>0, <3>4 DEF Kill, Exit
    <3> QED
      BY <1>2, <3>1, <3>2, <3>3, <3>4
  <2>2. /\ pc'[p] \in {"idle", "read"}
        /\ \A a \in Actors \ {p} : pc'[a] = pc[a] /\ copy'[a] = copy[a]
    BY <1>0, <1>2 DEF Attach, Release, Unplug, Kill, Exit, Goto
  <2> QED
    BY <1>0, <1>k, <2>1, <2>2, NoRewrite
<1>3. ASSUME NEW p \in CniPods, DeletePod(p) \/ ForgetPod(p)
      PROVE  WriteInv' /\ (~torn' => List' = List)
  BY <1>3, <1>k, NoRewrite DEF DeletePod, ForgetPod, proc
<1>4. ASSUME NEW p \in CniPods, NEW c \in {"ADD", "DEL"}, Invoke(p, c)
      PROVE  WriteInv' /\ (~torn' => List' = List)
  BY <1>0, <1>4, <1>k, NoRewrite DEF Invoke, Goto
<1>5. ASSUME NEW p \in Pods, HandlePodAdd(p) PROVE WriteInv' /\ (~torn' => List' = List)
  BY <1>0, <1>5, <1>k, Constants, NoRewrite DEF HandlePodAdd, Goto
<1>6. CASE DaemonRestart
  BY <1>0, <1>6, <1>k, Constants, NoRewrite DEF DaemonRestart, Exit, Goto
<1> QED
  BY <1>1, <1>2, <1>3, <1>4, <1>5, <1>6

\* WriteInv is inductive, and as long as nothing is lost only a Truncate changes
\* the list, by the edit of its actor.
LEMMA WriteStep ==
  ASSUME TypeInv, WriteInv, [Next]_vars
  PROVE  /\ WriteInv'
         /\ ~torn' => \/ List' = List
                      \/ \E a \in Actors : Truncate(a) /\ List' = Edit(a, List)
<1>0. file.pods \in PodData /\ NoPods \in PodData
  BY Constants DEF TypeInv, TypeOK, File
<1>1. ASSUME NEW a \in Actors, Read(a) PROVE WriteInv' /\ (~torn' => List' = List)
  <2>1. KeepsFile /\ Loaded = file.pods /\ pc[a] = "read"
    BY <1>1, LoadedIsFile DEF KeepsFile, Read, WriteInv
  <2>2. CASE Goto(a, "create") /\ UNCHANGED <<phase, copy, cmd, cur>>
    BY <2>1, <2>2, NoRewrite DEF Goto, TypeInv, TypeOK
  <2>3. CASE UseList(a, Loaded)
    BY <1>0, <1>1, <2>1, <2>3, UseListKeepsList DEF Read
  <2> QED
    BY <1>1, <2>2, <2>3 DEF Read
<1>2. ASSUME NEW a \in Actors, Create(a) PROVE WriteInv' /\ (~torn' => List' = List)
  <2>1. KeepsFile
    BY <1>2 DEF KeepsFile, Create, Unreadable
  <2> QED
    BY <1>2, <2>1, NoRewrite DEF Create, Goto, TypeInv, TypeOK
<1>3. ASSUME NEW a \in Actors, FillEmpty(a) PROVE WriteInv' /\ (~torn' => List' = List)
  <2>1. KeepsFile /\ (~torn' => NoPods = file.pods)
    <3>1. CASE file.state # "garbage" /\ file.pods = NoPods /\ file' = Whole(NoPods)
      BY <1>3, <3>1 DEF KeepsFile, FillEmpty, Whole
    <3>2. CASE file' = Unreadable("garbage")
      BY <1>3, <3>2 DEF KeepsFile, FillEmpty, Unreadable
    <3> QED
      BY <1>3, <3>1, <3>2 DEF FillEmpty
  <2> QED
    BY <1>0, <1>3, <2>1, UseListKeepsList DEF FillEmpty
<1> QED
  BY <1>1, <1>2, <1>3, TruncateEdits, FillKeepsList, OtherStepsKeepList, Constants DEF Next, Step

\* WriteInv holds in every reachable state.
LEMMA WriteInvHolds == Spec => []WriteInv
<1>1. Init => WriteInv
  BY DEF Init, WriteInv, Unreadable, Rewriting
<1> QED
  BY <1>1, TypeInvHolds, WriteStep, PTL DEF Spec

\* OneEntryAtATime: while no rewrites overlap and none is cut short, a step changes
\* in the list the entry of the pod the daemon handles, or takes out that of a pod
\* whose DEL runs, and leaves every other one alone.
THEOREM OneEntry == Spec => OneEntryAtATime
<1> DEFINE A == ~torn' => \A n \in Names : List'[n] # List[n] =>
                   \/ cur # None /\ n = NameOf[cur] /\ List'[n] = TenantOf(cur)
                   \/ \E p \in CniPods : n = NameOf[p] /\ cmd[p] = "DEL" /\ List'[n] = None
<1>1. ASSUME TypeInv, WriteInv, [Next]_vars PROVE [A]_vars
  <2> SUFFICES ASSUME ~torn', NEW n \in Names, List'[n] # List[n]
               PROVE  \/ cur # None /\ n = NameOf[cur] /\ List'[n] = TenantOf(cur)
                      \/ \E p \in CniPods : n = NameOf[p] /\ cmd[p] = "DEL" /\ List'[n] = None
    OBVIOUS
  <2>1. PICK a \in Actors : Truncate(a) /\ List' = Edit(a, List)
    BY <1>1, WriteStep
  <2>2. List \in PodData
    <3>1. torn' = torn /\ pc[a] = "truncate"
      BY <2>1 DEF Truncate
    <3>2. \A b \in Actors : pc[b] # "fill"
      BY <1>1, <3>1 DEF WriteInv, Rewriting
    <3> QED
      BY <1>1, <3>1, <3>2, ListNow DEF TypeInv, TypeOK, File
  <2>3. pc[a] = "truncate" /\ phase[a] = "edit"
    BY <1>1, <2>1 DEF Truncate, TypeInv, ProcInv
  <2>4. CASE a = Daemon
    <3>1. cur \in Pods
      BY <1>1, <2>3, <2>4 DEF TypeInv, ProcInv
    <3> QED
      BY <2>1, <2>2, <2>4, <3>1, Constants DEF Edit, PodData
  <2>5. CASE a # Daemon
    <3>1. a \in CniPods /\ cmd[a] = "DEL"
      BY <1>1, <2>3, <2>5, Constants DEF TypeInv, ProcInv
    <3> QED
      BY <2>1, <2>2, <2>5, <3>1, Constants DEF Edit, PodData
  <2> QED
    BY <2>4, <2>5
<1> QED
  BY <1>1, TypeInvHolds, WriteInvHolds, PTL DEF Spec, OneEntryAtATime

-----------------------------------------------------------------------------
(* Tenants.  A list that is keyed by names tells the tenants apart as long as   *)
(* no two tenants' pods share a name; the code does not check that.          *)

OneTenantPerName == \A p, q \in Pods : NameOf[p] = NameOf[q] => TenantOf(p) = TenantOf(q)
NamesDiffer      == \A p, q \in Pods : NameOf[p] = NameOf[q] => p = q

\* A list enters no pod for another tenant's.
Correct(m) == \A p \in Pods : m[NameOf[p]] \in {None, TenantOf(p)}

OwnInv ==
  /\ Correct(file.pods)
  /\ \A a \in Actors : Correct(copy[a])
  /\ OwnTenantsNetwork

\* The empty list is correct, and so is a correct one after an edit.
LEMMA EditCorrect ==
  ASSUME OneTenantPerName, TypeInv, NEW a \in Actors, pc[a] # "idle",
         NEW m \in PodData, Correct(m)
  PROVE  Correct(NoPods) /\ Correct(Edit(a, m))
<1>1. Correct(NoPods)
  BY Constants DEF Correct
<1>2. CASE a = Daemon
  <2>1. cur \in Pods /\ Edit(a, m) = [m EXCEPT ![NameOf[cur]] = TenantOf(cur)]
    BY <1>2 DEF TypeInv, ProcInv, Edit
  <2>2. ASSUME NEW p \in Pods PROVE Edit(a, m)[NameOf[p]] \in {None, TenantOf(p)}
    <3>1. CASE NameOf[p] = NameOf[cur]
      <4>1. TenantOf(p) = TenantOf(cur) /\ NameOf[p] \in Names
        BY <2>1, <3>1, Constants DEF OneTenantPerName
      <4> QED
        BY <2>1, <3>1, <4>1 DEF PodData
    <3>2. CASE NameOf[p] # NameOf[cur]
      BY <2>1, <3>2 DEF Correct, PodData
    <3> QED
      BY <3>1, <3>2
  <2> QED
    BY <1>1, <2>2 DEF Correct
<1>3. CASE a # Daemon
  BY <1>1, <1>3, Constants DEF Edit, Correct, PodData
<1> QED
  BY <1>2, <1>3

\* A list of one entry of a correct list is correct.
LEMMA FoundCorrect ==
  ASSUME NEW m \in PodData, Correct(m), NEW n \in Names
  PROVE  Correct([NoPods EXCEPT ![n] = m[n]])
BY Constants DEF Correct, PodData

\* Whatever an actor does with a correct list, it remembers a correct one.
LEMMA UseListCorrect ==
  ASSUME OneTenantPerName, TypeInv, NEW a \in Actors, pc[a] # "idle", NEW m \in PodData,
         UseList(a, m), Correct(m), \A b \in Actors : Correct(copy[b])
  PROVE  \A b \in Actors : Correct(copy'[b])
<1>0. copy \in [Actors -> PodData] /\ Correct(NoPods) /\ Correct(Edit(a, m))
  BY EditCorrect DEF TypeInv, TypeOK
<1>1. \/ copy' = copy
      \/ copy' = [copy EXCEPT ![a] = NoPods]
      \/ copy' = [copy EXCEPT ![a] = Edit(a, m)]
      \/ a \in CniPods /\ copy' = [copy EXCEPT ![a] = [NoPods EXCEPT ![NameOf[a]] = m[NameOf[a]]]]
  BY UseListCases DEF Exit
<1>2. a \in CniPods => Correct([NoPods EXCEPT ![NameOf[a]] = m[NameOf[a]]])
  BY FoundCorrect, Constants
<1> QED
  BY <1>0, <1>1, <1>2

\* OwnInv is inductive: a list enters tenants only for the pods that are theirs,
\* and a pod is plugged in with what its process found in the list.
LEMMA OwnStep ==
  ASSUME OneTenantPerName, TypeInv, WriteInv, OwnInv, [Next]_vars PROVE OwnInv'
<1>0. /\ copy \in [Actors -> PodData] /\ file.pods \in PodData /\ NoPods \in PodData
      /\ Loaded = file.pods /\ Correct(file.pods) /\ Correct(NoPods)
      /\ \A a \in Actors : Correct(copy[a])
      /\ \A p \in CniPods : p \in Actors /\ p # Daemon
  BY Constants, LoadedIsFile DEF TypeInv, TypeOK, File, OwnInv, Correct, Actors
<1>1. (net' = net \/ OwnTenantsNetwork') /\ Correct(file'.pods) /\ (\A a \in Actors : Correct(copy'[a]))
      => OwnInv'
  BY DEF OwnInv, OwnTenantsNetwork, Correct
<1>e. ASSUME NEW a \in Actors, Exit(a) PROVE \A b \in Actors : Correct(copy'[b])
  BY <1>0, <1>e DEF Exit
<1>2. CASE UNCHANGED vars
  BY <1>0, <1>1, <1>2 DEF vars, proc, world
<1>3. ASSUME NEW a \in Actors, Read(a) PROVE OwnInv'
  <2>1. pc[a] # "idle" /\ file' = file /\ net' = net
    BY <1>3 DEF Read, world
  <2>2. \A b \in Actors : Correct(copy'[b])
    BY <1>0, <1>3, <2>1, UseListCorrect DEF Read
  <2> QED
    BY <1>0, <1>1, <2>1, <2>2
<1>4. ASSUME NEW a \in Actors, Create(a) PROVE OwnInv'
  BY <1>0, <1>1, <1>4 DEF Create, world, Unreadable
<1>5. ASSUME NEW a \in Actors, FillEmpty(a) PROVE OwnInv'
  <2>1. pc[a] # "idle" /\ file'.pods = NoPods /\ net' = net /\ UseList(a, NoPods)
    BY <1>5 DEF FillEmpty, world, Unreadable, Whole
  <2>2. \A b \in Actors : Correct(copy'[b])
    BY <1>0, <2>1, UseListCorrect
  <2> QED
    BY <1>0, <1>1, <2>1, <2>2
<1>6. ASSUME NEW a \in Actors, Truncate(a) PROVE OwnInv'
  BY <1>0, <1>1, <1>6 DEF Truncate, Unreadable
<1>7. ASSUME NEW a \in Actors, Fill(a) PROVE OwnInv'
  <2>1. net' = net /\ (file'.pods = copy[a] \/ file'.pods = NoPods)
    BY <1>7 DEF Fill, world, Whole, Unreadable
  <2>2. \A b \in Actors : Correct(copy'[b])
    BY <1>0, <1>e, <1>7 DEF Fill
  <2> QED
    BY <1>0, <1>1, <2>1, <2>2
<1>8. ASSUME NEW p \in CniPods, Attach(p) PROVE OwnInv'
  <2>1. file' = file /\ (\A b \in Actors : Correct(copy'[b]))
    BY <1>0, <1>e, <1>8 DEF Attach
  <2>2. copy[p][NameOf[p]] \in {None, TenantOf(p)}
    BY <1>0, Constants DEF Correct
  <2>3. net' = net \/ net' = [net EXCEPT ![p] = copy[p][NameOf[p]]]
    BY <1>8 DEF Attach
  <2>4. net' = net \/ OwnTenantsNetwork'
    BY <2>2, <2>3 DEF TypeInv, TypeOK, OwnInv, OwnTenantsNetwork, TenantOf
  <2> QED
    BY <1>0, <1>1, <2>1, <2>4
<1>9. ASSUME NEW p \in CniPods, Unplug(p) PROVE OwnInv'
  <2>1. file' = file /\ (\A b \in Actors : Correct(copy'[b]))
    BY <1>0, <1>e, <1>9 DEF Unplug
  <2>2. net' = net \/ OwnTenantsNetwork'
    BY <1>9 DEF Unplug, TypeInv, TypeOK, OwnInv, OwnTenantsNetwork
  <2> QED
    BY <1>0, <1>1, <2>1, <2>2
<1>10. ASSUME NEW p \in CniPods, Release(p) \/ Kill(p) PROVE OwnInv'
  <2>1. file' = file /\ net' = net /\ (\A b \in Actors : Correct(copy'[b]))
    BY <1>0, <1>e, <1>10 DEF Release, Kill, world
  <2> QED
    BY <1>0, <1>1, <2>1
<1>11. ASSUME NEW p \in CniPods, DeletePod(p) \/ ForgetPod(p) PROVE OwnInv'
  BY <1>0, <1>1, <1>11 DEF DeletePod, ForgetPod, proc
<1>12. ASSUME NEW p \in CniPods, NEW c \in {"ADD", "DEL"}, Invoke(p, c) PROVE OwnInv'
  BY <1>0, <1>1, <1>12 DEF Invoke
<1>13. ASSUME NEW p \in Pods, HandlePodAdd(p) PROVE OwnInv'
  BY <1>0, <1>1, <1>13 DEF HandlePodAdd
<1>14. CASE DaemonRestart
  BY <1>0, <1>1, <1>e, <1>14, Constants DEF DaemonRestart
<1> QED
  BY <1>2, <1>3, <1>4, <1>5, <1>6, <1>7, <1>8, <1>9, <1>10, <1>11, <1>12, <1>13, <1>14, Constants
     DEF Next, Step

\* OwnInv holds in every reachable state.
LEMMA OwnInvHolds == ASSUME OneTenantPerName PROVE Spec => []OwnInv
<1>1. Init => OwnInv
  BY Constants DEF Init, OwnInv, Correct, OwnTenantsNetwork, Unreadable
<1> QED
  BY <1>1, TypeInvHolds, WriteInvHolds, OwnStep, PTL DEF Spec

\* OwnTenantsNetwork: a pod is plugged into its own tenant's network and no other,
\* even when rewrites of the list overlap or are cut short, as long as no name is
\* used by pods of two tenants.
THEOREM OwnNetwork == ASSUME OneTenantPerName PROVE Spec => []OwnTenantsNetwork
<1>1. OwnInv => OwnTenantsNetwork
  BY DEF OwnInv
<1> QED
  BY <1>1, OwnInvHolds, PTL

-----------------------------------------------------------------------------
(* Pods in the list.                                                        *)

\* A pod that has found its tenant, has its network, or edits the list in DEL.
Found(p) == net[p] # None \/ pc[p] \in {"attach", "release"} \/ phase[p] = "edit"

ListedInv == ~torn => \A p \in CniPods \ delisted : Found(p) => List[NameOf[p]] = TenantOf(p)

\* A pod finds its tenant in no list but the one the file holds.
LEMMA FindsInList ==
  ASSUME TypeInv, WriteInv, OwnInv, ~torn, NEW p \in CniPods, NEW m \in PodData,
         m \in {file.pods, NoPods}, m[NameOf[p]] \in Tenants
  PROVE  List[NameOf[p]] = TenantOf(p)
<1>1. m # NoPods /\ m = file.pods
  BY Constants
<1>2. \A a \in Actors : pc[a] # "fill"
  BY <1>1 DEF WriteInv
<1>3. List = m
  BY <1>1, <1>2, ListNow
<1> QED
  BY <1>1, <1>3, Constants DEF OwnInv, Correct

\* An actor that uses the list it has loaded makes no pod a found one that is not
\* in the list.
LEMMA UseListFinds ==
  ASSUME TypeInv, WriteInv, OwnInv, ~torn, NEW a \in Actors, NEW m \in PodData,
         m \in {file.pods, NoPods}, pc[a] \in {"read", "fillEmpty"}, UseList(a, m), net' = net,
         NEW p \in CniPods, Found(p)'
  PROVE  Found(p) \/ List[NameOf[p]] = TenantOf(p)
<1>0. /\ pc \in [Actors -> Labels] /\ phase \in [Actors -> {"none", "find", "edit"}]
      /\ p \in Actors /\ p # Daemon /\ pc[a] # "idle"
  BY Constants DEF TypeInv, TypeOK, Actors
<1>1. CASE a # p
  BY <1>0, <1>1, UseListCases DEF Found, Exit, Goto
<1>2. CASE a = p
  <2>1. CASE m[NameOf[p]] \in Tenants
    BY <2>1, FindsInList
  <2>2. CASE phase[p] = "edit"
    BY <2>2 DEF Found
  <2>3. CASE Goto(p, "read") /\ phase' = phase
    BY <1>0, <2>3 DEF Found, Goto
  <2> QED
    BY <1>0, <1>2, <2>1, <2>2, <2>3, UseListCases
<1> QED
  BY <1>1, <1>2

\* No step makes a pod a found one that is not in the list.
LEMMA FoundStep ==
  ASSUME TypeInv, WriteInv, OwnInv, ~torn, [Next]_vars, NEW p \in CniPods, Found(p)'
  PROVE  Found(p) \/ List[NameOf[p]] = TenantOf(p)
<1>0. /\ pc \in [Actors -> Labels] /\ phase \in [Actors -> {"none", "find", "edit"}]
      /\ net \in [CniPods -> Tenants \cup {None}]
      /\ p \in Actors /\ \A q \in CniPods : q \in Actors /\ q # Daemon
      /\ file.pods \in PodData /\ NoPods \in PodData /\ Loaded = file.pods
  BY Constants, LoadedIsFile DEF TypeInv, TypeOK, Actors, File
<1>1. ASSUME NEW a \in Actors, Read(a) PROVE Found(p) \/ List[NameOf[p]] = TenantOf(p)
  <2>1. CASE Goto(a, "create") /\ UNCHANGED phase
    BY <1>0, <1>1, <2>1 DEF Found, Goto, Read, world
  <2>2. CASE UseList(a, Loaded)
    <3>1. pc[a] = "read" /\ net' = net
      BY <1>1 DEF Read, world
    <3> QED
      BY <1>0, <2>2, <3>1, UseListFinds
  <2> QED
    BY <1>1, <2>1, <2>2 DEF Read
<1>2. ASSUME NEW a \in Actors, FillEmpty(a) PROVE Found(p) \/ List[NameOf[p]] = TenantOf(p)
  <2>1. pc[a] = "fillEmpty" /\ net' = net /\ UseList(a, NoPods)
    BY <1>2 DEF FillEmpty, world
  <2> QED
    BY <1>0, <2>1, UseListFinds
<1>3. ASSUME NEW a \in Actors, Create(a) \/ Truncate(a) PROVE Found(p)
  BY <1>0, <1>3 DEF Found, Create, Truncate, Goto, world
<1>4. ASSUME NEW a \in Actors, Fill(a) PROVE Found(p)
  BY <1>0, <1>4 DEF Found, Fill, Exit, Goto, world
<1>5. ASSUME NEW q \in CniPods, Attach(q) PROVE Found(p)
  BY <1>0, <1>5 DEF Found, Attach, Exit, Goto
<1>6. ASSUME NEW q \in CniPods, Release(q) PROVE Found(p)
  BY <1>0, <1>6 DEF Found, Release, Exit, Goto, world
<1>7. ASSUME NEW q \in CniPods, Unplug(q) PROVE Found(p)
  BY <1>0, <1>7 DEF Found, Unplug, Exit, Goto
<1>8. ASSUME NEW q \in CniPods, Kill(q) PROVE Found(p)
  BY <1>0, <1>8 DEF Found, Kill, Exit, Goto, world
<1>9. ASSUME NEW q \in CniPods, NEW c \in {"ADD", "DEL"},
             DeletePod(q) \/ ForgetPod(q) \/ Invoke(q, c)
      PROVE  Found(p)
  BY <1>0, <1>9 DEF Found, DeletePod, ForgetPod, Invoke, Goto, proc
<1>10. ASSUME NEW q \in Pods, HandlePodAdd(q) PROVE Found(p)
  BY <1>0, <1>10, Constants DEF Found, HandlePodAdd, Goto
<1>11. CASE DaemonRestart
  BY <1>0, <1>11, Constants DEF Found, DaemonRestart, Exit, Goto
<1>12. CASE UNCHANGED vars
  BY <1>12 DEF Found, vars, proc, world
<1> QED
  BY <1>1, <1>2, <1>3, <1>4, <1>5, <1>6, <1>7, <1>8, <1>9, <1>10, <1>11, <1>12, Constants
     DEF Next, Step

\* Only the start of a rewrite lists a pod or takes it out.
LEMMA DelistedStep ==
  ASSUME [Next]_vars
  PROVE  delisted' = delisted \/ \E a \in Actors : Truncate(a)
<1>1. ASSUME NEW a \in Actors, Step(a) PROVE delisted' = delisted \/ Truncate(a)
  BY <1>1 DEF Step, Read, Create, FillEmpty, Fill, Attach, Release, Unplug, world
<1>2. ASSUME NEW p \in CniPods, NEW c \in {"ADD", "DEL"},
             Kill(p) \/ DeletePod(p) \/ ForgetPod(p) \/ Invoke(p, c)
      PROVE  delisted' = delisted
  BY <1>2 DEF Kill, DeletePod, ForgetPod, Invoke, world
<1>3. ASSUME NEW p \in Pods, HandlePodAdd(p) PROVE delisted' = delisted
  BY <1>3 DEF HandlePodAdd
<1>4. CASE DaemonRestart \/ UNCHANGED vars
  BY <1>4 DEF DaemonRestart, vars, world
<1> QED
  BY <1>1, <1>2, <1>3, <1>4 DEF Next

\* ListedInv is inductive: the daemon's rewrite lists the pod of its event, a DEL's
\* takes out its own, and both keep what the list holds of the others.
LEMMA ListedStep ==
  ASSUME NamesDiffer, TypeInv, WriteInv, OwnInv, ListedInv, [Next]_vars PROVE ListedInv'
<1> SUFFICES ASSUME ~torn', NEW p \in CniPods \ delisted', Found(p)'
             PROVE  List'[NameOf[p]] = TenantOf(p)
  BY DEF ListedInv
<1>0. ~torn /\ p \in CniPods /\ p \in Pods /\ NameOf[p] \in Names
  <2>1. torn => torn'
    <3>1. ASSUME NEW a \in Actors, Step(a) PROVE torn => torn'
      BY <3>1 DEF Step, Read, Create, FillEmpty, Truncate, Fill, Attach, Release, Unplug
    <3>2. ASSUME NEW q \in CniPods, NEW c \in {"ADD", "DEL"},
                 Kill(q) \/ DeletePod(q) \/ ForgetPod(q) \/ Invoke(q, c)
          PROVE  torn => torn'
      BY <3>2 DEF Kill, DeletePod, ForgetPod, Invoke
    <3>3. ASSUME NEW q \in Pods, HandlePodAdd(q) PROVE torn => torn'
      BY <3>3 DEF HandlePodAdd
    <3>4. CASE DaemonRestart \/ UNCHANGED vars
      BY <3>4 DEF DaemonRestart, vars
    <3> QED
      BY <3>1, <3>2, <3>3, <3>4 DEF Next
  <2> QED
    BY <2>1, Constants
<1>1. p \notin delisted => List[NameOf[p]] = TenantOf(p)
  BY <1>0, FoundStep DEF ListedInv
<1>2. CASE List' = List /\ ~ \E a \in Actors : Truncate(a)
  BY <1>0, <1>1, <1>2, DelistedStep
<1>3. ASSUME NEW a \in Actors, Truncate(a) PROVE List'[NameOf[p]] = TenantOf(p)
  <2>1. List' = Edit(a, List)
    BY <1>0, <1>3, TruncateEdits
  <2>2. List \in PodData
    <3>1. \A b \in Actors : pc[b] # "fill"
      BY <1>0, <1>3 DEF Truncate, WriteInv, Rewriting
    <3> QED
      BY <1>0, <3>1, ListNow DEF TypeInv, TypeOK, File
  <2>3. CASE a = Daemon
    <3>1. cur \in Pods /\ delisted' = delisted \ {cur}
      BY <1>3, <2>3 DEF Truncate, TypeInv, ProcInv
    <3>2. CASE p = cur
      BY <1>0, <2>1, <2>2, <2>3, <3>2 DEF Edit, PodData
    <3>3. CASE p # cur
      <4>1. NameOf[p] # NameOf[cur] /\ p \notin delisted
        BY <1>0, <3>1, <3>3 DEF NamesDiffer
      <4> QED
        BY <1>0, <1>1, <2>1, <2>2, <2>3, <4>1 DEF Edit, PodData
    <3> QED
      BY <3>2, <3>3
  <2>4. CASE a # Daemon
    <3>1. a \in Pods /\ delisted' = delisted \cup {a}
      BY <1>3, <2>4, Constants DEF Truncate
    <3>2. NameOf[p] # NameOf[a] /\ p \notin delisted
      BY <1>0, <3>1 DEF NamesDiffer
    <3> QED
      BY <1>0, <1>1, <2>1, <2>2, <2>4, <3>2 DEF Edit, PodData
  <2> QED
    BY <2>3, <2>4
<1> QED
  BY <1>2, <1>3, WriteStep

\* PluggedPodIsListed: as long as no rewrites overlap and none is cut short, a pod
\* that has its network and has not been through DEL is in the list under its
\* tenant, so its DEL will find it.  (Pods have names of their own: DEL of one
\* takes out the entry of all that share its name.)
THEOREM PluggedListed == ASSUME NamesDiffer PROVE Spec => []PluggedPodIsListed
<1>1. OneTenantPerName
  BY DEF NamesDiffer, OneTenantPerName
<1>2. Spec => []OwnInv
  BY <1>1, OwnInvHolds
<1>3. Init => ListedInv
  BY Constants DEF Init, ListedInv, Found, Actors
<1>4. ListedInv => PluggedPodIsListed
  BY DEF ListedInv, Found, PluggedPodIsListed
<1> QED
  BY <1>2, <1>3, <1>4, TypeInvHolds, WriteInvHolds, ListedStep, PTL DEF Spec

=============================================================================
