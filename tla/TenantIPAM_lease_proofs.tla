----------------------- MODULE TenantIPAM_lease_proofs -----------------------
(***************************************************************************)
(* The leases of TenantIPAM: a running container's address is its own, DEL  *)
(* leaves no lease behind, and the store implements LeaseTable.             *)
(*                                                                         *)
(* Two inductive invariants carry the argument.  OwnInv relates a process's *)
(* copy of the store to the command it serves.  LeaseInv, which holds until *)
(* leases are lost, relates the copy to the file: whoever is between its    *)
(* load and its write differs from the file by its own lease only.          *)
(***************************************************************************)
EXTENDS TenantIPAM_proofs

USE DEF Gateway, NoIP, GatewayBytes

\* A process that has loaded a store and is going to write it.
Editing == {"probe", "write", "fill", "writeLast", "fillLast"}

\* The process that holds the lock for an ADD or a DEL.
Exclusive(c) == pc[c] \in Locked /\ op[c] # "CHECK"

\* A step of the process that serves c: nothing of another process changes.
Alone(c) ==
  \A e \in Containers \ {c} :
    /\ pc'[e] = pc[e] /\ op'[e] = op[e]
    /\ data'[e] = data[e] /\ cursor'[e] = cursor[e]
    /\ iface'[e] = iface[e] /\ stopping'[e] = stopping[e]

\* Every step of a process is one.
LEMMA StepAlone ==
  ASSUME TypeOK, NEW c \in Containers,
         (\E o \in Ops : Invoke(c, o)) \/ Step(c) \/ Kill(c)
  PROVE  Alone(c)
<1> USE DEF TypeOK, Alone, Goto, Exit, lock, cni
<1>1. CASE \E o \in Ops : Invoke(c, o)
  BY <1>1 DEF Invoke
<1>2. CASE OpenStore(c) \/ CreateEmpty(c) \/ FillEmpty(c) \/ TakeLock(c)
  BY <1>2 DEF OpenStore, CreateEmpty, FillEmpty, TakeLock, AfterOpen
<1>3. CASE LoadAdd(c) \/ LoadDel(c) \/ LoadCheck(c)
  BY <1>3 DEF LoadAdd, LoadDel, LoadCheck
<1>4. CASE Probe(c)
  BY <1>4 DEF Probe
<1>5. CASE Truncate(c) \/ Fill(c) \/ FillLast(c)
  BY <1>5 DEF Truncate, Fill, FillLast
<1>6. CASE Unlock(c) \/ SetupVeth(c) \/ DelVeth(c) \/ CheckVeth(c) \/ Kill(c)
  BY <1>6 DEF Unlock, SetupVeth, DelVeth, CheckVeth, Kill
<1> QED
  BY <1>1, <1>2, <1>3, <1>4, <1>5, <1>6 DEF Step

-----------------------------------------------------------------------------
(* A process's own copy of the store.                                      *)

\* A store with a bridge has its Last behind the network's address, one without
\* has nothing in it.
Sound(d) == IF d.bridge THEN d.last \in 1 .. N - 1 ELSE d = EmptyData

\* The file holds a sound store, and nothing while it does not parse.
FileSound == Sound(file.data) /\ (file.state # "whole" => ~file.data.bridge)

\* What the copy of c's process holds, by where the process is and what it serves.
OwnOf(c) ==
  /\ Sound(data[c])
  /\ pc[c] \in Editing => data[c].bridge
  /\ pc[c] \in {"probe", "writeLast", "fillLast"} => op[c] = "ADD"
  /\ pc[c] \in {"write", "fill"} => op[c] \in {"ADD", "DEL"}
  /\ pc[c] = "probe" => cursor[c] # 0
  /\ pc[c] \in Editing \ {"probe"} /\ op[c] = "ADD" =>
       cursor[c] \in Hosts /\ data[c].ips[cursor[c]] = c
  /\ pc[c] \in {"write", "fill"} /\ op[c] = "DEL" => Leased(data[c], c) = {}
  /\ op[c] = "ADD" => iface[c] = NoIP
  /\ op[c] = "DEL" => stopping[c]

OwnInv == FileSound /\ \A c \in Containers : OwnOf(c)

\* What a step of one process has to show.
LEMMA OwnInvKept ==
  ASSUME OwnInv, NEW c \in Containers, Alone(c), FileSound', OwnOf(c)'
  PROVE  OwnInv'
  BY DEF OwnInv, Alone, OwnOf, Sound, Leased, Addr, Hosts, Editing

\* Every operator that builds a store builds a sound one.
LEMMA SoundData ==
  /\ Sound(EmptyData) /\ Sound(FreshData)
  /\ \A d \in TenantData, a \in Addr, c \in Containers :
       Sound(d) /\ d.bridge => Sound(AddTo(d, a, c)) /\ Sound(DelFrom(d, a))
  /\ \A d \in TenantData, c \in Containers : Sound(d) /\ Leased(d, c) # {} => d.bridge
<1>1. Sound(EmptyData) /\ Sound(FreshData)
  <2>1. ~EmptyData.bridge /\ FreshData.bridge /\ FreshData.last = 1
    BY DEF EmptyData, FreshData
  <2> QED
    BY <2>1, NAssumption DEF Sound
<1>2. \A d \in TenantData, a \in Addr, c \in Containers :
        Sound(d) /\ d.bridge => Sound(AddTo(d, a, c)) /\ Sound(DelFrom(d, a))
  BY DEF Sound, AddTo, DelFrom, TenantData
<1>3. \A d \in TenantData, c \in Containers : Sound(d) /\ Leased(d, c) # {} => d.bridge
  BY NobodyAssumption DEF Sound, Leased, EmptyData, NoIPs
<1> QED
  BY <1>1, <1>2, <1>3

\* OwnInv is inductive, given the types and InjInv.
LEMMA NextOwnInv == TypeOK /\ InjInv /\ OwnInv /\ [Next]_vars => OwnInv'
<1> SUFFICES ASSUME TypeOK, InjInv, OwnInv, [Next]_vars PROVE OwnInv'
  OBVIOUS
<1> USE DEF Goto, Exit, lock, cni, Editing
<1>0. /\ FileSound /\ file.data \in TenantData /\ Sound(file.data)
      /\ \A c \in Containers : OwnOf(c) /\ data[c] \in TenantData /\ Sound(data[c])
      /\ \A c \in Containers : Loaded(c) \in TenantData /\ Sound(Loaded(c))
  BY DEF OwnInv, FileSound, OwnOf, TypeOK, File, Loaded
<1>1. ASSUME NEW c \in Containers, NEW o \in Ops, Invoke(c, o) PROVE OwnInv'
  <2>1. FileSound' /\ Alone(c)
    BY <1>0, <1>1, StepAlone DEF Invoke, FileSound
  <2>2. OwnOf(c)'
    BY <1>0, <1>1 DEF Invoke, OwnOf, TypeOK, Sound
  <2> QED
    BY <2>1, <2>2, OwnInvKept
<1>2. ASSUME NEW c \in Containers, OpenStore(c) PROVE OwnInv'
  <2>1. FileSound' /\ Alone(c)
    BY <1>0, <1>2, StepAlone DEF OpenStore, FileSound, Step
  <2>2. OwnOf(c)'
    BY <1>0, <1>2, SoundData DEF OpenStore, AfterOpen, OwnOf, TypeOK
  <2> QED
    BY <2>1, <2>2, OwnInvKept
<1>3. ASSUME NEW c \in Containers, CreateEmpty(c) PROVE OwnInv'
  <2>1. FileSound' /\ Alone(c)
    BY <1>3, StepAlone, SoundData DEF CreateEmpty, FileSound, Torn, Step, EmptyData
  <2>2. OwnOf(c)'
    BY <1>0, <1>3 DEF CreateEmpty, OwnOf, TypeOK
  <2> QED
    BY <2>1, <2>2, OwnInvKept
<1>4. ASSUME NEW c \in Containers, FillEmpty(c) PROVE OwnInv'
  <2>1. FileSound' /\ Alone(c)
    BY <1>4, StepAlone, SoundData DEF FillEmpty, FileSound, Torn, Whole, Step, EmptyData
  <2>2. OwnOf(c)'
    BY <1>0, <1>4, SoundData DEF FillEmpty, AfterOpen, OwnOf, TypeOK
  <2> QED
    BY <2>1, <2>2, OwnInvKept
<1>5. ASSUME NEW c \in Containers, TakeLock(c) PROVE OwnInv'
  <2>1. FileSound' /\ Alone(c)
    BY <1>0, <1>5, StepAlone DEF TakeLock, FileSound, Step
  <2>2. OwnOf(c)'
    BY <1>0, <1>5 DEF TakeLock, OwnOf, TypeOK
  <2> QED
    BY <2>1, <2>2, OwnInvKept
<1>6. ASSUME NEW c \in Containers, LoadAdd(c) PROVE OwnInv'
  <2>1. FileSound' /\ Alone(c)
    BY <1>0, <1>6, StepAlone DEF LoadAdd, FileSound, Step
  <2> DEFINE d == Reloaded(c)
  <2>2. d \in TenantData /\ Sound(d)
    BY <1>0 DEF Reloaded
  <2>3. ASSUME ~d.bridge PROVE OwnOf(c)'
    BY <1>0, <1>6, <2>3, SoundData DEF LoadAdd, OwnOf, TypeOK
  <2>4. ASSUME d.bridge PROVE OwnOf(c)'
    <3>1. op'[c] = "ADD" /\ data'[c] = d /\ iface'[c] = NoIP
      BY <1>0, <1>6, <2>4 DEF LoadAdd, TypeOK, OwnOf
    <3>2. pc'[c] = "unlock" \/ (pc'[c] = "probe" /\ cursor'[c] = d.last)
      BY <1>6, <2>4 DEF LoadAdd, TypeOK
    <3>3. d.last # 0
      BY <2>2, <2>4 DEF Sound
    <3> HIDE DEF d
    <3> QED
      BY <2>2, <2>4, <3>1, <3>2, <3>3 DEF OwnOf
  <2>5. OwnOf(c)'
    BY <2>3, <2>4
  <2> QED
    BY <2>1, <2>5, OwnInvKept
<1>7. ASSUME NEW c \in Containers, Probe(c) PROVE OwnInv'
  <2>1. FileSound' /\ Alone(c)
    BY <1>0, <1>7, StepAlone DEF Probe, FileSound, Step
  <2> DEFINE next == NextIP(cursor[c])
  <2>2. /\ pc[c] = "probe" /\ op[c] = "ADD" /\ iface[c] = NoIP /\ data[c].bridge /\ cursor[c] # 0
        /\ op'[c] = op[c] /\ iface'[c] = iface[c]
    BY <1>0, <1>7 DEF Probe, OwnOf
  <2>3. cursor[c] \in Addr \cup {NoIP}
    BY DEF TypeOK
  <2>4. next = NoIP \/ next \in Hosts
    BY <2>2, <2>3, NAssumption DEF NextIP, Addr, Hosts
  <2>5. \/ /\ data'[c] = data[c] /\ pc'[c] \in {"probe", "unlockErr"}
           /\ pc'[c] = "probe" => cursor'[c] = NoIP \/ (cursor'[c] = next /\ next # NoIP)
        \/ /\ data'[c] = AddTo(data[c], next, c) /\ pc'[c] = "write"
           /\ cursor'[c] = next /\ next # NoIP
    <3>1. CASE next = NoIP
      <4>1. /\ UNCHANGED data
            /\ \/ cursor' = [cursor EXCEPT ![c] = NoIP] /\ UNCHANGED pc
               \/ pc' = [pc EXCEPT ![c] = "unlockErr"]
        BY <1>7, <3>1 DEF Probe
      <4> QED
        BY <4>1, <2>2 DEF TypeOK
    <3>2. CASE next # NoIP /\ Contains(data[c], next)
      BY <1>7, <3>2 DEF Probe, TypeOK
    <3>3. CASE next # NoIP /\ ~Contains(data[c], next)
      BY <1>7, <3>3 DEF Probe, TypeOK
    <3> QED
      BY <3>1, <3>2, <3>3
  <2> HIDE DEF next
  <2>6. ASSUME next # NoIP
        PROVE  /\ next \in Hosts /\ next \in Addr /\ next # 0
               /\ AddTo(data[c], next, c).bridge
               /\ AddTo(data[c], next, c).ips[next] = c
               /\ Sound(AddTo(data[c], next, c))
    <3>1. next \in Hosts /\ next \in Addr /\ next # 0
      BY <2>4, <2>6, NAssumption DEF Hosts, Addr
    <3> QED
      BY <3>1, <1>0, <2>2, SoundData DEF AddTo, TenantData
  <2>7. OwnOf(c)'
    BY <1>0, <2>2, <2>5, <2>6 DEF OwnOf
  <2> QED
    BY <2>1, <2>7, OwnInvKept
<1>8. ASSUME NEW c \in Containers, LoadDel(c) PROVE OwnInv'
  <2>1. FileSound' /\ Alone(c)
    BY <1>0, <1>8, StepAlone DEF LoadDel, FileSound, Step
  <2>2. ASSUME pc'[c] # "write" PROVE OwnOf(c)'
    BY <1>0, <1>8, <2>2 DEF LoadDel, OwnOf, TypeOK
  <2>3. ASSUME pc'[c] = "write" PROVE OwnOf(c)'
    <3>1. PICK a \in Leased(file.data, c) : data'[c] = DelFrom(file.data, a)
      BY <1>8, <2>3 DEF LoadDel, TypeOK
    <3>2. a \in Addr /\ file.data.ips[a] = c /\ file.data.bridge
      BY <1>0, SoundData DEF Leased
    <3>3. Sound(DelFrom(file.data, a)) /\ DelFrom(file.data, a).bridge
      BY <1>0, <3>2, SoundData DEF DelFrom, TenantData
    <3>4. Leased(DelFrom(file.data, a), c) = {}
      <4>1. Injective(file.data)
        BY DEF InjInv
      <4> QED
        BY <1>0, <3>2, <4>1, NobodyAssumption DEF Leased, DelFrom, Injective, TenantData
    <3>5. op'[c] = "DEL" /\ stopping'[c]
      BY <1>0, <1>8 DEF LoadDel, OwnOf
    <3> QED
      BY <2>3, <3>1, <3>3, <3>4, <3>5 DEF OwnOf
  <2> QED
    BY <2>1, <2>2, <2>3, OwnInvKept
<1>9. ASSUME NEW c \in Containers, LoadCheck(c) PROVE OwnInv'
  <2>1. FileSound' /\ Alone(c)
    BY <1>0, <1>9, StepAlone DEF LoadCheck, FileSound, Step
  <2>2. OwnOf(c)'
    BY <1>0, <1>9 DEF LoadCheck, OwnOf, TypeOK
  <2> QED
    BY <2>1, <2>2, OwnInvKept
<1>10. ASSUME NEW c \in Containers, Truncate(c) PROVE OwnInv'
  <2>1. FileSound' /\ Alone(c)
    BY <1>10, StepAlone, SoundData DEF Truncate, FileSound, Torn, Step, EmptyData
  <2>2. OwnOf(c)'
    BY <1>0, <1>10 DEF Truncate, OwnOf, TypeOK
  <2> QED
    BY <2>1, <2>2, OwnInvKept
<1>11. ASSUME NEW c \in Containers, Fill(c) PROVE OwnInv'
  <2>1. FileSound' /\ Alone(c)
    BY <1>0, <1>11, StepAlone DEF Fill, FileSound, Whole, Step
  <2>2. ASSUME op[c] = "ADD" PROVE OwnOf(c)'
    <3>1. /\ pc'[c] = "writeLast" /\ op'[c] = "ADD" /\ iface'[c] = iface[c] /\ cursor'[c] = cursor[c]
          /\ data'[c] = [data[c] EXCEPT !.last = cursor[c]]
      BY <1>11, <2>2 DEF Fill, TypeOK
    <3>2. cursor[c] \in Hosts /\ cursor[c] \in 1 .. N - 1 /\ data[c].ips[cursor[c]] = c /\ data[c].bridge
          /\ iface[c] = NoIP
      BY <1>0, <1>11, <2>2, NAssumption DEF Fill, OwnOf, Hosts
    <3>3. data'[c].bridge /\ data'[c].last = cursor[c] /\ data'[c].ips = data[c].ips
      BY <1>0, <3>1, <3>2 DEF TenantData
    <3> QED
      BY <3>1, <3>2, <3>3 DEF OwnOf, Sound
  <2>3. ASSUME op[c] # "ADD" PROVE OwnOf(c)'
    BY <1>0, <1>11, <2>3 DEF Fill, OwnOf, TypeOK
  <2> QED
    BY <2>1, <2>2, <2>3, OwnInvKept
<1>12. ASSUME NEW c \in Containers, FillLast(c) PROVE OwnInv'
  <2>1. FileSound' /\ Alone(c)
    BY <1>0, <1>12, StepAlone DEF FillLast, FileSound, Whole, Step
  <2>2. OwnOf(c)'
    BY <1>0, <1>12 DEF FillLast, OwnOf, TypeOK
  <2> QED
    BY <2>1, <2>2, OwnInvKept
<1>13. ASSUME NEW c \in Containers, Unlock(c) PROVE OwnInv'
  <2>1. FileSound' /\ Alone(c)
    BY <1>0, <1>13, StepAlone DEF Unlock, FileSound, Step
  <2>2. OwnOf(c)'
    BY <1>0, <1>13, SoundData DEF Unlock, OwnOf, TypeOK
  <2> QED
    BY <2>1, <2>2, OwnInvKept
<1>14. ASSUME NEW c \in Containers, SetupVeth(c) \/ DelVeth(c) \/ CheckVeth(c) \/ Kill(c) PROVE OwnInv'
  <2>1. FileSound' /\ Alone(c)
    BY <1>0, <1>14, StepAlone DEF SetupVeth, DelVeth, CheckVeth, Kill, FileSound, Step
  <2>2. OwnOf(c)'
    BY <1>0, <1>14, SoundData DEF SetupVeth, DelVeth, CheckVeth, Kill, OwnOf, TypeOK
  <2> QED
    BY <2>1, <2>2, OwnInvKept
<1>15. ASSUME ProvisionTruncate \/ ProvisionFill \/ DaemonCrash \/ UNCHANGED vars PROVE OwnInv'
  <2>1. FileSound'
    <3>1. CASE ProvisionTruncate
      BY <3>1, SoundData DEF ProvisionTruncate, FileSound, Torn, EmptyData
    <3>2. CASE ProvisionFill
      BY <3>2, SoundData DEF ProvisionFill, FileSound, Whole
    <3>3. CASE UNCHANGED file
      BY <1>0, <3>3 DEF FileSound
    <3> QED
      BY <1>15, <3>1, <3>2, <3>3 DEF DaemonCrash, vars
  <2>2. UNCHANGED <<cni, iface, stopping>>
    BY <1>15 DEF ProvisionTruncate, ProvisionFill, DaemonCrash, vars
  <2>3. \A c \in Containers : OwnOf(c)'
    BY <1>0, <2>2 DEF OwnOf
  <2> QED
    BY <2>1, <2>3 DEF OwnInv
<1> QED
  BY <1>1, <1>2, <1>3, <1>4, <1>5, <1>6, <1>7, <1>8, <1>9, <1>10, <1>11, <1>12, <1>13, <1>14, <1>15
  DEF Next, Step, Provision

-----------------------------------------------------------------------------
(* The lock, and the table of leases.                                      *)

\* Whoever edits the store has the lock to itself.
LEMMA EditorsAlone ==
  ASSUME TypeOK, LockInv, OwnInv
  PROVE  /\ \A c \in Containers : pc[c] \in Editing => Exclusive(c)
         /\ \A c, d \in Containers : Exclusive(c) /\ pc[d] \in Locked => c = d
<1>1. \A c \in Containers : pc[c] \in Editing => Exclusive(c)
  BY DEF OwnInv, OwnOf, Exclusive, Editing, Locked
<1>2. \A c, d \in Containers : Exclusive(c) /\ pc[d] \in Locked => c = d
  BY NobodyAssumption DEF LockInv, Exclusive
<1> QED
  BY <1>1, <1>2

\* The table is the writer's copy while there is a writer, else the file's.
LEMMA TableIs ==
  ASSUME TypeOK, LockInv, OwnInv
  PROVE  /\ \A c \in Containers : MidWrite(c) => Table = data[c].ips
         /\ (\A c \in Containers : ~MidWrite(c)) => Table = file.data.ips
         /\ Table \in [Addr -> Containers \cup {Nobody}]
<1>1. \A c, d \in Containers : MidWrite(c) /\ MidWrite(d) => c = d
  BY EditorsAlone DEF MidWrite, Editing, Locked
<1>2. ASSUME NEW c \in Containers, MidWrite(c) PROVE Table = data[c].ips
  <2>1. (CHOOSE d \in Containers : MidWrite(d)) = c
    BY <1>1, <1>2
  <2> QED
    BY <1>2, <2>1 DEF Table
<1>3. (\A c \in Containers : ~MidWrite(c)) => Table = file.data.ips
  BY DEF Table
<1>4. \A d \in TenantData : d.ips \in [Addr -> Containers \cup {Nobody}]
  BY DEF TenantData
<1>5. file.data \in TenantData /\ \A c \in Containers : data[c] \in TenantData
  BY DEF TypeOK, File
<1> QED
  BY <1>2, <1>3, <1>4, <1>5

\* The same of the next state, for a step after which c alone writes, or nobody does.
LEMMA TableWillBe ==
  /\ \A c \in Containers :
       MidWrite(c)' /\ (\A e \in Containers : MidWrite(e)' => e = c) => Table' = data'[c].ips
  /\ (\A c \in Containers : ~MidWrite(c)') => Table' = file'.data.ips
<1>1. ASSUME NEW c \in Containers, MidWrite(c)', \A e \in Containers : MidWrite(e)' => e = c
      PROVE  Table' = data'[c].ips
  <2>1. (CHOOSE d \in Containers : MidWrite(d)') = c
    BY <1>1
  <2> QED
    BY <1>1, <2>1 DEF Table
<1>2. (\A c \in Containers : ~MidWrite(c)') => Table' = file'.data.ips
  BY DEF Table
<1> QED
  BY <1>1, <1>2

\* Lost leases stay lost.
LEMMA DamageStays == TypeOK /\ [Next]_vars /\ damaged => damaged'
<1> SUFFICES ASSUME TypeOK, [Next]_vars, damaged PROVE damaged'
  OBVIOUS
<1>1. ASSUME NEW c \in Containers, \E o \in Ops : Invoke(c, o) PROVE damaged'
  BY <1>1 DEF Invoke
<1>2. ASSUME NEW c \in Containers, Step(c) \/ Kill(c) PROVE damaged'
  BY <1>2 DEF Step, Kill, OpenStore, CreateEmpty, FillEmpty, TakeLock, LoadAdd, Probe, LoadDel,
     LoadCheck, Truncate, Fill, FillLast, Unlock, SetupVeth, DelVeth, CheckVeth
<1>3. ASSUME Provision \/ DaemonCrash \/ UNCHANGED vars PROVE damaged'
  BY <1>3 DEF Provision, ProvisionTruncate, ProvisionFill, DaemonCrash, vars
<1> QED
  BY <1>1, <1>2, <1>3 DEF Next

-----------------------------------------------------------------------------
(* The leases.                                                             *)

\* A process about to write differs from the file by its own lease.
Differs(c) ==
  \E a \in Addr :
    IF op[c] = "ADD"
      THEN /\ file.data.ips[a] = Nobody
           /\ data[c].ips = [file.data.ips EXCEPT ![a] = c]
           /\ a = cursor[c]
      ELSE /\ file.data.ips[a] = c
           /\ data[c].ips = [file.data.ips EXCEPT ![a] = Nobody]

\* What the copy and the table say of c's lease, by where its process is.
LeaseOf(c) ==
  /\ pc[c] \in {"probe", "writeLast"} => data[c].ips = file.data.ips
  /\ pc[c] = "write" => Differs(c)
  /\ pc[c] \in {"unlock", "net"} /\ op[c] = "ADD" => cursor[c] \in Addr /\ Table[cursor[c]] = c
  /\ pc[c] \in {"unlock", "net"} /\ op[c] = "DEL" => \A a \in Addr : Table[a] # c
  /\ iface[c] # NoIP /\ ~stopping[c] => Table[iface[c]] = c

\* Before the daemon has provisioned the tenant there is no bridge anywhere;
\* afterwards there is one in the file, but while the file is being written.
Provisioned ==
  IF daemon \in {"done", "again"}
    THEN file.data.bridge \/ \E c \in Containers : MidWrite(c)
    ELSE ~file.data.bridge /\ \A c \in Containers : ~data[c].bridge

LeaseInv == ~damaged => Provisioned /\ \A c \in Containers : LeaseOf(c)

\* A step that loses no leases rewrites the file under the lock, or leaves what the
\* file says alone.
LEMMA QuietOrWrite ==
  ASSUME TypeOK, OwnInv, NEW c \in Containers, ~damaged',
         (\E o \in Ops : Invoke(c, o)) \/ Step(c) \/ Kill(c)
  PROVE  \/ Truncate(c) \/ Fill(c) \/ FillLast(c)
         \/ file'.data = file.data /\ ~MidWrite(c) /\ ~MidWrite(c)'
<1> USE DEF Goto, Exit, lock, cni, MidWrite
<1>1. CASE \E o \in Ops : Invoke(c, o)
  BY <1>1 DEF Invoke, TypeOK
<1>2. CASE OpenStore(c) \/ TakeLock(c)
  BY <1>2 DEF OpenStore, TakeLock, AfterOpen, TypeOK
<1>3. CASE CreateEmpty(c)
  <2>1. ~file.data.bridge
    BY <1>3 DEF CreateEmpty, OwnInv, FileSound
  <2> QED
    BY <1>3, <2>1 DEF CreateEmpty, OwnInv, FileSound, Sound, Torn, TypeOK
<1>4. CASE FillEmpty(c)
  <2>1. ~file.data.bridge
    BY <1>4 DEF FillEmpty, OwnInv, FileSound
  <2> QED
    BY <1>4, <2>1 DEF FillEmpty, AfterOpen, OwnInv, FileSound, Sound, Torn, Whole, TypeOK
<1>5. CASE LoadAdd(c) \/ LoadDel(c) \/ LoadCheck(c)
  BY <1>5 DEF LoadAdd, LoadDel, LoadCheck, TypeOK
<1>6. CASE Probe(c)
  BY <1>6 DEF Probe, TypeOK
<1>7. CASE Unlock(c) \/ SetupVeth(c) \/ DelVeth(c) \/ CheckVeth(c)
  BY <1>7 DEF Unlock, SetupVeth, DelVeth, CheckVeth, TypeOK
<1>8. CASE Kill(c)
  BY <1>8 DEF Kill, TypeOK
<1> QED
  BY <1>1, <1>2, <1>3, <1>4, <1>5, <1>6, <1>7, <1>8 DEF Step

\* What a process's step does to the table: a lease is given or taken back by the
\* truncation of the file, and at no other point.
LEMMA TableStep ==
  ASSUME TypeOK, LockInv, OwnInv, LeaseInv, ~damaged, NEW c \in Containers, ~damaged',
         (\E o \in Ops : Invoke(c, o)) \/ Step(c) \/ Kill(c)
  PROVE  \/ Table' = Table
         \/ pc[c] = "write" /\ Table = file.data.ips /\ Table' = data[c].ips
<1>1. Alone(c)
  BY StepAlone
<1>2. \A e \in Containers \ {c} : (MidWrite(e)' <=> MidWrite(e)) /\ data'[e] = data[e]
  BY <1>1 DEF Alone, MidWrite
<1>3. CASE pc[c] \in Editing
  <2>1. \A e \in Containers \ {c} : ~MidWrite(e) /\ ~MidWrite(e)'
    BY <1>2, <1>3, EditorsAlone DEF MidWrite, Editing, Locked
  <2>2. CASE Truncate(c)
    <3>1. pc[c] \in {"write", "writeLast"} /\ data' = data /\ MidWrite(c)' /\ ~MidWrite(c)
      BY <2>2 DEF Truncate, Goto, MidWrite, TypeOK
    <3>2. Table = file.data.ips /\ Table' = data[c].ips
      BY <2>1, <3>1, TableIs, TableWillBe
    <3>3. pc[c] = "writeLast" => data[c].ips = file.data.ips
      BY DEF LeaseInv, LeaseOf
    <3> QED
      BY <3>1, <3>2, <3>3
  <2>3. CASE Fill(c) \/ FillLast(c)
    <3>1. MidWrite(c) /\ ~MidWrite(c)' /\ file' = Whole(data[c])
      BY <2>3 DEF Fill, FillLast, Goto, MidWrite, TypeOK
    <3>2. Table = data[c].ips /\ Table' = file'.data.ips
      BY <2>1, <3>1, TableIs, TableWillBe
    <3> QED
      BY <3>1, <3>2 DEF Whole
  <2>4. CASE file'.data = file.data /\ ~MidWrite(c) /\ ~MidWrite(c)'
    BY <2>1, <2>4, TableIs, TableWillBe
  <2> QED
    BY <2>2, <2>3, <2>4, QuietOrWrite
<1>4. CASE pc[c] \notin Editing
  <2>1. file'.data = file.data /\ ~MidWrite(c) /\ ~MidWrite(c)'
    BY <1>4, QuietOrWrite DEF Truncate, Fill, FillLast, Editing
  <2>2. CASE \E w \in Containers : MidWrite(w)
    <3>1. PICK w \in Containers : MidWrite(w)
      BY <2>2
    <3>2. \A e \in Containers : MidWrite(e)' => e = w
      BY <1>2, <2>1, <3>1, EditorsAlone DEF MidWrite, Editing, Locked
    <3>3. MidWrite(w)' /\ data'[w] = data[w]
      BY <1>2, <2>1, <3>1
    <3> QED
      BY <3>1, <3>2, <3>3, TableIs, TableWillBe
  <2>3. CASE \A w \in Containers : ~MidWrite(w)
    BY <1>2, <2>1, <2>3, TableIs, TableWillBe
  <2> QED
    BY <2>2, <2>3
<1> QED
  BY <1>3, <1>4

\* The leases of the other containers survive a process's step.
LEMMA OthersKept ==
  ASSUME TypeOK, LockInv, OwnInv, LeaseInv, ~damaged, NEW c \in Containers, Alone(c),
         file'.data = file.data \/ Exclusive(c),
         Table' = Table \/ (pc[c] = "write" /\ Table = file.data.ips /\ Table' = data[c].ips)
  PROVE  \A e \in Containers \ {c} : LeaseOf(e)'
<1> SUFFICES ASSUME NEW e \in Containers, e # c PROVE LeaseOf(e)'
  OBVIOUS
<1>1. /\ pc'[e] = pc[e] /\ op'[e] = op[e] /\ data'[e] = data[e]
      /\ cursor'[e] = cursor[e] /\ iface'[e] = iface[e] /\ stopping'[e] = stopping[e]
  BY DEF Alone
<1>2. LeaseOf(e)
  BY DEF LeaseInv
<1>3. \A a \in Addr : Table'[a] = e <=> Table[a] = e
  <2>1. CASE Table' = Table
    BY <2>1
  <2>2. CASE pc[c] = "write" /\ Table = file.data.ips /\ Table' = data[c].ips
    <3>1. Differs(c)
      BY <2>2 DEF LeaseInv, LeaseOf
    <3>2. file.data.ips \in [Addr -> Containers \cup {Nobody}]
      BY DEF TypeOK, File, TenantData
    <3> QED
      BY <2>2, <3>1, <3>2, NobodyAssumption DEF Differs
  <2> QED
    BY <2>1, <2>2
<1>4. pc[e] \in Editing => file'.data = file.data
  BY EditorsAlone DEF Editing, Locked
<1>5. pc'[e] \in {"probe", "writeLast"} => data'[e].ips = file'.data.ips
  BY <1>1, <1>2, <1>4 DEF LeaseOf, Editing
<1>6. pc'[e] = "write" => Differs(e)'
  BY <1>1, <1>2, <1>4 DEF LeaseOf, Editing, Differs
<1>7. cursor[e] \in Addr \cup {NoIP} /\ iface[e] \in Addr \cup {NoIP}
  BY DEF TypeOK
<1> QED
  BY <1>1, <1>2, <1>3, <1>5, <1>6, <1>7 DEF LeaseOf

\* The bridge does not get lost in a process's step.
LEMMA ProvisionedKept ==
  ASSUME Provisioned, NEW c \in Containers, Alone(c), daemon' = daemon,
         data'[c].bridge => data[c].bridge \/ file.data.bridge,
         file'.data.bridge => data[c].bridge \/ file.data.bridge,
         file.data.bridge \/ MidWrite(c) => file'.data.bridge \/ MidWrite(c)'
  PROVE  Provisioned'
<1>1. \A e \in Containers \ {c} : (MidWrite(e)' <=> MidWrite(e)) /\ data'[e] = data[e]
  BY DEF Alone, MidWrite
<1>2. CASE daemon \in {"done", "again"}
  BY <1>1, <1>2 DEF Provisioned
<1>3. CASE daemon \notin {"done", "again"}
  BY <1>1, <1>3 DEF Provisioned
<1> QED
  BY <1>2, <1>3

\* What a process finds in the file when it has the lock to itself.
LEMMA LockedFile ==
  ASSUME TypeOK, LockInv, OwnInv, LeaseInv, ~damaged, NEW c \in Containers, Exclusive(c),
         ~MidWrite(c)
  PROVE  /\ Table = file.data.ips
         /\ data[c].bridge => file.state = "whole"
<1>1. \A e \in Containers : ~MidWrite(e)
  BY EditorsAlone DEF MidWrite, Locked
<1>2. Table = file.data.ips
  BY <1>1, TableIs
<1>3. data[c].bridge => file.data.bridge
  BY <1>1 DEF LeaseInv, Provisioned
<1> QED
  BY <1>2, <1>3 DEF OwnInv, FileSound

\* The daemon provisions an empty store, unless leases are lost.
LEMMA DaemonStep ==
  ASSUME OwnInv, Provisioned, ~damaged', Provision \/ DaemonCrash \/ UNCHANGED vars
  PROVE  Provisioned' /\ file'.data.ips = file.data.ips /\ Table' = Table
<1> USE DEF cni
<1>1. UNCHANGED cni
  BY DEF Provision, ProvisionTruncate, ProvisionFill, DaemonCrash, vars
<1>2. file'.data.ips = file.data.ips /\ Provisioned'
  <2>1. CASE ProvisionTruncate
    <3>1. ~file.data.bridge /\ \A c \in Containers : ~data[c].bridge
      BY <2>1 DEF ProvisionTruncate, Provisioned
    <3>2. file.data = EmptyData /\ file'.data = EmptyData /\ daemon' = "writing"
      BY <2>1, <3>1 DEF ProvisionTruncate, OwnInv, FileSound, Sound, Torn
    <3> QED
      BY <1>1, <3>1, <3>2 DEF Provisioned
  <2>2. CASE ProvisionFill
    <3>1. ~file.data.bridge /\ \A c \in Containers : ~data[c].bridge
      BY <2>2 DEF ProvisionFill, Provisioned
    <3>2. file.data = EmptyData /\ file'.data = FreshData /\ daemon' = "done"
      BY <2>2, <3>1 DEF ProvisionFill, OwnInv, FileSound, Sound, Whole
    <3> QED
      BY <3>2 DEF Provisioned, EmptyData, FreshData
  <2>3. CASE DaemonCrash \/ UNCHANGED vars
    <3>1. file' = file /\ (daemon' \in {"done", "again"} <=> daemon \in {"done", "again"})
      BY <2>3 DEF DaemonCrash, vars
    <3> QED
      BY <1>1, <3>1 DEF Provisioned, MidWrite
  <2> QED
    BY <2>1, <2>2, <2>3 DEF Provision
<1>3. Table' = Table
  BY <1>1, <1>2 DEF Table, MidWrite
<1> QED
  BY <1>2, <1>3

\* LeaseInv is inductive, given the other invariants.
LEMMA NextLeaseInv ==
  TypeOK /\ LockInv /\ InjInv /\ OwnInv /\ LeaseInv /\ [Next]_vars => LeaseInv'
<1> SUFFICES ASSUME TypeOK, LockInv, InjInv, OwnInv, LeaseInv, [Next]_vars, ~damaged'
             PROVE  Provisioned' /\ \A c \in Containers : LeaseOf(c)'
  BY DEF LeaseInv
<1> USE DEF Goto, Exit, lock, cni
<1>0. /\ ~damaged /\ Provisioned
      /\ file.data \in TenantData
      /\ \A c \in Containers : LeaseOf(c) /\ OwnOf(c) /\ data[c] \in TenantData
  BY DamageStays DEF LeaseInv, OwnInv, TypeOK, File
<1>1. ASSUME NEW c \in Containers, \/ Truncate(c) \/ Fill(c) \/ FillLast(c)
                                   \/ file'.data = file.data,
             (\E o \in Ops : Invoke(c, o)) \/ Step(c) \/ Kill(c), LeaseOf(c)'
      PROVE  \A e \in Containers : LeaseOf(e)'
  <2>1. Alone(c)
    BY <1>1, StepAlone
  <2>2. file'.data = file.data \/ Exclusive(c)
    BY <1>1, EditorsAlone DEF Truncate, Fill, FillLast, Editing
  <2>3. Table' = Table \/ (pc[c] = "write" /\ Table = file.data.ips /\ Table' = data[c].ips)
    BY <1>0, <1>1, TableStep
  <2> QED
    BY <1>0, <1>1, <2>1, <2>2, <2>3, OthersKept
<1>2. ASSUME NEW c \in Containers, file'.data = file.data, ~MidWrite(c), ~MidWrite(c)', daemon' = daemon,
             data'[c].bridge => data[c].bridge \/ file.data.bridge,
             (\E o \in Ops : Invoke(c, o)) \/ Step(c) \/ Kill(c)
      PROVE  Provisioned'
  BY <1>0, <1>2, StepAlone, ProvisionedKept
<1>3. ASSUME NEW c \in Containers, NEW o \in Ops, Invoke(c, o)
      PROVE  Provisioned' /\ \A e \in Containers : LeaseOf(e)'
  <2>1. file'.data = file.data /\ ~MidWrite(c) /\ ~MidWrite(c)'
    BY <1>3, QuietOrWrite DEF Invoke, Truncate, Fill, FillLast
  <2>2. Table' = Table
    BY <1>0, <1>3, TableStep DEF Invoke
  <2>3. LeaseOf(c)'
    BY <1>0, <1>3, <2>2 DEF Invoke, LeaseOf, TypeOK
  <2>4. data'[c] = data[c] /\ daemon' = daemon
    BY <1>3 DEF Invoke
  <2> QED
    BY <1>1, <1>2, <1>3, <2>1, <2>3, <2>4
<1>4. ASSUME NEW c \in Containers, OpenStore(c) \/ CreateEmpty(c) \/ FillEmpty(c) \/ TakeLock(c)
      PROVE  Provisioned' /\ \A e \in Containers : LeaseOf(e)'
  <2>1. pc[c] \in {"open", "create", "fillEmpty", "lock"}
    BY <1>4 DEF OpenStore, CreateEmpty, FillEmpty, TakeLock
  <2>2. file'.data = file.data /\ ~MidWrite(c) /\ ~MidWrite(c)'
    BY <1>4, <2>1, QuietOrWrite DEF Step, Truncate, Fill, FillLast
  <2>3. Table' = Table
    BY <1>0, <1>4, <2>1, TableStep DEF Step
  <2>4. /\ pc'[c] \in {"idle", "create", "fillEmpty", "lock", "load"}
        /\ iface' = iface /\ stopping' = stopping /\ daemon' = daemon
        /\ data'[c] \in {data[c], file.data, EmptyData}
    BY <1>4 DEF OpenStore, CreateEmpty, FillEmpty, TakeLock, AfterOpen, Loaded, TypeOK
  <2>5. LeaseOf(c)'
    BY <1>0, <2>3, <2>4 DEF LeaseOf
  <2>6. data'[c].bridge => data[c].bridge \/ file.data.bridge
    BY <2>4 DEF EmptyData
  <2> QED
    BY <1>1, <1>2, <1>4, <2>2, <2>4, <2>5, <2>6 DEF Step
<1>5. ASSUME NEW c \in Containers, LoadAdd(c)
      PROVE  Provisioned' /\ \A e \in Containers : LeaseOf(e)'
  <2>1. pc[c] = "load" /\ op[c] = "ADD" /\ Exclusive(c) /\ ~MidWrite(c)
    BY <1>5 DEF LoadAdd, Exclusive, Locked, MidWrite
  <2>2. file'.data = file.data /\ ~MidWrite(c) /\ ~MidWrite(c)'
    BY <1>5, <2>1, QuietOrWrite DEF Step, Truncate, Fill, FillLast
  <2>3. Table' = Table /\ Table = file.data.ips
    BY <1>0, <1>5, <2>1, TableStep, LockedFile DEF Step
  <2>4. iface' = iface /\ stopping' = stopping /\ daemon' = daemon
    BY <1>5 DEF LoadAdd
  <2> DEFINE d == Reloaded(c)
  <2>5. d.bridge => d = file.data
    BY <1>0, <2>1, LockedFile DEF Reloaded, Loaded
  <2>6. CASE ~d.bridge
    <3>1. pc'[c] = "idle" /\ data'[c] = EmptyData
      BY <1>5, <2>6 DEF LoadAdd, TypeOK
    <3>2. LeaseOf(c)'
      BY <1>0, <2>3, <2>4, <3>1 DEF LeaseOf
    <3> QED
      BY <1>1, <1>2, <1>5, <2>2, <2>4, <3>1, <3>2 DEF Step, EmptyData
  <2>7. CASE d.bridge
    <3>1. data'[c] = file.data /\ op'[c] = "ADD"
      BY <1>5, <2>1, <2>5, <2>7 DEF LoadAdd, TypeOK
    <3>2. pc'[c] = "probe" \/ (pc'[c] = "unlock" /\ cursor'[c] \in Leased(file.data, c))
      BY <1>5, <2>5, <2>7 DEF LoadAdd, TypeOK
    <3>3. LeaseOf(c)'
      BY <1>0, <2>2, <2>3, <2>4, <3>1, <3>2 DEF LeaseOf, Leased
    <3> QED
      BY <1>1, <1>2, <1>5, <2>2, <2>4, <3>1, <3>3 DEF Step
  <2> QED
    BY <2>6, <2>7
<1>6. ASSUME NEW c \in Containers, Probe(c)
      PROVE  Provisioned' /\ \A e \in Containers : LeaseOf(e)'
  <2>1. pc[c] = "probe" /\ op[c] = "ADD" /\ data[c].ips = file.data.ips
    BY <1>0, <1>6 DEF Probe, OwnOf, LeaseOf
  <2>2. file'.data = file.data /\ ~MidWrite(c) /\ ~MidWrite(c)'
    BY <1>6, <2>1, QuietOrWrite DEF Step, Truncate, Fill, FillLast
  <2>3. Table' = Table
    BY <1>0, <1>6, <2>1, TableStep DEF Step
  <2>4. iface' = iface /\ stopping' = stopping /\ daemon' = daemon /\ op' = op
    BY <1>6 DEF Probe
  <2> DEFINE next == NextIP(cursor[c])
  <2>5. next \in Addr \cup {NoIP}
    BY NextIPType DEF TypeOK
  <2>6. CASE data'[c] = data[c] /\ pc'[c] \in {"probe", "unlockErr"}
    <3>1. LeaseOf(c)'
      BY <1>0, <2>1, <2>2, <2>3, <2>4, <2>6 DEF LeaseOf
    <3> QED
      BY <1>1, <1>2, <1>6, <2>2, <2>4, <2>6, <3>1 DEF Step
  <2>7. CASE ~(data'[c] = data[c] /\ pc'[c] \in {"probe", "unlockErr"})
    <3>1. next \in Addr /\ ~Contains(data[c], next) /\ data'[c] = AddTo(data[c], next, c)
          /\ cursor'[c] = next /\ pc'[c] = "write"
      <4>1. CASE next = NoIP
        BY <1>6, <2>1, <2>7, <4>1 DEF Probe, TypeOK
      <4>2. CASE next # NoIP /\ Contains(data[c], next)
        BY <1>6, <2>1, <2>7, <4>2 DEF Probe, TypeOK
      <4>3. CASE next # NoIP /\ ~Contains(data[c], next)
        BY <1>6, <2>5, <4>3 DEF Probe, TypeOK
      <4> QED
        BY <4>1, <4>2, <4>3
    <3> HIDE DEF next
    <3>2. data'[c].ips = [file.data.ips EXCEPT ![next] = c] /\ data'[c].bridge = data[c].bridge
          /\ file.data.ips[next] = Nobody
      BY <1>0, <2>1, <3>1 DEF AddTo, Contains, TenantData
    <3>3. Differs(c)'
      BY <2>1, <2>2, <2>4, <3>1, <3>2 DEF Differs
    <3>4. LeaseOf(c)'
      BY <1>0, <2>3, <2>4, <3>1, <3>3 DEF LeaseOf
    <3> QED
      BY <1>1, <1>2, <1>6, <2>2, <2>4, <3>2, <3>4 DEF Step
  <2> QED
    BY <2>6, <2>7
<1>7. ASSUME NEW c \in Containers, LoadDel(c)
      PROVE  Provisioned' /\ \A e \in Containers : LeaseOf(e)'
  <2>1. pc[c] = "load" /\ op[c] = "DEL" /\ op'[c] = "DEL" /\ Exclusive(c) /\ ~MidWrite(c)
    BY <1>7 DEF LoadDel, Exclusive, Locked, MidWrite
  <2>2. file'.data = file.data /\ ~MidWrite(c) /\ ~MidWrite(c)'
    BY <1>7, <2>1, QuietOrWrite DEF Step, Truncate, Fill, FillLast
  <2>3. Table' = Table /\ Table = file.data.ips
    BY <1>0, <1>7, <2>1, TableStep, LockedFile DEF Step
  <2>4. iface' = iface /\ stopping' = stopping /\ daemon' = daemon /\ stopping[c]
    BY <1>0, <1>7 DEF LoadDel, OwnOf
  <2>5. CASE data' = data /\ pc'[c] # "write"
    <3>1. pc'[c] = "unlockErr" \/ (pc'[c] = "unlock" /\ Leased(file.data, c) = {})
      BY <1>7, <2>5 DEF LoadDel, TypeOK
    <3>2. LeaseOf(c)'
      BY <2>1, <2>3, <2>4, <3>1 DEF LeaseOf, Leased
    <3> QED
      BY <1>1, <1>2, <1>7, <2>2, <2>4, <2>5, <3>2 DEF Step
  <2>6. CASE ~(data' = data /\ pc'[c] # "write")
    <3>1. pc'[c] = "write" /\ \E a \in Leased(file.data, c) : data'[c] = DelFrom(file.data, a)
      BY <1>7, <2>6 DEF LoadDel, TypeOK
    <3>2. PICK a \in Leased(file.data, c) : data'[c] = DelFrom(file.data, a)
      BY <3>1
    <3>3. a \in Addr /\ file.data.ips[a] = c
      BY DEF Leased
    <3>4. data'[c].ips = [file.data.ips EXCEPT ![a] = Nobody] /\ data'[c].bridge = file.data.bridge
      BY <1>0, <3>2, <3>3 DEF DelFrom, TenantData
    <3>5. Differs(c)'
      BY <2>1, <2>2, <3>3, <3>4 DEF Differs
    <3>6. LeaseOf(c)'
      BY <2>4, <3>1, <3>5 DEF LeaseOf
    <3> QED
      BY <1>1, <1>2, <1>7, <2>2, <2>4, <3>4, <3>6 DEF Step
  <2> QED
    BY <2>5, <2>6
<1>8. ASSUME NEW c \in Containers, Truncate(c)
      PROVE  Provisioned' /\ \A e \in Containers : LeaseOf(e)'
  <2>1. /\ pc'[c] \in {"fill", "fillLast"} /\ pc[c] \in Editing /\ op' = op /\ data' = data
        /\ iface' = iface /\ stopping' = stopping /\ daemon' = daemon /\ file' = Torn
    BY <1>8 DEF Truncate, TypeOK, Editing
  <2>2. (op[c] = "ADD" /\ iface[c] = NoIP) \/ (op[c] = "DEL" /\ stopping[c])
    BY <1>0, <1>8 DEF Truncate, OwnOf
  <2>3. LeaseOf(c)'
    BY <2>1, <2>2 DEF LeaseOf
  <2>4. MidWrite(c)' /\ ~file'.data.bridge
    BY <2>1 DEF MidWrite, Torn, EmptyData
  <2>5. Alone(c)
    BY <1>8, StepAlone DEF Step
  <2>6. Provisioned'
    BY <1>0, <2>1, <2>4, <2>5, ProvisionedKept
  <2> QED
    BY <1>1, <1>8, <2>3, <2>6 DEF Step
<1>9. ASSUME NEW c \in Containers, Fill(c) \/ FillLast(c)
      PROVE  Provisioned' /\ \A e \in Containers : LeaseOf(e)'
  <2>1. /\ pc[c] \in Editing /\ MidWrite(c) /\ op' = op /\ cursor' = cursor
        /\ iface' = iface /\ stopping' = stopping /\ daemon' = daemon /\ file' = Whole(data[c])
    BY <1>9 DEF Fill, FillLast, MidWrite, Editing
  <2>2. data[c].bridge /\ file'.data = data[c]
    BY <1>0, <2>1 DEF OwnOf, Whole
  <2>3. Table = data[c].ips /\ Table' = Table
    BY <1>0, <1>9, <2>1, TableIs, TableStep DEF Step, MidWrite
  <2>4. Alone(c)
    BY <1>9, StepAlone DEF Step
  <2>5. Provisioned'
    BY <1>0, <2>1, <2>2, <2>4, ProvisionedKept
  <2>6. /\ data'[c].ips = data[c].ips
        /\ pc'[c] = "writeLast" \/ pc'[c] = "unlock"
        /\ pc'[c] = "unlock" /\ op[c] # "DEL" => pc[c] = "fillLast"
    <3>1. CASE Fill(c) /\ op[c] = "ADD"
      BY <1>0, <3>1 DEF Fill, TypeOK, TenantData
    <3>2. CASE Fill(c) /\ op[c] # "ADD"
      BY <1>0, <3>2 DEF Fill, TypeOK, OwnOf
    <3>3. CASE FillLast(c)
      BY <3>3 DEF FillLast, TypeOK
    <3> QED
      BY <1>9, <3>1, <3>2, <3>3
  <2>7. /\ op[c] = "ADD" => iface[c] = NoIP /\ cursor[c] \in Addr /\ data[c].ips[cursor[c]] = c
        /\ op[c] = "DEL" => stopping[c] /\ \A a \in Addr : data[c].ips[a] # c
        /\ op[c] \in {"ADD", "DEL"}
    BY <1>0, <2>1, <2>2 DEF OwnOf, Editing, Leased, Hosts, Addr, MidWrite
  <2>8. LeaseOf(c)'
    BY <2>1, <2>2, <2>3, <2>6, <2>7 DEF LeaseOf
  <2> QED
    BY <1>1, <1>9, <2>5, <2>8 DEF Step
<1>10. ASSUME NEW c \in Containers,
              LoadCheck(c) \/ Unlock(c) \/ SetupVeth(c) \/ DelVeth(c) \/ CheckVeth(c) \/ Kill(c)
       PROVE  Provisioned' /\ \A e \in Containers : LeaseOf(e)'
  <2>1. Step(c) \/ Kill(c)
    BY <1>10 DEF Step
  <2>2. file'.data = file.data /\ ~MidWrite(c) /\ ~MidWrite(c)'
    BY <1>10 DEF LoadCheck, Unlock, SetupVeth, DelVeth, CheckVeth, Kill, MidWrite, TypeOK
  <2>3. daemon' = daemon /\ (data'[c] = data[c] \/ data'[c] = EmptyData)
    BY <1>10 DEF LoadCheck, Unlock, SetupVeth, DelVeth, CheckVeth, Kill, TypeOK
  <2>4. Table' = Table
    <3>1. CASE pc[c] # "write"
      BY <1>0, <2>1, <3>1, TableStep
    <3>2. CASE pc[c] = "write"
      <4>1. \A e \in Containers : ~MidWrite(e) /\ ~MidWrite(e)'
        BY <2>1, <2>2, <3>2, EditorsAlone, StepAlone DEF MidWrite, Editing, Locked, Alone
      <4> QED
        BY <2>2, <4>1, TableIs, TableWillBe
    <3> QED
      BY <3>1, <3>2
  <2>5. LeaseOf(c)'
    <3>1. CASE LoadCheck(c)
      BY <1>0, <2>4, <3>1 DEF LoadCheck, LeaseOf, TypeOK
    <3>2. CASE Unlock(c)
      BY <1>0, <2>4, <3>2 DEF Unlock, LeaseOf, TypeOK
    <3>3. CASE SetupVeth(c)
      BY <1>0, <2>4, <3>3 DEF SetupVeth, LeaseOf, TypeOK
    <3>4. CASE DelVeth(c) \/ CheckVeth(c) \/ Kill(c)
      BY <1>0, <2>4, <3>4 DEF DelVeth, CheckVeth, Kill, LeaseOf, TypeOK
    <3> QED
      BY <1>10, <3>1, <3>2, <3>3, <3>4
  <2> QED
    BY <1>1, <1>2, <2>1, <2>2, <2>3, <2>5 DEF EmptyData
<1>11. ASSUME Provision \/ DaemonCrash \/ UNCHANGED vars
       PROVE  Provisioned' /\ \A c \in Containers : LeaseOf(c)'
  <2>1. UNCHANGED <<cni, iface, stopping>>
    BY <1>11 DEF Provision, ProvisionTruncate, ProvisionFill, DaemonCrash, vars
  <2>2. file'.data.ips = file.data.ips /\ Provisioned' /\ Table' = Table
    BY <1>0, <1>11, DaemonStep
  <2> QED
    BY <1>0, <2>1, <2>2 DEF LeaseOf, Differs
<1> QED
  BY <1>3, <1>4, <1>5, <1>6, <1>7, <1>8, <1>9, <1>10, <1>11 DEF Next, Step

-----------------------------------------------------------------------------
(* The results.                                                            *)

\* The five invariants; each is inductive given those before it.
Invariants == TypeOK /\ LockInv /\ InjInv /\ OwnInv /\ LeaseInv

\* All five invariants hold of every reachable state.
LEMMA InvariantsHold == Spec => []Invariants
<1>1. Init => Invariants
  <2> SUFFICES ASSUME Init PROVE Invariants
    OBVIOUS
  <2>1. LockInv /\ InjInv
    BY InjectiveData DEF Init, LockInv, Locked, InjInv
  <2>2. OwnInv
    BY SoundData DEF Init, OwnInv, FileSound, OwnOf, Editing, EmptyData
  <2>3. LeaseInv
    BY DEF Init, LeaseInv, Provisioned, LeaseOf, EmptyData
  <2> QED
    BY <2>1, <2>2, <2>3, InitTypeOK DEF Invariants
<1>2. Invariants /\ [Next]_vars => Invariants'
  BY NextTypeOK, NextLockInv, NextInjInv, NextOwnInv, NextLeaseInv DEF Invariants
<1> QED
  BY <1>1, <1>2, PTL DEF Spec

\* AN ADDRESS ON AN INTERFACE IS LEASED to its container until the runtime starts to
\* tear the container down, so two running pods never carry the same address.
THEOREM InterfacesAreBacked == Spec => []LeaseBacksInterface
<1>1. Invariants => LeaseBacksInterface
  BY DEF Invariants, LeaseInv, LeaseOf, LeaseBacksInterface
<1> QED
  BY <1>1, InvariantsHold, PTL

\* A DEL THAT SUCCEEDS LEAVES NO LEASE of its container behind.
THEOREM NothingLeaks == Spec => NoLeakedLease
<1> DEFINE Given == \A c \in Containers :
                      stopping[c] /\ ~stopping'[c] /\ ~damaged => \A a \in Addr : Table[a] # c
<1>1. Invariants /\ [Next]_vars => [Given]_vars
  <2> SUFFICES ASSUME Invariants, [Next]_vars, NEW c \in Containers,
                      stopping[c], ~stopping'[c], ~damaged
               PROVE  \A a \in Addr : Table[a] # c
    OBVIOUS
  <2> USE DEF Invariants
  <2>1. ASSUME NEW d \in Containers, (\E o \in Ops : Invoke(d, o)) \/ Step(d) \/ Kill(d)
        PROVE  \A a \in Addr : Table[a] # c
    <3>1. d = c
      BY <2>1, StepAlone DEF Alone
    <3>2. DelVeth(c)
      <4>1. ~\E o \in Ops : Invoke(c, o)
        BY DEF Invoke, TypeOK
      <4>2. stopping' # stopping
        OBVIOUS
      <4> QED
        BY <2>1, <3>1, <4>1, <4>2 DEF Step, Kill, OpenStore, CreateEmpty, FillEmpty, TakeLock, LoadAdd,
           Probe, LoadDel, LoadCheck, Truncate, Fill, FillLast, Unlock, SetupVeth, CheckVeth
    <3> QED
      BY <3>2 DEF DelVeth, LeaseInv, LeaseOf
  <2>2. ~(Provision \/ DaemonCrash \/ UNCHANGED vars)
    BY DEF Provision, ProvisionTruncate, ProvisionFill, DaemonCrash, vars
  <2> QED
    BY <2>1, <2>2 DEF Next
<1> QED
  BY <1>1, InvariantsHold, PTL DEF Spec, NoLeakedLease

\* THE STORE IMPLEMENTS LeaseTable: every step of the file and of the processes is
\* one atomic change of a table of leases, or none.
THEOREM StoreImplementsLeaseTable == Spec => ImplementsLeaseTable
<1> DEFINE lease == IF damaged THEN NoIPs ELSE Table
           intact == ~damaged
<1>1. Init => Leases!Init
  BY DEF Init, Leases!Init, Leases!Free, Table, MidWrite, EmptyData, NoIPs
<1>2. Invariants /\ [Next]_vars => [Leases!Next]_<<lease, intact>>
  <2> SUFFICES ASSUME Invariants, [Next]_vars PROVE [Leases!Next]_<<lease, intact>>
    OBVIOUS
  <2> USE DEF Invariants
  <2>1. CASE damaged
    BY <2>1, DamageStays
  <2>2. CASE ~damaged /\ damaged'
    BY <2>2 DEF Leases!Next, Leases!Lose, Leases!Free, NoIPs
  <2>3. CASE ~damaged /\ ~damaged'
    <3>1. ASSUME NEW c \in Containers, (\E o \in Ops : Invoke(c, o)) \/ Step(c) \/ Kill(c)
          PROVE  [Leases!Next]_<<lease, intact>>
      <4>1. CASE Table' = Table
        BY <2>3, <4>1
      <4>2. CASE pc[c] = "write" /\ Table = file.data.ips /\ Table' = data[c].ips
        <5>1. PICK a \in Addr :
                IF op[c] = "ADD"
                  THEN /\ Table[a] = Nobody
                       /\ Table' = [Table EXCEPT ![a] = c]
                       /\ a = cursor[c]
                  ELSE /\ Table[a] = c
                       /\ Table' = [Table EXCEPT ![a] = Nobody]
          BY <2>3, <4>2 DEF LeaseInv, LeaseOf, Differs
        <5>2. CASE op[c] = "ADD"
          <6>1. a \in Hosts
            BY <4>2, <5>1, <5>2 DEF OwnInv, OwnOf, Editing
          <6>2. \A b \in Addr : Table[b] # c
            <7>1. Injective(data[c]) /\ Table \in [Addr -> Containers \cup {Nobody}]
              BY TableIs DEF InjInv
            <7> QED
              BY <4>2, <5>1, <5>2, <7>1, NobodyAssumption DEF Injective
          <6>3. Leases!Grant(c, a)
            BY <2>3, <5>1, <5>2, <6>2 DEF Leases!Grant
          <6> QED
            BY <6>1, <6>3 DEF Leases!Next
        <5>3. CASE op[c] # "ADD"
          BY <2>3, <5>1, <5>3 DEF Leases!Next, Leases!Release
        <5> QED
          BY <5>2, <5>3
      <4> QED
        BY <2>3, <3>1, <4>1, <4>2, TableStep
    <3>2. ASSUME Provision \/ DaemonCrash \/ UNCHANGED vars PROVE [Leases!Next]_<<lease, intact>>
      BY <2>3, <3>2, DaemonStep DEF LeaseInv
    <3> QED
      BY <3>1, <3>2 DEF Next
  <2> QED
    BY <2>1, <2>2, <2>3
<1> QED
  BY <1>1, <1>2, InvariantsHold, PTL DEF Spec, ImplementsLeaseTable, Leases!Spec

=============================================================================
