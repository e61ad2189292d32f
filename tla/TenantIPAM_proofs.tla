------------------------- MODULE TenantIPAM_proofs -------------------------
(***************************************************************************)
(* Proofs about TenantIPAM, for every set of containers and every subnet.   *)
(***************************************************************************)
EXTENDS TenantIPAM, TLAPS

USE DEF Gateway, NoIP, GatewayBytes

-----------------------------------------------------------------------------
(* The type invariant.                                                     *)

\* Every operator that builds a TenantData from another yields a TenantData.
LEMMA DataTypes ==
  /\ EmptyData \in TenantData
  /\ FreshData \in TenantData
  /\ Torn \in File
  /\ \A d \in TenantData : Whole(d) \in File
  /\ \A d \in TenantData, a \in Addr, c \in Containers :
       AddTo(d, a, c) \in TenantData /\ DelFrom(d, a) \in TenantData
  /\ \A d \in TenantData, l \in Addr \cup {NoIP} :
       [d EXCEPT !.last = l] \in TenantData
<1>1. EmptyData \in TenantData
  BY DEF TenantData, EmptyData, NoIPs
<1>2. FreshData \in TenantData
  BY NAssumption DEF TenantData, FreshData, NoIPs, Addr
<1>3. Torn \in File
  BY <1>1 DEF File, Torn
<1>4. \A d \in TenantData : Whole(d) \in File
  BY DEF File, Whole
<1>5. ASSUME NEW d \in TenantData, NEW a \in Addr, NEW v \in Containers \cup {Nobody}
      PROVE  [d EXCEPT !.ips[a] = v] \in TenantData
  <2>1. [d.ips EXCEPT ![a] = v] \in [Addr -> Containers \cup {Nobody}]
    BY DEF TenantData
  <2> QED
    BY <2>1 DEF TenantData
<1>6. \A d \in TenantData, l \in Addr \cup {NoIP} : [d EXCEPT !.last = l] \in TenantData
  BY DEF TenantData
<1> QED
  BY <1>1, <1>2, <1>3, <1>4, <1>5, <1>6 DEF AddTo, DelFrom

\* NextIP stays inside the subnet or reports the overflow.
LEMMA NextIPType == \A ip \in Addr \cup {NoIP} : NextIP(ip) \in Addr \cup {NoIP}
  BY NAssumption DEF NextIP, Addr

\* The initial state is well typed.
LEMMA InitTypeOK == Init => TypeOK
<1> SUFFICES ASSUME Init PROVE TypeOK
  OBVIOUS
<1>1. file \in File
  BY DataTypes DEF Init, File
<1>2. pc \in [Containers -> Labels] /\ op \in [Containers -> Ops \cup {"none"}]
  BY DEF Init, Labels
<1>3. data \in [Containers -> TenantData]
  BY DataTypes DEF Init
<1>4. cursor \in [Containers -> Addr \cup {NoIP}] /\ iface \in [Containers -> Addr \cup {NoIP}]
  BY DEF Init
<1> QED
  BY <1>1, <1>2, <1>3, <1>4 DEF Init, TypeOK

\* The process ends, or moves to another label, with its variables well typed.
LEMMA ControlTypes ==
  ASSUME TypeOK, NEW c \in Containers
  PROVE  /\ \A l \in Labels : Goto(c, l) => pc' \in [Containers -> Labels]
         /\ Exit(c) => /\ pc' \in [Containers -> Labels]
                       /\ op' \in [Containers -> Ops \cup {"none"}]
                       /\ data' \in [Containers -> TenantData]
                       /\ cursor' \in [Containers -> Addr \cup {NoIP}]
         /\ ReleaseLock(c) => /\ writer' \in Containers \cup {Nobody}
                              /\ readers' \in SUBSET Containers
         /\ Loaded(c) \in TenantData
         /\ \A d \in TenantData : AfterOpen(c, d) =>
                       /\ pc' \in [Containers -> Labels]
                       /\ op' \in [Containers -> Ops \cup {"none"}]
                       /\ data' \in [Containers -> TenantData]
                       /\ cursor' \in [Containers -> Addr \cup {NoIP}]
<1>1. \A l \in Labels : Goto(c, l) => pc' \in [Containers -> Labels]
  BY DEF TypeOK, Goto
<1>2. Exit(c) => /\ pc' \in [Containers -> Labels]
                 /\ op' \in [Containers -> Ops \cup {"none"}]
                 /\ data' \in [Containers -> TenantData]
                 /\ cursor' \in [Containers -> Addr \cup {NoIP}]
  <2> "idle" \in Labels
    BY DEF Labels
  <2> QED
    BY <1>1, DataTypes DEF TypeOK, Exit
<1>3. ReleaseLock(c) => writer' \in Containers \cup {Nobody} /\ readers' \in SUBSET Containers
  BY DEF TypeOK, ReleaseLock
<1>4. Loaded(c) \in TenantData
  BY DEF TypeOK, Loaded, File
<1>5. \A d \in TenantData : AfterOpen(c, d) =>
                       /\ pc' \in [Containers -> Labels]
                       /\ op' \in [Containers -> Ops \cup {"none"}]
                       /\ data' \in [Containers -> TenantData]
                       /\ cursor' \in [Containers -> Addr \cup {NoIP}]
  <2> "lock" \in Labels
    BY DEF Labels
  <2> QED
    BY <1>1, <1>2 DEF TypeOK, AfterOpen
<1> QED
  BY <1>1, <1>2, <1>3, <1>4, <1>5

\* TypeOK is inductive.
LEMMA NextTypeOK == TypeOK /\ [Next]_vars => TypeOK'
<1> SUFFICES ASSUME TypeOK, [Next]_vars PROVE TypeOK'
  OBVIOUS
<1> USE DEF TypeOK, Labels, Locked, Ops, lock, cni
<1>1. ASSUME NEW c \in Containers, NEW o \in Ops, Invoke(c, o) PROVE TypeOK'
  BY <1>1, ControlTypes DEF Invoke
<1>2. ASSUME NEW c \in Containers, OpenStore(c) PROVE TypeOK'
  BY <1>2, ControlTypes, DataTypes DEF OpenStore
<1>3. ASSUME NEW c \in Containers, CreateEmpty(c) PROVE TypeOK'
  BY <1>3, ControlTypes, DataTypes DEF CreateEmpty
<1>4. ASSUME NEW c \in Containers, FillEmpty(c) PROVE TypeOK'
  BY <1>4, ControlTypes, DataTypes DEF FillEmpty
<1>5. ASSUME NEW c \in Containers, TakeLock(c) PROVE TypeOK'
  BY <1>5, ControlTypes, DataTypes DEF TakeLock
<1>6. ASSUME NEW c \in Containers, LoadAdd(c) PROVE TypeOK'
  <2>1. Reloaded(c) \in TenantData /\ Reloaded(c).last \in Addr \cup {NoIP}
    BY ControlTypes DEF Reloaded, TenantData
  <2>2. cursor' \in [Containers -> Addr \cup {NoIP}]
    BY <1>6, <2>1, ControlTypes DEF LoadAdd, Leased
  <2>3. pc' \in [Containers -> Labels] /\ op' \in [Containers -> Ops \cup {"none"}]
    BY <1>6, ControlTypes DEF LoadAdd
  <2>4. data' \in [Containers -> TenantData]
    BY <1>6, <2>1, ControlTypes DEF LoadAdd
  <2>5. writer' \in Containers \cup {Nobody} /\ readers' \in SUBSET Containers
    BY <1>6, ControlTypes DEF LoadAdd
  <2> QED
    BY <1>6, <2>2, <2>3, <2>4, <2>5 DEF LoadAdd
<1>7. ASSUME NEW c \in Containers, Probe(c) PROVE TypeOK'
  <2> DEFINE next == NextIP(cursor[c])
  <2>1. next \in Addr \cup {NoIP}
    BY NextIPType
  <2>2. pc' \in [Containers -> Labels]
    BY <1>7, ControlTypes DEF Probe
  <2>3. cursor' \in [Containers -> Addr \cup {NoIP}]
    <3> HIDE DEF next
    <3> QED
      BY <1>7, <2>1 DEF Probe, next
  <2>4. data' \in [Containers -> TenantData]
    <3>1. next # NoIP => AddTo(data[c], next, c) \in TenantData
      BY <2>1, DataTypes
    <3> HIDE DEF next
    <3> QED
      BY <1>7, <3>1 DEF Probe, next
  <2> QED
    BY <1>7, <2>2, <2>3, <2>4 DEF Probe
<1>8. ASSUME NEW c \in Containers, LoadDel(c) PROVE TypeOK'
  <2>1. \A a \in Leased(file.data, c) : DelFrom(file.data, a) \in TenantData
    BY DataTypes DEF File, Leased
  <2>2. data' \in [Containers -> TenantData]
    BY <1>8, <2>1 DEF LoadDel
  <2>3. pc' \in [Containers -> Labels]
    BY <1>8, ControlTypes DEF LoadDel
  <2> QED
    BY <1>8, <2>2, <2>3 DEF LoadDel
<1>9. ASSUME NEW c \in Containers, LoadCheck(c) PROVE TypeOK'
  BY <1>9, ControlTypes, DataTypes DEF LoadCheck
<1>10. ASSUME NEW c \in Containers, Truncate(c) PROVE TypeOK'
  BY <1>10, ControlTypes, DataTypes DEF Truncate
<1>11. ASSUME NEW c \in Containers, Fill(c) PROVE TypeOK'
  <2>1. [data[c] EXCEPT !.last = cursor[c]] \in TenantData
    BY DataTypes
  <2>2. data' \in [Containers -> TenantData]
    BY <1>11, <2>1 DEF Fill
  <2>3. pc' \in [Containers -> Labels]
    BY <1>11, ControlTypes DEF Fill
  <2>4. file' \in File
    BY <1>11, DataTypes DEF Fill
  <2> QED
    BY <1>11, <2>2, <2>3, <2>4 DEF Fill
<1>12. ASSUME NEW c \in Containers, FillLast(c) PROVE TypeOK'
  BY <1>12, ControlTypes, DataTypes DEF FillLast
<1>13. ASSUME NEW c \in Containers, Unlock(c) PROVE TypeOK'
  BY <1>13, ControlTypes, DataTypes DEF Unlock
<1>14. ASSUME NEW c \in Containers, SetupVeth(c) PROVE TypeOK'
  BY <1>14, ControlTypes, DataTypes DEF SetupVeth
<1>15. ASSUME NEW c \in Containers, DelVeth(c) PROVE TypeOK'
  BY <1>15, ControlTypes, DataTypes DEF DelVeth
<1>16. ASSUME NEW c \in Containers, CheckVeth(c) PROVE TypeOK'
  BY <1>16, ControlTypes, DataTypes DEF CheckVeth
<1>17. ASSUME NEW c \in Containers, Kill(c) PROVE TypeOK'
  BY <1>17, ControlTypes, DataTypes DEF Kill
<1>18. ASSUME ProvisionTruncate PROVE TypeOK'
  BY <1>18, DataTypes DEF ProvisionTruncate
<1>19. ASSUME ProvisionFill PROVE TypeOK'
  BY <1>19, DataTypes DEF ProvisionFill
<1>20. ASSUME DaemonCrash PROVE TypeOK'
  BY <1>20, DataTypes DEF DaemonCrash
<1>21. ASSUME UNCHANGED vars PROVE TypeOK'
  BY <1>21 DEF vars
<1> QED
  BY <1>1, <1>2, <1>3, <1>4, <1>5, <1>6, <1>7, <1>8, <1>9, <1>10, <1>11, <1>12, <1>13, <1>14, <1>15, <1>16, <1>17, <1>18, <1>19, <1>20, <1>21 DEF Next, Step, Provision

\* TYPE CORRECTNESS.
THEOREM TypeCorrect == Spec => []TypeOK
  BY InitTypeOK, NextTypeOK, PTL DEF Spec

-----------------------------------------------------------------------------
(* The flock.                                                              *)

\* Who is between Lock and Unlock holds the lock in the mode of its command.
LockInv ==
  /\ writer # Nobody => readers = {}
  /\ \A c \in Containers :
       pc[c] \in Locked => IF op[c] = "CHECK" THEN c \in readers ELSE writer = c

\* Steps outside Lock and Unlock, and steps that leave the critical section.
LEMMA LockInvKept ==
  ASSUME TypeOK, LockInv, NEW c \in Containers,
         UNCHANGED lock \/ (ReleaseLock(c) /\ pc'[c] \notin Locked),
         \A d \in Containers : pc'[d] \in Locked => pc[d] \in Locked /\ op'[d] = op[d]
  PROVE  LockInv'
<1>1. CASE UNCHANGED lock
  BY <1>1 DEF LockInv, lock
<1>2. CASE ReleaseLock(c) /\ pc'[c] \notin Locked
  BY <1>2, NobodyAssumption DEF LockInv, ReleaseLock, TypeOK
<1> QED
  BY <1>1, <1>2

\* LockInv is inductive, given the types.
LEMMA NextLockInv == TypeOK /\ LockInv /\ [Next]_vars => LockInv'
<1> SUFFICES ASSUME TypeOK, LockInv, [Next]_vars PROVE LockInv'
  OBVIOUS
<1> USE DEF Goto, Exit, lock, cni
<1>1. ASSUME NEW c \in Containers, NEW o \in Ops, Invoke(c, o) PROVE LockInv'
  BY <1>1, LockInvKept DEF Invoke, TypeOK, Locked
<1>2. ASSUME NEW c \in Containers, OpenStore(c) PROVE LockInv'
  BY <1>2, LockInvKept DEF OpenStore, TypeOK, Locked, AfterOpen
<1>3. ASSUME NEW c \in Containers, CreateEmpty(c) PROVE LockInv'
  BY <1>3, LockInvKept DEF CreateEmpty, TypeOK, Locked
<1>4. ASSUME NEW c \in Containers, FillEmpty(c) PROVE LockInv'
  BY <1>4, LockInvKept DEF FillEmpty, TypeOK, Locked, AfterOpen
<1>5. ASSUME NEW c \in Containers, TakeLock(c) PROVE LockInv'
  BY <1>5, NobodyAssumption DEF TakeLock, LockFree, LockInv, TypeOK, Locked
<1>6. ASSUME NEW c \in Containers, LoadAdd(c) PROVE LockInv'
  BY <1>6, LockInvKept DEF LoadAdd, TypeOK, Locked
<1>7. ASSUME NEW c \in Containers, Probe(c) PROVE LockInv'
  BY <1>7, LockInvKept DEF Probe, TypeOK, Locked
<1>8. ASSUME NEW c \in Containers, LoadDel(c) PROVE LockInv'
  BY <1>8, LockInvKept DEF LoadDel, TypeOK, Locked
<1>9. ASSUME NEW c \in Containers, LoadCheck(c) PROVE LockInv'
  BY <1>9, LockInvKept DEF LoadCheck, TypeOK, Locked
<1>10. ASSUME NEW c \in Containers, Truncate(c) PROVE LockInv'
  BY <1>10, LockInvKept DEF Truncate, TypeOK, Locked
<1>11. ASSUME NEW c \in Containers, Fill(c) PROVE LockInv'
  BY <1>11, LockInvKept DEF Fill, TypeOK, Locked
<1>12. ASSUME NEW c \in Containers, FillLast(c) PROVE LockInv'
  BY <1>12, LockInvKept DEF FillLast, TypeOK, Locked
<1>13. ASSUME NEW c \in Containers, Unlock(c) PROVE LockInv'
  BY <1>13, LockInvKept DEF Unlock, TypeOK, Locked
<1>14. ASSUME NEW c \in Containers, SetupVeth(c) PROVE LockInv'
  BY <1>14, LockInvKept DEF SetupVeth, TypeOK, Locked
<1>15. ASSUME NEW c \in Containers, DelVeth(c) PROVE LockInv'
  BY <1>15, LockInvKept DEF DelVeth, TypeOK, Locked
<1>16. ASSUME NEW c \in Containers, CheckVeth(c) PROVE LockInv'
  BY <1>16, LockInvKept DEF CheckVeth, TypeOK, Locked
<1>17. ASSUME NEW c \in Containers, Kill(c) PROVE LockInv'
  BY <1>17, LockInvKept DEF Kill, TypeOK, Locked
<1>18. ASSUME ProvisionTruncate \/ ProvisionFill \/ DaemonCrash \/ UNCHANGED vars PROVE LockInv'
  BY <1>18 DEF ProvisionTruncate, ProvisionFill, DaemonCrash, vars, LockInv
<1> QED
  BY <1>1, <1>2, <1>3, <1>4, <1>5, <1>6, <1>7, <1>8, <1>9, <1>10, <1>11, <1>12, <1>13, <1>14, <1>15, <1>16, <1>17, <1>18 DEF Next, Step, Provision

\* MUTUAL EXCLUSION of the commands that work on one tenant's store.
THEOREM LockExcludes == Spec => []LockDiscipline
<1>1. Init => LockInv
  BY DEF Init, LockInv, Locked
<1>2. TypeOK /\ LockInv => LockDiscipline
  BY NobodyAssumption DEF TypeOK, LockInv, LockDiscipline
<1> QED
  BY <1>1, <1>2, TypeCorrect, NextLockInv, PTL DEF Spec

-----------------------------------------------------------------------------
(* One address per container.                                              *)

\* No container stands at two addresses of a copy of the store.
Injective(d) ==
  \A a, b \in Addr : d.ips[a] = d.ips[b] /\ d.ips[a] # Nobody => a = b

\* That holds of the file and of every copy, and a scan for a free address runs only
\* while its container has none.
InjInv ==
  /\ Injective(file.data)
  /\ \A c \in Containers : Injective(data[c])
  /\ \A c \in Containers : pc[c] = "probe" => Leased(data[c], c) = {}

\* Every operator that builds a copy keeps it injective.
LEMMA InjectiveData ==
  /\ Injective(EmptyData)
  /\ Injective(FreshData)
  /\ \A d \in TenantData, a \in Addr, c \in Containers :
       /\ Injective(d) => Injective(DelFrom(d, a))
       /\ Injective(d) /\ Leased(d, c) = {} => Injective(AddTo(d, a, c))
  /\ \A d \in TenantData, l \in Addr \cup {NoIP} :
       Injective(d) => Injective([d EXCEPT !.last = l])
<1>1. Injective(EmptyData) /\ Injective(FreshData)
  BY DEF Injective, EmptyData, FreshData, NoIPs
<1>2. ASSUME NEW d \in TenantData, NEW a \in Addr, NEW c \in Containers, Injective(d)
      PROVE  Injective(DelFrom(d, a))
  BY <1>2 DEF Injective, DelFrom, TenantData
<1>3. ASSUME NEW d \in TenantData, NEW a \in Addr, NEW c \in Containers, Injective(d),
             Leased(d, c) = {}
      PROVE  Injective(AddTo(d, a, c))
  BY <1>3 DEF Injective, AddTo, TenantData, Leased
<1>4. \A d \in TenantData, l \in Addr \cup {NoIP} :
        Injective(d) => Injective([d EXCEPT !.last = l])
  BY DEF Injective, TenantData
<1> QED
  BY <1>1, <1>2, <1>3, <1>4

\* What a step of one process has to show.
LEMMA InjInvKept ==
  ASSUME InjInv, NEW c \in Containers,
         \A e \in Containers \ {c} : data'[e] = data[e] /\ (pc'[e] = "probe" => pc[e] = "probe"),
         Injective(data'[c]),
         pc'[c] = "probe" => Leased(data'[c], c) = {},
         Injective(file'.data)
  PROVE  InjInv'
  BY DEF InjInv, Leased, Injective, Addr

\* InjInv is inductive, given the types.
LEMMA NextInjInv == TypeOK /\ InjInv /\ [Next]_vars => InjInv'
<1> SUFFICES ASSUME TypeOK, InjInv, [Next]_vars PROVE InjInv'
  OBVIOUS
<1>0. /\ file.data \in TenantData /\ Injective(file.data)
      /\ \A c \in Containers : data[c] \in TenantData /\ Injective(data[c])
      /\ \A c \in Containers : Loaded(c) \in TenantData /\ Injective(Loaded(c))
      /\ Injective(Torn.data) /\ \A d \in TenantData : Whole(d).data = d
  BY InjectiveData DEF TypeOK, InjInv, File, Loaded, Torn, Whole
<1> USE DEF Goto, lock, cni
<1>a. ASSUME NEW c \in Containers, Exit(c)
      PROVE  /\ \A e \in Containers \ {c} : data'[e] = data[e] /\ (pc'[e] = "probe" => pc[e] = "probe")
             /\ Injective(data'[c]) /\ pc'[c] # "probe"
  BY <1>a, InjectiveData DEF Exit, TypeOK
<1>b. ASSUME NEW c \in Containers, NEW d \in TenantData, Injective(d), AfterOpen(c, d)
      PROVE  /\ \A e \in Containers \ {c} : data'[e] = data[e] /\ (pc'[e] = "probe" => pc[e] = "probe")
             /\ Injective(data'[c]) /\ pc'[c] # "probe"
  BY <1>a, <1>b DEF AfterOpen, TypeOK
<1>1. ASSUME NEW c \in Containers, NEW o \in Ops, Invoke(c, o) PROVE InjInv'
  BY <1>1, <1>0, InjInvKept, InjectiveData DEF Invoke, TypeOK, InjInv
<1>2. ASSUME NEW c \in Containers, OpenStore(c) PROVE InjInv'
  <2>1. CASE file.state = "missing"
    BY <1>2, <2>1, <1>0, InjInvKept DEF OpenStore, TypeOK, InjInv
  <2>2. CASE file.state # "missing"
    BY <1>2, <2>2, <1>0, <1>b, InjInvKept DEF OpenStore
  <2> QED
    BY <2>1, <2>2
<1>3. ASSUME NEW c \in Containers, CreateEmpty(c) PROVE InjInv'
  BY <1>3, <1>0, InjInvKept, InjectiveData DEF CreateEmpty, TypeOK, InjInv
<1>4. ASSUME NEW c \in Containers, FillEmpty(c) PROVE InjInv'
  <2>1. Injective(file'.data)
    BY <1>4, <1>0, InjectiveData, DataTypes DEF FillEmpty
  <2> QED
    BY <1>4, <2>1, <1>0, <1>b, InjInvKept DEF FillEmpty
<1>5. ASSUME NEW c \in Containers, TakeLock(c) PROVE InjInv'
  BY <1>5, <1>0, InjInvKept, InjectiveData DEF TakeLock, TypeOK, InjInv
<1>6. ASSUME NEW c \in Containers, LoadAdd(c) PROVE InjInv'
  <2> DEFINE d == Reloaded(c)
  <2>1. d \in TenantData /\ Injective(d)
    BY <1>0 DEF Reloaded
  <2>2. CASE ~d.bridge
    BY <1>6, <2>2, <1>0, <1>a, InjInvKept DEF LoadAdd
  <2>3. CASE d.bridge
    <3>1. data' = [data EXCEPT ![c] = d] /\ UNCHANGED file
      BY <1>6, <2>3 DEF LoadAdd
    <3>2. data'[c] = d /\ \A e \in Containers \ {c} : data'[e] = data[e]
      BY <3>1 DEF TypeOK
    <3>3. \A e \in Containers \ {c} : pc'[e] = pc[e]
      BY <1>6, <2>3 DEF LoadAdd, TypeOK
    <3>4. pc'[c] = "probe" => Leased(d, c) = {}
      BY <1>6, <2>3 DEF LoadAdd, TypeOK
    <3> QED
      BY <2>1, <3>1, <3>2, <3>3, <3>4, <1>0, InjInvKept
  <2> QED
    BY <2>2, <2>3
<1>7. ASSUME NEW c \in Containers, Probe(c) PROVE InjInv'
  <2> DEFINE next == NextIP(cursor[c])
  <2>1. next \in Addr \cup {NoIP}
    BY NextIPType DEF TypeOK
  <2>2. pc[c] = "probe" /\ Leased(data[c], c) = {} /\ UNCHANGED file
    BY <1>7 DEF Probe, InjInv
  <2>3. \A e \in Containers \ {c} : data'[e] = data[e] /\ pc'[e] = pc[e]
    BY <1>7 DEF Probe, TypeOK
  <2>4. \/ data'[c] = data[c]
        \/ next # NoIP /\ data'[c] = AddTo(data[c], next, c) /\ pc'[c] = "write"
    BY <1>7 DEF Probe, TypeOK
  <2> HIDE DEF next
  <2>5. Injective(data'[c]) /\ (pc'[c] = "probe" => Leased(data'[c], c) = {})
    BY <2>1, <2>2, <2>4, <1>0, InjectiveData
  <2> QED
    BY <2>2, <2>3, <2>5, <1>0, InjInvKept
<1>8. ASSUME NEW c \in Containers, LoadDel(c) PROVE InjInv'
  <2>1. pc'[c] # "probe" /\ UNCHANGED file
    BY <1>8 DEF LoadDel, TypeOK
  <2>2. \A e \in Containers \ {c} : data'[e] = data[e] /\ pc'[e] = pc[e]
    BY <1>8 DEF LoadDel, TypeOK
  <2>3. data'[c] = data[c] \/ \E a \in Addr : data'[c] = DelFrom(file.data, a)
    BY <1>8 DEF LoadDel, TypeOK, Leased
  <2>4. Injective(data'[c])
    BY <2>3, <1>0, InjectiveData
  <2> QED
    BY <2>1, <2>2, <2>4, <1>0, InjInvKept
<1>9. ASSUME NEW c \in Containers, LoadCheck(c) PROVE InjInv'
  BY <1>9, <1>0, InjInvKept, InjectiveData DEF LoadCheck, TypeOK, InjInv
<1>10. ASSUME NEW c \in Containers, Truncate(c) PROVE InjInv'
  BY <1>10, <1>0, InjInvKept, InjectiveData DEF Truncate, TypeOK, InjInv
<1>11. ASSUME NEW c \in Containers, Fill(c) PROVE InjInv'
  <2>1. pc'[c] # "probe" /\ file' = Whole(data[c])
    BY <1>11 DEF Fill, TypeOK
  <2>2. \A e \in Containers \ {c} : data'[e] = data[e] /\ pc'[e] = pc[e]
    BY <1>11 DEF Fill, TypeOK
  <2>3. data'[c] = data[c] \/ data'[c] = [data[c] EXCEPT !.last = cursor[c]]
    BY <1>11 DEF Fill, TypeOK
  <2> DEFINE l == cursor[c]
  <2>4. data[c] \in TenantData /\ Injective(data[c]) /\ l \in Addr \cup {NoIP}
    BY <1>0 DEF TypeOK
  <2>5. data'[c] = data[c] \/ data'[c] = [data[c] EXCEPT !.last = l]
    BY <2>3
  <2> HIDE DEF l
  <2>6. Injective(data'[c])
    BY <2>4, <2>5 DEF Injective, TenantData
  <2> QED
    BY <2>1, <2>2, <2>6, <1>0, InjInvKept
<1>12. ASSUME NEW c \in Containers, FillLast(c) PROVE InjInv'
  BY <1>12, <1>0, InjInvKept, InjectiveData DEF FillLast, TypeOK, InjInv
<1>13. ASSUME NEW c \in Containers, Unlock(c) PROVE InjInv'
  <2>1. CASE pc[c] = "unlock"
    BY <1>13, <2>1, <1>0, InjInvKept DEF Unlock, TypeOK
  <2>2. CASE pc[c] # "unlock"
    BY <1>13, <2>2, <1>0, <1>a, InjInvKept DEF Unlock
  <2> QED
    BY <2>1, <2>2
<1>14. ASSUME NEW c \in Containers, SetupVeth(c) PROVE InjInv'
  BY <1>14, <1>0, <1>a, InjInvKept DEF SetupVeth
<1>15. ASSUME NEW c \in Containers, DelVeth(c) PROVE InjInv'
  BY <1>15, <1>0, <1>a, InjInvKept DEF DelVeth
<1>16. ASSUME NEW c \in Containers, CheckVeth(c) PROVE InjInv'
  BY <1>16, <1>0, <1>a, InjInvKept DEF CheckVeth
<1>17. ASSUME NEW c \in Containers, Kill(c) PROVE InjInv'
  BY <1>17, <1>0, <1>a, InjInvKept DEF Kill
<1>18. ASSUME ProvisionTruncate \/ ProvisionFill \/ DaemonCrash \/ UNCHANGED vars PROVE InjInv'
  BY <1>18, <1>0, InjectiveData, DataTypes DEF ProvisionTruncate, ProvisionFill, DaemonCrash, vars, InjInv
<1> QED
  BY <1>1, <1>2, <1>3, <1>4, <1>5, <1>6, <1>7, <1>8, <1>9, <1>10, <1>11, <1>12, <1>13, <1>14, <1>15, <1>16, <1>17, <1>18 DEF Next, Step, Provision

\* AT MOST ONE ADDRESS for a container, whatever is killed, repeated or lost.
THEOREM OneAddress == Spec => []OneAddressPerContainer
<1>1. Init => InjInv
  BY InjectiveData DEF Init, InjInv
<1>2. TypeOK /\ InjInv => OneAddressPerContainer
  <2> SUFFICES ASSUME InjInv PROVE OneAddressPerContainer
    OBVIOUS
  <2>1. CASE \E c \in Containers : MidWrite(c)
    <3> DEFINE w == CHOOSE c \in Containers : MidWrite(c)
    <3>1. w \in Containers
      BY <2>1
    <3>2. Table = data[w].ips
      BY <2>1 DEF Table
    <3> QED
      BY <3>1, <3>2 DEF OneAddressPerContainer, InjInv, Injective
  <2>2. CASE ~\E c \in Containers : MidWrite(c)
    BY <2>2 DEF OneAddressPerContainer, InjInv, Injective, Table
  <2> QED
    BY <2>1, <2>2
<1> QED
  BY <1>1, <1>2, TypeCorrect, NextInjInv, PTL DEF Spec

=============================================================================
