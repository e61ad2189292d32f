----------------------- MODULE TenantController_proofs -----------------------
(***************************************************************************)
(* Proofs about TenantController, for every finite set of tenants and every *)
(* list of subnets, whatever users change and however often the daemon dies.*)
(***************************************************************************)
EXTENDS TenantController, TLAPS, FiniteSetTheorems, SequenceTheorems

-----------------------------------------------------------------------------
(* The queues: sequences whose elements are about tenants of the model.     *)

TenantSeq(q) ==
  /\ q \in Seq({q[i] : i \in DOMAIN q})
  /\ \A i \in DOMAIN q : q[i].tenant \in Tenants

\* A sequence is one of its own elements.
LEMMA SeqOfElements ==
  ASSUME NEW S, NEW q \in Seq(S)
  PROVE  q \in Seq({q[i] : i \in DOMAIN q})
<1>1. PICK n \in Nat : q \in [1 .. n -> S]
  BY SeqDef
<1>2. q \in [1 .. n -> {q[i] : i \in 1 .. n}] /\ DOMAIN q = 1 .. n
  BY <1>1
<1> QED
  BY <1>2, SeqDef

\* The first element of such a sequence, and what is left of it.
LEMMA TenantSeqTail ==
  ASSUME NEW q, TenantSeq(q), q # <<>>
  PROVE  Head(q).tenant \in Tenants /\ TenantSeq(Tail(q))
<1> DEFINE S == {q[i] : i \in DOMAIN q}
<1>1. q \in Seq(S) /\ Len(q) \in Nat /\ Len(q) # 0 /\ DOMAIN q = 1 .. Len(q)
  BY DEF TenantSeq
<1>2. Head(q) = q[1] /\ 1 \in DOMAIN q
  BY <1>1
<1>3. /\ Tail(q) \in Seq(S) /\ Len(Tail(q)) = Len(q) - 1
      /\ \A i \in 1 .. Len(q) - 1 : Tail(q)[i] = q[i + 1]
  BY <1>1
<1>4. DOMAIN Tail(q) = 1 .. Len(q) - 1
  BY <1>1, <1>3
<1>5. \A i \in DOMAIN Tail(q) : Tail(q)[i].tenant \in Tenants
  BY <1>1, <1>3, <1>4 DEF TenantSeq
<1>6. Tail(q) \in Seq({Tail(q)[i] : i \in DOMAIN Tail(q)})
  <2> DEFINE r == Tail(q)
  <2>1. r \in Seq(S)
    BY <1>3
  <2> HIDE DEF r, S
  <2>2. r \in Seq({r[i] : i \in DOMAIN r})
    BY <2>1, SeqOfElements, Zenon
  <2> QED
    BY <2>2 DEF r
<1> QED
  BY <1>2, <1>5, <1>6 DEF TenantSeq

\* A sequence with an element added at its end.
LEMMA TenantSeqAppend ==
  ASSUME NEW q, TenantSeq(q), NEW e, e.tenant \in Tenants
  PROVE  TenantSeq(Append(q, e))
<1> DEFINE S == {q[i] : i \in DOMAIN q} \cup {e}
           r == Append(q, e)
<1>1. q \in Seq(S) /\ Len(q) \in Nat /\ DOMAIN q = 1 .. Len(q)
  BY DEF TenantSeq
<1>2. /\ r \in Seq(S) /\ Len(r) = Len(q) + 1 /\ DOMAIN r = 1 .. Len(q) + 1
      /\ \A i \in 1 .. Len(q) : r[i] = q[i]
      /\ r[Len(q) + 1] = e
  BY <1>1
<1>3. \A i \in DOMAIN r : r[i].tenant \in Tenants
  BY <1>1, <1>2 DEF TenantSeq
<1>4. r \in Seq({r[i] : i \in DOMAIN r})
  BY <1>2, SeqOfElements
<1> QED
  BY <1>3, <1>4 DEF TenantSeq

\* The empty sequence.
LEMMA TenantSeqEmpty == TenantSeq(<<>>)
  BY DEF TenantSeq

\* A handler has its event; every event and every change under way is about a tenant.
QueueInv ==
  /\ TenantSeq(queue) /\ TenantSeq(watch)
  /\ pc # "idle" => ev.tenant \in Tenants

\* Two such sequences, one after the other.
LEMMA TenantSeqConcat ==
  ASSUME NEW q, NEW r, TenantSeq(q), TenantSeq(r) PROVE TenantSeq(q \o r)
<1> DEFINE S == {q[i] : i \in DOMAIN q} \cup {r[i] : i \in DOMAIN r}
<1>1. q \in Seq(S) /\ r \in Seq(S)
  BY DEF TenantSeq
<1>2. q \o r \in Seq(S)
  BY <1>1, ConcatProperties
<1>3. \A x \in S : x.tenant \in Tenants
  BY DEF TenantSeq
<1>4. \A i \in DOMAIN (q \o r) : (q \o r)[i] \in S
  BY <1>2, ElementOfSeq, LenProperties
<1>5. q \o r \in Seq({(q \o r)[i] : i \in DOMAIN (q \o r)})
  BY <1>2, SeqOfElements
<1>6. \A i \in DOMAIN (q \o r) : (q \o r)[i].tenant \in Tenants
  BY <1>3, <1>4
<1> QED
  BY <1>5, <1>6 DEF TenantSeq

\* A list of events about tenants.
LEMMA TenantSeqList ==
  ASSUME NEW n \in Nat, NEW r, r = [i \in 1 .. n |-> r[i]],
         \A i \in 1 .. n : r[i].tenant \in Tenants
  PROVE  TenantSeq(r)
<1>1. DOMAIN r = 1 .. n /\ r \in [1 .. n -> {r[i] : i \in 1 .. n}]
  OBVIOUS
<1>2. r \in Seq({r[i] : i \in DOMAIN r})
  BY <1>1, SeqDef
<1> QED
  BY <1>1, <1>2 DEF TenantSeq

\* What the next daemon starts with.
LEMMA RestartEffect ==
  ASSUME Restart
  PROVE  /\ pc' = "idle" /\ node' = FreshNode /\ restarted' = TRUE
         /\ TenantSeq(queue') /\ TenantSeq(watch')
<1> DEFINE A == {t \in Tenants : api[t].exists}
           n == Cardinality(A)
<1>1. n \in Nat
  BY TenantsAssumption, FS_Subset, FS_CardinalityType
<1>2. PICK s \in [1 .. n -> A] :
        queue' = [i \in 1 .. n |-> Event("Add", s[i], Absent, api[s[i]], FALSE)]
  BY DEF Restart, Orders
<1>3. DOMAIN queue' = 1 .. n /\ \A i \in 1 .. n : queue'[i].tenant = s[i]
  BY <1>2 DEF Event
<1>4. queue' \in [1 .. n -> {queue'[i] : i \in 1 .. n}]
  BY <1>2
<1>5. queue' \in Seq({queue'[i] : i \in DOMAIN queue'})
  BY <1>1, <1>3, <1>4, SeqDef
<1>6. TenantSeq(queue')
  BY <1>2, <1>3, <1>5 DEF TenantSeq
<1>7. TenantSeq(watch')
  BY TenantSeqEmpty DEF Restart
<1> QED
  BY <1>6, <1>7 DEF Restart, Done

\* A change that users or the daemon put on its way.
LEMMA PutEffect ==
  ASSUME QueueInv, NEW t \in Tenants, NEW o, NEW m, Put(t, o, m)
  PROVE  TenantSeq(watch')
<1> DEFINE c == [tenant |-> t, obj |-> o, mac |-> m]
<1>1. c.tenant \in Tenants
  OBVIOUS
<1>2. TenantSeq(Append(watch, c))
  BY <1>1, TenantSeqAppend DEF QueueInv
<1> QED
  BY <1>2 DEF Put

\* The events of a new list come after those that are queued.
LEMMA RelistEffect ==
  ASSUME QueueInv, Relist PROVE TenantSeq(queue') /\ TenantSeq(watch')
<1>1. Lost \subseteq Tenants
  BY DEF Lost, QueueInv, TenantSeq
<1> DEFINE S == {t \in Lost : cache[t] # api[t] \/ NewMac(t)}
<1>2. S \subseteq Tenants
  BY <1>1
<1>3. PICK s \in Orders(S) :
        queue' = queue \o [i \in DOMAIN s |->
          Event(Kind(cache[s[i]], api[s[i]], "Tombstone"), s[i], cache[s[i]], api[s[i]],
                NewMac(s[i]))]
  BY DEF Relist
<1> HIDE DEF S
<1> DEFINE n == Cardinality(S)
           E(t) == Event(Kind(cache[t], api[t], "Tombstone"), t, cache[t], api[t], NewMac(t))
           r == [i \in 1 .. n |-> E(s[i])]
<1>4. n \in Nat /\ s \in [1 .. n -> S]
  BY <1>2, TenantsAssumption, FS_Subset, FS_CardinalityType DEF Orders
<1>5. queue' = queue \o r
  <2>1. DOMAIN s = 1 .. n
    BY <1>4
  <2> QED
    BY <1>3, <2>1
<1>6. \A i \in 1 .. n : r[i].tenant \in Tenants
  BY <1>2, <1>4 DEF Event
<1>7. r = [i \in 1 .. n |-> r[i]]
  OBVIOUS
<1>8. TenantSeq(r)
  <2> HIDE DEF r, n
  <2> QED
    BY <1>4, <1>6, <1>7, TenantSeqList
<1>9. TenantSeq(queue')
  <2> HIDE DEF r
  <2> QED
    BY <1>5, <1>8, TenantSeqConcat DEF QueueInv
<1> QED
  BY <1>9, TenantSeqEmpty DEF Relist

\* What is queued and what the worker holds names tenants of this cluster, after every step.
LEMMA QueueInvStep == QueueInv /\ [Next]_vars => QueueInv'
<1> SUFFICES ASSUME QueueInv, Next PROVE QueueInv'
  <2>1. CASE UNCHANGED vars
    BY <2>1 DEF QueueInv, vars, world, worker, TenantSeq
  <2> QED
    BY <2>1
<1> USE DEF QueueInv
<1>1. CASE Deliver
  <2>1. watch # <<>> /\ watch' = Tail(watch) /\ UNCHANGED worker
    BY <1>1 DEF Deliver
  <2>2. Head(watch).tenant \in Tenants /\ TenantSeq(watch')
    BY <2>1, TenantSeqTail
  <2>3. PICK e : queue' = Append(queue, e) /\ e.tenant = Head(watch).tenant
    BY <1>1 DEF Deliver, Event
  <2>4. TenantSeq(queue')
    BY <2>2, <2>3, TenantSeqAppend
  <2> QED
    BY <2>1, <2>2, <2>4 DEF worker
<1>2. CASE Crash \/ DeleteTombstone
  BY <1>2, RestartEffect DEF Crash, DeleteTombstone
<1>3. ASSUME pc = "idle", queue # <<>>, queue' = Tail(queue), UNCHANGED watch,
             pc' = "idle" \/ ev' = Head(queue)
      PROVE  QueueInv'
  BY <1>3, TenantSeqTail DEF TenantSeq
<1>4. CASE Add
  <2>1. CASE Restart
    BY <2>1, RestartEffect
  <2>2. CASE ~Restart
    BY <1>3, <1>4, <2>2 DEF Add, Done, world
  <2> QED
    BY <2>1, <2>2
<1>5. CASE Provision \/ LoadStore
  BY <1>5 DEF Provision, LoadStore, Goto, world, TenantSeq
<1>6. CASE Publish
  <2>1. CASE Restart
    BY <2>1, RestartEffect
  <2>2. CASE ~Restart
    <3>1. UNCHANGED queue /\ (pc' = "idle" \/ UNCHANGED ev) /\ ev.tenant \in Tenants
      BY <1>6, <2>2 DEF Publish, GiveUp, Done, worker
    <3>2. TenantSeq(watch')
      <4>1. CASE UNCHANGED watch
        BY <4>1 DEF TenantSeq
      <4>2. CASE \E o, m : Put(ev.tenant, o, m)
        BY <4>2, <3>1, PutEffect
      <4> QED
        BY <1>6, <2>2, <4>1, <4>2 DEF Publish, world
    <3> QED
      BY <1>6, <3>1, <3>2 DEF TenantSeq, Publish
  <2> QED
    BY <2>1, <2>2
<1>7. CASE CreateVxlan
  <2>1. CASE Restart
    BY <2>1, RestartEffect
  <2>2. CASE ~Restart
    BY <1>7, <2>2 DEF CreateVxlan, Goto, world, TenantSeq
  <2> QED
    BY <2>1, <2>2
<1>8. CASE LabelNode \/ InsertRules
  BY <1>8 DEF LabelNode, InsertRules, Goto, GiveUp, Done, world, TenantSeq
<1>9. CASE UpdateMembership
  <2>1. /\ queue # <<>> /\ UNCHANGED <<watch, pc, ev>>
        /\ \E e : e.tenant = Head(queue).tenant /\ queue' = Append(Tail(queue), e)
    BY <1>9 DEF UpdateMembership, Event, world, worker
  <2>2. TenantSeq(queue')
    BY <2>1, TenantSeqTail, TenantSeqAppend
  <2> QED
    BY <2>1, <2>2 DEF TenantSeq
<1>10. CASE Update
  <2>1. CASE Restart
    BY <2>1, RestartEffect
  <2>2. CASE ~Restart
    BY <1>3, <1>10, <2>2 DEF Update, Done, world
  <2> QED
    BY <2>1, <2>2
<1>11. CASE Revert
  <2>1. CASE Restart
    BY <2>1, RestartEffect
  <2>2. CASE ~Restart
    <3>1. UNCHANGED queue /\ (pc' = "idle" \/ UNCHANGED <<pc, ev>>) /\ ev.tenant \in Tenants
      BY <1>11, <2>2 DEF Revert, Done, worker
    <3>2. TenantSeq(watch')
      <4>1. CASE UNCHANGED watch
        BY <4>1 DEF TenantSeq
      <4>2. CASE \E o, m : Put(ev.tenant, o, m)
        BY <4>2, <3>1, PutEffect
      <4> QED
        BY <1>11, <2>2, <4>1, <4>2 DEF Revert, world
    <3> QED
      BY <3>1, <3>2 DEF TenantSeq
  <2> QED
    BY <2>1, <2>2
<1>12. CASE Delete
  <2>1. CASE Restart
    BY <2>1, RestartEffect
  <2>2. CASE ~Restart
    BY <1>3, <1>12, <2>2 DEF Delete, Done, world
  <2> QED
    BY <2>1, <2>2
<1>13. CASE DeleteDevices \/ DeleteStore \/ Reclaim
  BY <1>13 DEF DeleteDevices, DeleteStore, Reclaim, Goto, Done, world, TenantSeq
<1>14. ASSUME NEW t \in Tenants,
              \/ Create(t) \/ Join(t, "me") \/ Join(t, "peer")
              \/ Leave(t, "me") \/ Leave(t, "peer") \/ PeerPublishes(t)
              \/ Edit(t) \/ RemoveObject(t)
       PROVE  QueueInv'
  <2>1. \E o : Change(t, o)
    BY <1>14 DEF Create, Join, Leave, PeerPublishes, Edit, RemoveObject
  <2>2. (\E o, m : Put(t, o, m)) /\ UNCHANGED <<queue, pc, ev>>
    BY <2>1 DEF Change, worker
  <2> QED
    BY <2>2, PutEffect DEF TenantSeq
<1>15. ASSUME NEW t \in Tenants, PodCommand(t) \/ LateWrite(t) PROVE QueueInv'
  BY <1>15 DEF PodCommand, LateWrite, world, worker, TenantSeq
<1>16. CASE Relist
  BY <1>16, RelistEffect DEF Relist, worker
<1> QED
  BY <1>1, <1>2, <1>4, <1>5, <1>6, <1>7, <1>8, <1>9, <1>10, <1>11, <1>12, <1>13, <1>14, <1>15,
     <1>16 DEF Next, Work

-----------------------------------------------------------------------------
(* The NodeStore.                                                          *)

NodeInv ==
  /\ node \in [avail : Seq(Subnets), list : [Tenants -> Subnets \cup {None}]]
  /\ SubnetsApart

\* A tenant takes the first available subnet.
Takes(t) ==
  /\ node.avail # <<>>
  /\ node' = [avail |-> Tail(node.avail),
              list |-> [node.list EXCEPT ![t] = Head(node.avail)]]

\* What a step can do to the NodeStore.
LEMMA NodeSteps ==
  ASSUME QueueInv, [Next]_vars
  PROVE  \/ UNCHANGED node
         \/ node' = FreshNode
         \/ \E t \in Tenants : Takes(t)
         \/ \E t \in Tenants : node' = Reclaimed(node, t)
<1> DEFINE Goal == \/ UNCHANGED node
                   \/ node' = FreshNode
                   \/ \E t \in Tenants : Takes(t)
                   \/ \E t \in Tenants : node' = Reclaimed(node, t)
<1>1. CASE UNCHANGED vars \/ Deliver \/ Relist \/ Provision \/ LoadStore \/ LabelNode
           \/ InsertRules \/ UpdateMembership \/ DeleteDevices \/ DeleteStore
  BY <1>1 DEF vars, Deliver, Relist, Provision, LoadStore, LabelNode, InsertRules, UpdateMembership,
              DeleteDevices, DeleteStore
<1>2. CASE Restart
  BY <1>2, RestartEffect
<1>3. CASE Add /\ ~Restart
  <2>1. Head(queue).tenant \in Tenants
    BY <1>3, TenantSeqTail DEF Add, QueueInv
  <2>2. UNCHANGED node \/ Takes(Head(queue).tenant)
    BY <1>3 DEF Add, Takes, RestOf
  <2> QED
    BY <2>1, <2>2
<1>4. CASE Publish /\ ~Restart
  BY <1>4 DEF Publish
<1>5. CASE CreateVxlan /\ ~Restart
  BY <1>5 DEF CreateVxlan
<1>6. CASE (Update \/ Revert \/ Delete) /\ ~Restart
  BY <1>6 DEF Update, Revert, Delete
<1>7. CASE Reclaim
  BY <1>7 DEF Reclaim, QueueInv
<1>8. CASE Crash \/ DeleteTombstone
  BY <1>2, <1>8 DEF Crash, DeleteTombstone
<1>9. ASSUME NEW t \in Tenants,
             \/ Create(t) \/ Join(t, "me") \/ Join(t, "peer")
             \/ Leave(t, "me") \/ Leave(t, "peer") \/ PeerPublishes(t)
             \/ Edit(t) \/ RemoveObject(t) \/ PodCommand(t) \/ LateWrite(t)
      PROVE  Goal
  BY <1>9 DEF Create, Join, Leave, PeerPublishes, Edit, RemoveObject, PodCommand, LateWrite, Change
<1> QED
  BY <1>1, <1>2, <1>3, <1>4, <1>5, <1>6, <1>7, <1>8, <1>9 DEF Next, Work

\* The NodeStore that main() writes.
LEMMA FreshNodeApart ==
  ASSUME node' = FreshNode PROVE NodeInv'
<1>1. FreshNode \in [avail : Seq(Subnets), list : [Tenants -> Subnets \cup {None}]]
  BY SubnetsAssumption DEF FreshNode
<1>2. /\ FreshNode.avail = NodeSubnets
      /\ \A t \in Tenants : FreshNode.list[t] = None
      /\ \A i \in DOMAIN NodeSubnets : NodeSubnets[i] # None
  BY SubnetsAssumption DEF FreshNode, Subnets
<1> QED
  BY <1>1, <1>2, SubnetsAssumption DEF NodeInv, SubnetsApart

\* Taking the first available subnet away from the others.
LEMMA TakeApart ==
  ASSUME NodeInv, NEW t \in Tenants, Takes(t) PROVE NodeInv'
<1> DEFINE s == node.avail
           r == Tail(s)
<1>1. /\ s \in Seq(Subnets) /\ Len(s) \in Nat /\ Len(s) # 0 /\ DOMAIN s = 1 .. Len(s)
      /\ node.list \in [Tenants -> Subnets \cup {None}]
  BY DEF NodeInv, Takes
<1>2. /\ r \in Seq(Subnets) /\ DOMAIN r = 1 .. Len(s) - 1
      /\ \A i \in DOMAIN r : r[i] = s[i + 1] /\ i + 1 \in DOMAIN s /\ i + 1 # 1
      /\ Head(s) = s[1] /\ 1 \in DOMAIN s /\ s[1] \in Subnets
  BY <1>1
<1>3. /\ node'.avail = r
      /\ node'.list = [node.list EXCEPT ![t] = s[1]]
      /\ node' \in [avail : Seq(Subnets), list : [Tenants -> Subnets \cup {None}]]
  BY <1>1, <1>2 DEF Takes
<1>4. \A i, j \in DOMAIN r : r[i] = r[j] => i = j
  <2> SUFFICES ASSUME NEW i \in DOMAIN r, NEW j \in DOMAIN r, r[i] = r[j] PROVE i = j
    OBVIOUS
  <2>1. i + 1 = j + 1
    BY <1>2 DEF NodeInv, SubnetsApart
  <2> QED
    BY <1>1, <1>2, <2>1
<1>5. \A u \in Tenants : node'.list[u] = IF u = t THEN s[1] ELSE node.list[u]
  BY <1>1, <1>3
<1>6. \A u, v \in Tenants : node'.list[u] = node'.list[v] /\ node'.list[u] # None => u = v
  BY <1>2, <1>5 DEF NodeInv, SubnetsApart
<1>7. \A i \in DOMAIN r, u \in Tenants : r[i] # node'.list[u]
  BY <1>2, <1>5 DEF NodeInv, SubnetsApart
<1> QED
  BY <1>3, <1>4, <1>6, <1>7 DEF NodeInv, SubnetsApart

\* Giving the subnet of a tenant back.
LEMMA ReclaimApart ==
  ASSUME NodeInv, NEW t \in Tenants, node' = Reclaimed(node, t) PROVE NodeInv'
<1>1. CASE node.list[t] = None
  BY <1>1 DEF Reclaimed, NodeInv, SubnetsApart
<1>2. CASE node.list[t] # None
  <2> DEFINE s == node.avail
             x == node.list[t]
             r == Append(s, x)
  <2>1. /\ s \in Seq(Subnets) /\ Len(s) \in Nat /\ DOMAIN s = 1 .. Len(s)
        /\ node.list \in [Tenants -> Subnets \cup {None}] /\ x \in Subnets
    BY <1>2 DEF NodeInv
  <2>2. /\ r \in Seq(Subnets) /\ DOMAIN r = 1 .. Len(s) + 1
        /\ \A i \in DOMAIN r : r[i] = IF i \in DOMAIN s THEN s[i] ELSE x
    BY <2>1
  <2>3. /\ node'.avail = r /\ node'.list = [node.list EXCEPT ![t] = None]
        /\ node' \in [avail : Seq(Subnets), list : [Tenants -> Subnets \cup {None}]]
    BY <1>2, <2>1, <2>2 DEF Reclaimed
  <2>4. \A i \in DOMAIN s : s[i] # x
    BY DEF NodeInv, SubnetsApart
  <2>5. \A i, j \in DOMAIN r : r[i] = r[j] => i = j
    BY <2>1, <2>2, <2>4 DEF NodeInv, SubnetsApart
  <2>6. \A u \in Tenants : node'.list[u] = IF u = t THEN None ELSE node.list[u]
    BY <2>1, <2>3
  <2>7. \A u, v \in Tenants : node'.list[u] = node'.list[v] /\ node'.list[u] # None => u = v
    BY <2>6 DEF NodeInv, SubnetsApart
  <2>8. \A u \in Tenants : node'.list[u] # x
    BY <1>2, <2>6 DEF NodeInv, SubnetsApart
  <2>9. \A i \in DOMAIN r, u \in Tenants : r[i] # node'.list[u]
    <3>1. \A i \in DOMAIN s, u \in Tenants : s[i] # node'.list[u]
      BY <2>1, <2>6, SubnetsAssumption DEF NodeInv, SubnetsApart
    <3> QED
      BY <2>2, <2>8, <3>1
  <2> QED
    BY <2>3, <2>5, <2>7, <2>9 DEF NodeInv, SubnetsApart
<1> QED
  BY <1>1, <1>2

\* What holds of the queues and the NodeStore at every moment.
StoreInv == QueueInv /\ NodeInv

\* main() starts with an empty queue and every subnet available.
LEMMA StoreInvInit == Init => StoreInv
<1> SUFFICES ASSUME Init PROVE StoreInv
  OBVIOUS
<1>1. QueueInv
  BY TenantSeqEmpty DEF Init, QueueInv
<1>2. FreshNode \in [avail : Seq(Subnets), list : [Tenants -> Subnets \cup {None}]]
  BY SubnetsAssumption DEF FreshNode
<1>3. /\ FreshNode.avail = NodeSubnets
      /\ \A t \in Tenants : FreshNode.list[t] = None
      /\ \A i \in DOMAIN NodeSubnets : NodeSubnets[i] # None
  BY SubnetsAssumption DEF FreshNode, Subnets
<1>4. NodeInv
  BY <1>2, <1>3, SubnetsAssumption DEF Init, NodeInv, SubnetsApart
<1> QED
  BY <1>1, <1>4 DEF StoreInv

\* No step of the daemon, the informer or the users breaks it.
LEMMA StoreInvStep == StoreInv /\ [Next]_vars => StoreInv'
<1> SUFFICES ASSUME StoreInv, [Next]_vars PROVE StoreInv'
  OBVIOUS
<1>1. QueueInv'
  BY QueueInvStep DEF StoreInv
<1>2. CASE UNCHANGED node
  BY <1>1, <1>2 DEF StoreInv, NodeInv, SubnetsApart
<1>3. CASE ~UNCHANGED node
  BY <1>1, <1>3, NodeSteps, FreshNodeApart, TakeApart, ReclaimApart DEF StoreInv
<1> QED
  BY <1>2, <1>3

\* No subnet is given to two tenants, or available while a tenant has it: over every
\* sequence of adds, deletes, double adds, panics and restarts (AllocateTenant,
\* deleteTenant, main).
THEOREM SubnetsStayApart == Spec => []SubnetsApart
<1>1. StoreInv => SubnetsApart
  BY DEF StoreInv, NodeInv
<1> QED
  BY <1>1, StoreInvInit, StoreInvStep, PTL DEF Spec

-----------------------------------------------------------------------------
(* The tenant stores.                                                      *)

\* The handler of an Add has loaded the store.
HasLoaded == pc \in {"publish", "vxlan", "label", "rules"}

\* A tenant store holds the subnet the TenantList has for the tenant, and the handler's
\* copy is what it holds.  AllocateTenant writes the list first, deleteTenant writes it
\* last.
AgreeInv ==
  /\ store \in [Tenants -> Subnets \cup {None, Blank}]
  /\ HasLoaded => /\ loaded.subnet # None
                  /\ ev.tenant \notin astray => loaded.subnet = store[ev.tenant]
  /\ ~restarted =>
       /\ \A t \in Tenants \ astray :
            Provisioned(t) /\ ~(pc = "provision" /\ t = ev.tenant) => store[t] = node.list[t]
       /\ pc = "provision" => node.list[ev.tenant] \in Subnets
       /\ pc = "reclaim" /\ ev.tenant \notin astray => ~Provisioned(ev.tenant)

\* No store changes but those of tenants that go astray, and those that a load makes.
Touches ==
  /\ store' \in [Tenants -> Subnets \cup {None, Blank}]
  /\ \A u \in Tenants \ astray' : store'[u] = store[u] \/ (store[u] = None /\ store'[u] = Blank)
  /\ astray \subseteq astray'

\* LoadTenantData makes a blank store at most.
LEMMA TouchedStore ==
  ASSUME store \in [Tenants -> Subnets \cup {None, Blank}], UNCHANGED astray,
         UNCHANGED store \/ \E t : store' = Touched(t)
  PROVE  Touches /\ \A u \in Tenants : Provisioned(u)' <=> Provisioned(u)
  BY SubnetsAssumption DEF Touches, Touched, Provisioned

\* Steps that touch no more than that, and neither start to provision nor to reclaim.
LEMMA AgreeKept ==
  ASSUME StoreInv, AgreeInv, Touches,
         \/ pc' = "idle" /\ restarted'
         \/ /\ UNCHANGED <<node, restarted>>
            /\ \/ UNCHANGED <<pc, ev, loaded>>
               \/ /\ pc # "provision" /\ pc' \notin {"provision", "reclaim"}
                  /\ HasLoaded' => HasLoaded /\ UNCHANGED <<ev, loaded>>
  PROVE  AgreeInv'
<1>1. /\ store' \in [Tenants -> Subnets \cup {None, Blank}]
      /\ \A u \in Tenants \ astray' :
           /\ u \notin astray /\ (Provisioned(u)' <=> Provisioned(u))
           /\ Provisioned(u) => store'[u] = store[u]
           /\ store[u] # None => store'[u] = store[u]
  BY SubnetsAssumption DEF Touches, Provisioned
<1>2. pc # "idle" => ev.tenant \in Tenants
  BY DEF StoreInv, QueueInv
<1>3. HasLoaded' => /\ loaded'.subnet # None
                    /\ ev'.tenant \notin astray' => loaded'.subnet = store'[ev'.tenant]
  <2> SUFFICES ASSUME HasLoaded'
               PROVE  /\ loaded'.subnet # None
                      /\ ev'.tenant \notin astray' => loaded'.subnet = store'[ev'.tenant]
    OBVIOUS
  <2>1. HasLoaded /\ UNCHANGED <<ev, loaded>>
    BY DEF HasLoaded
  <2> QED
    BY <1>1, <1>2, <2>1 DEF AgreeInv, HasLoaded
<1>4. CASE pc' = "idle" /\ restarted'
  BY <1>1, <1>3, <1>4 DEF AgreeInv
<1>5. CASE UNCHANGED <<node, restarted, pc, ev>>
  BY <1>1, <1>2, <1>3, <1>5 DEF AgreeInv
<1>6. CASE UNCHANGED <<node, restarted>> /\ pc # "provision" /\ pc' \notin {"provision", "reclaim"}
  BY <1>1, <1>3, <1>6 DEF AgreeInv
<1> QED
  BY <1>4, <1>5, <1>6

\* No tenant has a store or a subnet when the node is set up.
LEMMA AgreeInvInit == Init => AgreeInv
  BY SubnetsAssumption DEF Init, AgreeInv, Provisioned, HasLoaded

\* What the daemon has written into a store is what a store can hold.
PastInv ==
  /\ past = [t \in Tenants |-> past[t]]
  /\ \A t \in Tenants : \A c \in past[t] : c.subnet \in Subnets \cup {None, Blank}

\* It has written nothing yet.
LEMMA PastInvInit == Init => PastInv
  BY DEF Init, PastInv

\* AllocateTenant writes the subnet of the TenantList.
LEMMA PastInvStep == StoreInv /\ PastInv /\ [Next]_vars => PastInv'
<1> SUFFICES ASSUME StoreInv, PastInv, [Next]_vars PROVE PastInv'
  OBVIOUS
<1>1. CASE UNCHANGED past
  BY <1>1 DEF PastInv
<1>2. CASE Provision
  <2>1. CASE UNCHANGED past
    BY <1>1, <2>1
  <2>2. CASE ~UNCHANGED past
    <3> DEFINE t == ev.tenant
               c == [subnet |-> node.list[t], edited |-> view.edited]
    <3>1. past' = [past EXCEPT ![t] = @ \cup {c}]
      BY <1>2, <2>2 DEF Provision, stores
    <3>2. t \in Tenants /\ c.subnet \in Subnets \cup {None, Blank}
      BY <1>2 DEF Provision, StoreInv, QueueInv, NodeInv
    <3> HIDE DEF c
    <3>3. past' = [u \in Tenants |-> past'[u]]
      BY <3>1 DEF PastInv
    <3>4. \A u \in Tenants : past'[u] = past[u] \/ (u = t /\ past'[u] = past[t] \cup {c})
      BY <3>1, <3>2 DEF PastInv
    <3> QED
      BY <3>2, <3>3, <3>4 DEF PastInv
  <2> QED
    BY <2>1, <2>2
<1>3. CASE UNCHANGED vars \/ Deliver \/ Relist \/ UpdateMembership \/ Add
  BY <1>1, <1>3 DEF vars, stores, Deliver, Relist, UpdateMembership, Add
<1>4. CASE LoadStore \/ Publish \/ CreateVxlan \/ LabelNode \/ InsertRules
  BY <1>1, <1>4 DEF LoadStore, Publish, CreateVxlan, LabelNode, InsertRules, stores
<1>5. CASE Update \/ Revert \/ Delete \/ DeleteTombstone \/ Crash
  BY <1>1, <1>5 DEF Update, Revert, Delete, DeleteTombstone, Crash, stores
<1>6. CASE DeleteDevices \/ DeleteStore \/ Reclaim
  BY <1>1, <1>6 DEF DeleteDevices, DeleteStore, Reclaim, stores
<1>7. ASSUME NEW t \in Tenants,
             \/ Create(t) \/ Join(t, "me") \/ Join(t, "peer")
             \/ Leave(t, "me") \/ Leave(t, "peer") \/ PeerPublishes(t)
             \/ Edit(t) \/ RemoveObject(t) \/ PodCommand(t) \/ LateWrite(t)
      PROVE  PastInv'
  BY <1>1, <1>7 DEF Create, Join, Leave, PeerPublishes, Edit, RemoveObject, PodCommand, LateWrite, Change, stores
<1> QED
  BY <1>2, <1>3, <1>4, <1>5, <1>6, <1>7 DEF Next, Work

\* A late command changes one store, and its tenant goes astray, unless AllocateTenant is
\* about to write that store.
LEMMA LateFacts ==
  ASSUME AgreeInv, PastInv, NEW t \in Tenants, LateWrite(t)
  PROVE  /\ store' \in [Tenants -> Subnets \cup {None, Blank}]
         /\ \A u \in Tenants \ {t} : store'[u] = store[u]
         /\ \/ t \in astray' /\ astray' = astray \cup {t}
            \/ pc = "provision" /\ ev.tenant = t /\ astray' = astray
         /\ UNCHANGED <<node, pc, ev, loaded, restarted, failed, dropped, missed>>
<1>1. PICK c \in past[t] \cup {[subnet |-> Blank, edited |-> FALSE]} : store' = [store EXCEPT ![t] = c.subnet]
  BY DEF LateWrite
<1>2. c.subnet \in Subnets \cup {None, Blank}
  BY <1>1 DEF PastInv
<1>3. UNCHANGED <<node, pc, ev, loaded, restarted, failed, dropped, missed>>
  BY DEF LateWrite, worker, devices, rules, skipped
<1> QED
  BY <1>1, <1>2, <1>3 DEF LateWrite, AgreeInv

\* AllocateTenant and deleteTenant change both records between them; all else leaves both.
LEMMA AgreeInvStep == StoreInv /\ AgreeInv /\ PastInv /\ [Next]_vars => AgreeInv'
<1> SUFFICES ASSUME StoreInv, AgreeInv, PastInv, [Next]_vars PROVE AgreeInv'
  OBVIOUS
<1>1. CASE UNCHANGED vars \/ Deliver \/ Relist
  <2>1. UNCHANGED <<store, astray, node, restarted, pc, ev, loaded>>
    BY <1>1 DEF vars, worker, ghosts, stores, Deliver, Relist
  <2> QED
    BY <2>1, AgreeKept, TouchedStore DEF AgreeInv
<1>2. CASE Restart /\ Touches
  BY <1>2, AgreeKept, RestartEffect
<1>3. CASE Add
  <2>1. PICK t \in Tenants : t = Head(queue).tenant /\ queue # <<>>
    BY <1>3, TenantSeqTail DEF Add, StoreInv, QueueInv
  <2>2. pc = "idle" /\ UNCHANGED store
    BY <1>3 DEF Add, stores
  <2>3. CASE UNCHANGED astray /\ Restart
    BY <1>2, <2>2, <2>3, TouchedStore DEF AgreeInv
  <2>4. CASE UNCHANGED astray /\ ~Restart /\ pc' # "provision"
    <3>1. UNCHANGED <<node, restarted>> /\ pc' \in {"idle", "load"}
      BY <1>3, <2>1, <2>2, <2>4 DEF Add, Done
    <3> QED
      BY <2>2, <2>4, <3>1, AgreeKept, TouchedStore DEF AgreeInv, HasLoaded
  <2>5. CASE pc' = "provision"
    <3>1. /\ ev' = Head(queue) /\ node.avail # <<>> /\ UNCHANGED restarted
          /\ node'.list = [node.list EXCEPT ![t] = Head(node.avail)]
          /\ astray' = astray \ {t}
      BY <1>3, <2>1, <2>2, <2>5, RestartEffect DEF Add, Done
    <3>2. node.list \in [Tenants -> Subnets \cup {None}] /\ Head(node.avail) \in Subnets
      BY <3>1 DEF StoreInv, NodeInv
    <3> QED
      BY <2>1, <2>2, <2>5, <3>1, <3>2 DEF AgreeInv, Provisioned, HasLoaded
  <2> QED
    BY <1>3, <2>1, <2>3, <2>4, <2>5 DEF Add, Restart
<1>4. CASE Provision
  <2>1. /\ pc = "provision" /\ pc' = "load" /\ UNCHANGED <<node, restarted, ev>>
        /\ ev.tenant \in Tenants
    BY <1>4 DEF Provision, Goto, StoreInv, QueueInv
  <2>2. node.list[ev.tenant] \in Subnets \cup {None}
    BY <2>1 DEF StoreInv, NodeInv
  <2>3. \/ UNCHANGED astray /\ store' = [store EXCEPT ![ev.tenant] = node.list[ev.tenant]]
        \/ UNCHANGED store /\ astray' = astray \cup {ev.tenant}
    BY <1>4 DEF Provision, stores
  <2> QED
    BY <2>1, <2>2, <2>3 DEF AgreeInv, Provisioned, HasLoaded
<1>5. CASE LoadStore
  <2>1. /\ pc' = "publish" /\ UNCHANGED <<node, restarted, ev, astray>>
        /\ store' = Touched(ev.tenant) /\ loaded'.subnet = Touched(ev.tenant)[ev.tenant]
        /\ ev.tenant \in Tenants /\ pc = "load"
    BY <1>5 DEF LoadStore, Content, ghosts, StoreInv, QueueInv
  <2>2. loaded'.subnet = store'[ev.tenant] /\ store'[ev.tenant] # None
    BY <2>1, SubnetsAssumption DEF Touched, AgreeInv
  <2>3. Touches /\ \A u \in Tenants : (Provisioned(u)' <=> Provisioned(u))
    BY <2>1, TouchedStore DEF AgreeInv
  <2> QED
    BY <2>1, <2>2, <2>3, SubnetsAssumption DEF AgreeInv, Touches, Provisioned
<1>6. CASE Publish /\ ~Restart
  <2>1. /\ UNCHANGED <<store, astray, node, restarted>> /\ pc = "publish"
        /\ \/ pc' = "idle"
           \/ pc' \in {"publish", "vxlan"} /\ UNCHANGED <<ev, loaded>>
    BY <1>6 DEF Publish, GiveUp, Done, worker, ghosts, stores
  <2> QED
    BY <2>1, AgreeKept, TouchedStore DEF AgreeInv, HasLoaded
<1>7. CASE (CreateVxlan /\ ~Restart) \/ LabelNode \/ InsertRules
  <2>1. /\ UNCHANGED <<store, astray, node, restarted>> /\ pc \in {"vxlan", "label", "rules"}
        /\ \/ pc' = "idle"
           \/ pc' \in {"label", "rules"} /\ UNCHANGED <<ev, loaded>>
    BY <1>7 DEF CreateVxlan, LabelNode, InsertRules, Goto, GiveUp, Done, ghosts, stores
  <2> QED
    BY <2>1, AgreeKept, TouchedStore DEF AgreeInv, HasLoaded
<1>8. CASE UpdateMembership
  <2>1. UNCHANGED <<store, astray, node, restarted, pc, ev, loaded>>
    BY <1>8 DEF UpdateMembership, worker, ghosts, stores
  <2> QED
    BY <2>1, AgreeKept, TouchedStore DEF AgreeInv
<1>9. CASE (Update \/ Delete) /\ ~Restart
  <2>1. /\ UNCHANGED <<astray, node, restarted>>
        /\ UNCHANGED store \/ \E t : store' = Touched(t)
        /\ pc = "idle" /\ pc' \in {"idle", "revert", "devices"}
    BY <1>9 DEF Update, Delete, Done, ghosts
  <2> QED
    BY <2>1, AgreeKept, TouchedStore DEF AgreeInv, HasLoaded
<1>10. CASE Revert /\ ~Restart
  <2>1. /\ UNCHANGED <<store, astray, node, restarted>> /\ pc = "revert" /\ pc' \in {"idle", "revert"}
    BY <1>10 DEF Revert, Done, worker, ghosts, stores
  <2> QED
    BY <2>1, AgreeKept, TouchedStore DEF AgreeInv, HasLoaded
<1>11. CASE DeleteDevices
  <2>1. /\ UNCHANGED <<store, astray, node, restarted>> /\ pc = "devices" /\ pc' = "unstore"
    BY <1>11 DEF DeleteDevices, Goto, ghosts, stores
  <2> QED
    BY <2>1, AgreeKept, TouchedStore DEF AgreeInv, HasLoaded
<1>12. CASE DeleteStore
  <2>1. /\ pc = "unstore" /\ pc' = "reclaim" /\ UNCHANGED <<node, restarted, ev>> /\ ev.tenant \in Tenants
        /\ \/ store' = [store EXCEPT ![ev.tenant] = None] /\ UNCHANGED astray
           \/ UNCHANGED store /\ astray' = astray \cup {ev.tenant}
    BY <1>12 DEF DeleteStore, Goto, StoreInv, QueueInv
  <2> QED
    BY <2>1, SubnetsAssumption DEF AgreeInv, Provisioned, HasLoaded
<1>13. CASE Reclaim
  <2>1. /\ pc = "reclaim" /\ pc' = "idle" /\ UNCHANGED <<store, restarted, astray>>
        /\ ev.tenant \in Tenants /\ node' = Reclaimed(node, ev.tenant)
    BY <1>13 DEF Reclaim, Done, ghosts, stores, StoreInv, QueueInv
  <2>2. \A u \in Tenants \ {ev.tenant} : node'.list[u] = node.list[u]
    BY <2>1 DEF Reclaimed, StoreInv, NodeInv
  <2> QED
    BY <2>1, <2>2 DEF AgreeInv, Provisioned, HasLoaded
<1>14. CASE Restart /\ (Publish \/ CreateVxlan \/ Update \/ Revert \/ Delete \/ DeleteTombstone \/ Crash)
  <2>1. UNCHANGED astray
    BY <1>14 DEF Restart
  <2>2. CASE Publish \/ CreateVxlan \/ Revert \/ DeleteTombstone \/ Crash
    <3>1. UNCHANGED store
      BY <2>2 DEF Publish, CreateVxlan, Revert, DeleteTombstone, Crash, stores
    <3> QED
      BY <1>2, <1>14, <2>1, <3>1, TouchedStore DEF AgreeInv
  <2>3. CASE Update \/ Delete
    <3>1. UNCHANGED store \/ \E t : store' = Touched(t)
      BY <2>3 DEF Update, Delete
    <3> QED
      BY <1>2, <1>14, <2>1, <3>1, TouchedStore DEF AgreeInv
  <2> QED
    BY <1>14, <2>2, <2>3
<1>15. ASSUME NEW t \in Tenants,
              \/ Create(t) \/ Join(t, "me") \/ Join(t, "peer")
              \/ Leave(t, "me") \/ Leave(t, "peer") \/ PeerPublishes(t)
              \/ Edit(t) \/ RemoveObject(t) \/ PodCommand(t)
       PROVE  AgreeInv'
  <2>1. UNCHANGED <<node, restarted, pc, ev, loaded, astray>> /\ (UNCHANGED store \/ store' = Touched(t))
    BY <1>15 DEF Create, Join, Leave, PeerPublishes, Edit, RemoveObject, PodCommand, Change,
                 worker, ghosts, stores
  <2> QED
    BY <2>1, AgreeKept, TouchedStore DEF AgreeInv
<1>16. ASSUME NEW t \in Tenants, LateWrite(t) PROVE AgreeInv'
  <2>1. /\ store' \in [Tenants -> Subnets \cup {None, Blank}]
        /\ \A u \in Tenants \ {t} : store'[u] = store[u]
        /\ \/ t \in astray' /\ astray' = astray \cup {t}
           \/ pc = "provision" /\ ev.tenant = t /\ astray' = astray
        /\ UNCHANGED <<node, pc, ev, loaded, restarted>>
    BY <1>16, LateFacts
  <2>2. pc # "idle" => ev.tenant \in Tenants
    BY DEF StoreInv, QueueInv
  <2> QED
    BY <2>1, <2>2 DEF AgreeInv, Provisioned, HasLoaded
<1>17. CASE DeleteTombstone \/ Crash
  BY <1>14, <1>17 DEF DeleteTombstone, Crash
<1>18. CASE Publish \/ CreateVxlan \/ Update \/ Revert \/ Delete
  BY <1>6, <1>7, <1>9, <1>10, <1>14, <1>18
<1> QED
  BY <1>1, <1>3, <1>4, <1>5, <1>7, <1>8, <1>11, <1>12, <1>13, <1>15, <1>16, <1>17, <1>18
     DEF Next, Work

\* Until the daemon is restarted, the store of a tenant and the NodeStore agree on its
\* subnet whenever AllocateTenant is not between the two writes, unless a late command
\* has rewritten the store or a failing call has left it as it was.
THEOREM StoresStayAgreed == Spec => []StoresAgree
<1>1. AgreeInv => StoresAgree
  BY DEF AgreeInv, StoresAgree
<1> QED
  BY <1>1, StoreInvInit, StoreInvStep, PastInvInit, PastInvStep, AgreeInvInit, AgreeInvStep, PTL DEF Spec

-----------------------------------------------------------------------------
(* The firewall rules.                                                     *)

\* The tenant addTenant is working on.
Adding(t) == t = ev.tenant /\ pc \in {"provision", "load", "publish", "vxlan", "label", "rules"}

\* Two tenants with stores are isolated, unless the Add of one is under way or was
\* given up, or its store is astray, or the kernel refused a rule.
IsoInv ==
  ~restarted =>
    \A t, u \in Tenants \ ({Default} \cup failed \cup astray) :
      /\ t # u /\ Provisioned(t) /\ Provisioned(u) /\ ~Adding(t) /\ ~Adding(u)
      => <<store[t], store[u]>> \in dropped \cup missed

\* Steps that provision nobody, and end no Add but by giving it up.
LEMMA IsoKept ==
  ASSUME IsoInv,
         \/ restarted'
         \/ /\ UNCHANGED <<restarted, dropped, missed>>
            /\ \A t \in Tenants \ astray' :
                 \/ Adding(t)'
                 \/ /\ t \notin astray /\ (Provisioned(t)' => Provisioned(t) /\ store'[t] = store[t])
                    /\ t \in failed => t \in failed'
                    /\ Adding(t) => t \in failed'
  PROVE  IsoInv'
  BY DEF IsoInv

\* What such steps do to the stores.
LEMMA StoreShrinks ==
  ASSUME AgreeInv,
         \/ UNCHANGED store
         \/ \E t : store' = Touched(t)
         \/ \E t : store' = [store EXCEPT ![t] = None]
  PROVE  \A u \in Tenants : Provisioned(u)' => Provisioned(u) /\ store'[u] = store[u]
  BY SubnetsAssumption DEF AgreeInv, Provisioned, Touched

\* Without tenants there is nothing to isolate.
LEMMA IsoInvInit == Init => IsoInv
  BY SubnetsAssumption DEF Init, IsoInv, Provisioned

\* Only addTenant sets a tenant up, and its rules cover every other subnet in use.
LEMMA IsoInvStep == StoreInv /\ AgreeInv /\ PastInv /\ IsoInv /\ [Next]_vars => IsoInv'
<1> SUFFICES ASSUME StoreInv, AgreeInv, PastInv, IsoInv, [Next]_vars PROVE IsoInv'
  OBVIOUS
<1>1. CASE UNCHANGED vars \/ Deliver \/ UpdateMembership
  <2>1. UNCHANGED <<pc, ev, store, restarted, failed, astray, dropped, missed>>
    BY <1>1 DEF vars, worker, ghosts, skipped, devices, rules, stores, Deliver, UpdateMembership
  <2> QED
    BY <2>1, IsoKept, StoreShrinks DEF Adding
<1>2. CASE Relist
  <2>1. UNCHANGED <<pc, ev, store, restarted, astray, dropped, missed>> /\ failed \subseteq failed'
    BY <1>2 DEF worker, skipped, devices, rules, stores, Relist
  <2> QED
    BY <2>1, IsoKept, StoreShrinks DEF Adding
<1>3. CASE Restart
  BY <1>3, IsoKept, RestartEffect
<1>4. CASE Add /\ ~Restart
  <2>1. /\ pc = "idle" /\ UNCHANGED <<store, restarted, dropped, missed>>
        /\ \/ UNCHANGED <<failed, astray>>
           \/ /\ ev' = Head(queue) /\ pc' \in {"provision", "load"}
              /\ failed \ {Head(queue).tenant} \subseteq failed' /\ astray \ {Head(queue).tenant} \subseteq astray'
    BY <1>4 DEF Add, Done, devices, rules, skipped, stores
  <2>2. \A t \in Tenants : ~Adding(t)
    BY <2>1 DEF Adding
  <2> QED
    BY <2>1, <2>2, IsoKept, StoreShrinks DEF Adding
<1>5. CASE Provision
  <2>1. /\ pc = "provision" /\ pc' = "load" /\ UNCHANGED <<ev, failed, restarted, dropped, missed>>
        /\ astray \subseteq astray'
        /\ \A t \in Tenants \ {ev.tenant} : store'[t] = store[t]
    BY <1>5 DEF Provision, Goto, skipped, devices, rules, stores, AgreeInv
  <2> QED
    BY <2>1, IsoKept DEF Adding, Provisioned
<1>6. CASE LoadStore
  <2>1. /\ pc = "load" /\ pc' = "publish" /\ UNCHANGED <<ev, failed, astray, restarted, dropped, missed>>
        /\ store' = Touched(ev.tenant)
    BY <1>6 DEF LoadStore, ghosts, skipped, devices, rules
  <2> QED
    BY <2>1, IsoKept, StoreShrinks DEF Adding
<1>7. CASE Publish /\ ~Restart
  <2>1. /\ pc = "publish" /\ UNCHANGED <<store, astray, restarted, dropped, missed>> /\ failed \subseteq failed'
        /\ \/ pc' \in {"publish", "vxlan"} /\ UNCHANGED ev
           \/ ev.tenant \in failed'
    BY <1>7 DEF Publish, GiveUp, ghosts, skipped, devices, rules, stores, worker
  <2> QED
    BY <2>1, IsoKept, StoreShrinks DEF Adding
<1>8. CASE (CreateVxlan /\ ~Restart) \/ LabelNode
  <2>1. /\ pc \in {"vxlan", "label"} /\ UNCHANGED <<store, astray, restarted, dropped, missed>>
        /\ failed \subseteq failed'
        /\ \/ pc' \in {"label", "rules"} /\ UNCHANGED ev
           \/ ev.tenant \in failed'
    BY <1>8 DEF CreateVxlan, LabelNode, Goto, GiveUp, ghosts, skipped, rules, stores
  <2> QED
    BY <2>1, IsoKept, StoreShrinks DEF Adding
<1>9. CASE InsertRules
  <2> DEFINE a == ev.tenant
             B == BlockedBy(a)
  <2>1. /\ pc = "rules" /\ pc' = "idle" /\ UNCHANGED <<store, failed, astray, restarted>>
        /\ \/ dropped' = dropped \cup B /\ missed' = missed \ B
           \/ \E lost \in SUBSET B : dropped' = dropped \cup (B \ lost) /\ missed' = (missed \ B) \cup lost
    BY <1>9 DEF InsertRules, Done, stores
  <2>2. /\ B \subseteq dropped' \cup missed'
        /\ dropped \cup missed \subseteq dropped' \cup missed'
    BY <2>1
  <2>3. ASSUME ~restarted, a \notin astray, NEW u \in Tenants \ ({Default} \cup astray), u # a, Provisioned(u)
        PROVE  {<<store[a], store[u]>>, <<store[u], store[a]>>} \subseteq B
    <3>1. node.list[u] = store[u] /\ node.list[u] # None
      BY <2>1, <2>3, SubnetsAssumption DEF AgreeInv, Provisioned
    <3>2. loaded.subnet = store[a]
      BY <2>1, <2>3 DEF AgreeInv, HasLoaded
    <3> QED
      BY <2>3, <3>1, <3>2 DEF BlockedBy, Others
  <2> HIDE DEF B
  <2>4. ASSUME ~restarted', NEW t \in Tenants \ ({Default} \cup failed \cup astray),
               NEW u \in Tenants \ ({Default} \cup failed \cup astray),
               t # u, Provisioned(t), Provisioned(u)
        PROVE  <<store[t], store[u]>> \in dropped' \cup missed'
    <3>1. CASE t = a \/ u = a
      BY <2>1, <2>2, <2>3, <2>4, <3>1
    <3>2. CASE t # a /\ u # a
      BY <2>1, <2>2, <2>4, <3>2 DEF IsoInv, Adding
    <3> QED
      BY <3>1, <3>2
  <2> QED
    BY <2>1, <2>4 DEF IsoInv, Provisioned
<1>10. CASE Update /\ ~Restart
  <2>1. /\ pc = "idle" /\ pc' \in {"idle", "revert"} /\ UNCHANGED <<restarted, failed, astray, dropped, missed>>
        /\ UNCHANGED store \/ store' = Touched(Head(queue).tenant)
    BY <1>10 DEF Update, Done, rules
  <2> QED
    BY <2>1, IsoKept, StoreShrinks DEF Adding
<1>11. CASE Revert /\ ~Restart
  <2>1. /\ pc = "revert" /\ pc' \in {"idle", "revert"} /\ UNCHANGED <<store, restarted, failed, astray, dropped, missed>>
    BY <1>11 DEF Revert, Done, worker, ghosts, skipped, devices, rules, stores
  <2> QED
    BY <2>1, IsoKept, StoreShrinks DEF Adding
<1>12. CASE Delete /\ ~Restart
  <2>1. /\ pc = "idle" /\ pc' \in {"idle", "devices"} /\ UNCHANGED <<restarted, failed, astray, dropped, missed>>
        /\ UNCHANGED store \/ store' = Touched(Head(queue).tenant)
    BY <1>12 DEF Delete, Done, ghosts, skipped, devices, rules
  <2> QED
    BY <2>1, IsoKept, StoreShrinks DEF Adding
<1>13. CASE DeleteDevices \/ DeleteStore \/ Reclaim
  <2>1. /\ pc \in {"devices", "unstore", "reclaim"} /\ UNCHANGED <<restarted, failed, dropped, missed>>
        /\ astray \subseteq astray' /\ pc' \in {"unstore", "reclaim", "idle"}
        /\ UNCHANGED store \/ store' = [store EXCEPT ![ev.tenant] = None]
    BY <1>13 DEF DeleteDevices, DeleteStore, Reclaim, Goto, Done, ghosts, skipped, devices, rules, stores
  <2> QED
    BY <2>1, IsoKept, StoreShrinks DEF Adding
<1>14. CASE Crash \/ DeleteTombstone
  BY <1>3, <1>14 DEF Crash, DeleteTombstone
<1>15. ASSUME NEW t \in Tenants,
              \/ Create(t) \/ Join(t, "me") \/ Join(t, "peer")
              \/ Leave(t, "me") \/ Leave(t, "peer") \/ PeerPublishes(t)
              \/ Edit(t) \/ RemoveObject(t) \/ PodCommand(t)
       PROVE  IsoInv'
  <2>1. /\ UNCHANGED <<restarted, failed, astray, dropped, missed, pc, ev>>
        /\ UNCHANGED store \/ store' = Touched(t)
    BY <1>15 DEF Create, Join, Leave, PeerPublishes, Edit, RemoveObject, PodCommand, Change,
                 worker, ghosts, skipped, devices, rules, stores
  <2> QED
    BY <2>1, IsoKept, StoreShrinks DEF Adding
<1>16. ASSUME NEW t \in Tenants, LateWrite(t) PROVE IsoInv'
  BY <1>16, LateFacts, IsoKept DEF Adding, Provisioned
<1> QED
  BY <1>1, <1>2, <1>3, <1>4, <1>5, <1>6, <1>7, <1>8, <1>9, <1>10, <1>11, <1>12, <1>13,
     <1>14, <1>15, <1>16 DEF Next, Work

\* Until the daemon is restarted, no two tenants whose Add has succeeded reach each
\* other, in whatever order they were added, deleted and added again (addTenant's
\* rules are made from the NodeStore once), but through a rule the kernel refused, and
\* unless the store of one was rewritten late or not written.
THEOREM TenantsStayIsolated == Spec => []TenantsIsolated
<1>1. IsoInv => TenantsIsolated
  BY DEF IsoInv, TenantsIsolated, Adding
<1> QED
  BY <1>1, StoreInvInit, StoreInvStep, PastInvInit, PastInvStep, AgreeInvInit, AgreeInvStep,
     IsoInvInit, IsoInvStep, PTL DEF Spec

=============================================================================
