------------------------- MODULE ClusterStart_proofs -------------------------
(***************************************************************************)
(* Proofs about ClusterStart, for any finite set of nodes, in whatever      *)
(* order their daemons come up, whatever users change and however often     *)
(* daemons die or their calls fail.                                         *)
(***************************************************************************)
EXTENDS ClusterStart, TLAPS, FiniteSetTheorems, SequenceTheorems

-----------------------------------------------------------------------------
(* Sequences.                                                               *)

\* A sequence is a function on its indices.
LEMMA SeqFacts ==
  ASSUME NEW S, NEW q \in Seq(S)
  PROVE  /\ Len(q) \in Nat /\ DOMAIN q = 1 .. Len(q)
         /\ \A i \in DOMAIN q : q[i] \in S
         /\ q # <<>> <=> Len(q) # 0
OBVIOUS

\* What is left of a sequence without its first element.
LEMMA TailFacts ==
  ASSUME NEW S, NEW q \in Seq(S), q # <<>>
  PROVE  /\ Head(q) = q[1] /\ 1 \in DOMAIN q
         /\ Tail(q) \in Seq(S) /\ DOMAIN Tail(q) = 1 .. Len(q) - 1
         /\ \A i \in 1 .. Len(q) - 1 : Tail(q)[i] = q[i + 1]
<1>1. Len(q) \in Nat /\ Len(q) # 0 /\ DOMAIN q = 1 .. Len(q)
  BY SeqFacts
<1> QED
  BY <1>1, HeadTailProperties

\* A sequence with an element at its end.
LEMMA AppendFacts ==
  ASSUME NEW S, NEW q \in Seq(S), NEW e \in S
  PROVE  /\ Append(q, e) \in Seq(S) /\ Append(q, e) # <<>>
         /\ Len(Append(q, e)) = Len(q) + 1
         /\ DOMAIN Append(q, e) = 1 .. Len(q) + 1
         /\ \A i \in 1 .. Len(q) : Append(q, e)[i] = q[i]
         /\ Append(q, e)[Len(q) + 1] = e
<1>1. Len(q) \in Nat
  OBVIOUS
<1> QED
  BY <1>1, AppendProperties

\* A sequence without one of its elements.
LEMMA RemoveAtFacts ==
  ASSUME NEW S, NEW q \in Seq(S), NEW k \in DOMAIN q
  PROVE  /\ RemoveAt(q, k) \in Seq(S)
         /\ DOMAIN RemoveAt(q, k) = 1 .. Len(q) - 1
         /\ \A i \in 1 .. Len(q) - 1 : RemoveAt(q, k)[i] = IF i < k THEN q[i] ELSE q[i + 1]
<1> DEFINE a == SubSeq(q, 1, k - 1)
           b == SubSeq(q, k + 1, Len(q))
<1>1. Len(q) \in Nat /\ k \in 1 .. Len(q) /\ \A i \in 1 .. Len(q) : q[i] \in S
  OBVIOUS
<1>2. a \in Seq(S) /\ Len(a) = k - 1 /\ \A i \in 1 .. k - 1 : a[i] = q[i]
  BY <1>1, SubSeqProperties
<1>3. b \in Seq(S) /\ Len(b) = Len(q) - k /\ \A i \in 1 .. Len(q) - k : b[i] = q[k + i]
  BY <1>1, SubSeqProperties
<1>4. RemoveAt(q, k) = a \o b
  BY DEF RemoveAt
<1>5. /\ a \o b \in Seq(S) /\ Len(a \o b) = Len(q) - 1
      /\ \A i \in 1 .. Len(q) - 1 : (a \o b)[i] = IF i <= k - 1 THEN a[i] ELSE b[i - (k - 1)]
  <2> HIDE DEF a, b
  <2>1. Len(a) + Len(b) = Len(q) - 1
    BY <1>1, <1>2, <1>3
  <2>2. /\ a \o b \in Seq(S) /\ Len(a \o b) = Len(a) + Len(b)
        /\ \A i \in 1 .. Len(a) + Len(b) : (a \o b)[i] = IF i <= Len(a) THEN a[i] ELSE b[i - Len(a)]
    BY <1>2, <1>3, ConcatProperties
  <2> QED
    BY <1>2, <2>1, <2>2
<1>6. ASSUME NEW i \in 1 .. Len(q) - 1
      PROVE  (a \o b)[i] = IF i < k THEN q[i] ELSE q[i + 1]
  <2>1. CASE i < k
    BY <1>1, <1>2, <1>5, <2>1
  <2>2. CASE ~(i < k)
    <3>1. i - (k - 1) \in 1 .. Len(q) - k /\ k + (i - (k - 1)) = i + 1 /\ ~(i <= k - 1)
      BY <1>1, <2>2
    <3> QED
      BY <1>3, <1>5, <2>2, <3>1
  <2> QED
    BY <2>1, <2>2
<1>7. DOMAIN (a \o b) = 1 .. Len(q) - 1
  BY <1>1, <1>5
<1> QED
  BY <1>4, <1>5, <1>6, <1>7

-----------------------------------------------------------------------------
(* What an informer has handed out.                                         *)

Worker(n) == pc[n] \in WorkerLabels

\* The queue of an informer that has seen s versions: the updates in it are those
\* of the newest versions, in order, and the first version is none.
QueueOK(q, s) ==
  /\ q \in Seq(Events)
  /\ \A i \in DOMAIN q : q[i].version \in 1 .. s
  /\ \A i \in DOMAIN q : q[i].kind = "Update" =>
       /\ q[i].version # 1
       /\ \A w \in q[i].version + 1 .. s : \E j \in DOMAIN q : j > i /\ q[j] = Event("Update", w)

\* Only a running worker has events and a version of the object; there is an
\* object by the time a controller starts.
InformerInv ==
  /\ \A n \in Nodes : QueueOK(queue[n], seen[n])
  /\ \A n \in Nodes : pc[n] = "controller" \/ Worker(n) => log # <<>>
  /\ \A n \in Nodes : IF Worker(n) THEN seen[n] # 0 ELSE seen[n] = 0 /\ queue[n] = <<>>

TypeInv == TypeOK /\ InformerInv

\* The queue of a daemon that starts.
LEMMA QueueEmpty == \A s \in Nat : QueueOK(<<>>, s)
BY DEF QueueOK

\* The queue with the event of the first listing.
LEMMA QueueFirst == ASSUME NEW s \in Nat, s # 0 PROVE QueueOK(<<Event("Add", s)>>, s)
<1>1. <<Event("Add", s)>> \in Seq(Events)
  BY DEF Event, Events
<1> QED
  BY <1>1 DEF QueueOK, Event

\* The queue without its first event.
LEMMA QueuePop ==
  ASSUME NEW q, NEW s \in Nat, QueueOK(q, s), q # <<>> PROVE QueueOK(Tail(q), s)
<1>1. q \in Seq(Events) /\ Len(q) \in Nat /\ DOMAIN q = 1 .. Len(q)
  BY SeqFacts DEF QueueOK
<1>2. /\ Tail(q) \in Seq(Events) /\ DOMAIN Tail(q) = 1 .. Len(q) - 1
      /\ \A i \in 1 .. Len(q) - 1 : Tail(q)[i] = q[i + 1]
  BY <1>1, TailFacts
<1>3. ASSUME NEW i \in DOMAIN Tail(q)
      PROVE  i + 1 \in DOMAIN q /\ Tail(q)[i] = q[i + 1]
  BY <1>1, <1>2
<1>4. ASSUME NEW i \in DOMAIN Tail(q), Tail(q)[i].kind = "Update",
             NEW w \in Tail(q)[i].version + 1 .. s
      PROVE  \E j \in DOMAIN Tail(q) : j > i /\ Tail(q)[j] = Event("Update", w)
  <2>1. PICK j \in DOMAIN q : j > i + 1 /\ q[j] = Event("Update", w)
    BY <1>3, <1>4 DEF QueueOK
  <2>2. j - 1 \in DOMAIN Tail(q) /\ j - 1 > i /\ Tail(q)[j - 1] = q[j]
    BY <1>1, <1>2, <2>1
  <2> QED
    BY <2>1, <2>2
<1> QED
  BY <1>2, <1>3, <1>4 DEF QueueOK

\* The queue with one more event at its end: an own one, or the next version's.
LEMMA QueueAppend ==
  ASSUME NEW q, NEW s \in Nat, QueueOK(q, s), NEW e \in Events, NEW t \in Nat,
         e.version \in 1 .. t, \/ t = s /\ e.kind # "Update"
                               \/ t = s + 1 /\ s # 0 /\ e = Event("Update", t)
  PROVE  QueueOK(Append(q, e), t)
<1> DEFINE r == Append(q, e)
<1>1. q \in Seq(Events) /\ Len(q) \in Nat /\ DOMAIN q = 1 .. Len(q)
  BY SeqFacts DEF QueueOK
<1>2. /\ r \in Seq(Events) /\ DOMAIN r = 1 .. Len(q) + 1
      /\ \A i \in 1 .. Len(q) : r[i] = q[i]
      /\ r[Len(q) + 1] = e
  BY <1>1, AppendFacts
<1> HIDE DEF r
<1>3. \A i \in DOMAIN r : i \in DOMAIN q \/ i = Len(q) + 1
  BY <1>1, <1>2
<1>4. \A i \in DOMAIN r : r[i].version \in 1 .. t
  BY <1>1, <1>2, <1>3 DEF QueueOK
<1>5. ASSUME NEW i \in DOMAIN r, r[i].kind = "Update"
      PROVE  /\ r[i].version # 1
             /\ \A w \in r[i].version + 1 .. t : \E j \in DOMAIN r : j > i /\ r[j] = Event("Update", w)
  <2>1. CASE i = Len(q) + 1
    BY <1>2, <1>5, <2>1 DEF Event
  <2>2. CASE i \in DOMAIN q
    <3>1. r[i] = q[i] /\ r[i].version # 1
      BY <1>1, <1>2, <1>5, <2>2 DEF QueueOK
    <3>2. ASSUME NEW w \in r[i].version + 1 .. t
          PROVE  \E j \in DOMAIN r : j > i /\ r[j] = Event("Update", w)
      <4>1. CASE w <= s
        <5>1. q[i].version \in Nat
          BY <2>2 DEF QueueOK
        <5>2. PICK j \in DOMAIN q : j > i /\ q[j] = Event("Update", w)
          BY <1>5, <2>2, <3>1, <3>2, <4>1, <5>1 DEF QueueOK
        <5> QED
          BY <1>1, <1>2, <5>2
      <4>2. CASE ~(w <= s)
        <5>1. q[i].version \in Nat
          BY <2>2 DEF QueueOK
        <5>2. w = t /\ t = s + 1
          BY <3>1, <3>2, <4>2, <5>1
        <5>3. Len(q) + 1 \in DOMAIN r /\ Len(q) + 1 > i /\ r[Len(q) + 1] = Event("Update", w)
          BY <1>1, <1>2, <2>2, <5>2
        <5> QED
          BY <5>3
      <4> QED
        BY <4>1, <4>2
    <3> QED
      BY <3>1, <3>2
  <2> QED
    BY <1>3, <2>1, <2>2
<1> QED
  BY <1>2, <1>4, <1>5 DEF QueueOK, r

-----------------------------------------------------------------------------
(* Types.                                                                   *)

Labels == {"absent"} \cup StartLabels \cup WorkerLabels

\* The types of the informers, with what they have handed out ...
InformerOK ==
  /\ log \in Seq(Seq(Entry))
  /\ seen \in [Nodes -> 0 .. Len(log)]
  /\ queue \in [Nodes -> Seq(Events)]
  /\ pc \in [Nodes -> Labels]
  /\ InformerInv

\* ... of the daemons' files, of the kernels ...
FilesOK ==
  /\ subnets \in [Nodes -> [avail : Seq(1 .. SubnetCount), mine : 0 .. SubnetCount]]
  /\ made \in [Nodes -> Nat]
  /\ store \in [Nodes -> Vteps \cup {Unset}]

KernelOK ==
  /\ device \in [Nodes -> Macs \cup {Unset}] /\ raised \in SUBSET Nodes
  /\ arp \in [Nodes -> SUBSET [ip : Ips, mac : Macs]]
  /\ fdb \in [Nodes -> SUBSET [mac : Macs, node : Nodes]]
  /\ routes \in [Nodes -> SUBSET Ips] /\ gaps \in [Nodes -> SUBSET Nodes]

\* ... and of the rest.
OthersOK ==
  /\ index \in [Nodes -> Nat]
  /\ failed \in SUBSET Nodes /\ misplaced \in BOOLEAN
  /\ changes \in 0 .. MaxEvents /\ faults \in 0 .. MaxEvents
  /\ cluster \in SUBSET Nodes /\ founders \in SUBSET Nodes
  /\ crd \in {"absent", "registered", "established"}
  /\ nodeList \in [Nodes -> SUBSET Nodes]

\* These are TypeInv's parts.
LEMMA TypeParts == TypeInv <=> InformerOK /\ FilesOK /\ KernelOK /\ OthersOK
BY DEF TypeInv, TypeOK, MeshTypeOK, InformerOK, FilesOK, KernelOK, OthersOK, InformerInv,
       QueueOK, Labels

\* The same of the next state.
LEMMA TypePartsNext == TypeInv' <=> InformerOK' /\ FilesOK' /\ KernelOK' /\ OthersOK'
BY DEF TypeInv, TypeOK, MeshTypeOK, InformerOK, FilesOK, KernelOK, OthersOK, InformerInv,
       QueueOK, Labels

\* The versions of the object are lists of entries.
LEMMA ObjectTypes ==
  ASSUME TypeInv
  PROVE  /\ Len(log) \in Nat /\ DOMAIN log = 1 .. Len(log)
         /\ log # <<>> <=> Len(log) # 0
         /\ \A v \in 1 .. Len(log) : log[v] \in Seq(Entry)
         /\ Current \in Seq(Entry)
         /\ \A n \in Nodes : Lister(n) \in Seq(Entry) /\ seen[n] \in Nat /\ seen[n] <= Len(log)
<1>1. log \in Seq(Seq(Entry)) /\ seen \in [Nodes -> 0 .. Len(log)]
  BY TypeParts DEF InformerOK
<1>2. Len(log) \in Nat /\ DOMAIN log = 1 .. Len(log) /\ (log # <<>> <=> Len(log) # 0)
      /\ \A v \in 1 .. Len(log) : log[v] \in Seq(Entry)
  BY <1>1
<1>3. Current \in Seq(Entry)
  BY <1>2 DEF Current
<1>4. \A n \in Nodes : Lister(n) \in Seq(Entry) /\ seen[n] \in Nat /\ seen[n] <= Len(log)
  BY <1>1, <1>2 DEF Lister
<1> QED
  BY <1>2, <1>3, <1>4

\* An informer's next state, when at most its own queue, version and place change.
LEMMA InformerStep ==
  ASSUME TypeInv, NEW n \in Nodes, NEW q, NEW s, NEW l \in Labels,
         queue' = [queue EXCEPT ![n] = q], seen' = [seen EXCEPT ![n] = s],
         pc' = [pc EXCEPT ![n] = l],
         log' \in Seq(Seq(Entry)), Len(log') >= Len(log),
         s \in 0 .. Len(log'), QueueOK(q, s),
         IF l \in WorkerLabels THEN s # 0 ELSE s = 0 /\ q = <<>>,
         l = "controller" \/ l \in WorkerLabels => log' # <<>>
  PROVE  InformerOK'
<1>1. /\ Len(log) \in Nat /\ Len(log') \in Nat /\ q \in Seq(Events)
      /\ queue \in [Nodes -> Seq(Events)] /\ pc \in [Nodes -> Labels]
      /\ seen \in [Nodes -> 0 .. Len(log)]
  BY TypeParts DEF InformerOK, QueueOK
<1>2. queue' \in [Nodes -> Seq(Events)] /\ pc' \in [Nodes -> Labels]
      /\ seen' \in [Nodes -> 0 .. Len(log')]
  BY <1>1
<1>3. log # <<>> => log' # <<>>
  BY ObjectTypes
<1>4. \A m \in Nodes : QueueOK(queue[m], seen[m])' 
  <2> SUFFICES ASSUME NEW m \in Nodes PROVE QueueOK(queue'[m], seen'[m])
    BY DEF QueueOK
  <2> QED
    BY <1>1 DEF TypeInv, InformerInv
<1>5. InformerInv'
  BY <1>1, <1>3, <1>4 DEF TypeInv, InformerInv, Worker
<1> QED
  BY <1>2, <1>5 DEF InformerOK

\* The daemon dies.
LEMMA RestartType ==
  ASSUME TypeInv, NEW n \in Nodes, Restart(n), log' = log
  PROVE  InformerOK' /\ failed' \in SUBSET Nodes /\ index' \in [Nodes -> Nat]
<1>1. /\ queue' = [queue EXCEPT ![n] = <<>>] /\ seen' = [seen EXCEPT ![n] = 0]
      /\ pc' = [pc EXCEPT ![n] = "register"]
      /\ failed' \in SUBSET Nodes /\ index' \in [Nodes -> Nat]
  BY TypeParts DEF Restart, Goto, OthersOK
<1>2. log' \in Seq(Seq(Entry)) /\ Len(log') >= Len(log) /\ 0 \in 0 .. Len(log')
  BY TypeParts, ObjectTypes DEF InformerOK
<1>3. QueueOK(<<>>, 0) /\ "register" \in Labels /\ "register" \notin WorkerLabels
  BY QueueEmpty DEF Labels, StartLabels, WorkerLabels
<1> QED
  BY <1>1, <1>2, <1>3, InformerStep

\* The main goroutine or the worker goes on; informer and object stay.
LEMMA GotoType ==
  ASSUME TypeInv, NEW n \in Nodes, NEW l \in Labels, Goto(n, l),
         UNCHANGED informer, log' \in Seq(Seq(Entry)), Len(log') >= Len(log),
         Worker(n) <=> l \in WorkerLabels, l = "controller" => log' # <<>>
  PROVE  InformerOK'
<1>0. /\ queue \in [Nodes -> Seq(Events)] /\ seen \in [Nodes -> 0 .. Len(log)]
      /\ Len(log) \in Nat /\ Len(log') \in Nat /\ InformerInv
  BY TypeParts DEF InformerOK
<1>1. /\ queue' = [queue EXCEPT ![n] = queue[n]] /\ seen' = [seen EXCEPT ![n] = seen[n]]
      /\ pc' = [pc EXCEPT ![n] = l]
  BY <1>0 DEF Goto, informer
<1>2. /\ seen[n] \in 0 .. Len(log') /\ QueueOK(queue[n], seen[n])
      /\ IF l \in WorkerLabels THEN seen[n] # 0 ELSE seen[n] = 0 /\ queue[n] = <<>>
      /\ l \in WorkerLabels => log # <<>>
  BY <1>0 DEF InformerInv, Worker
<1>3. log # <<>> => log' # <<>>
  BY <1>0, ObjectTypes
<1> QED
  BY <1>1, <1>2, <1>3, InformerStep

\* The worker takes an event of its queue, and may add one of its own.
LEMMA TakeType ==
  ASSUME TypeInv, NEW n \in Nodes, queue[n] # <<>>, NEW l \in WorkerLabels,
         pc' = [pc EXCEPT ![n] = l], UNCHANGED <<seen, log>>,
         \/ queue' = [queue EXCEPT ![n] = Tail(queue[n])]
         \/ \E kind \in {"Add", "Delete"} :
              queue' = [queue EXCEPT ![n] = Append(Tail(queue[n]), Event(kind, Head(queue[n]).version))]
  PROVE  InformerOK'
<1>0. /\ queue \in [Nodes -> Seq(Events)] /\ seen \in [Nodes -> 0 .. Len(log)]
      /\ log \in Seq(Seq(Entry)) /\ Len(log) \in Nat /\ InformerInv /\ l \in Labels
  BY TypeParts DEF InformerOK, Labels
<1>1. QueueOK(queue[n], seen[n]) /\ seen[n] # 0 /\ log # <<>> /\ seen[n] \in 0 .. Len(log)
  BY <1>0 DEF InformerInv
<1>2. QueueOK(Tail(queue[n]), seen[n])
  BY <1>0, <1>1, QueuePop
<1>3. Head(queue[n]).version \in 1 .. seen[n]
  <2>1. Head(queue[n]) = queue[n][1] /\ 1 \in DOMAIN queue[n]
    BY <1>0, TailFacts
  <2> QED
    BY <1>1, <2>1 DEF QueueOK
<1>4. /\ seen' = [seen EXCEPT ![n] = seen[n]] /\ seen[n] \in 0 .. Len(log')
      /\ log' \in Seq(Seq(Entry)) /\ Len(log') >= Len(log) /\ log' # <<>>
  BY <1>0, <1>1
<1>5. CASE queue' = [queue EXCEPT ![n] = Tail(queue[n])]
  BY <1>0, <1>1, <1>2, <1>4, <1>5, InformerStep
<1>6. ASSUME NEW kind \in {"Add", "Delete"},
        queue' = [queue EXCEPT ![n] = Append(Tail(queue[n]), Event(kind, Head(queue[n]).version))]
      PROVE  InformerOK'
  <2>1. /\ Event(kind, Head(queue[n]).version) \in Events
        /\ Event(kind, Head(queue[n]).version).version \in 1 .. seen[n]
        /\ Event(kind, Head(queue[n]).version).kind # "Update"
    BY <1>0, <1>3 DEF Event, Events
  <2>2. QueueOK(Append(Tail(queue[n]), Event(kind, Head(queue[n]).version)), seen[n])
    BY <1>0, <1>2, <2>1, QueueAppend
  <2> QED
    BY <1>0, <1>1, <1>4, <1>6, <2>2, InformerStep
<1> QED
  BY <1>5, <1>6

\* A node found in a list is at the place Index gives.
LEMMA IndexFacts ==
  ASSUME NEW l, NEW n, Has(l, n)
  PROVE  Index(l, n) \in DOMAIN l /\ l[Index(l, n)].name = n
BY DEF Has, Index

\* What an update does: the entries, or nothing to the kernel; and it ends the daemon
\* or takes the event.
LEMMA UpdateCases ==
  ASSUME NEW n \in Nodes, Update(n)
  PROVE  LET R == Remotes(n, Lister(n)) IN
         /\ Ready(n, "Update") /\ UNCHANGED <<object, files>>
         /\ Has(log[Head(queue[n]).version], n) = Has(log[Head(queue[n]).version - 1], n)
         /\ Restart(n) \/ (Pop(n) /\ UNCHANGED <<seen, worker, failed>>)
         /\ UNCHANGED bounds \/ Fault
         /\ \/ UNCHANGED kernel
            \/ \E A, F \in SUBSET R, G \in SUBSET Routable(n, R) :
                 AddEntries(n, Lister(n), R, A, F, G)
         /\ Has(log[Head(queue[n]).version], n) /\ R # {} /\ ~Restart(n) =>
              \E A, F \in SUBSET R, G \in SUBSET Routable(n, R) :
                AddEntries(n, Lister(n), R, A, F, G)
BY DEF Update

\* What a deletion does to the node.
LEMMA DeleteCases ==
  ASSUME NEW n \in Nodes, Delete(n)
  PROVE  /\ Ready(n, "Delete") /\ UNCHANGED <<object, made>>
         /\ Restart(n) \/ (Pop(n) /\ UNCHANGED <<seen, worker, failed>>)
         /\ UNCHANGED bounds \/ Fault
         /\ UNCHANGED kernel \/ DeleteVxLANDevice(n)
         /\ UNCHANGED store \/ DeleteTenantStore(n)
         /\ UNCHANGED subnets \/ subnets' = [subnets EXCEPT ![n] = Reclaimed(subnets[n])]
BY DEF Delete, files

\* An update of the worker's node, and the entries that come of it.
LEMMA EntriesType ==
  ASSUME KernelOK, NEW n \in Nodes, NEW l \in Seq(Entry), NEW R, R = Remotes(n, l),
         NEW A \in SUBSET R, NEW F \in SUBSET R, NEW G \in SUBSET R,
         AddEntries(n, l, R, A, F, G)
  PROVE  KernelOK'
<1>1. \A i \in R : /\ l[i].vtep.ip \in Ips /\ l[i].vtep.mac \in Macs /\ l[i].vtep.node \in Nodes
                  /\ l[i].name \in Nodes
  <2> SUFFICES ASSUME NEW i \in R PROVE l[i].vtep \in Vteps /\ l[i].name \in Nodes
    BY DEF Vteps
  <2>1. l[i] \in Entry /\ l[i].vtep # Unset
    BY SeqFacts DEF Remotes
  <2> QED
    BY <2>1 DEF Entry
<1>2. AddARP(arp[n], l, A) \in SUBSET [ip : Ips, mac : Macs]
  BY <1>1 DEF AddARP, KernelOK
<1>3. AddFDB(fdb[n], l, F) \in SUBSET [mac : Macs, node : Nodes]
  BY <1>1 DEF AddFDB, KernelOK
<1>4. AddRoutes(routes[n], l, G) \in SUBSET Ips
  BY <1>1 DEF AddRoutes, KernelOK
<1>5. \A D \in SUBSET R :
        (gaps[n] \ {l[i].name : i \in D}) \cup {l[i].name : i \in R \ D} \in SUBSET Nodes
  BY <1>1 DEF KernelOK
<1>6. A \cap F \cap G \in SUBSET R
  OBVIOUS
<1>7. device' \in [Nodes -> Macs \cup {Unset}] /\ raised' \in SUBSET Nodes
  BY DEF AddEntries, KernelOK
<1>8. arp' \in [Nodes -> SUBSET [ip : Ips, mac : Macs]] /\ fdb' \in [Nodes -> SUBSET [mac : Macs, node : Nodes]]
  BY <1>2, <1>3 DEF AddEntries, KernelOK
<1>9. routes' \in [Nodes -> SUBSET Ips]
  BY <1>4 DEF AddEntries, KernelOK
<1>10. gaps' \in [Nodes -> SUBSET Nodes]
  BY <1>5, <1>6 DEF AddEntries, KernelOK
<1> QED
  BY <1>7, <1>8, <1>9, <1>10 DEF KernelOK

\* What addTenant's allocation leaves in the files.
LEMMA AllocateType ==
  ASSUME FilesOK, NEW n \in Nodes, AllocateTenant(n)
  PROVE  FilesOK'
<1>1. CASE subnets[n].avail = <<>>
  BY <1>1 DEF AllocateTenant, FilesOK, files
<1>2. CASE subnets[n].avail # <<>>
  <2> DEFINE s == subnets[n].avail
  <2>1. s \in Seq(1 .. SubnetCount) /\ Tail(s) \in Seq(1 .. SubnetCount) /\ Head(s) \in 1 .. SubnetCount
    <3>1. s \in Seq(1 .. SubnetCount) /\ s # <<>>
      BY <1>2 DEF FilesOK
    <3> HIDE DEF s
    <3>2. Tail(s) \in Seq(1 .. SubnetCount) /\ Head(s) = s[1] /\ 1 \in DOMAIN s
      BY <3>1, TailFacts
    <3>3. s[1] \in 1 .. SubnetCount
      BY <3>1, <3>2, SeqFacts
    <3> QED
      BY <3>1, <3>2, <3>3
  <2>2. made[n] + 1 \in Nat
    BY DEF FilesOK
  <2>3. [node |-> n, ip |-> <<n, Head(s)>>, mac |-> NewHardwareAddr(n)] \in Vteps
    BY <2>1, <2>2 DEF NewHardwareAddr, Vteps, Ips, Macs
  <2>4. Head(s) \in 0 .. SubnetCount
    BY <2>1, MeshAssumption
  <2>5. [avail |-> Tail(s), mine |-> Head(s)] \in [avail : Seq(1 .. SubnetCount), mine : 0 .. SubnetCount]
    BY <2>1, <2>4
  <2>6. /\ subnets' = [subnets EXCEPT ![n] = [avail |-> Tail(s), mine |-> Head(s)]]
        /\ made' = [made EXCEPT ![n] = made[n] + 1]
        /\ store' = [store EXCEPT ![n] = [node |-> n, ip |-> <<n, Head(s)>>, mac |-> NewHardwareAddr(n)]]
    BY <1>2 DEF AllocateTenant, FilesOK
  <2> HIDE DEF s
  <2> QED
    BY <2>2, <2>3, <2>5, <2>6 DEF FilesOK
<1> QED
  BY <1>1, <1>2

\* The steps of main.
LEMMA StartTypes ==
  ASSUME TypeInv, NEW n \in Nodes, Start(n)
  PROVE  TypeInv'
<1>0. InformerOK /\ FilesOK /\ KernelOK /\ OthersOK /\ log \in Seq(Seq(Entry)) /\ Len(log) \in Nat
  BY TypeParts, ObjectTypes DEF InformerOK
<1>l. {"register", "store", "tenant", "controller", "idle"} \subseteq Labels
      /\ {"register", "store", "tenant", "controller"} \cap WorkerLabels = {}
  BY DEF Labels, StartLabels, WorkerLabels
<1>1. CASE RegisterTenantCRD(n)
  <2>1. Goto(n, "store") /\ ~Worker(n) /\ UNCHANGED informer /\ log' = log
    BY <1>1, <1>l DEF RegisterTenantCRD, object, Worker
  <2>2. InformerOK'
    BY <1>0, <1>l, <2>1, GotoType
  <2>3. FilesOK' /\ KernelOK' /\ OthersOK'
    BY <1>0, <1>1 DEF RegisterTenantCRD, FilesOK, KernelOK, OthersOK, files, kernel, tables, bounds, object
  <2> QED
    BY <2>2, <2>3, TypePartsNext
<1>2. CASE WriteNodeStore(n)
  <2>1. Goto(n, "tenant") /\ ~Worker(n) /\ UNCHANGED informer /\ log' = log
    BY <1>2, <1>l DEF WriteNodeStore, object, Worker
  <2>2. InformerOK'
    BY <1>0, <1>l, <2>1, GotoType
  <2>3. FreshNodeStore \in [avail : Seq(1 .. SubnetCount), mine : 0 .. SubnetCount]
    <3>1. ListSubnets \in Seq(1 .. SubnetCount) /\ 0 \in 0 .. SubnetCount
      BY MeshAssumption DEF ListSubnets
    <3> QED
      BY <3>1 DEF FreshNodeStore
  <2>4. FilesOK'
    BY <1>0, <1>2, <2>3 DEF WriteNodeStore, FilesOK
  <2>5. KernelOK' /\ OthersOK'
    BY <1>0, <1>2 DEF WriteNodeStore, KernelOK, OthersOK, kernel, tables, bounds, object
  <2> QED
    BY <2>2, <2>4, <2>5, TypePartsNext
<1>3. CASE RegisterDefaultTenant(n)
  <2>1. ~Worker(n)
    BY <1>3, <1>l DEF RegisterDefaultTenant, Worker
  <2>2. CASE CreateTenant(n) /\ Goto(n, "controller") /\ UNCHANGED <<informer, index, failed>>
    <3>1. log' \in Seq(Seq(Entry)) /\ Len(log') >= Len(log) /\ log' # <<>>
      <4>1. CASE log # <<>>
        BY <1>0, <2>2, <4>1 DEF CreateTenant
      <4>2. CASE log = <<>>
        <5>1. PICK s \in Orders(nodeList[n]) : log' = <<[i \in DOMAIN s |-> Listed(s[i])]>>
          BY <2>2, <4>2 DEF CreateTenant
        <5>2. nodeList[n] \subseteq Nodes /\ Cardinality(nodeList[n]) \in Nat
          <6>1. nodeList[n] \subseteq Nodes
            BY <1>0 DEF OthersOK
          <6> QED
            BY <6>1, MeshAssumption, FS_Subset, FS_CardinalityType
        <5>3. DOMAIN s = 1 .. Cardinality(nodeList[n]) /\ \A i \in DOMAIN s : s[i] \in Nodes
          BY <5>2 DEF Orders
        <5>4. [i \in DOMAIN s |-> Listed(s[i])] \in Seq(Entry)
          <6>1. \A i \in DOMAIN s : Listed(s[i]) \in Entry
            BY <5>3 DEF Listed, Entry
          <6> QED
            BY <5>2, <5>3, <6>1, IsASeq
        <5> QED
          BY <5>1, <5>4, <4>2
      <4> QED
        BY <4>1, <4>2
    <3>2. InformerOK'
      BY <1>0, <1>l, <2>1, <2>2, <3>1, GotoType
    <3>3. FilesOK' /\ KernelOK' /\ OthersOK'
      BY <1>0, <1>3, <2>2 DEF RegisterDefaultTenant, FilesOK, KernelOK, OthersOK, files, kernel, tables, bounds
    <3> QED
      BY <3>2, <3>3, TypePartsNext
  <2>3. CASE Restart(n) /\ UNCHANGED log
    <3>1. InformerOK' /\ failed' \in SUBSET Nodes /\ index' \in [Nodes -> Nat]
      BY <2>3, RestartType
    <3>2. FilesOK' /\ KernelOK' /\ OthersOK'
      BY <1>0, <1>3, <3>1 DEF RegisterDefaultTenant, FilesOK, KernelOK, OthersOK, files, kernel, tables, bounds
    <3> QED
      BY <3>1, <3>2, TypePartsNext
  <2> QED
    BY <1>3, <2>2, <2>3 DEF RegisterDefaultTenant
<1>4. CASE StartController(n)
  <2>1. log # <<>> /\ Len(log) # 0
    BY <1>4, ObjectTypes DEF StartController, TypeInv, InformerInv
  <2>2. QueueOK(<<Event("Add", Len(log))>>, Len(log))
    BY <1>0, <2>1, QueueFirst
  <2>3. InformerOK'
    <3>1. /\ queue' = [queue EXCEPT ![n] = <<Event("Add", Len(log))>>]
          /\ seen' = [seen EXCEPT ![n] = Len(log)] /\ pc' = [pc EXCEPT ![n] = "idle"] /\ log' = log
      BY <1>4 DEF StartController, Goto, object
    <3>2. "idle" \in Labels /\ "idle" \in WorkerLabels
      BY DEF Labels, WorkerLabels
    <3>3. Len(log') >= Len(log) /\ Len(log) \in 0 .. Len(log') /\ log' \in Seq(Seq(Entry))
      BY <1>0, <3>1
    <3> QED
      BY <2>1, <2>2, <3>1, <3>2, <3>3, InformerStep
  <2>4. FilesOK' /\ KernelOK' /\ OthersOK'
    BY <1>0, <1>4 DEF StartController, FilesOK, KernelOK, OthersOK, files, kernel, tables, bounds, object, startVars
  <2> QED
    BY <2>3, <2>4, TypePartsNext
<1> QED
  BY <1>1, <1>2, <1>3, <1>4 DEF Start

\* There is a VTEP in the store by the time the device is made.
VtepInv == \A n \in Nodes : pc[n] = "vxlan" => store[n] # Unset

\* The steps of the worker and of the informer.
LEMMA WorkTypes ==
  ASSUME TypeInv, VtepInv, NEW n \in Nodes, Work(n) \/ Inform(n)
  PROVE  TypeInv'
<1>0. /\ InformerOK /\ FilesOK /\ KernelOK /\ OthersOK /\ log \in Seq(Seq(Entry)) /\ Len(log) \in Nat
      /\ pc \in [Nodes -> Labels] /\ queue \in [Nodes -> Seq(Events)]
  BY TypeParts, ObjectTypes DEF InformerOK
<1>l. WorkerLabels = {"idle", "publish", "vxlan"} /\ WorkerLabels \subseteq Labels
  BY DEF Labels, WorkerLabels
<1>o. Lister(n) \in Seq(Entry)
  BY ObjectTypes
<1>s. UNCHANGED startVars
  BY DEF Work, Inform
<1>f. ASSUME Fault PROVE changes' \in 0 .. MaxEvents /\ faults' \in 0 .. MaxEvents
  BY <1>0, <1>f, MeshAssumption DEF Fault, OthersOK
<1>1. CASE Add(n)
  <2>1. pc[n] = "idle" /\ queue[n] # <<>> /\ queue' = [queue EXCEPT ![n] = Tail(queue[n])]
        /\ UNCHANGED <<seen, log>>
    BY <1>0, <1>1 DEF Add, Ready, Pop, object
  <2>2. failed' \in SUBSET Nodes /\ UNCHANGED <<device, raised, arp, fdb, routes, gaps, misplaced, changes, faults>>
    BY <1>0, <1>1 DEF Add, OthersOK, object, kernel, tables, bounds
  <2>3. CASE Has(Lister(n), n) /\ AllocateTenant(n) /\ Goto(n, "publish")
             /\ index' = [index EXCEPT ![n] = Index(Lister(n), n)]
    <3>1. Index(Lister(n), n) \in Nat
      <4>1. Index(Lister(n), n) \in DOMAIN Lister(n)
        BY <2>3, IndexFacts
      <4> QED
        BY <1>o, <4>1
    <3>2. FilesOK'
      BY <1>0, <2>3, AllocateType
    <3>3. InformerOK'
      BY <1>l, <2>1, <2>3, TakeType DEF Goto
    <3>4. KernelOK' /\ OthersOK'
      BY <1>0, <1>s, <2>2, <2>3, <3>1 DEF KernelOK, OthersOK, startVars
    <3> QED
      BY <3>2, <3>3, <3>4, TypePartsNext
  <2>4. CASE UNCHANGED <<worker, files>>
    <3>1. pc' = [pc EXCEPT ![n] = "idle"]
      BY <1>0, <2>1, <2>4 DEF worker
    <3>2. InformerOK'
      BY <1>l, <2>1, <3>1, TakeType
    <3>3. FilesOK' /\ KernelOK' /\ OthersOK'
      BY <1>0, <1>s, <2>2, <2>4 DEF FilesOK, KernelOK, OthersOK, startVars, files, worker
    <3> QED
      BY <3>2, <3>3, TypePartsNext
  <2> QED
    BY <1>1, <2>3, <2>4 DEF Add
<1>2. CASE Publish(n)
  <2> DEFINE o == Lister(n)
             i == index[n]
  <2>1. UNCHANGED <<files, kernel>> /\ Worker(n)
    BY <1>2, <1>l DEF Publish, Worker
  <2>b. changes' \in 0 .. MaxEvents /\ faults' \in 0 .. MaxEvents
    <3>1. UNCHANGED bounds \/ Fault
      BY <1>2 DEF Publish
    <3> QED
      BY <1>0, <1>f, <3>1 DEF OthersOK, bounds
  <2>2. FilesOK' /\ KernelOK'
    BY <1>0, <2>1 DEF FilesOK, KernelOK, files, kernel, tables
  <2>3. CASE Restart(n) /\ UNCHANGED object
    <3>1. InformerOK' /\ failed' \in SUBSET Nodes /\ index' \in [Nodes -> Nat]
      BY <2>3, RestartType DEF object
    <3>2. OthersOK'
      BY <1>0, <1>s, <2>b, <2>3, <3>1 DEF OthersOK, object, startVars
    <3> QED
      BY <2>2, <3>1, <3>2, TypePartsNext
  <2>4. ASSUME store[n] # Unset, i \in DOMAIN o, index' = [index EXCEPT ![n] = 0],
               UNCHANGED informer
        PROVE  TypeInv'
    <3>1. index' \in [Nodes -> Nat]
      BY <1>0, <2>4 DEF OthersOK
    <3>2. CASE /\ log' = Append(log, [o EXCEPT ![i].vtep = store[n]])
               /\ misplaced' = (misplaced \/ o[i].name # n)
               /\ Goto(n, IF Len(o) > 1 THEN "vxlan" ELSE "idle")
               /\ UNCHANGED <<failed, bounds>>
      <4>1. [o EXCEPT ![i].vtep = store[n]] \in Seq(Entry)
        <5>1. o \in Seq(Entry) /\ i \in 1 .. Len(o) /\ o[i] \in Entry /\ store[n] \in Vteps
          BY <1>0, <1>o, <2>4, SeqFacts DEF FilesOK
        <5> HIDE DEF o, i
        <5>2. [o[i] EXCEPT !.vtep = store[n]] \in Entry
          BY <5>1 DEF Entry
        <5> QED
          BY <5>1, <5>2, ExceptSeq
      <4>2. log' \in Seq(Seq(Entry)) /\ Len(log') >= Len(log)
        BY <1>0, <3>2, <4>1, AppendFacts
      <4>3. InformerOK'
        <5>1. Goto(n, "vxlan") \/ Goto(n, "idle")
          BY <3>2
        <5> QED
          BY <1>l, <2>1, <2>4, <4>2, <5>1, GotoType
      <4>4. OthersOK'
        BY <1>0, <1>s, <2>b, <3>1, <3>2 DEF OthersOK, startVars
      <4> QED
        BY <2>2, <4>3, <4>4, TypePartsNext
    <3>3. CASE Goto(n, "idle") /\ failed' = failed \cup {n} /\ UNCHANGED object
      <4>1. InformerOK'
        BY <1>0, <1>l, <2>1, <2>4, <3>3, GotoType DEF object
      <4>2. OthersOK'
        BY <1>0, <1>s, <2>b, <3>1, <3>3 DEF OthersOK, startVars, object
      <4> QED
        BY <2>2, <4>1, <4>2, TypePartsNext
    <3> QED
      BY <1>2, <2>4, <3>2, <3>3 DEF Publish
  <2> QED
    BY <1>2, <2>3, <2>4 DEF Publish
<1>3. CASE CreateVxlan(n)
  <2>1. UNCHANGED <<object, files, tables>> /\ pc[n] = "vxlan"
    BY <1>3 DEF CreateVxlan
  <2>2. FilesOK' /\ log' = log /\ misplaced' = misplaced
    BY <1>0, <2>1 DEF FilesOK, files, object
  <2>3. EnsuredVxlan(n) \in Macs \cup {Unset}
    <3>1. CASE device[n] # Unset
      BY <1>0, <3>1 DEF EnsuredVxlan, KernelOK
    <3>2. CASE device[n] = Unset
      <4>1. store[n] # Unset
        BY <1>3 DEF CreateVxlan, VtepInv
      <4> QED
        BY <1>0, <3>2, <4>1 DEF EnsuredVxlan, NewVxlanDevice, FilesOK, Vteps
    <3> QED
      BY <3>1, <3>2
  <2>4. KernelOK'
    <3>1. \E d \in {device[n], EnsuredVxlan(n)} : device' = [device EXCEPT ![n] = d]
      BY <1>3 DEF CreateVxlan
    <3>2. raised' \in SUBSET Nodes
      BY <1>0, <1>3 DEF CreateVxlan, KernelOK
    <3>3. device' \in [Nodes -> Macs \cup {Unset}]
      BY <1>0, <2>3, <3>1 DEF KernelOK
    <3> QED
      BY <1>0, <2>1, <3>2, <3>3 DEF KernelOK, tables
  <2>5. CASE Goto(n, "idle") /\ UNCHANGED <<informer, index, failed, bounds>>
    <3>1. InformerOK'
      BY <1>0, <1>l, <2>1, <2>2, <2>5, GotoType DEF Worker
    <3>2. OthersOK'
      BY <1>0, <1>s, <2>2, <2>5 DEF OthersOK, bounds, startVars
    <3> QED
      BY <2>2, <2>4, <3>1, <3>2, TypePartsNext
  <2>6. CASE Restart(n) /\ Fault
    <3>1. InformerOK' /\ failed' \in SUBSET Nodes /\ index' \in [Nodes -> Nat]
      BY <2>2, <2>6, RestartType
    <3>2. OthersOK'
      BY <1>0, <1>s, <1>f, <2>2, <2>6, <3>1 DEF OthersOK, startVars
    <3> QED
      BY <2>2, <2>4, <3>1, <3>2, TypePartsNext
  <2> QED
    BY <1>3, <2>5, <2>6 DEF CreateVxlan
<1>4. CASE UpdateMembership(n)
  <2>1. /\ pc[n] = "idle" /\ queue[n] # <<>>
        /\ \E kind \in {"Add", "Delete"} :
             queue' = [queue EXCEPT ![n] = Append(Tail(queue[n]), Event(kind, Head(queue[n]).version))]
        /\ UNCHANGED <<object, seen, worker, files, kernel, failed, bounds>>
    BY <1>0, <1>4 DEF UpdateMembership, Ready
  <2>2. pc' = [pc EXCEPT ![n] = "idle"] /\ log' = log
    BY <1>0, <2>1 DEF worker, object
  <2>3. InformerOK'
    BY <1>l, <2>1, <2>2, TakeType
  <2>4. FilesOK' /\ KernelOK' /\ OthersOK'
    BY <1>0, <1>s, <2>1 DEF FilesOK, KernelOK, OthersOK, files, kernel, tables, worker, object, bounds, startVars
  <2> QED
    BY <2>3, <2>4, TypePartsNext
<1>5. CASE Update(n)
  <2> DEFINE l == Lister(n)
             R == Remotes(n, l)
  <2>1. pc[n] = "idle" /\ queue[n] # <<>> /\ UNCHANGED <<object, files>>
    BY <1>5, UpdateCases DEF Ready
  <2>2. FilesOK' /\ log' = log /\ misplaced' = misplaced
    BY <1>0, <2>1 DEF FilesOK, files, object
  <2>3. KernelOK'
    <3>1. CASE UNCHANGED kernel
      BY <1>0, <3>1 DEF KernelOK, kernel, tables
    <3>2. ASSUME NEW A \in SUBSET R, NEW F \in SUBSET R, NEW G \in SUBSET Routable(n, R),
                 AddEntries(n, l, R, A, F, G)
          PROVE  KernelOK'
      <4>1. G \in SUBSET R
        BY DEF Routable
      <4> HIDE DEF l, R
      <4> QED
        BY <1>0, <1>o, <3>2, <4>1, EntriesType DEF l, R
    <3> QED
      BY <1>5, <3>1, <3>2, UpdateCases
  <2>4. changes' \in 0 .. MaxEvents /\ faults' \in 0 .. MaxEvents
    BY <1>0, <1>5, <1>f, UpdateCases DEF OthersOK, bounds
  <2>5. CASE Pop(n) /\ UNCHANGED <<seen, worker, failed>>
    <3>1. pc' = [pc EXCEPT ![n] = "idle"] /\ queue' = [queue EXCEPT ![n] = Tail(queue[n])]
      BY <1>0, <2>1, <2>5 DEF worker, Pop
    <3>2. InformerOK'
      BY <1>l, <2>1, <2>2, <2>5, <3>1, TakeType
    <3>3. OthersOK'
      BY <1>0, <1>s, <2>2, <2>4, <2>5 DEF OthersOK, worker, startVars
    <3> QED
      BY <2>2, <2>3, <3>2, <3>3, TypePartsNext
  <2>6. CASE Restart(n)
    <3>1. InformerOK' /\ failed' \in SUBSET Nodes /\ index' \in [Nodes -> Nat]
      BY <2>2, <2>6, RestartType
    <3>2. OthersOK'
      BY <1>0, <1>s, <2>2, <2>4, <3>1 DEF OthersOK, startVars
    <3> QED
      BY <2>2, <2>3, <3>1, <3>2, TypePartsNext
  <2> QED
    BY <1>5, <2>5, <2>6, UpdateCases
<1>6. CASE Delete(n)
  <2>1. pc[n] = "idle" /\ queue[n] # <<>>
    BY <1>6, DeleteCases DEF Ready
  <2>2. log' = log /\ misplaced' = misplaced
    BY <1>6, DeleteCases DEF object
  <2>3. FilesOK'
    <3>1. subnets[n] \in [avail : Seq(1 .. SubnetCount), mine : 0 .. SubnetCount]
      BY <1>0 DEF FilesOK
    <3>2. Reclaimed(subnets[n]) \in [avail : Seq(1 .. SubnetCount), mine : 0 .. SubnetCount]
      <4>1. CASE subnets[n].mine = 0
        BY <3>1, <4>1 DEF Reclaimed
      <4>2. CASE subnets[n].mine # 0
        <5>1. subnets[n].mine \in 1 .. SubnetCount /\ 0 \in 0 .. SubnetCount
          BY <3>1, <4>2, MeshAssumption
        <5>2. Append(subnets[n].avail, subnets[n].mine) \in Seq(1 .. SubnetCount)
          BY <3>1, <5>1
        <5> QED
          BY <4>2, <5>1, <5>2 DEF Reclaimed
      <4> QED
        BY <4>1, <4>2
    <3>3. subnets' \in [Nodes -> [avail : Seq(1 .. SubnetCount), mine : 0 .. SubnetCount]]
      BY <1>0, <1>6, <3>2, DeleteCases DEF FilesOK
    <3>4. store' \in [Nodes -> Vteps \cup {Unset}] /\ made' \in [Nodes -> Nat]
      BY <1>0, <1>6, DeleteCases DEF FilesOK, DeleteTenantStore
    <3> QED
      BY <3>3, <3>4 DEF FilesOK
  <2>4. KernelOK'
    <3>1. CASE UNCHANGED kernel
      BY <1>0, <3>1 DEF KernelOK, kernel, tables
    <3>2. CASE DeleteVxLANDevice(n)
      BY <1>0, <3>2 DEF KernelOK, DeleteVxLANDevice
    <3> QED
      BY <1>6, <3>1, <3>2, DeleteCases
  <2>5. changes' \in 0 .. MaxEvents /\ faults' \in 0 .. MaxEvents
    BY <1>0, <1>6, <1>f, DeleteCases DEF OthersOK, bounds
  <2>6. CASE Pop(n) /\ UNCHANGED <<seen, worker, failed>>
    <3>1. pc' = [pc EXCEPT ![n] = "idle"] /\ queue' = [queue EXCEPT ![n] = Tail(queue[n])]
      BY <1>0, <2>1, <2>6 DEF worker, Pop
    <3>2. InformerOK'
      BY <1>l, <2>1, <2>2, <2>6, <3>1, TakeType
    <3>3. OthersOK'
      BY <1>0, <1>s, <2>2, <2>5, <2>6 DEF OthersOK, worker, startVars
    <3> QED
      BY <2>3, <2>4, <3>2, <3>3, TypePartsNext
  <2>7. CASE Restart(n)
    <3>1. InformerOK' /\ failed' \in SUBSET Nodes /\ index' \in [Nodes -> Nat]
      BY <2>2, <2>7, RestartType
    <3>2. OthersOK'
      BY <1>0, <1>s, <2>2, <2>5, <3>1 DEF OthersOK, startVars
    <3> QED
      BY <2>3, <2>4, <3>1, <3>2, TypePartsNext
  <2> QED
    BY <1>6, <2>6, <2>7, DeleteCases
<1>7. CASE Inform(n)
  <2>1. /\ Worker(n) /\ seen[n] < Len(log) /\ seen[n] \in Nat /\ seen[n] # 0
        /\ seen' = [seen EXCEPT ![n] = seen[n] + 1]
        /\ queue' = [queue EXCEPT ![n] = Append(queue[n], Event("Update", seen[n] + 1))]
        /\ UNCHANGED <<object, worker, files, kernel, failed, bounds>>
    BY <1>0, <1>7, ObjectTypes DEF Inform, Deliver, InformerOK, InformerInv, Worker
  <2>2. QueueOK(Append(queue[n], Event("Update", seen[n] + 1)), seen[n] + 1)
    <3>1. QueueOK(queue[n], seen[n]) /\ Event("Update", seen[n] + 1) \in Events
      BY <1>0, <2>1 DEF InformerOK, InformerInv, Event, Events
    <3>2. Event("Update", seen[n] + 1).version \in 1 .. seen[n] + 1
      BY <2>1 DEF Event
    <3> QED
      BY <2>1, <3>1, <3>2, QueueAppend
  <2>3. InformerOK'
    <3>1. pc' = [pc EXCEPT ![n] = pc[n]] /\ log' = log /\ pc[n] \in Labels /\ pc[n] \in WorkerLabels
      BY <1>0, <2>1 DEF worker, object, Worker
    <3>2. Len(log') >= Len(log) /\ seen[n] + 1 \in 0 .. Len(log') /\ seen[n] + 1 # 0
      BY <1>0, <2>1, <3>1
    <3>3. log' # <<>>
      BY <1>0, <2>1, <3>1 DEF InformerOK, InformerInv
    <3> QED
      BY <1>0, <2>1, <2>2, <3>1, <3>2, <3>3, InformerStep
  <2>4. FilesOK' /\ KernelOK' /\ OthersOK'
    BY <1>0, <1>s, <2>1 DEF FilesOK, KernelOK, OthersOK, files, kernel, tables, worker, object, bounds, startVars
  <2> QED
    BY <2>3, <2>4, TypePartsNext
<1> QED
  BY <1>1, <1>2, <1>3, <1>4, <1>5, <1>6, <1>7 DEF Work

\* A daemon runs on the nodes of the cluster.
ClusterInv == \A n \in Nodes : pc[n] = "absent" <=> n \notin cluster

\* The steps of the rest of the world.
LEMMA WorldTypes ==
  ASSUME TypeInv, ClusterInv, NEW n \in Nodes,
         \/ Establish \/ AddNode(n) \/ Crash(n)
         \/ UNCHANGED startVars /\ (Join(n) \/ Leave(n))
  PROVE  TypeInv'
<1>0. /\ InformerOK /\ FilesOK /\ KernelOK /\ OthersOK /\ log \in Seq(Seq(Entry)) /\ Len(log) \in Nat
      /\ Current \in Seq(Entry) /\ pc \in [Nodes -> Labels]
  BY TypeParts, ObjectTypes DEF InformerOK
<1>1. CASE Establish
  <2>1. UNCHANGED <<object, informer, worker, files, kernel, failed, bounds, cluster, nodeList, founders>>
        /\ crd' = "established"
    BY <1>1 DEF Establish, meshVars
  <2>2. InformerOK'
    <3>1. Goto(n, pc[n]) /\ pc[n] \in Labels /\ log' = log
      BY <1>0, <2>1 DEF Goto, worker, object
    <3>2. pc[n] = "controller" => log # <<>>
      BY <1>0 DEF InformerOK, InformerInv
    <3> QED
      BY <1>0, <2>1, <3>1, <3>2, GotoType DEF Worker
  <2>3. FilesOK' /\ KernelOK' /\ OthersOK'
    BY <1>0, <2>1 DEF FilesOK, KernelOK, OthersOK, object, worker, files, kernel, tables, bounds
  <2> QED
    BY <2>2, <2>3, TypePartsNext
<1>2. CASE AddNode(n)
  <2>1. Goto(n, "register") /\ UNCHANGED informer /\ log' = log /\ ~Worker(n)
    BY <1>2 DEF AddNode, object, ClusterInv, Worker, WorkerLabels
  <2>2. "register" \in Labels /\ "register" \notin WorkerLabels
    BY DEF Labels, StartLabels, WorkerLabels
  <2>3. InformerOK'
    BY <1>0, <1>2, <2>1, <2>2, GotoType
  <2>4. FilesOK' /\ KernelOK' /\ OthersOK'
    BY <1>0, <1>2 DEF AddNode, FilesOK, KernelOK, OthersOK, files, kernel, tables, bounds, object
  <2> QED
    BY <2>3, <2>4, TypePartsNext
<1>3. CASE Crash(n)
  <2>1. InformerOK' /\ failed' \in SUBSET Nodes /\ index' \in [Nodes -> Nat]
    BY <1>3, RestartType DEF Crash, object
  <2>2. FilesOK' /\ KernelOK' /\ OthersOK'
    <3>1. UNCHANGED <<object, files, kernel, cluster, crd, founders>> /\ Fault
          /\ nodeList' = [nodeList EXCEPT ![n] = {}]
      BY <1>3 DEF Crash
    <3>2. changes' \in 0 .. MaxEvents /\ faults' \in 0 .. MaxEvents
      BY <1>0, <3>1, MeshAssumption DEF Fault, OthersOK
    <3>3. FilesOK' /\ KernelOK'
      BY <1>0, <3>1 DEF FilesOK, KernelOK, files, kernel, tables
    <3> QED
      BY <1>0, <2>1, <3>1, <3>2, <3>3 DEF OthersOK, object
  <2> QED
    BY <2>1, <2>2, TypePartsNext
<1>4. ASSUME UNCHANGED startVars, NEW l \in Seq(Entry), Change(l) PROVE TypeInv'
  <2>1. log' = Append(log, l) /\ UNCHANGED <<informer, worker>>
    BY <1>4 DEF Change
  <2>2. log' \in Seq(Seq(Entry)) /\ Len(log') >= Len(log) /\ log' # <<>>
    BY <1>0, <2>1, AppendFacts
  <2>3. Goto(n, pc[n]) /\ pc[n] \in Labels
    BY <1>0, <2>1 DEF Goto, worker
  <2>4. InformerOK'
    BY <2>1, <2>2, <2>3, GotoType DEF Worker
  <2>5. FilesOK' /\ KernelOK'
    BY <1>0, <1>4 DEF Change, FilesOK, KernelOK, files, kernel, tables
  <2>6. OthersOK'
    BY <1>0, <1>4, MeshAssumption DEF Change, OthersOK, worker, startVars
  <2> QED
    BY <2>4, <2>5, <2>6, TypePartsNext
<1>5. CASE UNCHANGED startVars /\ Join(n)
  <2>1. Append(Current, Listed(n)) \in Seq(Entry)
    BY <1>0, AppendFacts DEF Listed, Entry
  <2> QED
    BY <1>4, <1>5, <2>1 DEF Join
<1>6. CASE UNCHANGED startVars /\ Leave(n)
  <2>1. Index(Current, n) \in DOMAIN Current
    BY <1>6, IndexFacts DEF Leave
  <2>2. RemoveAt(Current, Index(Current, n)) \in Seq(Entry)
    BY <1>0, <2>1, RemoveAtFacts
  <2> QED
    BY <1>4, <1>6, <2>2 DEF Leave
<1> QED
  BY <1>1, <1>2, <1>3, <1>5, <1>6

\* Steps of a daemon leave it running, and the nodes with one are the cluster's.
LEMMA ClusterStep ==
  ASSUME TypeInv, ClusterInv, [Next]_vars
  PROVE  ClusterInv'
<1>0. pc \in [Nodes -> Labels]
  BY TypeParts DEF InformerOK
<1>1. ASSUME NEW n \in Nodes, NEW l, Goto(n, l), l # "absent", pc[n] # "absent", cluster' = cluster
      PROVE  ClusterInv'
  BY <1>0, <1>1 DEF Goto, ClusterInv
<1>2. ASSUME pc' = pc, cluster' = cluster PROVE ClusterInv'
  BY <1>2 DEF ClusterInv
<1>3. ASSUME NEW n \in Nodes, Start(n) PROVE ClusterInv'
  BY <1>1, <1>3 DEF Start, RegisterTenantCRD, WriteNodeStore, RegisterDefaultTenant, StartController,
                    Restart, startVars
<1>4. ASSUME NEW n \in Nodes, Add(n) \/ Publish(n) \/ CreateVxlan(n), UNCHANGED startVars
      PROVE  ClusterInv'
  <2>1. cluster' = cluster /\ pc[n] # "absent"
    BY <1>4 DEF startVars, Add, Ready, Publish, CreateVxlan
  <2>2. pc' = pc \/ \E l \in {"publish", "vxlan", "idle", "register"} : Goto(n, l)
    <3>1. CASE Add(n)
      BY <3>1 DEF Add, worker
    <3>2. CASE Publish(n)
      BY <3>2 DEF Publish, Restart
    <3>3. CASE CreateVxlan(n)
      BY <3>3 DEF CreateVxlan, Restart
    <3> QED
      BY <1>4, <3>1, <3>2, <3>3
  <2> QED
    BY <1>1, <1>2, <2>1, <2>2
<1>5. ASSUME NEW n \in Nodes, UpdateMembership(n) \/ Update(n) \/ Delete(n) \/ Deliver(n), UNCHANGED startVars
      PROVE  ClusterInv'
  <2>1. cluster' = cluster
    BY <1>5 DEF startVars
  <2>2. pc' = pc \/ (pc[n] # "absent" /\ Goto(n, "register"))
    <3>1. CASE UpdateMembership(n)
      BY <3>1 DEF UpdateMembership, worker
    <3>2. CASE Update(n)
      BY <3>2, UpdateCases DEF Restart, Ready, worker
    <3>3. CASE Delete(n)
      BY <3>3, DeleteCases DEF Restart, Ready, worker
    <3>4. CASE Deliver(n)
      BY <3>4 DEF Deliver, worker
    <3> QED
      BY <1>5, <3>1, <3>2, <3>3, <3>4
  <2> QED
    BY <1>1, <1>2, <2>1, <2>2
<1>6. CASE Establish \/ UNCHANGED vars
  BY <1>2, <1>6 DEF Establish, vars, meshVars, worker, startVars
<1>7. ASSUME NEW n \in Nodes, AddNode(n) PROVE ClusterInv'
  BY <1>0, <1>7 DEF AddNode, Goto, ClusterInv
<1>8. ASSUME NEW n \in Nodes, Crash(n) PROVE ClusterInv'
  BY <1>1, <1>8 DEF Crash, Restart, Running
<1>9. ASSUME NEW n \in Nodes, UNCHANGED startVars, Join(n) \/ Leave(n) PROVE ClusterInv'
  BY <1>2, <1>9 DEF Join, Leave, Change, worker, startVars
<1> QED
  BY <1>3, <1>4, <1>5, <1>6, <1>7, <1>8, <1>9 DEF Next, Work, Inform

\* The store of a node changes in its own daemon's steps only, and a worker that is
\* about to make the device has found a VTEP there.
LEMMA VtepStep ==
  ASSUME TypeInv, VtepInv, [Next]_vars
  PROVE  VtepInv'
<1>0. pc \in [Nodes -> Labels] /\ store \in [Nodes -> Vteps \cup {Unset}]
  BY TypeParts DEF InformerOK, FilesOK
<1>1. ASSUME UNCHANGED store,
             pc' = pc \/ \E n \in Nodes : \E l : l # "vxlan" /\ Goto(n, l)
      PROVE  VtepInv'
  BY <1>0, <1>1 DEF VtepInv, Goto
<1>2. ASSUME NEW n \in Nodes, Start(n) PROVE VtepInv'
  <2>1. UNCHANGED store
    BY <1>2 DEF Start, RegisterTenantCRD, WriteNodeStore, RegisterDefaultTenant, StartController, files
  <2>2. \E l : l # "vxlan" /\ Goto(n, l)
    BY <1>2 DEF Start, RegisterTenantCRD, WriteNodeStore, RegisterDefaultTenant, StartController, Restart
  <2> QED
    BY <1>1, <2>1, <2>2
<1>3. ASSUME NEW n \in Nodes, Add(n) PROVE VtepInv'
  <2>1. CASE UNCHANGED <<worker, files>>
    BY <1>1, <2>1 DEF worker, files
  <2>2. CASE AllocateTenant(n) /\ Goto(n, "publish")
    <3>1. \A m \in Nodes \ {n} : UNCHANGED store[m]
      BY <1>0, <2>2 DEF AllocateTenant, files
    <3> QED
      BY <1>0, <2>2, <3>1 DEF VtepInv, Goto
  <2> QED
    BY <1>3, <2>1, <2>2 DEF Add
<1>4. ASSUME NEW n \in Nodes, Publish(n) PROVE VtepInv'
  <2>1. UNCHANGED store
    BY <1>4 DEF Publish, files
  <2>2. CASE store[n] # Unset /\ Goto(n, "vxlan")
    BY <1>0, <2>1, <2>2 DEF VtepInv, Goto
  <2>3. CASE Goto(n, "idle") \/ Restart(n)
    BY <1>1, <2>1, <2>3 DEF Restart
  <2> QED
    BY <1>4, <2>2, <2>3 DEF Publish
<1>5. ASSUME NEW n \in Nodes, CreateVxlan(n) PROVE VtepInv'
  BY <1>1, <1>5 DEF CreateVxlan, Restart, files
<1>6. ASSUME NEW n \in Nodes, UpdateMembership(n) \/ Deliver(n) PROVE VtepInv'
  BY <1>1, <1>6 DEF UpdateMembership, Deliver, worker, files
<1>7. ASSUME NEW n \in Nodes, Update(n) PROVE VtepInv'
  BY <1>1, <1>7, UpdateCases DEF Restart, worker, files
<1>8. ASSUME NEW n \in Nodes, Delete(n) PROVE VtepInv'
  <2>1. pc' = pc \/ Goto(n, "register")
    BY <1>8, DeleteCases DEF Restart, worker
  <2>2. pc'[n] # "vxlan" /\ \A m \in Nodes \ {n} : UNCHANGED <<pc[m], store[m]>>
    BY <1>0, <1>8, <2>1, DeleteCases DEF Goto, Ready, DeleteTenantStore
  <2> QED
    BY <2>2 DEF VtepInv
<1>9. ASSUME NEW n \in Nodes, AddNode(n) \/ Crash(n) PROVE VtepInv'
  BY <1>1, <1>9 DEF AddNode, Crash, Restart, files
<1>10. ASSUME NEW n \in Nodes, Join(n) \/ Leave(n) PROVE VtepInv'
  BY <1>1, <1>10 DEF Join, Leave, Change, worker, files
<1>11. CASE Establish \/ UNCHANGED vars
  BY <1>1, <1>11 DEF Establish, vars, meshVars, worker, files
<1> QED
  BY <1>2, <1>3, <1>4, <1>5, <1>6, <1>7, <1>8, <1>9, <1>10, <1>11 DEF Next, Work, Inform

\* Every step keeps the types.
LEMMA TypeStep ==
  ASSUME TypeInv, ClusterInv, VtepInv, [Next]_vars
  PROVE  TypeInv'
<1>1. CASE UNCHANGED vars
  <2>1. UNCHANGED <<object, informer, worker, files, kernel, failed, bounds, startVars>>
    BY <1>1 DEF vars, meshVars
  <2> QED
    BY <2>1, TypeParts, TypePartsNext
       DEF InformerOK, FilesOK, KernelOK, OthersOK, object, informer, worker, files,
           kernel, tables, bounds, startVars, InformerInv, QueueOK, Worker
<1>2. CASE \E n \in Nodes : Start(n) \/ Work(n) \/ Inform(n)
  BY <1>2, StartTypes, WorkTypes
<1>3. CASE Nodes = {}
  <2>1. CASE Establish
    <3>1. UNCHANGED <<object, informer, worker, files, kernel, failed, bounds, cluster, nodeList, founders>>
          /\ crd' = "established"
      BY <2>1 DEF Establish, meshVars
    <3> QED
      BY <1>3, <3>1, TypeParts, TypePartsNext
         DEF InformerOK, FilesOK, KernelOK, OthersOK, object, worker, files, informer,
             kernel, tables, bounds, InformerInv
  <2> QED
    BY <1>1, <1>3, <2>1 DEF Next
<1>4. CASE Nodes # {} /\ Next
  <2>1. CASE Establish
    BY <1>4, <2>1, WorldTypes
  <2>2. ASSUME NEW n \in Nodes, AddNode(n) \/ Crash(n) PROVE TypeInv'
    BY <2>2, WorldTypes
  <2>3. ASSUME NEW n \in Nodes, UNCHANGED startVars, Join(n) \/ Leave(n) PROVE TypeInv'
    BY <2>3, WorldTypes
  <2> QED
    BY <1>2, <1>4, <2>1, <2>2, <2>3 DEF Next
<1> QED
  BY <1>1, <1>3, <1>4

\* The types hold at the start.
LEMMA TypeInit == Init => TypeInv /\ ClusterInv
<1> SUFFICES ASSUME Init PROVE TypeInv /\ ClusterInv
  OBVIOUS
<1>1. \A n \in Nodes : pc[n] \in {"register", "absent"} /\ (pc[n] = "absent" <=> n \notin cluster)
  BY FoundersAssumption DEF Init
<1>2. InformerOK
  <2>1. \A n \in Nodes : QueueOK(queue[n], seen[n]) /\ pc[n] # "controller" /\ ~Worker(n)
    BY <1>1, QueueEmpty DEF Init, MeshInit, Worker, WorkerLabels
  <2>2. InformerInv
    BY <2>1 DEF Init, MeshInit, InformerInv
  <2>3. log = <<>> /\ log \in Seq(Seq(Entry)) /\ Len(log) = 0
    BY DEF Init, MeshInit
  <2>4. seen \in [Nodes -> 0 .. Len(log)] /\ queue \in [Nodes -> Seq(Events)]
    BY <2>3 DEF Init, MeshInit
  <2>5. pc \in [Nodes -> Labels]
    BY DEF Init, Labels, StartLabels
  <2> QED
    BY <2>2, <2>3, <2>4, <2>5 DEF InformerOK
<1>3. FilesOK
  BY MeshAssumption DEF Init, MeshInit, FilesOK
<1>4. KernelOK
  BY DEF Init, MeshInit, KernelOK
<1>5. OthersOK
  <2>1. 0 \in 0 .. MaxEvents /\ Founders \in SUBSET Nodes
    BY MeshAssumption, FoundersAssumption
  <2> QED
    BY <2>1 DEF Init, MeshInit, OthersOK
<1> QED
  BY <1>1, <1>2, <1>3, <1>4, <1>5, TypeParts DEF ClusterInv

\* The invariants that make TypeOK inductive hold in every reachable state.
LEMMA TypeInvHolds == Spec => [](TypeInv /\ ClusterInv)
<1>1. Init => VtepInv
  BY DEF Init, MeshInit, VtepInv
<1> QED
  BY <1>1, TypeInit, TypeStep, ClusterStep, VtepStep, PTL DEF Spec

\* TypeOK: every variable keeps its type; in particular an event in a queue is of
\* a version its daemon has seen, and subnets of a node stay those of its CIDR.
THEOREM TypeCorrect == Spec => []TypeOK
<1>1. TypeInv => TypeOK
  BY DEF TypeInv
<1> QED
  BY <1>1, TypeInvHolds, PTL

-----------------------------------------------------------------------------
(* What a step does to the object and to the stores.                        *)

\* The daemon of n creates the object.
Creates(n) ==
  /\ pc[n] = "tenant" /\ log = <<>>
  /\ \E s \in Orders(nodeList[n]) : log' = <<[i \in DOMAIN s |-> Listed(s[i])]>>
  /\ Goto(n, "controller")
  /\ nodeList' = [nodeList EXCEPT ![n] = {}]
  /\ UNCHANGED <<informer, index, failed, misplaced, files, kernel, bounds, cluster, founders>>

\* The worker of n has its update of the object taken.
Publishes(n) ==
  /\ pc[n] = "publish" /\ seen[n] = Len(log) /\ log # <<>>
  /\ store[n] # Unset /\ index[n] \in DOMAIN Current
  /\ log' = Append(log, [Current EXCEPT ![index[n]].vtep = store[n]])
  /\ misplaced' = (misplaced \/ Current[index[n]].name # n)
  /\ Goto(n, "vxlan") \/ Goto(n, "idle")
  /\ index' = [index EXCEPT ![n] = 0]
  /\ UNCHANGED <<files, kernel, bounds, informer, failed, startVars>>

\* Users list a node or take one off.
Joins(n)  == UNCHANGED startVars /\ Join(n)
Leaves(n) == UNCHANGED startVars /\ Leave(n)

\* The object changes when it is created, by a Publish that is taken, and by users.
LEMMA ObjectStep ==
  ASSUME TypeInv, [Next]_vars
  PROVE  \/ UNCHANGED object
         \/ \E n \in Nodes : Creates(n) \/ Publishes(n) \/ Joins(n) \/ Leaves(n)
<1>1. ASSUME NEW n \in Nodes, RegisterDefaultTenant(n) PROVE UNCHANGED object \/ Creates(n)
  BY <1>1 DEF RegisterDefaultTenant, CreateTenant, Creates, object
<1>2. ASSUME NEW n \in Nodes, Publish(n), UNCHANGED startVars PROVE UNCHANGED object \/ Publishes(n)
  <2>1. CASE seen[n] = 0
    BY <1>2, <2>1, ObjectTypes DEF Publish, Lister
  <2>2. CASE seen[n] # 0 /\ ~Taken(n)
    BY <1>2, <2>2 DEF Publish
  <2>3. CASE seen[n] # 0 /\ Taken(n)
    <3>1. Lister(n) = Current /\ log # <<>> /\ seen[n] = Len(log)
      BY <2>3, ObjectTypes DEF Lister, Current, Taken
    <3> QED
      BY <1>2, <3>1 DEF Publish, Publishes
  <2> QED
    BY <2>1, <2>2, <2>3
<1>3. ASSUME NEW n \in Nodes, Start(n) PROVE UNCHANGED object \/ Creates(n)
  BY <1>1, <1>3 DEF Start, RegisterTenantCRD, WriteNodeStore, StartController
<1>4. ASSUME NEW n \in Nodes, Work(n) \/ Inform(n) PROVE UNCHANGED object \/ Publishes(n)
  BY <1>2, <1>4 DEF Work, Inform, Deliver, Add, CreateVxlan, UpdateMembership, Update, Delete
<1>5. ASSUME NEW n \in Nodes, AddNode(n) \/ Crash(n) PROVE UNCHANGED object
  BY <1>5 DEF AddNode, Crash
<1>6. CASE Establish \/ UNCHANGED vars
  BY <1>6 DEF Establish, vars, meshVars
<1> QED
  BY <1>3, <1>4, <1>5, <1>6 DEF Next, Joins, Leaves

\* The worker of n allocates a subnet and makes up a MAC address.
Allocates(n) ==
  /\ UNCHANGED object
  /\ made' = [made EXCEPT ![n] = made[n] + 1]
  /\ \E k \in 1 .. SubnetCount :
       store' = [store EXCEPT ![n] = [node |-> n, ip |-> <<n, k>>, mac |-> <<n, made[n] + 1>>]]

\* The stores change when a worker allocates a subnet or gives its subnet back.
LEMMA StoreStep ==
  ASSUME TypeInv, [Next]_vars
  PROVE  \/ UNCHANGED <<made, store>>
         \/ \E n \in Nodes : \/ Allocates(n)
                             \/ Delete(n) /\ UNCHANGED <<object, made>> /\ store' = [store EXCEPT ![n] = Unset]
<1>0. FilesOK
  BY TypeParts
<1>1. ASSUME NEW n \in Nodes, AllocateTenant(n), UNCHANGED object
      PROVE  UNCHANGED <<made, store>> \/ Allocates(n)
  <2>1. CASE subnets[n].avail = <<>>
    BY <1>1, <2>1 DEF AllocateTenant, files
  <2>2. CASE subnets[n].avail # <<>>
    <3>1. Head(subnets[n].avail) \in 1 .. SubnetCount
      <4>1. subnets[n].avail \in Seq(1 .. SubnetCount)
        BY <1>0 DEF FilesOK
      <4>2. Head(subnets[n].avail) = subnets[n].avail[1] /\ 1 \in DOMAIN subnets[n].avail
        BY <2>2, <4>1, TailFacts
      <4>3. \A i \in DOMAIN subnets[n].avail : subnets[n].avail[i] \in 1 .. SubnetCount
        BY <4>1, SeqFacts
      <4> QED
        BY <4>2, <4>3
    <3>2. /\ made' = [made EXCEPT ![n] = made[n] + 1]
          /\ store' = [store EXCEPT ![n] =
                [node |-> n, ip |-> <<n, Head(subnets[n].avail)>>, mac |-> <<n, made[n] + 1>>]]
      BY <1>0, <1>1, <2>2 DEF AllocateTenant, NewHardwareAddr, FilesOK
    <3> QED
      BY <1>1, <3>1, <3>2 DEF Allocates
  <2> QED
    BY <2>1, <2>2
<1>2. ASSUME NEW n \in Nodes, Add(n)
      PROVE  UNCHANGED <<made, store>> \/ Allocates(n)
  BY <1>1, <1>2 DEF Add, files
<1>3. ASSUME NEW n \in Nodes, Delete(n)
      PROVE  \/ UNCHANGED <<made, store>>
             \/ Delete(n) /\ UNCHANGED <<object, made>> /\ store' = [store EXCEPT ![n] = Unset]
  BY <1>3, DeleteCases DEF DeleteTenantStore
<1>4. ASSUME NEW n \in Nodes, Start(n) PROVE UNCHANGED <<made, store>>
  BY <1>4 DEF Start, RegisterTenantCRD, WriteNodeStore, RegisterDefaultTenant, StartController, files
<1>5. ASSUME NEW n \in Nodes, Publish(n) \/ CreateVxlan(n) \/ UpdateMembership(n) \/ Update(n) \/ Deliver(n)
      PROVE  UNCHANGED <<made, store>>
  BY <1>5, UpdateCases DEF Publish, CreateVxlan, UpdateMembership, Deliver, files
<1>6. ASSUME NEW n \in Nodes, AddNode(n) \/ Crash(n) \/ Join(n) \/ Leave(n) PROVE UNCHANGED <<made, store>>
  BY <1>6 DEF AddNode, Crash, Join, Leave, Change, files
<1>7. CASE Establish \/ UNCHANGED vars
  BY <1>7 DEF Establish, vars, meshVars, files
<1> QED
  BY <1>2, <1>3, <1>4, <1>5, <1>6, <1>7 DEF Next, Work, Inform

-----------------------------------------------------------------------------
(* The object.                                                              *)

NamesApart(l) == \A i, j \in DOMAIN l : l[i].name = l[j].name => i = j

\* No version of the object lists a node twice.
VersionsInv == \A v \in DOMAIN log : NamesApart(log[v])

\* A store holds the VTEP its node made up last.
StoreInv == \A n \in Nodes : store[n] # Unset =>
  store[n].node = n /\ store[n].ip[1] = n /\ store[n].mac = <<n, made[n]>> /\ made[n] # 0

\* What an entry holds, its own node has published: the VTEP of the store, or one
\* with an older MAC address.
EntryOwn(e) == e.vtep # Unset =>
  /\ e.vtep.node = e.name /\ e.vtep.ip[1] = e.name /\ e.vtep.mac[1] = e.name
  /\ e.vtep.mac[2] \in 1 .. made[e.name]
  /\ store[e.name] # Unset /\ e.vtep.mac[2] = made[e.name] => e.vtep = store[e.name]
EntryInv == ~misplaced => \A i \in DOMAIN Current : EntryOwn(Current[i])

ObjectInv == VersionsInv /\ StoreInv /\ EntryInv

\* The newest version after one has been added.
LEMMA CurrentNext ==
  ASSUME TypeInv, NEW l,
         log' = Append(log, l) \/ (log = <<>> /\ log' = <<l>>), l \in Seq(Entry)
  PROVE  /\ Current' = l /\ Len(log') = Len(log) + 1 /\ DOMAIN log' = 1 .. Len(log) + 1
         /\ log'[Len(log) + 1] = l
         /\ \A v \in 1 .. Len(log) : log'[v] = log[v]
<1>1. log \in Seq(Seq(Entry)) /\ Len(log) \in Nat
  BY TypeParts, ObjectTypes DEF InformerOK
<1>2. CASE log' = Append(log, l)
  <2>1. /\ log' # <<>> /\ Len(log') = Len(log) + 1 /\ DOMAIN log' = 1 .. Len(log) + 1
        /\ log'[Len(log) + 1] = l
        /\ \A v \in 1 .. Len(log) : log'[v] = log[v]
    BY <1>1, <1>2, AppendFacts
  <2> QED
    BY <2>1 DEF Current
<1>3. CASE log = <<>> /\ log' = <<l>>
  BY <1>3 DEF Current
<1> QED
  BY <1>2, <1>3

\* The list the object is created with.
LEMMA CreatedList ==
  ASSUME NEW S \in SUBSET Nodes, NEW s \in Orders(S), NEW l, l = [i \in DOMAIN s |-> Listed(s[i])]
  PROVE  /\ l \in Seq(Entry) /\ NamesApart(l)
         /\ \A i \in DOMAIN l : l[i].vtep = Unset
         /\ \A n \in S : Has(l, n)
<1>1. IsFiniteSet(S) /\ Cardinality(S) \in Nat
  BY MeshAssumption, FS_Subset, FS_CardinalityType
<1>2. /\ s \in [1 .. Cardinality(S) -> S] /\ DOMAIN s = 1 .. Cardinality(S)
      /\ \A i, j \in DOMAIN s : s[i] = s[j] => i = j
  BY DEF Orders
<1>3. /\ DOMAIN l = 1 .. Cardinality(S)
      /\ \A i \in DOMAIN l : l[i].name = s[i] /\ l[i].vtep = Unset /\ l[i] \in Entry
  BY <1>2 DEF Listed, Entry
<1>4. l \in Seq(Entry)
  BY <1>1, <1>2, <1>3, IsASeq
<1>5. NamesApart(l)
  BY <1>2, <1>3 DEF NamesApart
<1>6. \A n \in S : \E i \in DOMAIN s : s[i] = n
  <2> DEFINE T == {s[i] : i \in DOMAIN s}
  <2>1. T \subseteq S
    BY <1>2
  <2>2. s \in Bijection(1 .. Cardinality(S), T)
    BY <1>2 DEF T, Bijection, Injection, Surjection, IsInjective
  <2>3. Cardinality(T) = Cardinality(S)
    <3>1. IsFiniteSet(1 .. Cardinality(S)) /\ Cardinality(1 .. Cardinality(S)) = Cardinality(S)
      BY <1>1, FS_Interval
    <3>2. \E f : f \in Bijection(1 .. Cardinality(S), T)
      BY <2>2
    <3> QED
      BY <3>1, <3>2, FS_Bijection DEF ExistsBijection
  <2>4. T = S
    BY <1>1, <2>1, <2>3, FS_Subset
  <2> QED
    BY <2>4
<1> QED
  BY <1>3, <1>4, <1>5, <1>6 DEF Has

\* The list after a node has come in, gone out, or published.
LEMMA JoinedList ==
  ASSUME NEW l \in Seq(Entry), NamesApart(l), NEW n \in Nodes, ~Has(l, n),
         NEW m, m = Append(l, Listed(n))
  PROVE  /\ m \in Seq(Entry) /\ NamesApart(m)
         /\ DOMAIN m = 1 .. Len(l) + 1
         /\ \A i \in DOMAIN l : i \in DOMAIN m /\ m[i] = l[i]
         /\ m[Len(l) + 1] = Listed(n) /\ Len(l) + 1 \in DOMAIN m
         /\ \A i \in DOMAIN m : i \in DOMAIN l \/ i = Len(l) + 1
<1>1. Listed(n) \in Entry /\ Listed(n).name = n /\ Len(l) \in Nat /\ DOMAIN l = 1 .. Len(l)
  BY DEF Listed, Entry
<1>2. /\ m \in Seq(Entry) /\ DOMAIN m = 1 .. Len(l) + 1
      /\ \A i \in 1 .. Len(l) : m[i] = l[i]
      /\ m[Len(l) + 1] = Listed(n)
  BY <1>1, AppendFacts
<1>3. \A i \in DOMAIN m : i \in DOMAIN l \/ i = Len(l) + 1
  BY <1>1, <1>2
<1>4. Len(l) + 1 \in DOMAIN m /\ \A i \in DOMAIN l : i \in DOMAIN m
  BY <1>1, <1>2
<1>5. NamesApart(m)
  BY <1>1, <1>2, <1>3 DEF NamesApart, Has
<1> QED
  BY <1>1, <1>2, <1>3, <1>4, <1>5

\* The list without node n.
LEMMA LeftList ==
  ASSUME NEW l \in Seq(Entry), NamesApart(l), NEW n, Has(l, n),
         NEW m, m = RemoveAt(l, Index(l, n))
  PROVE  /\ m \in Seq(Entry) /\ NamesApart(m) /\ ~Has(m, n)
         /\ \A i \in DOMAIN m : \E j \in DOMAIN l : m[i] = l[j]
         /\ \A j \in DOMAIN l : l[j].name = n \/ \E i \in DOMAIN m : m[i] = l[j]
<1> DEFINE k == Index(l, n)
<1>1. k \in DOMAIN l /\ l[k].name = n /\ Len(l) \in Nat /\ DOMAIN l = 1 .. Len(l)
  BY IndexFacts
<1>2. /\ m \in Seq(Entry) /\ DOMAIN m = 1 .. Len(l) - 1
      /\ \A i \in 1 .. Len(l) - 1 : m[i] = IF i < k THEN l[i] ELSE l[i + 1]
  BY <1>1, RemoveAtFacts
<1> HIDE DEF k
<1> DEFINE from(i) == IF i < k THEN i ELSE i + 1
<1>3. \A i \in DOMAIN m : from(i) \in DOMAIN l /\ m[i] = l[from(i)] /\ from(i) # k
  BY <1>1, <1>2
<1>4. \A i, j \in DOMAIN m : from(i) = from(j) => i = j
  BY <1>1, <1>2
<1>5. \A j \in DOMAIN l : j # k => \E i \in DOMAIN m : j = from(i)
  <2> SUFFICES ASSUME NEW j \in DOMAIN l, j # k PROVE \E i \in DOMAIN m : j = from(i)
    OBVIOUS
  <2>1. CASE j < k
    <3>1. j \in DOMAIN m /\ j = from(j)
      BY <1>1, <1>2, <2>1
    <3> QED
      BY <3>1
  <2>2. CASE j > k
    <3>1. j - 1 \in DOMAIN m /\ j = from(j - 1)
      BY <1>1, <1>2, <2>2
    <3> QED
      BY <3>1
  <2> QED
    BY <1>1, <2>1, <2>2
<1> HIDE DEF from
<1>6. NamesApart(m)
  BY <1>3, <1>4 DEF NamesApart
<1>7. ~Has(m, n)
  BY <1>1, <1>3 DEF Has, NamesApart
<1> QED
  BY <1>1, <1>2, <1>3, <1>5, <1>6, <1>7

\* The list with a VTEP written into one entry.
LEMMA WrittenList ==
  ASSUME NEW l \in Seq(Entry), NamesApart(l), NEW k \in DOMAIN l, NEW v \in Vteps,
         NEW m, m = [l EXCEPT ![k].vtep = v]
  PROVE  /\ m \in Seq(Entry) /\ NamesApart(m) /\ DOMAIN m = DOMAIN l
         /\ \A i \in DOMAIN l : m[i].name = l[i].name /\ (i # k => m[i] = l[i])
         /\ m[k].vtep = v /\ m[k].name = l[k].name
<1>1. l[k] \in Entry /\ [l[k] EXCEPT !.vtep = v] \in Entry /\ k \in 1 .. Len(l)
  <2>1. l[k] \in Entry /\ k \in 1 .. Len(l)
    BY SeqFacts
  <2>2. [l[k] EXCEPT !.vtep = v] \in Entry
    BY <2>1 DEF Entry
  <2> QED
    BY <2>1, <2>2
<1>2. /\ m \in Seq(Entry) /\ DOMAIN m = DOMAIN l
      /\ \A i \in DOMAIN l : m[i] = IF i = k THEN [l[k] EXCEPT !.vtep = v] ELSE l[i]
  BY <1>1, ExceptSeq
<1>3. m[k].vtep = v /\ m[k].name = l[k].name
  BY <1>1, <1>2 DEF Entry
<1>4. NamesApart(m)
  BY <1>2, <1>3 DEF NamesApart
<1> QED
  BY <1>2, <1>3, <1>4

\* The newest version lists no node twice.
LEMMA CurrentApart == ASSUME TypeInv, VersionsInv PROVE NamesApart(Current)
<1>1. CASE log = <<>>
  BY <1>1 DEF Current, NamesApart
<1>2. CASE log # <<>>
  BY <1>2, ObjectTypes DEF Current, VersionsInv
<1> QED
  BY <1>1, <1>2

\* What each kind of change makes of the newest version.
LEMMA CreatesList ==
  ASSUME TypeInv, NEW n \in Nodes, Creates(n)
  PROVE  /\ Current' \in Seq(Entry) /\ NamesApart(Current') /\ Current = <<>>
         /\ log' = <<Current'>>
         /\ \A i \in DOMAIN Current' : Current'[i].vtep = Unset
         /\ \A m \in nodeList[n] : Has(Current', m)
<1>1. nodeList[n] \in SUBSET Nodes
  BY TypeParts DEF OthersOK
<1>2. PICK s \in Orders(nodeList[n]) : log' = <<[i \in DOMAIN s |-> Listed(s[i])]>>
  BY DEF Creates
<1> DEFINE l == [i \in DOMAIN s |-> Listed(s[i])]
<1>3. /\ l \in Seq(Entry) /\ NamesApart(l)
      /\ \A i \in DOMAIN l : l[i].vtep = Unset
      /\ \A m \in nodeList[n] : Has(l, m)
  BY <1>1, CreatedList
<1> HIDE DEF l
<1>4. log' = <<l>>
  BY <1>2 DEF l
<1>5. Current' = l
  BY <1>4 DEF Current
<1> QED
  BY <1>3, <1>4, <1>5 DEF Creates, Current

\* A Publish writes the store's VTEP into one entry.
LEMMA PublishesList ==
  ASSUME TypeInv, VersionsInv, NEW n \in Nodes, Publishes(n)
  PROVE  /\ Current' \in Seq(Entry) /\ NamesApart(Current') /\ DOMAIN Current' = DOMAIN Current
         /\ log' = Append(log, Current')
         /\ \A i \in DOMAIN Current : /\ Current'[i].name = Current[i].name
                                      /\ i # index[n] => Current'[i] = Current[i]
         /\ Current'[index[n]].vtep = store[n] /\ store[n] \in Vteps
         /\ index[n] \in DOMAIN Current
<1> DEFINE l == [Current EXCEPT ![index[n]].vtep = store[n]]
<1>1. store[n] \in Vteps /\ index[n] \in DOMAIN Current /\ Current \in Seq(Entry) /\ NamesApart(Current)
  BY TypeParts, ObjectTypes, CurrentApart DEF Publishes, FilesOK
<1>2. /\ l \in Seq(Entry) /\ NamesApart(l) /\ DOMAIN l = DOMAIN Current
      /\ \A i \in DOMAIN Current : l[i].name = Current[i].name /\ (i # index[n] => l[i] = Current[i])
      /\ l[index[n]].vtep = store[n]
  BY <1>1, WrittenList
<1>3. log' = Append(log, l)
  BY DEF Publishes
<1> HIDE DEF l
<1>4. Current' = l
  BY <1>2, <1>3, CurrentNext
<1> QED
  BY <1>1, <1>2, <1>3, <1>4

\* Users list a node, or take one off.
LEMMA JoinsList ==
  ASSUME TypeInv, NEW n \in Nodes, Joins(n)
  PROVE  Current' = Append(Current, Listed(n)) /\ log' = Append(log, Current') /\ ~Has(Current, n)
         /\ Current' \in Seq(Entry)
<1>1. Append(Current, Listed(n)) \in Seq(Entry)
  BY ObjectTypes, AppendFacts DEF Listed, Entry
<1> QED
  BY <1>1, CurrentNext DEF Joins, Join, Change

\* Users take a node off.
LEMMA LeavesList ==
  ASSUME TypeInv, NEW n \in Nodes, Leaves(n)
  PROVE  Current' = RemoveAt(Current, Index(Current, n)) /\ log' = Append(log, Current') /\ Has(Current, n)
         /\ Current' \in Seq(Entry)
<1>1. Index(Current, n) \in DOMAIN Current
  BY IndexFacts DEF Leaves, Leave
<1>2. RemoveAt(Current, Index(Current, n)) \in Seq(Entry)
  BY <1>1, ObjectTypes, RemoveAtFacts
<1> QED
  BY <1>2, CurrentNext DEF Leaves, Leave, Change

\* VersionsInv is inductive.
LEMMA VersionsStep ==
  ASSUME TypeInv, VersionsInv, [Next]_vars
  PROVE  VersionsInv'
<1>0. Current \in Seq(Entry) /\ NamesApart(Current) /\ DOMAIN log = 1 .. Len(log) /\ Len(log) \in Nat
  BY CurrentApart, ObjectTypes
<1>1. ASSUME NEW l \in Seq(Entry), NamesApart(l), log' = Append(log, l) \/ (log = <<>> /\ log' = <<l>>)
      PROVE  VersionsInv'
  BY <1>0, <1>1, CurrentNext DEF VersionsInv
<1>2. CASE UNCHANGED object
  BY <1>2 DEF object, VersionsInv
<1>3. ASSUME NEW n \in Nodes, Creates(n) PROVE VersionsInv'
  BY <1>1, <1>3, CreatesList DEF Creates
<1>4. ASSUME NEW n \in Nodes, Publishes(n) PROVE VersionsInv'
  BY <1>1, <1>4, PublishesList
<1>5. ASSUME NEW n \in Nodes, Joins(n) PROVE VersionsInv'
  BY <1>0, <1>1, <1>5, JoinsList, JoinedList
<1>6. ASSUME NEW n \in Nodes, Leaves(n) PROVE VersionsInv'
  BY <1>0, <1>1, <1>6, LeavesList, LeftList
<1> QED
  BY <1>2, <1>3, <1>4, <1>5, <1>6, ObjectStep

\* StoreInv is inductive.
LEMMA StoreInvStep ==
  ASSUME TypeInv, StoreInv, [Next]_vars
  PROVE  StoreInv'
<1>0. FilesOK
  BY TypeParts
<1>1. ASSUME NEW n \in Nodes, Allocates(n) PROVE StoreInv'
  BY <1>0, <1>1 DEF Allocates, StoreInv, FilesOK
<1>2. ASSUME NEW n \in Nodes, UNCHANGED made, store' = [store EXCEPT ![n] = Unset] PROVE StoreInv'
  BY <1>0, <1>2 DEF StoreInv, FilesOK
<1>3. CASE UNCHANGED <<made, store>>
  BY <1>3 DEF StoreInv
<1> QED
  BY <1>1, <1>2, <1>3, StoreStep

\* EntryInv is inductive.
LEMMA EntryStep ==
  ASSUME TypeInv, ObjectInv, [Next]_vars
  PROVE  EntryInv'
<1>0. /\ FilesOK /\ Current \in Seq(Entry) /\ NamesApart(Current)
      /\ \A i \in DOMAIN Current : Current[i] \in Entry /\ Current[i].name \in Nodes
  <2>1. FilesOK /\ Current \in Seq(Entry) /\ NamesApart(Current)
    BY TypeParts, ObjectTypes, CurrentApart DEF ObjectInv
  <2>2. \A i \in DOMAIN Current : Current[i] \in Entry
    BY <2>1, SeqFacts
  <2>3. \A i \in DOMAIN Current : Current[i].name \in Nodes
    BY <2>2 DEF Entry
  <2> QED
    BY <2>1, <2>2, <2>3
<1>u. \A n \in Nodes : EntryOwn(Listed(n))
  BY DEF EntryOwn, Listed
<1>1. CASE UNCHANGED <<made, store>> /\ UNCHANGED object
  BY <1>1 DEF ObjectInv, EntryInv, EntryOwn, object, Current
<1>2. ASSUME NEW n \in Nodes, Allocates(n) PROVE EntryInv'
  <2>1. misplaced' = misplaced /\ Current' = Current
    BY <1>2 DEF Allocates, object, Current
  <2>2. ASSUME NEW e \in Entry, EntryOwn(e) PROVE EntryOwn(e)'
    <3>1. e.name \in Nodes /\ e.vtep \in Vteps \cup {Unset} /\ made[n] \in Nat /\ made[e.name] \in Nat
      BY <1>0 DEF Entry, FilesOK
    <3>2. CASE e.name = n
      <4>1. e.vtep # Unset => e.vtep.mac[2] \in 1 .. made[n] /\ made'[n] = made[n] + 1
        BY <1>0, <1>2, <2>2, <3>2 DEF EntryOwn, Allocates, FilesOK
      <4> QED
        BY <2>2, <3>1, <3>2, <4>1 DEF EntryOwn
    <3>3. CASE e.name # n
      <4>1. made'[e.name] = made[e.name] /\ store'[e.name] = store[e.name]
        BY <1>0, <1>2, <3>1, <3>3 DEF Allocates, FilesOK
      <4> QED
        BY <2>2, <4>1 DEF EntryOwn
    <3> QED
      BY <3>2, <3>3
  <2> QED
    BY <1>0, <2>1, <2>2 DEF ObjectInv, EntryInv, EntryOwn
<1>3. ASSUME NEW n \in Nodes, UNCHANGED <<object, made>>, store' = [store EXCEPT ![n] = Unset]
      PROVE  EntryInv'
  <2>1. misplaced' = misplaced /\ Current' = Current
    BY <1>3 DEF object, Current
  <2>2. ASSUME NEW e \in Entry, EntryOwn(e) PROVE EntryOwn(e)'
    BY <1>0, <1>3, <2>2 DEF EntryOwn, FilesOK, Entry
  <2> QED
    BY <1>0, <2>1, <2>2 DEF ObjectInv, EntryInv, EntryOwn
<1>4. ASSUME UNCHANGED <<made, store>>, misplaced => misplaced',
             ~misplaced' => \A i \in DOMAIN Current' :
                \/ \E j \in DOMAIN Current : Current'[i] = Current[j]
                \/ Current'[i].vtep = Unset \/ EntryOwn(Current'[i])
      PROVE  EntryInv'
  <2> SUFFICES ASSUME ~misplaced', NEW i \in DOMAIN Current' PROVE EntryOwn(Current[i])'
    BY DEF EntryInv
  <2>1. EntryOwn(Current'[i])
    BY <1>4 DEF ObjectInv, EntryInv, EntryOwn
  <2> QED
    BY <1>4, <2>1 DEF EntryOwn
<1>5. ASSUME NEW n \in Nodes, Creates(n) PROVE EntryInv'
  <2>1. UNCHANGED <<made, store, misplaced>>
    BY <1>5 DEF Creates, files
  <2> QED
    BY <1>4, <1>5, <2>1, CreatesList
<1>6. ASSUME NEW n \in Nodes, Publishes(n) PROVE EntryInv'
  <2>1. /\ UNCHANGED <<made, store>> /\ misplaced' = (misplaced \/ Current[index[n]].name # n)
        /\ store[n] # Unset
    BY <1>6 DEF Publishes, files
  <2>2. ASSUME ~misplaced' PROVE EntryOwn(Current'[index[n]])
    <3>1. Current'[index[n]].name = n /\ Current'[index[n]].vtep = store[n]
      BY <1>6, <2>1, <2>2, PublishesList DEF ObjectInv
    <3>2. /\ store[n].node = n /\ store[n].ip[1] = n /\ store[n].mac = <<n, made[n]>>
          /\ made[n] \in Nat /\ made[n] # 0
      BY <1>0, <2>1 DEF ObjectInv, StoreInv, FilesOK
    <3> QED
      BY <3>1, <3>2 DEF EntryOwn
  <2> QED
    BY <1>4, <1>6, <2>1, <2>2, PublishesList DEF ObjectInv
<1>7. ASSUME NEW n \in Nodes, Joins(n) PROVE EntryInv'
  <2>1. UNCHANGED <<made, store, misplaced>>
    BY <1>7 DEF Joins, Join, Change, files
  <2>2. Current' = Append(Current, Listed(n)) /\ ~Has(Current, n)
    BY <1>7, JoinsList
  <2>3. \A i \in DOMAIN Current' : (i \in DOMAIN Current /\ Current'[i] = Current[i]) \/ Current'[i] = Listed(n)
    BY <1>0, <2>2, JoinedList
  <2> QED
    BY <1>4, <2>1, <2>3 DEF Listed
<1>8. ASSUME NEW n \in Nodes, Leaves(n) PROVE EntryInv'
  <2>1. UNCHANGED <<made, store, misplaced>>
    BY <1>8 DEF Leaves, Leave, Change, files
  <2>2. Current' = RemoveAt(Current, Index(Current, n)) /\ Has(Current, n)
    BY <1>8, LeavesList
  <2>3. \A i \in DOMAIN Current' : \E j \in DOMAIN Current : Current'[i] = Current[j]
    BY <1>0, <2>2, LeftList
  <2> QED
    BY <1>4, <2>1, <2>3
<1>9. CASE UNCHANGED object
  BY <1>1, <1>2, <1>3, <1>9, StoreStep
<1> QED
  BY <1>5, <1>6, <1>7, <1>8, <1>9, ObjectStep

\* What is known of the object holds in every reachable state.
LEMMA ObjectInvHolds == Spec => []ObjectInv
<1>1. Init => ObjectInv
  BY DEF Init, MeshInit, ObjectInv, VersionsInv, StoreInv, EntryInv, Current
<1>2. TypeInv /\ ObjectInv /\ [Next]_vars => ObjectInv'
  BY VersionsStep, StoreInvStep, EntryStep DEF ObjectInv
<1> QED
  BY <1>1, <1>2, TypeInvHolds, PTL DEF Spec

-----------------------------------------------------------------------------
(* The registry.                                                            *)

\* KeepsRegistry: for its readers the object is a registry.  It is created with
\* empty registers, users list nodes and take them off, and a register is written by
\* its own node only, each time with a MAC address that node has never published
\* before, until a daemon writes at an index that has become another node's.
THEOREM RegistryKept == Spec => KeepsRegistry
<1>1. Init => Registry!Init
  BY DEF Init, MeshInit, Current, Registry!Init, Registry!Empty
<1>2. ASSUME TypeInv, ObjectInv, [Next]_vars PROVE [Registry!Next \/ misplaced']_Current
  <2>0. /\ FilesOK /\ Current \in Seq(Entry) /\ NamesApart(Current) /\ VersionsInv
        /\ \A i \in DOMAIN Current : Current[i] \in Entry
    BY <1>2, TypeParts, ObjectTypes, CurrentApart, SeqFacts DEF ObjectInv
  <2>1. CASE UNCHANGED object
    BY <2>1 DEF object, Current
  <2>2. ASSUME NEW n \in Nodes, Creates(n) PROVE Registry!Create
    <3>1. /\ Current' \in Seq(Entry) /\ NamesApart(Current') /\ Current = <<>>
          /\ \A i \in DOMAIN Current' : Current'[i].vtep = Unset
      BY <1>2, <2>2, CreatesList
    <3>2. \A i \in DOMAIN Current' : Current'[i] \in Entry
      BY <3>1, SeqFacts
    <3>3. \A i \in DOMAIN Current' : Current'[i].name \in Nodes
      BY <3>2 DEF Entry
    <3> QED
      BY <3>1, <3>3 DEF Registry!Create, Registry!Empty, NamesApart
  <2>3. ASSUME NEW n \in Nodes, Joins(n) PROVE Registry!Join(n)
    BY <1>2, <2>3, JoinsList DEF Registry!Join, Registry!Names, Has, Listed
  <2>4. ASSUME NEW n \in Nodes, Leaves(n) PROVE Registry!Leave(n)
    BY <1>2, <2>4, LeavesList, IndexFacts DEF Registry!Leave, Registry!RemoveAt, RemoveAt
  <2>5. ASSUME NEW n \in Nodes, Publishes(n), ~misplaced', Current' # Current PROVE Registry!Write(n)
    <3> DEFINE i == index[n]
    <3>1. /\ i \in DOMAIN Current /\ DOMAIN Current' = DOMAIN Current /\ Current[i].name = n
          /\ \A j \in DOMAIN Current \ {i} : Current'[j] = Current[j]
          /\ Current'[i].name = n /\ Current'[i].vtep = store[n] /\ store[n] # Unset
          /\ ~misplaced
      BY <1>2, <2>0, <2>5, PublishesList DEF Publishes
    <3>2. store[n].node = n /\ store[n].mac = <<n, made[n]>> /\ made[n] \in Nat /\ made[n] # 0
      BY <1>2, <2>0, <3>1 DEF ObjectInv, StoreInv, FilesOK
    <3>3. Registry!Age(store[n]) > Registry!Age(Current[i].vtep)
      <4>1. Registry!Age(store[n]) = made[n]
        BY <3>1, <3>2 DEF Registry!Age
      <4>2. CASE Current[i].vtep = Unset
        BY <3>2, <4>1, <4>2 DEF Registry!Age
      <4>3. CASE Current[i].vtep # Unset
        <5>1. /\ Registry!Age(Current[i].vtep) \in 1 .. made[n]
              /\ Registry!Age(Current[i].vtep) = made[n] => Current[i].vtep = store[n]
          BY <1>2, <3>1, <4>3 DEF ObjectInv, EntryInv, EntryOwn, Registry!Age
        <5>2. Current[i].vtep # store[n]
          <6>1. SUFFICES ASSUME Current[i].vtep = store[n] PROVE Current' = Current
            BY <2>5
          <6>2. Current' \in Seq(Entry) /\ Current'[i] \in Entry /\ Current[i] \in Entry
            BY <1>2, <2>0, <2>5, <3>1, PublishesList, SeqFacts
          <6>3. Current'[i] = Current[i]
            BY <3>1, <6>1, <6>2 DEF Entry
          <6>4. Len(Current') = Len(Current) /\ \A j \in 1 .. Len(Current) : Current'[j] = Current[j]
            BY <2>0, <3>1, <6>2, <6>3
          <6> QED
            BY <2>0, <6>2, <6>4, SeqEqual
        <5> QED
          BY <3>2, <4>1, <5>1, <5>2
      <4> QED
        BY <4>2, <4>3
    <3> QED
      BY <3>1, <3>2, <3>3 DEF Registry!Write
  <2> QED
    BY <1>2, <2>1, <2>2, <2>3, <2>4, <2>5, ObjectStep DEF Registry!Next
<1> QED
  BY <1>1, <1>2, TypeInvHolds, ObjectInvHolds, PTL DEF Spec, KeepsRegistry

-----------------------------------------------------------------------------
(* What is known of one node.                                               *)

\* What a daemon, its files and the kernel of its node hold.
Local(m) == <<pc[m], queue[m], seen[m], index[m], m \in failed, store[m],
              m \in raised, arp[m], fdb[m], routes[m], gaps[m]>>

\* A step by which the daemon of m goes on as a worker, or becomes one.
Acts(m) ==
  /\ UNCHANGED startVars
  /\ \/ StartController(m) \/ Add(m) \/ Publish(m) \/ CreateVxlan(m)
     \/ UpdateMembership(m) \/ Update(m) \/ Delete(m) \/ Deliver(m)

\* The daemon of n dies: nothing of another node changes, except perhaps by what
\* else the step does.
LEMMA RestartOther ==
  ASSUME TypeInv, NEW n \in Nodes, Restart(n), NEW m \in Nodes, m # n
  PROVE  UNCHANGED <<pc[m], queue[m], seen[m], index[m], m \in failed>> /\ ~Worker(n)'
<1>1. pc \in [Nodes -> Labels] /\ queue \in [Nodes -> Seq(Events)] /\ seen \in [Nodes -> 0 .. Len(log)]
      /\ index \in [Nodes -> Nat]
  BY TypeParts DEF InformerOK, OthersOK
<1> QED
  BY <1>1 DEF Restart, Goto, Worker, WorkerLabels

\* Seen from node m, a step leaves what is local to m, or leaves m without a
\* worker, or is a step of its worker.
LEMMA LocalStep ==
  ASSUME TypeInv, [Next]_vars, NEW m \in Nodes, Worker(m)'
  PROVE  UNCHANGED Local(m) \/ Acts(m)
<1>0. /\ pc \in [Nodes -> Labels] /\ queue \in [Nodes -> Seq(Events)] /\ seen \in [Nodes -> 0 .. Len(log)]
      /\ index \in [Nodes -> Nat] /\ store \in [Nodes -> Vteps \cup {Unset}]
      /\ arp \in [Nodes -> SUBSET [ip : Ips, mac : Macs]]
      /\ fdb \in [Nodes -> SUBSET [mac : Macs, node : Nodes]]
      /\ routes \in [Nodes -> SUBSET Ips] /\ gaps \in [Nodes -> SUBSET Nodes]
  BY TypeParts DEF InformerOK, OthersOK, FilesOK, KernelOK
<1>1. ASSUME NEW n \in Nodes, RegisterTenantCRD(n) \/ WriteNodeStore(n) \/ AddNode(n) PROVE UNCHANGED Local(m)
  BY <1>0, <1>1 DEF RegisterTenantCRD, WriteNodeStore, AddNode, Goto, Worker, WorkerLabels, Local,
                    informer, files, kernel, tables
<1>2. ASSUME NEW n \in Nodes, RegisterDefaultTenant(n) PROVE UNCHANGED Local(m)
  <2>1. UNCHANGED <<files, kernel>>
    BY <1>2 DEF RegisterDefaultTenant
  <2>2. CASE Goto(n, "controller") /\ UNCHANGED <<informer, index, failed>>
    BY <1>0, <2>1, <2>2 DEF Goto, Worker, WorkerLabels, Local, informer, files, kernel, tables
  <2>3. CASE Restart(n)
    <3>1. m # n
      BY <1>0, <2>3 DEF Restart, Goto, Worker, WorkerLabels
    <3> QED
      BY <2>1, <2>3, <3>1, RestartOther DEF Local, files, kernel, tables
  <2> QED
    BY <1>2, <2>2, <2>3 DEF RegisterDefaultTenant
<1>3. ASSUME NEW n \in Nodes, Crash(n) PROVE UNCHANGED Local(m)
  <2>1. m # n
    BY <1>0, <1>3 DEF Crash, Restart, Goto, Worker, WorkerLabels
  <2> QED
    BY <1>3, <2>1, RestartOther DEF Crash, Local, files, kernel, tables
<1>4. ASSUME NEW n \in Nodes, Join(n) \/ Leave(n) PROVE UNCHANGED Local(m)
  BY <1>4 DEF Join, Leave, Change, Local, informer, worker, files, kernel, tables
<1>5. CASE Establish \/ UNCHANGED vars
  BY <1>5 DEF Establish, vars, meshVars, Local, informer, worker, files, kernel, tables
<1>6. ASSUME NEW n \in Nodes, n # m, StartController(n) PROVE UNCHANGED Local(m)
  BY <1>0, <1>6 DEF StartController, Goto, Local, files, kernel, tables
<1>7. ASSUME NEW n \in Nodes, n # m, Add(n) PROVE UNCHANGED Local(m)
  <2>1. UNCHANGED <<queue[m], seen[m], m \in failed, m \in raised, arp[m], fdb[m], routes[m], gaps[m]>>
    BY <1>0, <1>7 DEF Add, Pop, kernel, tables
  <2>2. UNCHANGED <<pc[m], index[m]>>
    BY <1>0, <1>7 DEF Add, Goto, worker
  <2>3. UNCHANGED store[m]
    BY <1>0, <1>7 DEF Add, AllocateTenant, files
  <2> QED
    BY <2>1, <2>2, <2>3 DEF Local
<1>8. ASSUME NEW n \in Nodes, n # m, Publish(n) PROVE UNCHANGED Local(m)
  <2>1. UNCHANGED <<store[m], m \in raised, arp[m], fdb[m], routes[m], gaps[m]>>
    BY <1>8 DEF Publish, files, kernel, tables
  <2>2. CASE Restart(n)
    BY <1>8, <2>1, <2>2, RestartOther DEF Local
  <2>3. CASE UNCHANGED informer /\ \E l \in {"vxlan", "idle"} : Goto(n, l)
             /\ failed' \in {failed, failed \cup {n}} /\ index' = [index EXCEPT ![n] = 0]
    BY <1>0, <1>8, <2>1, <2>3 DEF Goto, informer, Local
  <2> QED
    BY <1>8, <2>2, <2>3 DEF Publish
<1>9. ASSUME NEW n \in Nodes, n # m, CreateVxlan(n) PROVE UNCHANGED Local(m)
  <2>1. UNCHANGED <<store[m], m \in raised, arp[m], fdb[m], routes[m], gaps[m]>>
    BY <1>0, <1>9 DEF CreateVxlan, files, tables
  <2>2. CASE Restart(n)
    BY <1>9, <2>1, <2>2, RestartOther DEF Local
  <2>3. CASE Goto(n, "idle") /\ UNCHANGED <<informer, index, failed, bounds>>
    BY <1>0, <1>9, <2>1, <2>3 DEF Goto, informer, Local
  <2> QED
    BY <1>9, <2>2, <2>3 DEF CreateVxlan
<1>10. ASSUME NEW n \in Nodes, n # m, UpdateMembership(n) \/ Deliver(n) PROVE UNCHANGED Local(m)
  BY <1>0, <1>10 DEF UpdateMembership, Deliver, Local, worker, files, kernel, tables
<1>11. ASSUME NEW n \in Nodes, n # m, Update(n) PROVE UNCHANGED Local(m)
  <2>1. UNCHANGED <<store[m], m \in raised, arp[m], fdb[m], routes[m], gaps[m]>>
    <3>1. UNCHANGED kernel \/ \E l, R, A, F, G : AddEntries(n, l, R, A, F, G)
      BY <1>11, UpdateCases
    <3> QED
      <4>1. UNCHANGED store
        BY <1>11, UpdateCases DEF files
      <4>2. CASE UNCHANGED kernel
        BY <4>1, <4>2 DEF kernel, tables
      <4>3. ASSUME NEW l, NEW R, NEW A, NEW F, NEW G, AddEntries(n, l, R, A, F, G)
            PROVE  UNCHANGED <<m \in raised, arp[m], fdb[m], routes[m], gaps[m]>>
        BY <1>0, <1>11, <4>3 DEF AddEntries
      <4> QED
        BY <3>1, <4>1, <4>2, <4>3
  <2>2. CASE Restart(n)
    BY <1>11, <2>1, <2>2, RestartOther DEF Local
  <2>3. CASE Pop(n) /\ UNCHANGED <<seen, worker, failed>>
    BY <1>0, <1>11, <2>1, <2>3 DEF Pop, worker, Local
  <2> QED
    BY <1>11, <2>2, <2>3, UpdateCases
<1>12. ASSUME NEW n \in Nodes, n # m, Delete(n) PROVE UNCHANGED Local(m)
  <2>1. UNCHANGED <<store[m], m \in raised, arp[m], fdb[m], routes[m], gaps[m]>>
    <3>1. UNCHANGED store[m]
      BY <1>0, <1>12, DeleteCases DEF DeleteTenantStore
    <3>2. CASE UNCHANGED kernel
      BY <3>1, <3>2 DEF kernel, tables
    <3>3. CASE DeleteVxLANDevice(n)
      BY <1>0, <1>12, <3>1, <3>3 DEF DeleteVxLANDevice
    <3> QED
      BY <1>12, <3>2, <3>3, DeleteCases
  <2>2. CASE Restart(n)
    BY <1>12, <2>1, <2>2, RestartOther DEF Local
  <2>3. CASE Pop(n) /\ UNCHANGED <<seen, worker, failed>>
    BY <1>0, <1>12, <2>1, <2>3 DEF Pop, worker, Local
  <2> QED
    BY <1>12, <2>2, <2>3, DeleteCases
<1>13. ASSUME NEW n \in Nodes, Start(n) \/ Work(n) \/ Inform(n) PROVE UNCHANGED Local(m) \/ Acts(m)
  <2>1. CASE n = m
    BY <1>1, <1>2, <1>13, <2>1 DEF Start, Work, Inform, Acts, StartController
  <2>2. CASE n # m
    BY <1>1, <1>2, <1>6, <1>7, <1>8, <1>9, <1>10, <1>11, <1>12, <1>13, <2>2 DEF Start, Work, Inform
  <2> QED
    BY <2>1, <2>2
<1> QED
  BY <1>1, <1>3, <1>4, <1>5, <1>13 DEF Next

-----------------------------------------------------------------------------
(* What a queue holds.                                                      *)

Holds(q, kind) == \E i \in DOMAIN q : q[i].kind = kind

\* An Add is to come, and no Delete after it.
AddToCome(q) == \E i \in DOMAIN q :
  q[i].kind = "Add" /\ \A j \in DOMAIN q : j > i => q[j].kind # "Delete"

\* Neither the updates of the queue nor the versions L to come take n off the list or
\* list it anew.
Steady(q, s, L, n) ==
  /\ \A w \in s .. Len(L) : Has(L[w], n)
  /\ \A i \in DOMAIN q : q[i].kind = "Update" =>
       Has(L[q[i].version], n) /\ Has(L[q[i].version - 1], n)

\* The first event goes.
LEMMA HoldsTail ==
  ASSUME NEW q \in Seq(Events), q # <<>>
  PROVE  /\ \A kind : Holds(Tail(q), kind) => Holds(q, kind)
         /\ \A kind : Holds(q, kind) /\ Head(q).kind # kind => Holds(Tail(q), kind)
         /\ AddToCome(q) => AddToCome(Tail(q)) \/ (Head(q).kind = "Add" /\ ~Holds(Tail(q), "Delete"))
<1>1. /\ Len(q) \in Nat /\ DOMAIN q = 1 .. Len(q)
      /\ Head(q) = q[1] /\ DOMAIN Tail(q) = 1 .. Len(q) - 1
      /\ \A i \in 1 .. Len(q) - 1 : Tail(q)[i] = q[i + 1]
  BY TailFacts, SeqFacts
<1>2. \A i \in DOMAIN Tail(q) : i + 1 \in DOMAIN q /\ Tail(q)[i] = q[i + 1]
  BY <1>1
<1>3. \A i \in DOMAIN q : i # 1 => i - 1 \in DOMAIN Tail(q) /\ Tail(q)[i - 1] = q[i]
  BY <1>1
<1>4. \A kind : Holds(Tail(q), kind) => Holds(q, kind)
  BY <1>2 DEF Holds
<1>5. \A kind : Holds(q, kind) /\ Head(q).kind # kind => Holds(Tail(q), kind)
  BY <1>1, <1>3 DEF Holds
<1>6. ASSUME AddToCome(q) PROVE AddToCome(Tail(q)) \/ (Head(q).kind = "Add" /\ ~Holds(Tail(q), "Delete"))
  <2>1. PICK i \in DOMAIN q : q[i].kind = "Add" /\ \A j \in DOMAIN q : j > i => q[j].kind # "Delete"
    BY <1>6 DEF AddToCome
  <2>2. CASE i = 1
    <3>1. \A j \in DOMAIN Tail(q) : j + 1 > 1
      BY <1>1
    <3> QED
      BY <1>1, <1>2, <2>1, <2>2, <3>1 DEF Holds
  <2>3. CASE i # 1
    <3>1. \A j \in DOMAIN Tail(q) : j > i - 1 => j + 1 > i
      BY <1>1
    <3> QED
      BY <1>2, <1>3, <2>1, <2>3, <3>1 DEF AddToCome
  <2> QED
    BY <2>2, <2>3
<1> QED
  BY <1>4, <1>5, <1>6

\* An event is added.
LEMMA HoldsAppend ==
  ASSUME NEW q \in Seq(Events), NEW e \in Events
  PROVE  /\ \A kind : Holds(Append(q, e), kind) <=> Holds(q, kind) \/ e.kind = kind
         /\ e.kind = "Add" => AddToCome(Append(q, e))
         /\ e.kind # "Delete" /\ AddToCome(q) => AddToCome(Append(q, e))
<1> DEFINE r == Append(q, e)
<1>1. /\ Len(q) \in Nat /\ DOMAIN q = 1 .. Len(q) /\ DOMAIN r = 1 .. Len(q) + 1
      /\ \A i \in 1 .. Len(q) : r[i] = q[i]
      /\ r[Len(q) + 1] = e
  BY AppendFacts, SeqFacts
<1> HIDE DEF r
<1>2. /\ \A i \in DOMAIN q : i \in DOMAIN r /\ r[i] = q[i] /\ ~(i > Len(q))
      /\ \A i \in DOMAIN r : i \in DOMAIN q \/ i = Len(q) + 1
      /\ Len(q) + 1 \in DOMAIN r /\ \A i \in DOMAIN r : ~(i > Len(q) + 1)
  BY <1>1
<1>3. \A kind : Holds(r, kind) <=> Holds(q, kind) \/ e.kind = kind
  BY <1>1, <1>2 DEF Holds
<1>4. e.kind = "Add" => AddToCome(r)
  BY <1>1, <1>2 DEF AddToCome
<1>5. e.kind # "Delete" /\ AddToCome(q) => AddToCome(r)
  BY <1>1, <1>2 DEF AddToCome
<1> QED
  BY <1>3, <1>4, <1>5 DEF r

\* Where a list is steady after an update has been taken, its node was there after the
\* version of that update.
LEMMA SteadyTaken ==
  ASSUME NEW q, NEW s \in Nat, NEW L, NEW n, QueueOK(q, s), Len(L) \in Nat, s <= Len(L), s # 0,
         q # <<>>, Head(q).kind = "Update", Steady(Tail(q), s, L, n)
  PROVE  Has(L[Head(q).version], n)
<1>1. /\ Head(q) = q[1] /\ 1 \in DOMAIN q /\ q \in Seq(Events) /\ Len(q) \in Nat /\ DOMAIN q = 1 .. Len(q)
      /\ DOMAIN Tail(q) = 1 .. Len(q) - 1
      /\ \A i \in 1 .. Len(q) - 1 : Tail(q)[i] = q[i + 1]
  BY TailFacts, SeqFacts DEF QueueOK
<1> DEFINE v == q[1].version
<1>2. v \in 1 .. s
  BY <1>1 DEF QueueOK
<1>3. CASE v = s
  BY <1>1, <1>3 DEF Steady
<1>4. CASE v # s
  <2>1. v + 1 \in v + 1 .. s
    BY <1>2, <1>4
  <2>2. PICK j \in DOMAIN q : j > 1 /\ q[j] = Event("Update", v + 1)
    BY <1>1, <2>1 DEF QueueOK
  <2>3. j - 1 \in DOMAIN Tail(q) /\ Tail(q)[j - 1] = Event("Update", v + 1)
    BY <1>1, <2>2
  <2>4. Event("Update", v + 1).kind = "Update" /\ Event("Update", v + 1).version - 1 = v
    BY <1>2 DEF Event
  <2>5. Has(L[v], n)
    BY <2>3, <2>4 DEF Steady
  <2> QED
    BY <1>1, <2>5
<1> QED
  BY <1>3, <1>4

\* An event is taken that is no update, or the update of a version with the node as
\* the one before it.
LEMMA SteadyTail ==
  ASSUME NEW q, NEW s \in Nat, NEW L, NEW n, QueueOK(q, s), Len(L) \in Nat, s <= Len(L), s # 0, q # <<>>,
         Head(q).kind = "Update" => (Has(L[Head(q).version], n) <=> Has(L[Head(q).version - 1], n)),
         Steady(Tail(q), s, L, n)
  PROVE  Steady(q, s, L, n)
<1>1. /\ Head(q) = q[1] /\ 1 \in DOMAIN q /\ q \in Seq(Events) /\ Len(q) \in Nat /\ DOMAIN q = 1 .. Len(q)
      /\ DOMAIN Tail(q) = 1 .. Len(q) - 1
      /\ \A i \in 1 .. Len(q) - 1 : Tail(q)[i] = q[i + 1]
  BY TailFacts, SeqFacts DEF QueueOK
<1>2. Head(q).kind = "Update" => Has(L[Head(q).version], n) /\ Has(L[Head(q).version - 1], n)
  BY SteadyTaken
<1>3. \A i \in DOMAIN q : i # 1 => i - 1 \in DOMAIN Tail(q) /\ Tail(q)[i - 1] = q[i]
  BY <1>1
<1> QED
  BY <1>1, <1>2, <1>3 DEF Steady

\* Events are added.
LEMMA SteadyAppend ==
  ASSUME NEW q \in Seq(Events), NEW e \in Events, NEW s, NEW L, NEW n, Steady(Append(q, e), s, L, n)
  PROVE  /\ Steady(q, s, L, n)
         /\ e.kind = "Update" => Has(L[e.version - 1], n)
<1>1. /\ Len(q) \in Nat /\ DOMAIN q = 1 .. Len(q) /\ DOMAIN Append(q, e) = 1 .. Len(q) + 1
      /\ \A i \in 1 .. Len(q) : Append(q, e)[i] = q[i]
      /\ Append(q, e)[Len(q) + 1] = e
  BY AppendFacts, SeqFacts
<1>2. /\ \A i \in DOMAIN q : i \in DOMAIN Append(q, e) /\ Append(q, e)[i] = q[i]
      /\ Len(q) + 1 \in DOMAIN Append(q, e)
  BY <1>1
<1> QED
  BY <1>1, <1>2 DEF Steady

\* Versions are added.
LEMMA SteadyLonger ==
  ASSUME NEW q, NEW s \in Nat, NEW L, NEW K, NEW n, QueueOK(q, s), Len(L) \in Nat, s <= Len(L), s # 0,
         Len(K) \in Nat, Len(K) >= Len(L), \A w \in 1 .. Len(L) : K[w] = L[w],
         Steady(q, s, K, n)
  PROVE  Steady(q, s, L, n)
<1>1. \A w \in s .. Len(L) : Has(L[w], n)
  <2> SUFFICES ASSUME NEW w \in s .. Len(L) PROVE Has(L[w], n)
    OBVIOUS
  <2>1. w \in s .. Len(K) /\ w \in 1 .. Len(L)
    OBVIOUS
  <2> QED
    BY <2>1 DEF Steady
<1>2. ASSUME NEW i \in DOMAIN q, q[i].kind = "Update"
      PROVE  Has(L[q[i].version], n) /\ Has(L[q[i].version - 1], n)
  <2>1. q[i].version \in 1 .. s /\ q[i].version # 1
    BY <1>2 DEF QueueOK
  <2>2. q[i].version \in 1 .. Len(L) /\ q[i].version - 1 \in 1 .. Len(L)
    BY <2>1
  <2> QED
    BY <1>2, <2>2 DEF Steady
<1> QED
  BY <1>1, <1>2 DEF Steady

-----------------------------------------------------------------------------
(* The members of the mesh.                                                 *)

\* What n has published is what its store holds.
PublishedOwn(n) ==
  store[n] # Unset /\ \E i \in DOMAIN Current : Current[i].name = n /\ Current[i].vtep = store[n]

\* A node that stays on the list is to be added again, or is not to be deleted, and has
\* published its VTEP, is about to, or has given up.
MemberOK(n) ==
  \/ AddToCome(queue[n])
  \/ ~Holds(queue[n], "Delete") /\ (n \in failed \/ pc[n] = "publish" \/ PublishedOwn(n))
MemberInv == ~misplaced => \A n \in Nodes :
  Worker(n) /\ Steady(queue[n], seen[n], log, n) => MemberOK(n)

\* A worker has an object.
LEMMA WorkerFacts ==
  ASSUME TypeInv, NEW n \in Nodes, Worker(n)
  PROVE  /\ seen[n] \in Nat /\ seen[n] # 0 /\ seen[n] <= Len(log) /\ Len(log) \in Nat /\ log # <<>>
         /\ QueueOK(queue[n], seen[n]) /\ queue[n] \in Seq(Events)
         /\ Lister(n) = log[seen[n]] /\ Current = log[Len(log)]
         /\ queue[n] # <<>> => Head(queue[n]) \in Events
<1>1. /\ seen[n] \in Nat /\ seen[n] # 0 /\ seen[n] <= Len(log) /\ Len(log) \in Nat /\ log # <<>>
      /\ QueueOK(queue[n], seen[n]) /\ queue[n] \in Seq(Events)
  BY ObjectTypes DEF TypeInv, InformerInv, QueueOK
<1>2. queue[n] # <<>> => Head(queue[n]) \in Events
  BY <1>1, TailFacts, SeqFacts
<1> QED
  BY <1>1, <1>2 DEF Lister, Current

\* A list that is steady has the node in the lister's version and in the newest one.
LEMMA SteadyHas ==
  ASSUME NEW q, NEW s \in Nat, NEW L, NEW n, Len(L) \in Nat, s <= Len(L), Steady(q, s, L, n)
  PROVE  Has(L[s], n) /\ Has(L[Len(L)], n)
<1>1. s \in s .. Len(L) /\ Len(L) \in s .. Len(L)
  OBVIOUS
<1> QED
  BY <1>1 DEF Steady

\* A step adds at most one version.
LEMMA LogStep ==
  ASSUME TypeInv, ObjectInv, [Next]_vars
  PROVE  /\ misplaced => misplaced'
         /\ \/ UNCHANGED object
            \/ /\ Len(log') = Len(log) + 1 /\ log' # <<>>
               /\ \A v \in 1 .. Len(log) : log'[v] = log[v]
<1>1. CASE UNCHANGED object
  BY <1>1 DEF object
<1>2. ASSUME NEW l \in Seq(Entry), log' = Append(log, l) \/ (log = <<>> /\ log' = <<l>>)
      PROVE  /\ Len(log') = Len(log) + 1 /\ log' # <<>>
             /\ \A v \in 1 .. Len(log) : log'[v] = log[v]
  <2>1. Len(log') = Len(log) + 1 /\ \A v \in 1 .. Len(log) : log'[v] = log[v]
    BY <1>2, CurrentNext
  <2>2. log' # <<>>
    BY <1>2, ObjectTypes, <2>1
  <2> QED
    BY <2>1, <2>2
<1>3. ASSUME NEW n \in Nodes, Creates(n)
      PROVE  misplaced' = misplaced /\ Current' \in Seq(Entry) /\ log = <<>> /\ log' = <<Current'>>
  BY <1>3, CreatesList DEF Creates
<1>4. ASSUME NEW n \in Nodes, Publishes(n)
      PROVE  (misplaced => misplaced') /\ Current' \in Seq(Entry) /\ log' = Append(log, Current')
  BY <1>4, PublishesList DEF Publishes, ObjectInv
<1>5. ASSUME NEW n \in Nodes, Joins(n) \/ Leaves(n)
      PROVE  misplaced' = misplaced /\ Current' \in Seq(Entry) /\ log' = Append(log, Current')
  BY <1>5, JoinsList, LeavesList DEF Joins, Leaves, Join, Leave, Change
<1> QED
  BY <1>1, <1>2, <1>3, <1>4, <1>5, ObjectStep

\* The entry of a node stays as it is until the node publishes or is taken off.
LEMMA EntryKept ==
  ASSUME TypeInv, ObjectInv, [Next]_vars, ~misplaced', NEW n \in Nodes,
         pc'[n] = pc[n], Has(Current', n), NEW i \in DOMAIN Current, Current[i].name = n
  PROVE  \E j \in DOMAIN Current' : Current'[j] = Current[i]
<1>0. Current \in Seq(Entry) /\ NamesApart(Current) /\ VersionsInv /\ pc \in [Nodes -> Labels]
  BY TypeParts, ObjectTypes, CurrentApart DEF ObjectInv, InformerOK
<1>1. CASE UNCHANGED object
  BY <1>1 DEF object, Current
<1>2. ASSUME NEW m \in Nodes, Creates(m) PROVE FALSE
  <2>1. Current = <<>>
    BY <1>2, CreatesList
  <2> QED
    BY <2>1
<1>3. ASSUME NEW m \in Nodes, Publishes(m) PROVE Current'[i] = Current[i] /\ DOMAIN Current' = DOMAIN Current
  <2>1. m # n
    BY <1>0, <1>3 DEF Publishes, Goto
  <2>2. Current[index[m]].name = m
    BY <1>3 DEF Publishes
  <2> QED
    BY <1>0, <1>3, <2>1, <2>2, PublishesList
<1>4. ASSUME NEW m \in Nodes, Joins(m) PROVE i \in DOMAIN Current' /\ Current'[i] = Current[i]
  BY <1>0, <1>4, JoinsList, JoinedList
<1>5. ASSUME NEW m \in Nodes, Leaves(m) PROVE \E j \in DOMAIN Current' : Current'[j] = Current[i]
  <2>1. /\ ~Has(Current', m)
        /\ \A j \in DOMAIN Current : Current[j].name = m \/ \E k \in DOMAIN Current' : Current'[k] = Current[j]
    BY <1>0, <1>5, LeavesList, LeftList
  <2> QED
    BY <2>1
<1> QED
  BY <1>1, <1>2, <1>3, <1>4, <1>5, ObjectStep

\* A worker that writes its VTEP dies, succeeds or gives up.
LEMMA PublishCases ==
  ASSUME TypeInv, NEW n \in Nodes, Publish(n), UNCHANGED startVars, Worker(n)'
  PROVE  \/ Publishes(n)
         \/ n \in failed' /\ UNCHANGED <<object, informer, files>>
<1>1. ~Restart(n)
  BY TypeParts DEF InformerOK, Restart, Goto, Worker, WorkerLabels
<1>2. /\ store[n] # Unset /\ index[n] \in DOMAIN Lister(n) /\ pc[n] = "publish" /\ Worker(n)
      /\ UNCHANGED <<informer, files, kernel>> /\ index' = [index EXCEPT ![n] = 0]
  BY <1>1 DEF Publish, Worker, WorkerLabels
<1>3. ASSUME Taken(n), UNCHANGED <<failed, bounds>>,
             log' = Append(log, [Lister(n) EXCEPT ![index[n]].vtep = store[n]]),
             misplaced' = (misplaced \/ Lister(n)[index[n]].name # n),
             Goto(n, "vxlan") \/ Goto(n, "idle")
      PROVE  Publishes(n)
  <2>1. Lister(n) = Current /\ log # <<>> /\ seen[n] = Len(log)
    BY <1>2, <1>3, WorkerFacts DEF Taken
  <2> QED
    BY <1>2, <1>3, <2>1 DEF Publishes
<1>4. CASE failed' = failed \cup {n} /\ UNCHANGED object
  BY <1>2, <1>4
<1> QED
  BY <1>1, <1>3, <1>4 DEF Publish

\* MemberInv is inductive.
LEMMA MemberStep ==
  ASSUME TypeInv, TypeInv', ObjectInv, MemberInv, [Next]_vars
  PROVE  MemberInv'
<1> SUFFICES ASSUME ~misplaced', NEW n \in Nodes, Worker(n)', Steady(queue'[n], seen'[n], log', n)
             PROVE  MemberOK(n)'
  BY DEF MemberInv, Steady
<1>0. /\ ~misplaced /\ pc \in [Nodes -> Labels] /\ queue \in [Nodes -> Seq(Events)]
      /\ seen \in [Nodes -> 0 .. Len(log)] /\ Len(log) \in Nat
  BY LogStep, ObjectTypes, TypeParts DEF InformerOK
<1>1. Len(log') \in Nat /\ log' # <<>> /\ seen'[n] \in Nat /\ seen'[n] <= Len(log')
  <2>1. /\ log' \in Seq(Seq(Entry)) /\ seen' \in [Nodes -> 0 .. Len(log')]
    BY TypePartsNext DEF InformerOK
  <2>2. log' # <<>>
    BY DEF TypeInv, InformerInv
  <2> QED
    BY <2>1, <2>2
<1>2. Has(Current', n)
  BY <1>1, SteadyHas DEF Current
<1>3. ASSUME pc'[n] = pc[n], store'[n] = store[n], PublishedOwn(n) PROVE PublishedOwn(n)'
  <2>1. PICK i \in DOMAIN Current : Current[i].name = n /\ Current[i].vtep = store[n]
    BY <1>3 DEF PublishedOwn
  <2>2. PICK j \in DOMAIN Current' : Current'[j] = Current[i]
    BY <1>2, <1>3, <2>1, EntryKept
  <2> QED
    BY <1>3, <2>1, <2>2 DEF PublishedOwn
<1>4. CASE UNCHANGED Local(n)
  <2>1. UNCHANGED <<pc[n], queue[n], seen[n], n \in failed, store[n]>> /\ Worker(n)
    BY <1>4 DEF Local, Worker
  <2>2. Steady(queue[n], seen[n], log, n)
    <3>1. /\ QueueOK(queue[n], seen[n]) /\ seen[n] \in Nat /\ seen[n] # 0 /\ seen[n] <= Len(log)
      BY <2>1, WorkerFacts
    <3>2. log' = log \/ (Len(log') >= Len(log) /\ \A v \in 1 .. Len(log) : log'[v] = log[v])
      BY <1>0, LogStep DEF object
    <3>3. Steady(queue[n], seen[n], log', n)
      BY <2>1
    <3> QED
      BY <1>0, <1>1, <3>1, <3>2, <3>3, SteadyLonger
  <2>3. MemberOK(n)
    BY <1>0, <2>1, <2>2 DEF MemberInv
  <2> QED
    BY <1>3, <2>1, <2>3 DEF MemberOK
<1>5. CASE StartController(n)
  <2>1. queue'[n] = <<Event("Add", Len(log))>>
    BY <1>0, <1>5 DEF StartController
  <2>2. Event("Add", Len(log)).kind = "Add"
    BY DEF Event
  <2>3. AddToCome(queue'[n])
    BY <2>1, <2>2 DEF AddToCome
  <2> QED
    BY <2>3 DEF MemberOK
<1> DEFINE q == queue[n]
           s == seen[n]
<1>6. ASSUME Worker(n)
      PROVE  /\ s \in Nat /\ s # 0 /\ s <= Len(log) /\ QueueOK(q, s) /\ q \in Seq(Events)
             /\ q # <<>> => Head(q) \in Events /\ Tail(q) \in Seq(Events)
             /\ Steady(q, s, log, n) => MemberOK(n)
  BY <1>0, <1>6, WorkerFacts, TailFacts DEF MemberInv
<1>7. ASSUME Worker(n), q # <<>>, queue' = [queue EXCEPT ![n] = Tail(@)], UNCHANGED <<log, seen>>,
             Head(q).kind = "Update" => (Has(log[Head(q).version], n) <=> Has(log[Head(q).version - 1], n))
      PROVE  Steady(q, s, log, n) /\ queue'[n] = Tail(q) /\ MemberOK(n)
  <2>1. queue'[n] = Tail(q)
    BY <1>0, <1>7
  <2>2. Steady(Tail(q), s, log, n)
    BY <1>7, <2>1
  <2>3. Steady(q, s, log, n)
    BY <1>0, <1>6, <1>7, <2>2, SteadyTail
  <2> QED
    BY <1>6, <1>7, <2>1, <2>3
<1>8. CASE Add(n)
  <2>1. Worker(n) /\ q # <<>> /\ Head(q).kind = "Add" /\ queue' = [queue EXCEPT ![n] = Tail(@)] /\ UNCHANGED <<log, seen>>
    BY <1>8 DEF Add, Ready, Pop, Worker, WorkerLabels, object
  <2>2. Steady(q, s, log, n) /\ queue'[n] = Tail(q) /\ MemberOK(n)
    BY <1>7, <2>1
  <2>3. Has(Lister(n), n)
    BY <1>0, <1>6, <2>1, <2>2, SteadyHas, WorkerFacts
  <2>4. pc'[n] = "publish"
    BY <1>0, <1>8, <2>3 DEF Add, Goto
  <2>5. AddToCome(Tail(q)) \/ ~Holds(Tail(q), "Delete")
    BY <1>6, <2>1, <2>2, HoldsTail DEF MemberOK
  <2> QED
    BY <2>2, <2>4, <2>5 DEF MemberOK
<1>9. CASE Publish(n) /\ UNCHANGED startVars
  <2>1. CASE Publishes(n)
    <3>1. Worker(n) /\ UNCHANGED <<queue, seen, store>> /\ store[n] # Unset /\ Current[index[n]].name = n
      BY <1>9, <2>1 DEF Publishes, Worker, WorkerLabels, informer, files
    <3>2. Steady(q, s, log, n)
      <4>1. Steady(q, s, log', n)
        BY <3>1
      <4>2. Len(log') >= Len(log) /\ \A v \in 1 .. Len(log) : log'[v] = log[v]
        BY <1>0, LogStep DEF object
      <4> QED
        BY <1>0, <1>1, <1>6, <3>1, <4>1, <4>2, SteadyLonger
    <3>3. AddToCome(q) \/ ~Holds(q, "Delete")
      BY <1>6, <3>1, <3>2 DEF MemberOK
    <3>4. PublishedOwn(n)'
      <4>1. /\ index[n] \in DOMAIN Current' /\ Current'[index[n]].name = n
            /\ Current'[index[n]].vtep = store[n]
        BY <2>1, <3>1, PublishesList DEF ObjectInv
      <4> QED
        BY <3>1, <4>1 DEF PublishedOwn
    <3> QED
      BY <3>1, <3>3, <3>4 DEF MemberOK
  <2>2. CASE n \in failed' /\ UNCHANGED <<object, informer>>
    <3>1. Worker(n) /\ UNCHANGED <<queue, seen, log>>
      BY <1>9, <2>2 DEF Publish, Worker, WorkerLabels, object, informer
    <3>2. Steady(q, s, log, n)
      BY <3>1
    <3> QED
      BY <1>6, <2>2, <3>1, <3>2 DEF MemberOK
  <2> QED
    BY <1>9, <2>1, <2>2, PublishCases
<1>10. CASE CreateVxlan(n)
  <2>1. pc[n] = "vxlan" /\ UNCHANGED <<queue, seen, failed, store, log, Current>>
    <3>1. ~Restart(n)
      BY <1>0 DEF Restart, Goto, Worker, WorkerLabels
    <3> QED
      BY <1>10, <3>1 DEF CreateVxlan, informer, files, object, Current
  <2>2. Worker(n) /\ Steady(q, s, log, n)
    BY <2>1 DEF Worker, WorkerLabels
  <2> QED
    BY <1>6, <2>1, <2>2 DEF MemberOK, PublishedOwn
<1>11. CASE UpdateMembership(n)
  <2> DEFINE v == Head(q).version
             e == Event(IF Has(log[v], n) THEN "Add" ELSE "Delete", v)
  <2>1. /\ Worker(n) /\ q # <<>> /\ Head(q).kind = "Update" /\ UNCHANGED <<log, seen>>
        /\ queue'[n] = Append(Tail(q), e)
    BY <1>0, <1>11 DEF UpdateMembership, Ready, Worker, WorkerLabels, object
  <2>2. e \in Events
    BY <1>6, <2>1 DEF Event, Events
  <2>3. Steady(Append(Tail(q), e), s, log, n)
    BY <2>1
  <2>4. Steady(Tail(q), s, log, n)
    <3> HIDE DEF e
    <3> QED
      BY <1>6, <2>1, <2>2, <2>3, SteadyAppend
  <2>5. Has(log[v], n)
    BY <1>0, <1>6, <2>1, <2>4, SteadyTaken
  <2>6. e.kind = "Add"
    BY <2>5 DEF Event
  <2>7. AddToCome(Append(Tail(q), e))
    <3> HIDE DEF e
    <3> QED
      BY <1>6, <2>1, <2>2, <2>6, HoldsAppend
  <2> QED
    BY <2>1, <2>7 DEF MemberOK
<1>12. CASE Update(n)
  <2>1. /\ Worker(n) /\ q # <<>> /\ Head(q).kind = "Update"
        /\ queue' = [queue EXCEPT ![n] = Tail(@)] /\ UNCHANGED <<log, seen, pc, failed, store, Current>>
        /\ Has(log[Head(q).version], n) <=> Has(log[Head(q).version - 1], n)
    <3>1. ~Restart(n)
      BY <1>0 DEF Restart, Goto, Worker, WorkerLabels
    <3>2. Ready(n, "Update") /\ UNCHANGED <<object, files>>
          /\ Has(log[Head(q).version], n) = Has(log[Head(q).version - 1], n)
      BY <1>12, UpdateCases
    <3>3. Pop(n) /\ UNCHANGED <<seen, worker, failed>>
      BY <1>12, <3>1, UpdateCases
    <3> QED
      BY <3>2, <3>3 DEF Ready, Pop, Worker, WorkerLabels, worker, files, object, Current
  <2>2. queue'[n] = Tail(q) /\ MemberOK(n)
    BY <1>7, <2>1
  <2>3. AddToCome(q) => AddToCome(Tail(q))
    BY <1>6, <2>1, HoldsTail
  <2>4. Holds(Tail(q), "Delete") => Holds(q, "Delete")
    BY <1>6, <2>1, HoldsTail
  <2> QED
    BY <2>1, <2>2, <2>3, <2>4 DEF MemberOK, PublishedOwn
<1>13. CASE Delete(n)
  <2>1. /\ Worker(n) /\ q # <<>> /\ Head(q).kind = "Delete"
        /\ queue' = [queue EXCEPT ![n] = Tail(@)] /\ UNCHANGED <<log, seen>>
    <3>1. ~Restart(n)
      BY <1>0 DEF Restart, Goto, Worker, WorkerLabels
    <3> QED
      BY <1>13, <3>1, DeleteCases DEF Ready, Pop, Worker, WorkerLabels, object
  <2>2. queue'[n] = Tail(q) /\ MemberOK(n)
    BY <1>7, <2>1
  <2>3. Holds(q, "Delete")
    <3>1. 1 \in DOMAIN q /\ Head(q) = q[1]
      BY <1>6, <2>1, TailFacts
    <3> QED
      BY <2>1, <3>1 DEF Holds
  <2>4. AddToCome(Tail(q))
    BY <1>6, <2>1, <2>2, <2>3, HoldsTail DEF MemberOK
  <2> QED
    BY <2>2, <2>4 DEF MemberOK
<1>14. CASE Deliver(n)
  <2> DEFINE e == Event("Update", s + 1)
  <2>1. /\ Worker(n) /\ queue'[n] = Append(q, e) /\ seen'[n] = s + 1 /\ s < Len(log)
        /\ UNCHANGED <<log, pc, failed, store, Current>>
    BY <1>0, <1>14 DEF Deliver, Worker, object, worker, files, Current
  <2>2. e \in Events /\ e.kind = "Update" /\ e.version - 1 = s
    BY <1>6, <2>1 DEF Event, Events
  <2> HIDE DEF e
  <2>3. Steady(q, s + 1, log, n) /\ Has(log[s], n)
    BY <1>6, <2>1, <2>2, SteadyAppend
  <2>4. Steady(q, s, log, n)
    <3>1. \A w \in s .. Len(log) : w = s \/ w \in s + 1 .. Len(log)
      BY <1>0, <1>6, <2>1
    <3> QED
      BY <2>3, <3>1 DEF Steady
  <2>5. MemberOK(n)
    BY <1>6, <2>1, <2>4
  <2> QED
    BY <1>6, <2>1, <2>2, <2>5, HoldsAppend DEF MemberOK, PublishedOwn
<1> QED
  BY <1>4, <1>5, <1>8, <1>9, <1>10, <1>11, <1>12, <1>13, <1>14, LocalStep DEF Acts

-----------------------------------------------------------------------------
(* The tables of the members.                                               *)

\* The worker of n has handled everything there is.
CaughtUp(n) == pc[n] \in {"idle", "vxlan"} /\ queue[n] = <<>> /\ seen[n] = Len(log)

\* What node n has entered of the others on list l, but for those it could not make all
\* the entries for.
TablesOK(n, l) == \A i \in DOMAIN l :
  l[i].name # n /\ l[i].vtep # Unset /\ l[i].name \notin gaps[n] =>
    n \in raised /\ Entered(n, l[i].vtep.ip, l[i].vtep.mac, l[i].name)
TablesInv == ~misplaced => \A n \in Nodes \ failed :
  CaughtUp(n) /\ Has(Current, n) => TablesOK(n, Current)

\* Once the remote nodes of a list are entered, those for which no call failed are all
\* there, if each has an IP and a MAC address of its own.
LEMMA EntriesAll ==
  ASSUME NEW n \in Nodes, NEW l, NamesApart(l), NEW R, R \subseteq DOMAIN l, R \subseteq Nat,
         \A i \in R : l[i].vtep.ip[1] = l[i].name /\ l[i].vtep.mac[1] = l[i].name
                      /\ l[i].vtep.node = l[i].name,
         NEW A \in SUBSET R, NEW F \in SUBSET R, NEW G \in SUBSET R,
         AddEntries(n, l, R, A, F, G), KernelOK, NEW k \in R, l[k].name \notin gaps'[n]
  PROVE  k \in G /\ Entered(n, l[k].vtep.ip, l[k].vtep.mac, l[k].name)'
<1>1. \A i \in R : i # k => l[i].vtep.ip # l[k].vtep.ip /\ l[i].vtep.mac # l[k].vtep.mac
  BY DEF NamesApart
<1>2. \A i \in R : i > k => i # k
  BY SMT
<1>g. k \in A /\ k \in F /\ k \in G
  BY DEF AddEntries, KernelOK
<1>3. l[k].vtep.ip \in routes'[n]
  BY <1>g DEF AddEntries, AddRoutes, KernelOK
<1> DEFINE e == [ip |-> l[k].vtep.ip, mac |-> l[k].vtep.mac]
           f == [mac |-> l[k].vtep.mac, node |-> l[k].vtep.node]
<1>4. e \in AddARP(arp[n], l, A)
  BY <1>1, <1>2, <1>g DEF AddARP
<1>5. f \in AddFDB(fdb[n], l, F)
  BY <1>1, <1>2, <1>g DEF AddFDB
<1>6. e \in arp'[n] /\ f \in fdb'[n]
  BY <1>4, <1>5 DEF AddEntries, KernelOK
<1>7. e.ip = l[k].vtep.ip /\ e.mac = l[k].vtep.mac /\ f.mac = l[k].vtep.mac /\ f.node = l[k].name
  OBVIOUS
<1> QED
  BY <1>3, <1>6, <1>7, <1>g DEF Entered

\* TablesInv is inductive.
LEMMA TablesStep ==
  ASSUME TypeInv, TypeInv', ObjectInv, MemberInv, TablesInv, [Next]_vars
  PROVE  TablesInv'
<1> SUFFICES ASSUME ~misplaced', NEW n \in Nodes, n \notin failed', CaughtUp(n)', Has(Current', n)
             PROVE  TablesOK(n, Current)'
  BY DEF TablesInv
<1>0. /\ ~misplaced /\ pc \in [Nodes -> Labels] /\ queue \in [Nodes -> Seq(Events)]
      /\ seen \in [Nodes -> 0 .. Len(log)] /\ Len(log) \in Nat /\ Worker(n)'
      /\ queue'[n] = <<>> /\ seen'[n] = Len(log') /\ pc'[n] \in {"idle", "vxlan"}
  BY LogStep, ObjectTypes, TypeParts DEF InformerOK, CaughtUp, Worker, WorkerLabels
<1>1. ASSUME Worker(n), seen'[n] = seen[n] PROVE UNCHANGED object /\ Current' = Current
  <2>1. seen[n] <= Len(log)
    BY <1>1, WorkerFacts
  <2>2. Len(log') # Len(log) + 1
    BY <1>0, <1>1, <2>1
  <2> QED
    BY <2>2, LogStep DEF object, Current
<1>2. CASE UNCHANGED Local(n)
  <2>1. UNCHANGED <<pc[n], queue[n], seen[n], n \in failed, n \in raised, arp[n], fdb[n], routes[n], gaps[n]>>
    BY <1>2 DEF Local
  <2>2. Worker(n)
    BY <1>0, <2>1 DEF Worker
  <2>3. UNCHANGED object /\ Current' = Current /\ log' = log
    BY <1>1, <2>1, <2>2 DEF object
  <2>4. n \notin failed /\ CaughtUp(n) /\ Has(Current, n)
    BY <1>0, <2>1, <2>3 DEF CaughtUp
  <2>5. TablesOK(n, Current)
    BY <1>0, <2>4 DEF TablesInv
  <2> QED
    BY <2>1, <2>3, <2>5 DEF TablesOK, Entered
<1>3. CASE StartController(n)
  BY <1>0, <1>3 DEF StartController
<1>4. CASE Add(n)
  <2>1. Worker(n) /\ seen'[n] = seen[n] /\ pc'[n] # "publish"
    BY <1>0, <1>4 DEF Add, Ready, Worker, WorkerLabels
  <2>2. ~Has(Lister(n), n)
    BY <1>0, <1>4, <2>1 DEF Add, Goto
  <2>3. Lister(n) = Current
    BY <1>0, <1>1, <2>1, WorkerFacts DEF object
  <2> QED
    BY <1>1, <2>1, <2>2, <2>3
<1>5. CASE Publish(n) /\ UNCHANGED startVars
  <2>1. Publishes(n)
    BY <1>0, <1>5, PublishCases
  <2>2. Worker(n) /\ seen'[n] = seen[n] /\ log' = Append(log, [Current EXCEPT ![index[n]].vtep = store[n]])
    BY <2>1 DEF Publishes, informer, Worker, WorkerLabels
  <2>3. Len(log') = Len(log) + 1
    BY <2>1, PublishesList, CurrentNext DEF ObjectInv
  <2> QED
    BY <1>0, <1>1, <2>2, <2>3 DEF object
<1>6. CASE CreateVxlan(n)
  <2>1. /\ pc[n] = "vxlan" /\ UNCHANGED <<queue, seen, failed, log, Current, arp, fdb, routes, gaps>>
        /\ raised' = raised \cup {n}
    <3>1. ~Restart(n)
      BY <1>0 DEF Restart, Goto, Worker, WorkerLabels
    <3> QED
      BY <1>6, <3>1 DEF CreateVxlan, informer, files, tables, object, Current
  <2>2. TablesOK(n, Current)
    BY <1>0, <2>1 DEF TablesInv, CaughtUp
  <2> QED
    BY <2>1, <2>2 DEF TablesOK, Entered
<1>7. CASE UpdateMembership(n)
  <2>1. /\ Worker(n) /\ queue[n] # <<>>
        /\ \E e : e = Event(IF Has(log[Head(queue[n]).version], n) THEN "Add" ELSE "Delete", Head(queue[n]).version)
             /\ queue'[n] = Append(Tail(queue[n]), e)
    BY <1>0, <1>7 DEF UpdateMembership, Ready, Worker, WorkerLabels
  <2>2. Head(queue[n]).version \in Nat /\ Tail(queue[n]) \in Seq(Events)
    BY <1>0, <2>1, WorkerFacts, TailFacts DEF Events
  <2> QED
    BY <1>0, <2>1, <2>2, AppendFacts DEF Event, Events
<1>8. CASE Update(n)
  <2> DEFINE q == queue[n]
             v == Head(q).version
  <2>1. /\ Worker(n) /\ q # <<>> /\ Head(q).kind = "Update" /\ queue'[n] = Tail(q) /\ UNCHANGED <<seen, object>>
        /\ ~Restart(n)
    <3>1. ~Restart(n)
      BY <1>0 DEF Restart, Goto, Worker, WorkerLabels
    <3>2. Ready(n, "Update") /\ UNCHANGED object /\ Pop(n) /\ UNCHANGED seen
      BY <1>8, <3>1, UpdateCases
    <3> QED
      BY <1>0, <3>1, <3>2 DEF Ready, Pop, Worker, WorkerLabels
  <2>2. Lister(n) = Current /\ log[Len(log)] = Current /\ Current' = Current /\ seen[n] = Len(log)
        /\ QueueOK(q, seen[n]) /\ q \in Seq(Events)
    BY <1>0, <1>1, <2>1, WorkerFacts DEF object
  <2>3. v = Len(log)
    <3>1. Head(q) = q[1] /\ 1 \in DOMAIN q /\ DOMAIN q = 1 .. Len(q) /\ Len(q) \in Nat
          /\ DOMAIN Tail(q) = 1 .. Len(q) - 1
      BY <2>1, <2>2, TailFacts, SeqFacts
    <3>2. Len(q) = 1
      BY <1>0, <2>1, <3>1
    <3>3. \A j \in DOMAIN q : ~(j > 1)
      BY <3>1, <3>2
    <3>4. v \in 1 .. seen[n] /\ \A w \in v + 1 .. seen[n] : FALSE
      BY <2>1, <2>2, <3>1, <3>3 DEF QueueOK
    <3>5. v \in Nat /\ v <= seen[n] /\ ~(seen[n] \in v + 1 .. seen[n]) /\ seen[n] \in Nat
      BY <1>0, <2>2, <3>4
    <3>6. ~(v + 1 <= seen[n])
      BY <3>5
    <3> QED
      BY <2>2, <3>5, <3>6
  <2>4. log[v] = Current
    BY <2>2, <2>3
  <2> DEFINE R == Remotes(n, Current)
  <2>5. \/ R = {}
        \/ \E A, F \in SUBSET R, G \in SUBSET Routable(n, R) : AddEntries(n, Current, R, A, F, G)
    <3>1. Has(log[Head(queue[n]).version], n)
      BY <2>2, <2>4
    <3>2. ASSUME R # {}
          PROVE  \E A, F \in SUBSET R, G \in SUBSET Routable(n, R) : AddEntries(n, Lister(n), R, A, F, G)
      <4>1. Remotes(n, Lister(n)) = R
        BY <2>2
      <4> HIDE DEF R
      <4> QED
        BY <1>8, <2>1, <3>1, <3>2, <4>1, UpdateCases
    <3> QED
      BY <2>2, <3>2
  <2>6. CASE R = {}
    BY <2>2, <2>6 DEF Remotes, TablesOK
  <2>7. ASSUME NEW A \in SUBSET R, NEW F \in SUBSET R, NEW G \in SUBSET Routable(n, R),
               AddEntries(n, Current, R, A, F, G)
        PROVE  TablesOK(n, Current)'
    <3>1. NamesApart(Current) /\ KernelOK /\ DOMAIN Current \subseteq Nat
      BY CurrentApart, TypeParts, ObjectTypes, SeqFacts DEF ObjectInv
    <3>2. \A i \in R : /\ Current[i].vtep.ip[1] = Current[i].name
                       /\ Current[i].vtep.mac[1] = Current[i].name
                       /\ Current[i].vtep.node = Current[i].name
      BY <1>0 DEF Remotes, ObjectInv, EntryInv, EntryOwn
    <3>3. R \subseteq DOMAIN Current /\ R \subseteq Nat
      BY <3>1 DEF Remotes
    <3>4. G \in SUBSET R /\ (G # {} => n \in raised)
      BY DEF Routable
    <3>5. raised' = raised
      BY <2>7 DEF AddEntries
    <3> HIDE DEF R
    <3>6. \A k \in R : Current[k].name \notin gaps'[n] =>
             k \in G /\ Entered(n, Current[k].vtep.ip, Current[k].vtep.mac, Current[k].name)'
      BY <2>2, <2>7, <3>1, <3>2, <3>3, <3>4, EntriesAll
    <3>7. \A i \in DOMAIN Current : Current[i].name # n /\ Current[i].vtep # Unset => i \in R
      BY DEF Remotes, R
    <3> QED
      BY <2>2, <3>4, <3>5, <3>6, <3>7 DEF TablesOK
  <2> QED
    BY <2>5, <2>6, <2>7
<1>9. CASE Delete(n)
  <2> DEFINE q == queue[n]
  <2>1. Worker(n) /\ q # <<>> /\ Head(q).kind = "Delete" /\ queue'[n] = Tail(q) /\ UNCHANGED <<seen, log>>
    <3>1. ~Restart(n)
      BY <1>0 DEF Restart, Goto, Worker, WorkerLabels
    <3>2. Ready(n, "Delete") /\ UNCHANGED object /\ Pop(n) /\ UNCHANGED seen
      BY <1>9, <3>1, DeleteCases
    <3> QED
      BY <1>0, <3>2 DEF Ready, Pop, Worker, WorkerLabels, object
  <2>2. /\ Current' = Current /\ seen[n] = Len(log) /\ q \in Seq(Events) /\ log[Len(log)] = Current
    BY <1>0, <1>1, <2>1, WorkerFacts
  <2>3. Head(q) = q[1] /\ DOMAIN q = 1 .. Len(q) /\ Len(q) = 1
    <3>1. Head(q) = q[1] /\ 1 \in DOMAIN q /\ DOMAIN q = 1 .. Len(q) /\ Len(q) \in Nat
          /\ DOMAIN Tail(q) = 1 .. Len(q) - 1
      BY <2>1, <2>2, TailFacts, SeqFacts
    <3> QED
      BY <1>0, <2>1, <3>1
  <2>4. \A i \in DOMAIN q : q[i].kind = "Delete"
    BY <2>1, <2>3
  <2>5. Holds(q, "Delete") /\ ~AddToCome(q)
    BY <2>3, <2>4 DEF Holds, AddToCome
  <2>6. Steady(q, seen[n], log, n)
    <3>1. \A w \in seen[n] .. Len(log) : w = Len(log)
      BY <1>0, <2>2
    <3> QED
      BY <2>2, <2>4, <3>1 DEF Steady
  <2> QED
    BY <1>0, <2>1, <2>5, <2>6 DEF MemberInv, MemberOK
<1>10. CASE Deliver(n)
  <2>1. queue'[n] = Append(queue[n], Event("Update", seen[n] + 1)) /\ seen[n] + 1 \in Nat
    BY <1>0, <1>10 DEF Deliver
  <2> QED
    BY <1>0, <2>1, AppendFacts DEF Event, Events
<1> QED
  BY <1>0, <1>2, <1>3, <1>4, <1>5, <1>6, <1>7, <1>8, <1>9, <1>10, LocalStep DEF Acts

\* The invariants of the members hold in every reachable state.
LEMMA MembersHold == Spec => [](TypeInv /\ ClusterInv /\ ObjectInv /\ MemberInv /\ TablesInv)
<1>1. Init => MemberInv /\ TablesInv
  BY DEF Init, MeshInit, MemberInv, TablesInv, CaughtUp, Worker, WorkerLabels
<1> QED
  BY <1>1, TypeInvHolds, ObjectInvHolds, MemberStep, TablesStep, PTL DEF Spec

\* MeshAtRest: once every daemon has done what there is to do, what a member of the
\* mesh has published is what its store says, and the tables of every other member
\* whose last update no call failed of lead to it; whatever order daemons, informers
\* and users took their steps in, whatever failed or died before.
THEOREM MembersMeet == Spec => []MeshAtRest
<1>1. ASSUME TypeInv, ClusterInv, ObjectInv, MemberInv, TablesInv PROVE MeshAtRest
  <2> SUFFICES ASSUME Quiet, ~misplaced, NEW m \in Members
               PROVE  /\ Published(m) = store[m]
                      /\ \A n \in Informed(m) :
                           /\ Entered(n, store[m].ip, store[m].mac, m)
                           /\ device[m] = store[m].mac /\ m \in raised => Reaches(n, m)
    BY DEF MeshAtRest
  <2>1. Members \subseteq Nodes /\ NamesApart(Current)
    BY <1>1, TypeParts, CurrentApart DEF Members, OthersOK, ObjectInv
  <2>2. \A n \in Members : /\ pc[n] = "idle" /\ queue[n] = <<>> /\ seen[n] = Len(log) /\ n \notin failed
                           /\ Has(Current, n) /\ Worker(n) /\ CaughtUp(n)
    BY DEF Members, Quiet, Worker, WorkerLabels, CaughtUp
  <2>3. \A n \in Members : PublishedOwn(n)
    <3> SUFFICES ASSUME NEW n \in Members PROVE PublishedOwn(n)
      OBVIOUS
    <3>1. Current = log[Len(log)] /\ Len(log) \in Nat
      BY <1>1, <2>1, <2>2, WorkerFacts
    <3>2. \A w \in seen[n] .. Len(log) : w = Len(log)
      BY <2>2, <3>1
    <3>3. Steady(queue[n], seen[n], log, n)
      BY <2>2, <3>1, <3>2 DEF Steady
    <3> QED
      BY <1>1, <2>1, <2>2, <3>3 DEF MemberInv, MemberOK, AddToCome
  <2>4. \A n \in Members : TablesOK(n, Current)
    BY <1>1, <2>1, <2>2 DEF TablesInv
  <2>5. ASSUME NEW k \in Members
        PROVE  \E i \in DOMAIN Current : Current[i].name = k /\ Current[i].vtep = store[k] /\ store[k] # Unset
    BY <2>3 DEF PublishedOwn
  <2>6. Published(m) = store[m]
    <3>1. PICK i \in DOMAIN Current : Current[i].name = m /\ Current[i].vtep = store[m]
      BY <2>5
    <3>2. Index(Current, m) = i
      BY <2>1, <2>2, <3>1, IndexFacts DEF NamesApart
    <3> QED
      BY <3>1, <3>2 DEF Published
  <2>7. ASSUME NEW n \in Informed(m)
        PROVE  n \in raised /\ Entered(n, store[m].ip, store[m].mac, m)
    <3>1. PICK i \in DOMAIN Current :
               Current[i].name = m /\ Current[i].vtep = store[m] /\ store[m] # Unset
      BY <2>5
    <3> QED
      BY <2>4, <2>7, <3>1 DEF TablesOK, Informed
  <2>8. ASSUME NEW n \in Informed(m)
        PROVE  device[m] = store[m].mac /\ m \in raised => Reaches(n, m)
    <3>1. store[m].mac # Unset
      <4>1. store[m] \in Vteps
        BY <1>1, <2>1, <2>5, TypeParts DEF FilesOK
      <4> QED
        BY <4>1, MeshAssumption DEF Vteps
    <3> QED
      BY <2>7, <3>1 DEF Reaches
  <2> QED
    BY <2>6, <2>7, <2>8
<1> QED
  BY <1>1, MembersHold, PTL

-----------------------------------------------------------------------------
(* The founders.                                                            *)

\* Whoever is about to create the object has all founders on its list.
FoundersInv ==
  /\ founders \subseteq cluster
  /\ founders = {} => log = <<>>
  /\ \A n \in Nodes : pc[n] = "tenant" => founders # {} /\ founders \subseteq nodeList[n]

\* Two versions list the same nodes at the same places.
SameNodes(l, m) == DOMAIN l = DOMAIN m /\ \A i \in DOMAIN m : l[i].name = m[i].name

\* As long as users change nothing, every version lists the same nodes, the founders
\* among them, and a daemon publishes into its own entry.
ListInv == changes = 0 =>
  /\ \A v \in DOMAIN log : SameNodes(log[v], log[1])
  /\ log # <<>> => \A n \in founders : Has(log[1], n)
  /\ \A n \in Nodes : pc[n] = "publish" => index[n] \in DOMAIN log[1] /\ log[1][index[n]].name = n

\* A founder whose daemon works has its VTEP published, or will have.
Served(n) == \E i \in DOMAIN Current : Current[i].name = n /\ Current[i].vtep # Unset
ServedInv == changes = 0 => \A n \in founders \ failed :
  Worker(n) => Holds(queue[n], "Add") \/ pc[n] = "publish" \/ Served(n)

\* Only the object's creation comes after the nodes were listed, and only a daemon's
\* listing of the nodes makes founders of them.
LEMMA FoundersStep ==
  ASSUME TypeInv, ClusterInv, FoundersInv, [Next]_vars
  PROVE  FoundersInv' /\ (founders' = founders \/ log' = <<>>)
<1>0. /\ pc \in [Nodes -> Labels] /\ nodeList \in [Nodes -> SUBSET Nodes]
  BY TypeParts DEF InformerOK, OthersOK
<1>1. ASSUME NEW n \in Nodes, WriteNodeStore(n) PROVE FoundersInv' /\ (founders' = founders \/ log' = <<>>)
  <2>1. n \in cluster
    BY <1>1 DEF WriteNodeStore, ClusterInv
  <2>2. /\ nodeList' = [nodeList EXCEPT ![n] = cluster] /\ pc' = [pc EXCEPT ![n] = "tenant"]
        /\ founders' = IF founders = {} THEN cluster ELSE founders
        /\ cluster' = cluster /\ log' = log
    BY <1>1 DEF WriteNodeStore, Goto, object
  <2>3. founders' \subseteq cluster' /\ founders' # {} /\ (founders # {} => founders' = founders)
    BY <2>1, <2>2 DEF FoundersInv
  <2>4. ASSUME NEW m \in Nodes, pc'[m] = "tenant" PROVE founders' \subseteq nodeList'[m]
    <3>1. CASE m = n
      BY <1>0, <2>2, <2>3, <3>1
    <3>2. CASE m # n
      BY <1>0, <2>2, <2>3, <2>4, <3>2 DEF FoundersInv
    <3> QED
      BY <3>1, <3>2
  <2> QED
    BY <2>2, <2>3, <2>4 DEF FoundersInv
<1>2. ASSUME founders' = founders, cluster \subseteq cluster',
             \A m \in Nodes : pc'[m] = "tenant" => pc[m] = "tenant" /\ nodeList'[m] = nodeList[m],
             log' = log \/ log # <<>> \/ \E n \in Nodes : pc[n] = "tenant"
      PROVE  FoundersInv'
  BY <1>2 DEF FoundersInv
<1>3. ASSUME NEW n \in Nodes, RegisterTenantCRD(n) \/ StartController(n) \/ AddNode(n) \/ Crash(n)
      PROVE  FoundersInv' /\ founders' = founders
  <2>1. /\ founders' = founders /\ cluster \subseteq cluster' /\ log' = log
        /\ \E l \in {"store", "idle", "register"} : pc' = [pc EXCEPT ![n] = l]
        /\ nodeList' = nodeList \/ nodeList' = [nodeList EXCEPT ![n] = {}]
    BY <1>3 DEF RegisterTenantCRD, StartController, AddNode, Crash, Restart, Goto, object, startVars
  <2>2. \A m \in Nodes : pc'[m] = "tenant" => pc[m] = "tenant" /\ nodeList'[m] = nodeList[m]
    BY <1>0, <2>1
  <2> QED
    BY <1>2, <2>1, <2>2
<1>4. ASSUME NEW n \in Nodes, RegisterDefaultTenant(n) PROVE FoundersInv' /\ founders' = founders
  <2>1. /\ founders' = founders /\ cluster' = cluster /\ pc[n] = "tenant"
        /\ \E l \in {"controller", "register"} : pc' = [pc EXCEPT ![n] = l]
        /\ nodeList' = [nodeList EXCEPT ![n] = {}]
    BY <1>4 DEF RegisterDefaultTenant, Restart, Goto
  <2>2. \A m \in Nodes : pc'[m] = "tenant" => pc[m] = "tenant" /\ nodeList'[m] = nodeList[m]
    BY <1>0, <2>1
  <2> QED
    BY <1>2, <2>1, <2>2
<1>5. ASSUME NEW n \in Nodes, Work(n) \/ Inform(n) PROVE FoundersInv' /\ founders' = founders
  <2>1. UNCHANGED startVars
    BY <1>5 DEF Work, Inform
  <2>2. pc' = pc \/ \E l \in {"publish", "vxlan", "idle", "register"} : pc' = [pc EXCEPT ![n] = l]
    BY <1>5 DEF Work, Inform, Add, Publish, CreateVxlan, UpdateMembership, Update, Delete, Deliver,
                Restart, Goto, worker
  <2>3. log' = log \/ log # <<>>
    <3>1. CASE Publish(n)
      BY <3>1, ObjectTypes DEF Publish, Lister, object
    <3>2. CASE ~Publish(n)
      BY <1>5, <3>2 DEF Work, Inform, Add, CreateVxlan, UpdateMembership, Update, Delete, Deliver, object
    <3> QED
      BY <3>1, <3>2
  <2>4. \A m \in Nodes : pc'[m] = "tenant" => pc[m] = "tenant"
    BY <1>0, <2>2
  <2> QED
    BY <1>2, <2>1, <2>3, <2>4 DEF startVars
<1>6. ASSUME NEW n \in Nodes, UNCHANGED startVars, Join(n) \/ Leave(n)
      PROVE  FoundersInv' /\ founders' = founders
  <2>1. UNCHANGED worker /\ log # <<>>
    BY <1>6 DEF Join, Leave, Change, Has, Current
  <2> QED
    BY <1>2, <1>6, <2>1 DEF startVars, worker
<1>7. CASE Establish \/ UNCHANGED vars
  BY <1>2, <1>7 DEF Establish, vars, meshVars, startVars, worker, object
<1> QED
  BY <1>1, <1>3, <1>4, <1>5, <1>6, <1>7 DEF Next, Start

\* If users have changed nothing after a step, the step was none of theirs.
LEMMA ChangesStep ==
  ASSUME TypeInv, [Next]_vars, changes' = 0
  PROVE  /\ changes = 0
         /\ UNCHANGED object \/ \E n \in Nodes : Creates(n) \/ Publishes(n)
<1>0. changes \in Nat
  BY TypeParts DEF OthersOK
<1>1. ASSUME NEW n \in Nodes, Join(n) \/ Leave(n) PROVE FALSE
  <2>1. changes' = changes + 1
    BY <1>1 DEF Join, Leave, Change
  <2> QED
    BY <1>0, <2>1
<1>2. ASSUME NEW n \in Nodes, Start(n) PROVE changes' = changes
  BY <1>2 DEF Start, RegisterTenantCRD, WriteNodeStore, RegisterDefaultTenant, StartController, bounds
<1>3. ASSUME NEW n \in Nodes, Work(n) \/ Inform(n) \/ AddNode(n) \/ Crash(n) PROVE changes' = changes
  BY <1>3 DEF Work, Inform, AddNode, Crash, Add, Publish, CreateVxlan, UpdateMembership, Update, Delete,
              Deliver, Fault, bounds
<1>4. CASE Establish \/ UNCHANGED vars
  BY <1>4 DEF Establish, vars, meshVars, bounds
<1>5. changes = 0
  BY <1>1, <1>2, <1>3, <1>4 DEF Next
<1> QED
  BY <1>1, <1>5, ObjectStep DEF Joins, Leaves

\* ListInv is inductive.
LEMMA ListStep ==
  ASSUME TypeInv, TypeInv', ClusterInv, ObjectInv, FoundersInv, ListInv, [Next]_vars
  PROVE  ListInv'
<1> SUFFICES ASSUME changes' = 0
             PROVE  /\ \A v \in DOMAIN log' : SameNodes(log'[v], log'[1])
                    /\ log' # <<>> => \A n \in founders' : Has(log'[1], n)
                    /\ \A n \in Nodes : pc'[n] = "publish" =>
                         index'[n] \in DOMAIN log'[1] /\ log'[1][index'[n]].name = n
  BY DEF ListInv, SameNodes, Has
<1>0. /\ changes = 0 /\ Len(log) \in Nat /\ DOMAIN log = 1 .. Len(log)
      /\ log # <<>> <=> Len(log) # 0
  BY ChangesStep, ObjectTypes
<1>1. /\ \A v \in DOMAIN log : SameNodes(log[v], log[1])
      /\ log # <<>> => \A n \in founders : Has(log[1], n)
      /\ \A n \in Nodes : pc[n] = "publish" => index[n] \in DOMAIN log[1] /\ log[1][index[n]].name = n
  BY <1>0 DEF ListInv
<1>2. founders' = founders \/ log' = <<>>
  BY FoundersStep
<1>3. /\ \A v \in DOMAIN log' : SameNodes(log'[v], log'[1])
      /\ log' # <<>> => \A n \in founders' : Has(log'[1], n)
      /\ log # <<>> => log'[1] = log[1]
  <2>1. CASE UNCHANGED object
    BY <1>1, <1>2, <2>1 DEF object
  <2>2. ASSUME NEW n \in Nodes, Creates(n)
        PROVE  /\ log = <<>> /\ log' = <<Current'>>
               /\ \A m \in founders : Has(Current', m)
    BY <2>2, CreatesList DEF Creates, FoundersInv
  <2>3. ASSUME NEW n \in Nodes, Publishes(n)
        PROVE  /\ log # <<>> /\ SameNodes(Current', Current) /\ Len(log') = Len(log) + 1
               /\ DOMAIN log' = 1 .. Len(log) + 1 /\ log'[Len(log) + 1] = Current'
               /\ \A v \in 1 .. Len(log) : log'[v] = log[v]
    <3>1. /\ Current' \in Seq(Entry) /\ log' = Append(log, Current') /\ SameNodes(Current', Current)
      BY <2>3, PublishesList DEF ObjectInv, SameNodes
    <3>2. log # <<>>
      BY <2>3 DEF Publishes
    <3> HIDE DEF Publishes
    <3> QED
      BY <3>1, <3>2, CurrentNext
  <2>4. CASE \E n \in Nodes : Publishes(n)
    <3>1. Current = log[Len(log)] /\ Len(log) \in DOMAIN log /\ 1 \in 1 .. Len(log) /\ log # <<>>
      BY <1>0, <2>3, <2>4 DEF Current
    <3>2. log'[1] = log[1] /\ \A v \in DOMAIN log' : v \in DOMAIN log \/ v = Len(log) + 1
      BY <1>0, <2>3, <2>4, <3>1
    <3>3. SameNodes(Current', log[1])
      BY <1>1, <2>3, <2>4, <3>1 DEF SameNodes
    <3>4. \A v \in DOMAIN log' : SameNodes(log'[v], log'[1])
      BY <1>0, <1>1, <2>3, <2>4, <3>2, <3>3
    <3> QED
      BY <1>1, <1>2, <3>1, <3>2, <3>4
  <2>5. CASE \E n \in Nodes : Creates(n)
    <3>1. log = <<>> /\ log' = <<Current'>> /\ \A m \in founders : Has(Current', m)
      BY <2>2, <2>5
    <3> HIDE DEF Current
    <3>2. DOMAIN log' = {1} /\ log'[1] = Current' /\ log' # <<>>
      BY <3>1
    <3> QED
      BY <1>2, <3>1, <3>2 DEF SameNodes
  <2> QED
    BY <2>1, <2>4, <2>5, ChangesStep
<1>4. ASSUME NEW n \in Nodes, pc'[n] = "publish"
      PROVE  index'[n] \in DOMAIN log'[1] /\ log'[1][index'[n]].name = n
  <2>0. Worker(n)' /\ log' # <<>> /\ pc \in [Nodes -> Labels] /\ index \in [Nodes -> Nat]
    BY <1>4, TypeParts DEF Worker, WorkerLabels, TypeInv, InformerInv, InformerOK, OthersOK
  <2>1. CASE UNCHANGED Local(n)
    <3>1. UNCHANGED <<pc[n], index[n]>>
      BY <2>1 DEF Local
    <3>2. log # <<>>
      BY <1>4, <3>1, WorkerFacts DEF Worker, WorkerLabels
    <3> QED
      BY <1>1, <1>3, <1>4, <3>1, <3>2
  <2>2. CASE Add(n)
    <3>1. Worker(n) /\ log' = log
      BY <2>2 DEF Add, Ready, Worker, WorkerLabels, object
    <3>2. /\ Has(Lister(n), n) /\ index'[n] = Index(Lister(n), n)
      BY <1>4, <2>0, <2>2 DEF Add, Ready, worker
    <3>3. Lister(n) = log[seen[n]] /\ seen[n] \in DOMAIN log
      BY <1>0, <3>1, WorkerFacts
    <3>4. index'[n] \in DOMAIN Lister(n) /\ Lister(n)[index'[n]].name = n
      BY <3>2, IndexFacts
    <3> QED
      BY <1>1, <3>1, <3>3, <3>4 DEF SameNodes
  <2>3. ASSUME Acts(n), ~Add(n) PROVE pc[n] = "publish" /\ index'[n] = index[n]
    BY <1>4, <2>0, <2>3 DEF Acts, StartController, Publish, CreateVxlan, UpdateMembership, Update, Delete,
                            Deliver, Restart, Goto, Ready, worker
  <2>4. CASE Acts(n) /\ ~Add(n)
    <3>1. log # <<>>
      BY <2>3, <2>4, WorkerFacts DEF Worker, WorkerLabels
    <3> QED
      BY <1>1, <1>3, <2>3, <2>4, <3>1
  <2> QED
    BY <2>0, <2>1, <2>2, <2>4, LocalStep
<1> QED
  BY <1>3, <1>4

\* Whoever has published stays published.
LEMMA ServedKept ==
  ASSUME TypeInv, ObjectInv, [Next]_vars, changes' = 0, NEW n \in Nodes, Served(n)
  PROVE  Served(n)'
<1>1. PICK i \in DOMAIN Current : Current[i].name = n /\ Current[i].vtep # Unset
  BY DEF Served
<1>2. CASE UNCHANGED object
  BY <1>1, <1>2 DEF Served, object, Current
<1>3. ASSUME NEW m \in Nodes, Creates(m) PROVE FALSE
  <2>1. Current = <<>>
    BY <1>3, CreatesList
  <2> QED
    BY <1>1, <2>1
<1>4. ASSUME NEW m \in Nodes, Publishes(m) PROVE Served(n)'
  <2>1. /\ i \in DOMAIN Current' /\ Current'[i].name = n
        /\ i # index[m] => Current'[i] = Current[i]
        /\ Current'[index[m]].vtep = store[m] /\ store[m] # Unset
    BY <1>1, <1>4, PublishesList DEF ObjectInv, Publishes
  <2> QED
    BY <1>1, <2>1 DEF Served
<1> QED
  BY <1>2, <1>3, <1>4, ChangesStep

\* ServedInv is inductive.
LEMMA ServedStep ==
  ASSUME TypeInv, TypeInv', ClusterInv, ObjectInv, FoundersInv, ListInv, ServedInv, [Next]_vars
  PROVE  ServedInv'
<1> SUFFICES ASSUME changes' = 0, NEW n \in founders', n \notin failed', Worker(n)'
             PROVE  Holds(queue'[n], "Add") \/ pc'[n] = "publish" \/ Served(n)'
  BY DEF ServedInv, Holds
<1>0. /\ changes = 0 /\ pc \in [Nodes -> Labels] /\ queue \in [Nodes -> Seq(Events)]
      /\ seen \in [Nodes -> 0 .. Len(log)] /\ Len(log) \in Nat /\ DOMAIN log = 1 .. Len(log)
  BY ChangesStep, ObjectTypes, TypeParts DEF InformerOK
<1>1. n \in Nodes /\ n \in founders
  <2>1. founders' \in SUBSET Nodes
    BY TypePartsNext DEF OthersOK
  <2>2. log' # <<>>
    BY <2>1 DEF TypeInv, InformerInv
  <2> QED
    BY <2>1, <2>2, FoundersStep
<1>2. ASSUME Worker(n), n \notin failed
      PROVE  Holds(queue[n], "Add") \/ pc[n] = "publish" \/ Served(n)
  BY <1>0, <1>1, <1>2 DEF ServedInv
<1>3. Served(n) => Served(n)'
  BY <1>1, ServedKept
<1>4. CASE UNCHANGED Local(n)
  <2>1. UNCHANGED <<pc[n], queue[n], n \in failed>> /\ Worker(n)
    BY <1>4 DEF Local, Worker
  <2> QED
    BY <1>2, <1>3, <2>1
<1>5. CASE StartController(n)
  <2>1. queue'[n] = <<Event("Add", Len(log))>> /\ Event("Add", Len(log)).kind = "Add"
    BY <1>0, <1>1, <1>5 DEF StartController, Event
  <2> QED
    BY <2>1 DEF Holds
<1>6. CASE Add(n)
  <2>1. Worker(n) /\ log # <<>> /\ Lister(n) = log[seen[n]] /\ seen[n] \in DOMAIN log
    <3>1. Worker(n)
      BY <1>6 DEF Add, Ready, Worker, WorkerLabels
    <3> QED
      BY <1>0, <1>1, <3>1, WorkerFacts
  <2>2. Has(log[1], n) /\ SameNodes(log[seen[n]], log[1])
    BY <1>0, <1>1, <2>1 DEF ListInv
  <2>3. Has(Lister(n), n)
    BY <2>1, <2>2 DEF Has, SameNodes
  <2> QED
    BY <1>0, <1>1, <1>6, <2>3 DEF Add, Goto
<1>7. CASE Publish(n) /\ UNCHANGED startVars
  <2>1. Publishes(n)
    BY <1>1, <1>7, PublishCases
  <2>2. pc[n] = "publish" /\ log # <<>> /\ Current = log[Len(log)] /\ index[n] \in DOMAIN Current
    BY <2>1 DEF Publishes, Current
  <2>3. Current[index[n]].name = n
    <3>1. SameNodes(log[Len(log)], log[1]) /\ log[1][index[n]].name = n /\ index[n] \in DOMAIN log[1]
      <4>1. Len(log) \in DOMAIN log
        BY <1>0, <2>2, ObjectTypes
      <4> QED
        BY <1>0, <1>1, <2>2, <4>1 DEF ListInv
    <3> QED
      BY <2>2, <3>1 DEF SameNodes
  <2>4. /\ index[n] \in DOMAIN Current' /\ Current'[index[n]].name = n
        /\ Current'[index[n]].vtep = store[n] /\ store[n] # Unset
    BY <1>1, <2>1, <2>2, <2>3, PublishesList DEF ObjectInv, Publishes
  <2> QED
    BY <2>4 DEF Served
<1>8. CASE CreateVxlan(n)
  <2>1. ~Restart(n)
    BY <1>0, <1>1 DEF Restart, Goto, Worker, WorkerLabels
  <2>2. Worker(n) /\ pc[n] = "vxlan" /\ UNCHANGED <<queue, failed>>
    BY <1>8, <2>1 DEF CreateVxlan, Worker, WorkerLabels, informer
  <2> QED
    BY <1>2, <1>3, <2>2
<1>9. CASE UpdateMembership(n)
  <2> DEFINE v == Head(queue[n]).version
  <2>1. /\ Worker(n) /\ queue[n] # <<>> /\ Head(queue[n]).kind = "Update"
        /\ Has(log[v], n) # Has(log[v - 1], n)
    BY <1>9 DEF UpdateMembership, Ready, Worker, WorkerLabels
  <2>2. v \in DOMAIN log /\ v - 1 \in DOMAIN log
    <3>1. /\ Head(queue[n]) = queue[n][1] /\ 1 \in DOMAIN queue[n]
          /\ QueueOK(queue[n], seen[n]) /\ seen[n] \in Nat /\ seen[n] <= Len(log)
      BY <1>1, <2>1, WorkerFacts, TailFacts
    <3>2. v \in 1 .. seen[n] /\ v # 1
      BY <2>1, <3>1 DEF QueueOK
    <3> QED
      BY <1>0, <3>1, <3>2
  <2>3. SameNodes(log[v], log[1]) /\ SameNodes(log[v - 1], log[1])
    BY <1>0, <2>2 DEF ListInv
  <2> QED
    BY <2>1, <2>3 DEF SameNodes, Has
<1>10. CASE Update(n) \/ Delete(n)
  <2>1. ~Restart(n)
    BY <1>0, <1>1 DEF Restart, Goto, Worker, WorkerLabels
  <2>2. /\ Worker(n) /\ pc[n] # "publish" /\ queue[n] # <<>> /\ Head(queue[n]).kind # "Add"
        /\ queue' = [queue EXCEPT ![n] = Tail(@)] /\ UNCHANGED failed
    BY <1>10, <2>1 DEF Update, Delete, Ready, Pop, Worker, WorkerLabels
  <2>3. Holds(queue[n], "Add") => Holds(queue'[n], "Add")
    BY <1>0, <1>1, <2>2, HoldsTail
  <2> QED
    BY <1>2, <1>3, <2>2, <2>3
<1>11. CASE Deliver(n)
  <2> DEFINE e == Event("Update", seen[n] + 1)
  <2>1. Worker(n) /\ UNCHANGED <<pc, failed>> /\ queue'[n] = Append(queue[n], e)
    BY <1>0, <1>1, <1>11 DEF Deliver, Worker, worker
  <2>2. e \in Events
    BY <1>0, <1>1 DEF Event, Events
  <2>3. Holds(queue[n], "Add") => Holds(Append(queue[n], e), "Add")
    <3> HIDE DEF e
    <3> QED
      BY <1>0, <1>1, <2>2, HoldsAppend
  <2> QED
    BY <1>2, <1>3, <2>1, <2>3
<1> QED
  BY <1>1, <1>4, <1>5, <1>6, <1>7, <1>8, <1>9, <1>10, <1>11, LocalStep DEF Acts

\* The invariants of the founders hold in every reachable state.
LEMMA FoundersHold ==
  Spec => [](TypeInv /\ ClusterInv /\ ObjectInv /\ FoundersInv /\ ListInv /\ ServedInv)
<1>1. Init => FoundersInv /\ ListInv /\ ServedInv
  BY DEF Init, MeshInit, FoundersInv, ListInv, ServedInv
<1> QED
  BY <1>1, TypeInvHolds, ObjectInvHolds, FoundersStep, ListStep, ServedStep, PTL DEF Spec

\* FoundersServed: whichever daemon creates the object, whatever nodes are added and
\* whichever daemons die meanwhile: once every daemon has done what there is to do,
\* each node that was there when the first daemon listed the nodes is in the object
\* with its VTEP, unless users changed the list or its daemon gave up.
THEOREM FoundersJoin == Spec => []FoundersServed
<1>1. ASSUME TypeInv, ClusterInv, ObjectInv, FoundersInv, ServedInv PROVE FoundersServed
  <2> SUFFICES ASSUME Quiet, changes = 0, NEW n \in founders, n \notin failed
               PROVE  n \in Members /\ Published(n) # Unset
    BY DEF FoundersServed
  <2>1. n \in cluster /\ n \in Nodes /\ NamesApart(Current)
    BY <1>1, TypeParts, CurrentApart DEF FoundersInv, OthersOK, ObjectInv
  <2>2. pc[n] = "idle" /\ queue[n] = <<>> /\ Worker(n)
    BY <2>1 DEF Quiet, Worker, WorkerLabels
  <2>3. PICK i \in DOMAIN Current : Current[i].name = n /\ Current[i].vtep # Unset
    BY <1>1, <2>2 DEF ServedInv, Holds, Served
  <2>4. Has(Current, n)
    BY <2>3 DEF Has
  <2>5. Index(Current, n) = i
    BY <2>1, <2>3, <2>4, IndexFacts DEF NamesApart
  <2> QED
    BY <2>1, <2>3, <2>4, <2>5 DEF Members, Published
<1> QED
  BY <1>1, FoundersHold, PTL

=============================================================================
