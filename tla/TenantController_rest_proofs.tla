-------------------- MODULE TenantController_rest_proofs --------------------
(***************************************************************************)
(* TenantController at rest: every change of the Tenant objects has been     *)
(* worked on, whatever was late, merged or out of order, for every finite    *)
(* set of tenants, every list of subnets, any number of changes and faults.  *)
(***************************************************************************)
EXTENDS TenantController_type_proofs

-----------------------------------------------------------------------------
(* What the lister has, and what it will have.                             *)

\* The versions of t's object from the lister's on: the lister's is at 0, a change
\* that is on its way where it is in the watch.
Points(t) == {0} \cup {i \in DOMAIN watch : watch[i].tenant = t}
At(t, i)  == IF i = 0 THEN cache[t] ELSE watch[i].obj

Newest(t, i) == \A j \in Points(t) : j <= i

\* An object that is not there has no nodes.
Whole(o) == ~o.exists => o = Absent

\* The last version is the API server's.
VersionInv(t) ==
  /\ \A i \in Points(t) : Whole(At(t, i))
  /\ \E i \in Points(t) : Newest(t, i) /\ At(t, i) = api[t]

\* What users removed does not come back.
GoneInv(t) ==
  /\ \A i \in Points(t) : i # 0 /\ ~At(t, i).exists => Newest(t, i) /\ <<t, "object">> \in removed
  /\ <<t, "object">> \in removed => ~api[t].exists
  /\ <<t, "peer">> \in removed =>
       ~Has(api[t], "peer") /\ (api[t].exists \/ <<t, "object">> \in removed)

\* The index of this node in o is that in the object, or will not be used for another
\* node's entry.
Follows(t, o) ==
  IF Has(api[t], "peer")
    THEN Index(api[t], "me") = IF Has(o, "peer") THEN Index(o, "me") ELSE 1
    ELSE Has(o, "peer") => <<t, "peer">> \in removed

\* This node is in t in all versions from the one at i on.
StaysFrom(t, i) == \A j \in Points(t) : i <= j => Here(At(t, j))
Steady(t) == StaysFrom(t, 0)

OrderInv(t) == \A i \in Points(t) : StaysFrom(t, i) => Follows(t, At(t, i))

WorldInv == \A t \in Tenants : VersionInv(t) /\ GoneInv(t) /\ OrderInv(t)

\* The types of what has been defined.
LEMMA PointTypes ==
  ASSUME WorldTypes, NEW t \in Tenants
  PROVE  /\ 0 \in Points(t) /\ Points(t) \subseteq 0 .. Len(watch) /\ Len(watch) \in Nat
         /\ \A i \in Points(t) : i \in Nat /\ At(t, i) \in Objects
         /\ api[t] \in Objects /\ cache[t] \in Objects
<1>1. /\ Len(watch) \in Nat /\ DOMAIN watch = 1 .. Len(watch)
      /\ \A i \in DOMAIN watch : watch[i].obj \in Objects
  BY QueueTypes
<1>2. api[t] \in Objects /\ cache[t] \in Objects
  BY DEF WorldTypes
<1> QED
  BY <1>1, <1>2 DEF Points, At

\* Versions that were not lost keep what they promise: f leads to them from the ones
\* left.
Leads(t, f) ==
  /\ \A i \in Points(t)' : f[i] \in Points(t) /\ At(t, i)' = At(t, f[i])
  /\ \A i, j \in Points(t)' : (i <= j <=> f[i] <= f[j]) /\ (i # 0 => f[i] # 0)
  /\ \A k \in Points(t) : f[0] <= k => \E i \in Points(t)' : f[i] = k
  /\ api'[t] = api[t] /\ \A x : <<t, x>> \in removed' <=> <<t, x>> \in removed

LEMMA StaysLeads ==
  ASSUME NEW t \in Tenants, NEW f, Leads(t, f), WorldTypes, WorldTypes', NEW i \in Points(t)'
  PROVE  StaysFrom(t, i)' <=> StaysFrom(t, f[i])
<1>1. \A k \in Points(t)' : f[k] \in Points(t) /\ At(t, k)' = At(t, f[k])
  BY DEF Leads
<1>2. 0 \in Points(t)' /\ \A k \in Points(t)' : k \in Nat /\ 0 <= k
  <2>1. DOMAIN watch' \subseteq Nat
    BY DEF WorldTypes
  <2> QED
    BY <2>1 DEF Points
<1>3. \A k \in Points(t) : f[i] <= k => f[0] <= k
  <2>1. f[0] <= f[i]
    BY <1>1, <1>2 DEF Leads
  <2>2. \A k \in Points(t) : k \in Nat
    BY PointTypes
  <2> QED
    BY <1>1, <1>2, <2>1, <2>2
<1>4. StaysFrom(t, i)' <=> \A j \in Points(t)' : i <= j => Here(At(t, j)')
  BY DEF StaysFrom, Here, Has
<1>5. \A k \in Points(t) : f[i] <= k => \E j \in Points(t)' : i <= j /\ f[j] = k
  BY <1>3 DEF Leads
<1>6. \A j \in Points(t)' : i <= j => f[i] <= f[j]
  BY DEF Leads
<1> QED
  BY <1>1, <1>4, <1>5, <1>6 DEF StaysFrom

LEMMA WorldLeads ==
  ASSUME NEW t \in Tenants, NEW f, Leads(t, f), WorldTypes, WorldTypes',
         VersionInv(t), GoneInv(t), OrderInv(t)
  PROVE  VersionInv(t)' /\ GoneInv(t)' /\ OrderInv(t)'
<1>1. /\ \A i \in Points(t)' : f[i] \in Points(t) /\ At(t, i)' = At(t, f[i])
      /\ 0 \in Points(t)'
      /\ api'[t] = api[t] /\ \A x : <<t, x>> \in removed' <=> <<t, x>> \in removed
  BY DEF Leads, Points
<1>2. \A i \in Points(t)' : Newest(t, f[i]) => Newest(t, i)'
  BY <1>1 DEF Leads, Newest
<1>3. \A k \in Points(t) : Newest(t, k) => \E i \in Points(t)' : f[i] = k
  BY <1>1 DEF Leads, Newest
<1>4. VersionInv(t)'
  BY <1>1, <1>2, <1>3 DEF VersionInv, Whole
<1>5. GoneInv(t)'
  BY <1>1, <1>2 DEF GoneInv, Leads, Has
<1>6. OrderInv(t)'
  <2>1. \A i \in Points(t)' : Follows(t, At(t, i))' <=> Follows(t, At(t, f[i]))
    BY <1>1 DEF Follows
  <2> QED
    BY <1>1, <2>1, StaysLeads DEF OrderInv
<1> QED
  BY <1>4, <1>5, <1>6

\* A new list: the lister has what the API server has.
LEMMA LeadsListed ==
  ASSUME NEW t \in Tenants, WorldTypes, VersionInv(t),
         watch' = <<>>, cache' = api, UNCHANGED <<api, removed>>
  PROVE  \E f : Leads(t, f)
<1>1. PICK k \in Points(t) : Newest(t, k) /\ At(t, k) = api[t]
  BY DEF VersionInv
<1>2. Points(t)' = {0} /\ At(t, 0)' = api[t]
  BY DEF Points, At
<1>3. k \in Nat /\ \A j \in Points(t) : j \in Nat
  BY PointTypes
<1> DEFINE f == [n \in {0} |-> k]
<1>4. f[0] = k
  OBVIOUS
<1> HIDE DEF f
<1>5. Leads(t, f)
  BY <1>1, <1>2, <1>3, <1>4 DEF Leads, Newest
<1> QED
  BY <1>5

\* The watch delivers its first change.
LEMMA LeadsDelivered ==
  ASSUME NEW t \in Tenants, WorldTypes, Deliver
  PROVE  \E f : /\ Leads(t, f)
                /\ \A k \in Points(t) : k = 0 \/ \E i \in Points(t)' : f[i] = k
                /\ IF Head(watch).tenant = t THEN f[0] = 1 /\ 1 \in Points(t) ELSE f[0] = 0
<1>1. /\ watch # <<>> /\ watch' = Tail(watch) /\ UNCHANGED <<api, removed>>
      /\ cache' = [cache EXCEPT ![Head(watch).tenant] = Head(watch).obj]
  BY DEF Deliver, bounds
<1>2. /\ Len(watch) \in Nat /\ Len(watch) >= 1 /\ DOMAIN watch = 1 .. Len(watch)
      /\ Head(watch) = watch[1] /\ DOMAIN watch' = 1 .. Len(watch) - 1
      /\ \A i \in 1 .. Len(watch) - 1 : watch'[i] = watch[i + 1]
  BY <1>1 DEF WorldTypes
<1>3. watch[1].tenant \in Tenants /\ watch[1].obj \in Objects /\ cache \in [Tenants -> Objects]
  BY <1>2, QueueTypes DEF WorldTypes
<1> DEFINE S == {i \in DOMAIN watch : watch[i].tenant = t}
           R == {i \in DOMAIN watch' : watch'[i].tenant = t}
<1>4. \A i \in R : i \in Nat /\ i >= 1 /\ i + 1 \in S /\ watch'[i] = watch[i + 1]
  BY <1>2
<1>5. \A k \in S : k \in Nat /\ k >= 1 /\ (k # 1 => k - 1 \in R)
  BY <1>2
<1>6. Points(t) = {0} \cup S /\ Points(t)' = {0} \cup R
  BY DEF Points
<1>7. \A i \in R : At(t, i)' = At(t, i + 1)
  BY <1>4 DEF At
<1>8. cache'[t] = IF 1 \in S THEN At(t, 1) ELSE At(t, 0)
  BY <1>1, <1>2, <1>3 DEF At
<1>9. At(t, 0)' = cache'[t]
  BY DEF At
<1>12. 1 \in S <=> Head(watch).tenant = t
  BY <1>2
<1> HIDE DEF S, R
<1>10. CASE 1 \in S
  <2> DEFINE f == [n \in Nat |-> n + 1]
  <2>1. \A n \in Nat : f[n] = n + 1
    OBVIOUS
  <2> HIDE DEF f
  <2>2. \A i \in Points(t)' : i \in Nat /\ f[i] = i + 1 /\ f[i] \in S /\ At(t, i)' = At(t, f[i])
    BY <1>4, <1>6, <1>7, <1>8, <1>9, <1>10, <2>1
  <2>3. \A k \in Points(t) : k = 0 \/ \E i \in Points(t)' : f[i] = k
    <3> SUFFICES ASSUME NEW k \in S PROVE \E i \in Points(t)' : f[i] = k
      BY <1>6
    <3>1. k - 1 \in Points(t)' /\ k - 1 \in Nat
      BY <1>5, <1>6
    <3>2. f[k - 1] = k
      BY <1>5, <2>1, <3>1
    <3> QED
      BY <3>1, <3>2
  <2>4. f[0] = 1
    BY <2>1
  <2>5. Leads(t, f)
    BY <1>1, <1>6, <2>2, <2>3, <2>4 DEF Leads
  <2> QED
    BY <1>6, <1>10, <1>12, <2>3, <2>4, <2>5
<1>11. CASE 1 \notin S
  <2> DEFINE f == [n \in Nat |-> IF n = 0 THEN 0 ELSE n + 1]
  <2>1. f[0] = 0 /\ \A n \in Nat : n >= 1 => f[n] = n + 1
    OBVIOUS
  <2> HIDE DEF f
  <2>2. \A i \in R : i \in Nat /\ i >= 1 /\ f[i] = i + 1 /\ f[i] \in S /\ At(t, i)' = At(t, f[i])
    BY <1>4, <1>7, <2>1
  <2>3. \A k \in S : \E i \in R : f[i] = k
    <3> SUFFICES ASSUME NEW k \in S PROVE \E i \in R : f[i] = k
      OBVIOUS
    <3>1. k - 1 \in R /\ k - 1 \in Nat /\ k - 1 >= 1
      BY <1>4, <1>5, <1>11
    <3>2. f[k - 1] = k
      BY <1>5, <2>1, <3>1
    <3> QED
      BY <3>1, <3>2
  <2>4. \A k \in Points(t) : \E i \in Points(t)' : f[i] = k
    BY <1>6, <2>1, <2>3
  <2>5. \A i, j \in Points(t)' : (i <= j <=> f[i] <= f[j]) /\ (i # 0 => f[i] # 0)
    BY <1>6, <2>1, <2>2
  <2>6. Leads(t, f)
    BY <1>1, <1>6, <1>8, <1>9, <1>11, <2>1, <2>2, <2>4, <2>5 DEF Leads
  <2> QED
    BY <1>11, <1>12, <2>1, <2>4, <2>6
<1> QED
  BY <1>10, <1>11

\* A change is put into the API server: one more version.
LEMMA PutPoints ==
  ASSUME WorldTypes, NEW t \in Tenants, NEW n \in Objects, NEW m \in BOOLEAN, Put(t, n, m),
         NEW u \in Tenants, NEW k, k = Len(watch) + 1
  PROVE  /\ Points(u)' = IF u = t THEN Points(u) \cup {k} ELSE Points(u)
         /\ \A i \in Points(u) : At(u, i)' = At(u, i) /\ i < k
         /\ At(t, k)' = n /\ api'[t] = n /\ (u # t => api'[u] = api[u])
         /\ NewMac(u)' <=> NewMac(u) \/ (u = t /\ m)
<1> DEFINE w == [tenant |-> t, obj |-> n, mac |-> m]
<1>1. /\ watch' = Append(watch, w) /\ api' = [api EXCEPT ![t] = n] /\ cache' = cache
      /\ w.tenant = t /\ w.obj = n /\ w.mac = m
  BY DEF Put
<1>2. /\ Len(watch) \in Nat /\ DOMAIN watch = 1 .. Len(watch)
      /\ DOMAIN watch' = 1 .. k /\ watch'[k] = w
      /\ \A i \in 1 .. Len(watch) : watch'[i] = watch[i]
  <2> HIDE DEF w
  <2>1. watch \in Seq([tenant : Tenants, obj : Objects, mac : BOOLEAN])
    BY DEF WorldTypes
  <2> QED
    BY <1>1, <2>1
<1>3. \A i : i \in DOMAIN watch' <=> i \in DOMAIN watch \/ i = k
  BY <1>2
<1>4. k # 0 /\ k \notin DOMAIN watch /\ \A i \in DOMAIN watch : i # 0 /\ i <= Len(watch)
  BY <1>2
<1> HIDE DEF w
<1>5. Points(u)' = IF u = t THEN Points(u) \cup {k} ELSE Points(u)
  BY <1>1, <1>2, <1>3, <1>4 DEF Points
<1>6. \A i \in Points(u) : At(u, i)' = At(u, i) /\ i < k
  BY <1>1, <1>2, <1>4 DEF Points, At
<1>7. At(t, k)' = n
  BY <1>1, <1>2, <1>4 DEF At
<1>8. api'[t] = n /\ (u # t => api'[u] = api[u])
  BY <1>1 DEF WorldTypes
<1>9. NewMac(u)' <=> NewMac(u) \/ (u = t /\ m)
  BY <1>1, <1>2, <1>3 DEF NewMac
<1> QED
  BY <1>5, <1>6, <1>7, <1>8, <1>9

\* Everything is what it was.
LEMMA LeadsSame ==
  ASSUME NEW t \in Tenants, Points(t)' = Points(t), \A i \in Points(t) : At(t, i)' = At(t, i),
         WorldTypes, api'[t] = api[t], \A x : <<t, x>> \in removed' <=> <<t, x>> \in removed
  PROVE  \E f : Leads(t, f)
<1> DEFINE f == [n \in Nat |-> n]
<1>1. \A n \in Nat : f[n] = n
  OBVIOUS
<1> HIDE DEF f
<1>2. \A i \in Points(t) : i \in Nat /\ f[i] = i
  BY <1>1, PointTypes
<1>3. Leads(t, f)
  BY <1>2 DEF Leads
<1> QED
  BY <1>3

\* What a change does to the object, whoever makes it.
Evolves(t) ==
  /\ Whole(api'[t])
  /\ <<t, "object">> \notin removed
  /\ <<t, "object">> \in removed' <=> ~api'[t].exists
  /\ <<t, "peer">> \in removed' =>
       ~Has(api'[t], "peer") /\ (api'[t].exists \/ <<t, "object">> \in removed')
  /\ \A u, x : u # t => (<<u, x>> \in removed' <=> <<u, x>> \in removed)
  /\ Here(api[t]) /\ Here(api'[t]) => \A o \in Objects : Follows(t, o) => Follows(t, o)'

LEMMA WorldPut ==
  ASSUME WorldTypes, WorldTypes', NEW t \in Tenants, NEW n \in Objects, NEW m \in BOOLEAN,
         Put(t, n, m), Evolves(t), NEW u \in Tenants,
         VersionInv(u), GoneInv(u), OrderInv(u)
  PROVE  VersionInv(u)' /\ GoneInv(u)' /\ OrderInv(u)'
<1>0. PICK k : k = Len(watch) + 1
  OBVIOUS
<1>1. /\ Points(u)' = IF u = t THEN Points(u) \cup {k} ELSE Points(u)
      /\ \A i \in Points(u) : At(u, i)' = At(u, i) /\ i < k
      /\ At(t, k)' = n /\ api'[t] = n /\ (u # t => api'[u] = api[u])
  BY <1>0, PutPoints
<1>2. CASE u # t
  <2>1. \A x : <<u, x>> \in removed' <=> <<u, x>> \in removed
    BY <1>2 DEF Evolves
  <2>2. \E f : Leads(u, f)
    BY <1>1, <1>2, <2>1, LeadsSame
  <2> QED
    BY <2>2, WorldLeads
<1>3. CASE u = t
  <2>1. \A i \in Points(t) : i \in Nat /\ At(t, i) \in Objects
    BY PointTypes
  <2>2. k \in Nat /\ 0 \in Points(t)
    BY <1>0, PointTypes
  <2>3. Newest(t, k)'
    BY <1>1, <1>3, <2>1, <2>2 DEF Newest
  <2>4. VersionInv(t)'
    BY <1>1, <1>3, <2>3 DEF VersionInv, Evolves, Whole
  <2>5. \A i \in Points(t) : i # 0 => At(t, i).exists
    BY <1>3 DEF GoneInv, Evolves
  <2>6. GoneInv(t)'
    BY <1>1, <1>3, <2>3, <2>5 DEF GoneInv, Evolves
  <2>7. Follows(t, n)'
    BY <1>1 DEF Follows
  <2>8. ASSUME NEW i \in Points(t), StaysFrom(t, i)' PROVE Follows(t, At(t, i))'
    <3>1. \A j \in Points(t) : i <= j => Here(At(t, j))
      BY <1>1, <1>3, <2>8 DEF StaysFrom
    <3>2. Follows(t, At(t, i))
      BY <1>3, <3>1 DEF OrderInv, StaysFrom
    <3>3. Here(n)
      BY <1>1, <1>3, <2>1, <2>2, <2>8 DEF StaysFrom
    <3>4. Here(api[t])
      BY <1>3, <3>1 DEF VersionInv, Newest
    <3> QED
      BY <1>1, <1>3, <2>1, <3>2, <3>3, <3>4 DEF Evolves
  <2>9. OrderInv(t)'
    BY <1>1, <1>3, <2>7, <2>8 DEF OrderInv
  <2> QED
    BY <1>3, <2>4, <2>6, <2>9
<1> QED
  BY <1>2, <1>3

\* The VTEP that this node has in o, and whether the other one has published its own.
MyVtep(o) == o.nodes[Index(o, "me")].vtep
PeerIn(o) == Has(o, "peer") /\ o.nodes[Index(o, "peer")].vtep = Remote

\* What only this node writes, and what only the other one does.
Spares(t) ==
  LET o == api[t]
      n == api'[t]
  IN
  Here(o) /\ Here(n) =>
    /\ MyVtep(n) = MyVtep(o)
    /\ PeerIn(o) /\ Has(n, "peer") => PeerIn(n)
    /\ ~Has(o, "peer") /\ Has(n, "peer") => <<t, "peer">> \notin removed /\ ~Initialised(n)
    /\ Initialised(n) => n.nodes = o.nodes \/ (~PeerIn(o) /\ PeerIn(n))

UserChange(t) ==
  \/ Create(t) \/ Join(t, "me") \/ Join(t, "peer") \/ Leave(t, "me") \/ Leave(t, "peer")
  \/ PeerPublishes(t) \/ Edit(t) \/ RemoveObject(t)

\* An object that does exist has not been removed.
LEMMA Unremoved ==
  ASSUME NEW t \in Tenants, GoneInv(t), VersionInv(t)
  PROVE  /\ api[t].exists => <<t, "object">> \notin removed
         /\ ~api[t].exists => api[t] = Absent
         /\ Has(api[t], "peer") => <<t, "peer">> \notin removed
         /\ \A x : Has(api[t], x) => api[t].exists
<1>1. ~api[t].exists => api[t] = Absent
  BY DEF VersionInv, Whole
<1>2. \A x : ~Has(Absent, x)
  BY DEF Absent, Has
<1> QED
  BY <1>1, <1>2 DEF GoneInv

\* A change in which no list of nodes changes but in VTEPs.
LEMMA SamePlaces ==
  ASSUME NEW t \in Tenants, NEW n, api' = [api EXCEPT ![t] = n], WorldTypes,
         VersionInv(t), GoneInv(t), api[t].exists, UNCHANGED removed, n.exists,
         \A y : Has(n, y) <=> Has(api[t], y),
         \A y : Has(api[t], y) => Index(n, y) = Index(api[t], y)
  PROVE  Evolves(t)
<1>1. api'[t] = n
  BY DEF WorldTypes
<1>2. <<t, "object">> \notin removed
  BY Unremoved
<1>3. <<t, "peer">> \in removed => ~Has(n, "peer")
  BY DEF GoneInv
<1>4. Here(api[t]) => \A o : Follows(t, o) => Follows(t, o)'
  BY <1>1 DEF Follows, Here
<1> QED
  BY <1>1, <1>2, <1>3, <1>4 DEF Evolves, Whole

LEMMA CreateEvolves ==
  ASSUME NEW t \in Tenants, WorldTypes, VersionInv(t), GoneInv(t), ~Recreates, Create(t)
  PROVE  Evolves(t) /\ Spares(t)
<1>1. ~api[t].exists /\ <<t, "object">> \notin removed /\ UNCHANGED removed
  BY DEF Create
<1>2. PICK l : api' = [api EXCEPT ![t] = [Absent EXCEPT !.exists = TRUE, !.nodes = l]]
  BY DEF Create, Change, Put
<1>3. api'[t].exists
  BY <1>2 DEF WorldTypes, Absent
<1>4. ~Here(api[t])
  BY <1>1, Unremoved DEF Here
<1>5. <<t, "peer">> \notin removed
  BY <1>1 DEF GoneInv
<1> QED
  BY <1>1, <1>3, <1>4, <1>5 DEF Evolves, Spares, Whole

LEMMA JoinEvolves ==
  ASSUME NEW t \in Tenants, WorldTypes, VersionInv(t), GoneInv(t), ~Recreates,
         NEW x \in {"me", "peer"}, Join(t, x)
  PROVE  Evolves(t) /\ Spares(t)
<1> DEFINE o == api[t]
           n == [o EXCEPT !.nodes = Append(@, Listed(x))]
<1>1. /\ o.exists /\ ~Has(o, x) /\ (x = "me" \/ <<t, x>> \notin removed)
      /\ api' = [api EXCEPT ![t] = n] /\ UNCHANGED removed /\ o \in Objects
  BY DEF Join, Change, Put, WorldTypes
<1>2. /\ n \in Objects /\ n.exists = o.exists
      /\ \A y : Has(n, y) <=> Has(o, y) \/ y = x
      /\ \A y : Has(o, y) => /\ Index(n, y) = Index(o, y)
                             /\ n.nodes[Index(n, y)] = o.nodes[Index(o, y)]
      /\ n.nodes[Index(n, x)] = Listed(x)
  BY <1>1, Joined
<1>3. api'[t] = n
  BY <1>1 DEF WorldTypes
<1> HIDE DEF n
<1>4. <<t, "object">> \notin removed
  BY <1>1, Unremoved
<1>5. <<t, "peer">> \in removed => ~Has(n, "peer")
  BY <1>1, <1>2 DEF GoneInv
<1>6. CASE x = "me"
  BY <1>1, <1>2, <1>3, <1>4, <1>5, <1>6 DEF Evolves, Spares, Whole, Here
<1>7. CASE x = "peer" /\ Here(o)
  <2>1. Index(n, "me") = 1
    BY <1>1, <1>2, <1>7, Alone DEF Here
  <2>2. \A v : Follows(t, v) => Follows(t, v)'
    BY <1>1, <1>2, <1>3, <1>7, <2>1 DEF Follows
  <2>3. Evolves(t)
    BY <1>1, <1>2, <1>3, <1>4, <1>5, <2>2 DEF Evolves, Whole
  <2>4. n.nodes[Index(n, "peer")].vtep = None /\ ~Initialised(n)
    BY <1>2, <1>7 DEF Listed, Initialised
  <2>5. MyVtep(n) = MyVtep(o)
    BY <1>2, <1>7 DEF MyVtep, Here
  <2>6. ~PeerIn(o)
    BY <1>1, <1>7 DEF PeerIn
  <2> QED
    BY <1>1, <1>3, <1>7, <2>3, <2>4, <2>5, <2>6 DEF Spares
<1>8. CASE x = "peer" /\ ~Here(o)
  BY <1>1, <1>2, <1>3, <1>4, <1>5, <1>8 DEF Evolves, Spares, Whole
<1> QED
  BY <1>6, <1>7, <1>8

LEMMA LeaveEvolves ==
  ASSUME NEW t \in Tenants, WorldTypes, VersionInv(t), GoneInv(t),
         NEW x \in {"me", "peer"}, Leave(t, x)
  PROVE  Evolves(t) /\ Spares(t)
<1> DEFINE o == api[t]
           n == [o EXCEPT !.nodes = RemoveAt(@, Index(o, x))]
<1>1. /\ Has(o, x) /\ o \in Objects /\ removed' = removed \cup {<<t, x>>}
      /\ api' = [api EXCEPT ![t] = n]
  BY DEF Leave, Change, Put, WorldTypes
<1>2. /\ n \in Objects /\ n.exists = o.exists
      /\ \A y : Has(n, y) <=> Has(o, y) /\ y # x
      /\ \A y : Has(n, y) => n.nodes[Index(n, y)] = o.nodes[Index(o, y)]
  BY <1>1, Left
<1>3. api'[t] = n
  BY <1>1 DEF WorldTypes
<1> HIDE DEF n
<1>4. o.exists /\ <<t, "object">> \notin removed
  BY <1>1, Unremoved
<1>5. <<t, "peer">> \in removed' => ~Has(n, "peer")
  BY <1>1, <1>2 DEF GoneInv
<1>6. \A u, y : u # t => (<<u, y>> \in removed' <=> <<u, y>> \in removed)
  BY <1>1
<1>7. <<t, "object">> \notin removed'
  BY <1>1, <1>4
<1>8. CASE x = "me"
  BY <1>1, <1>2, <1>3, <1>4, <1>5, <1>6, <1>7, <1>8 DEF Evolves, Spares, Whole, Here
<1>9. CASE x = "peer"
  <2>1. ~Has(n, "peer") /\ <<t, "peer">> \in removed'
    BY <1>1, <1>2, <1>9
  <2>2. \A v : Follows(t, v)'
    BY <1>3, <2>1 DEF Follows
  <2>3. Evolves(t)
    BY <1>2, <1>3, <1>4, <1>5, <1>6, <1>7, <2>2 DEF Evolves, Whole
  <2>4. Here(n) => MyVtep(n) = MyVtep(o)
    BY <1>2 DEF MyVtep, Here
  <2> QED
    BY <1>3, <2>1, <2>3, <2>4 DEF Spares, Initialised
<1> QED
  BY <1>8, <1>9

\* Whoever writes a VTEP of its own or takes an edit back.
LEMMA WriteEvolves ==
  ASSUME NEW t \in Tenants, WorldTypes, VersionInv(t), GoneInv(t),
         \/ PeerPublishes(t) \/ Edit(t)
         \/ /\ api[t].exists /\ UNCHANGED removed
            /\ \E b \in BOOLEAN : api' = [api EXCEPT ![t].edited = b]
  PROVE  Evolves(t) /\ Spares(t)
<1>1. api[t] \in Objects
  BY DEF WorldTypes
<1>2. CASE PeerPublishes(t)
  <2> DEFINE o == api[t]
             i == Index(o, "peer")
             n == [o EXCEPT !.nodes[i].vtep = Remote]
  <2>1. /\ Has(o, "peer") /\ o.nodes[i].vtep # Remote /\ UNCHANGED removed
        /\ api' = [api EXCEPT ![t] = n]
    BY <1>2 DEF PeerPublishes, Change, Put
  <2>2. i \in DOMAIN o.nodes /\ o.nodes[i].name = "peer"
    BY <1>1, <2>1, IndexFacts
  <2>3. /\ n \in Objects /\ n.exists = o.exists
        /\ \A y : Has(n, y) <=> Has(o, y)
        /\ \A y : Has(o, y) =>
             /\ Index(n, y) = Index(o, y)
             /\ n.nodes[Index(n, y)].vtep = IF Index(o, y) = i THEN Remote
                                            ELSE o.nodes[Index(o, y)].vtep
    <3>1. n = [o EXCEPT !.nodes[i].vtep = Remote] /\ o \in Objects
      BY <1>1
    <3> HIDE DEF i, n, o
    <3> QED
      BY <2>2, <3>1, Written
  <2>4. api'[t] = n
    BY <2>1 DEF WorldTypes
  <2> HIDE DEF n
  <2>5. Evolves(t)
    BY <2>1, <2>3, Unremoved, SamePlaces
  <2>6. Here(o) => Index(o, "me") # i
    BY <1>1, <2>2, IndexFacts DEF Here
  <2>7. Here(o) => MyVtep(n) = MyVtep(o)
    BY <2>3, <2>6 DEF MyVtep, Here
  <2>8. PeerIn(n) /\ ~PeerIn(o)
    BY <2>1, <2>3 DEF PeerIn
  <2> QED
    BY <2>1, <2>4, <2>5, <2>7, <2>8 DEF Spares
<1>3. ASSUME NEW b \in BOOLEAN, api[t].exists, UNCHANGED removed,
             api' = [api EXCEPT ![t] = [api[t] EXCEPT !.edited = b]]
      PROVE  Evolves(t) /\ Spares(t)
  <2> DEFINE o == api[t]
             n == [o EXCEPT !.edited = b]
  <2>1. n.nodes = o.nodes /\ n.exists = o.exists
    BY <1>1 DEF Objects
  <2>2. api'[t] = n
    BY <1>3 DEF WorldTypes
  <2> HIDE DEF n
  <2>3. /\ \A y : Has(n, y) = Has(o, y) /\ Index(n, y) = Index(o, y)
        /\ Initialised(n) = Initialised(o)
    BY <2>1, NodesDecide
  <2>4. Evolves(t)
    <3>1. api' = [api EXCEPT ![t] = n]
      BY <1>3 DEF n
    <3> QED
      BY <1>3, <2>1, <2>3, <3>1, SamePlaces
  <2>5. MyVtep(n) = MyVtep(o) /\ PeerIn(n) = PeerIn(o)
    BY <2>1, <2>3 DEF MyVtep, PeerIn
  <2> QED
    BY <2>1, <2>2, <2>3, <2>4, <2>5 DEF Spares
<1>4. CASE Edit(t)
  <2>1. api[t].exists /\ UNCHANGED removed /\ api' = [api EXCEPT ![t] = [api[t] EXCEPT !.edited = ~@]]
    BY <1>4 DEF Edit, Change, Put
  <2>2. (~api[t].edited) \in BOOLEAN
    OBVIOUS
  <2> QED
    BY <1>3, <2>1, <2>2
<1>5. CASE /\ api[t].exists /\ UNCHANGED removed
           /\ \E b \in BOOLEAN : api' = [api EXCEPT ![t].edited = b]
  BY <1>3, <1>5
<1> QED
  BY <1>2, <1>4, <1>5

\* What users do.
LEMMA UserEvolves ==
  ASSUME NEW t \in Tenants, WorldTypes, VersionInv(t), GoneInv(t), ~Recreates, UserChange(t)
  PROVE  /\ Evolves(t) /\ Spares(t)
         /\ \E n \in Objects : Put(t, n, FALSE)
         /\ UNCHANGED <<queue, worker, node, stores, devices, ghosts>>
<1>1. PICK n \in Objects : Change(t, n)
  BY UserTypes DEF UserChange
<1>2. CASE RemoveObject(t)
  <2>1. api'[t] = Absent /\ removed' = removed \cup {<<t, "object">>} /\ api[t].exists
    BY <1>2 DEF RemoveObject, Change, Put, WorldTypes
  <2>2. ~Here(Absent) /\ ~Has(Absent, "peer") /\ ~Absent.exists
    BY DEF Absent, Here, Has
  <2>3. <<t, "object">> \in removed' /\ <<t, "object">> \notin removed
    BY <2>1, Unremoved
  <2>4. \A u, x : u # t => (<<u, x>> \in removed' <=> <<u, x>> \in removed)
    BY <2>1
  <2> QED
    BY <1>1, <2>1, <2>2, <2>3, <2>4 DEF Change, Evolves, Spares, Whole
<1> QED
  BY <1>1, <1>2, CreateEvolves, JoinEvolves, LeaveEvolves, WriteEvolves DEF Change, UserChange

\* The lister has the newest version.
LEMMA Seen ==
  ASSUME NEW t \in Tenants, Current(t), VersionInv(t)
  PROVE  Points(t) = {0} /\ cache[t] = api[t]
<1>1. Points(t) = {0}
  BY DEF Current, Points
<1> QED
  BY <1>1 DEF VersionInv, At

\* What Publish and Revert write is a change of the newest version.
LEMMA PublishEvolves ==
  ASSUME TypeInv, QueueInv, WorldInv, Publish, ~UNCHANGED world, ~Restart
  PROVE  LET t == ev.tenant
             i == Index(view, "me")
         IN  /\ t \in Tenants /\ pc' = "vxlan"
             /\ UNCHANGED <<ev, loaded, queue, node, stores, devices, ghosts, bounds>>
             /\ Current(t) /\ i \in DOMAIN api[t].nodes
             /\ \E n \in Objects, m \in BOOLEAN :
                  /\ Put(t, n, m) /\ (t \notin starved => m)
                  /\ n = [api[t] EXCEPT !.nodes[i].vtep = loaded.subnet]
             /\ Evolves(t)
<1> DEFINE t == ev.tenant
           i == Index(view, "me")
           o == cache[t]
<1>1. t \in Tenants
  BY DEF Publish, QueueInv
<1>2. /\ pc' = "vxlan" /\ UNCHANGED <<ev, loaded, queue, node, stores, devices, ghosts, bounds>>
      /\ Current(t) /\ loaded.subnet \in Subnets /\ i \in DOMAIN o.nodes /\ o.exists
      /\ \E m \in BOOLEAN : /\ Put(t, [o EXCEPT !.nodes[i].vtep = loaded.subnet], m)
                            /\ t \notin starved => m
  BY DEF Publish
<1>3. VersionInv(t) /\ GoneInv(t) /\ WorldTypes
  BY <1>1 DEF WorldInv, TypeInv
<1>4. o = api[t] /\ o \in Objects
  BY <1>1, <1>2, <1>3, Seen DEF WorldTypes
<1> DEFINE n == [o EXCEPT !.nodes[i].vtep = loaded.subnet]
<1>5. /\ n \in Objects /\ n.exists = o.exists
      /\ \A y : Has(n, y) <=> Has(o, y)
      /\ \A y : Has(o, y) => Index(n, y) = Index(o, y)
  <2>1. loaded.subnet \in Subnets \cup {None, Remote}
    BY <1>2
  <2>2. n = [o EXCEPT !.nodes[i].vtep = loaded.subnet]
    OBVIOUS
  <2>3. o \in Objects /\ i \in DOMAIN o.nodes
    BY <1>2, <1>4
  <2> HIDE DEF n, o, i, t
  <2> QED
    BY <2>1, <2>2, <2>3, Written
<1>6. PICK m \in BOOLEAN : Put(t, n, m) /\ (t \notin starved => m)
  BY <1>2
<1>7. Evolves(t)
  <2> HIDE DEF n, t
  <2>1. api' = [api EXCEPT ![t] = n] /\ UNCHANGED removed
    BY <1>2, <1>6 DEF Put, bounds
  <2> QED
    BY <1>1, <1>2, <1>3, <1>4, <1>5, <2>1, SamePlaces
<1>8. n = [api[t] EXCEPT !.nodes[i].vtep = loaded.subnet]
  BY <1>4
<1> HIDE DEF n, o
<1> QED
  BY <1>1, <1>2, <1>4, <1>5, <1>6, <1>7, <1>8

LEMMA RevertEvolves ==
  ASSUME TypeInv, QueueInv, WorldInv, Revert, ~UNCHANGED world, ~Restart
  PROVE  LET t == ev.tenant
         IN  /\ t \in Tenants /\ UNCHANGED <<queue, node, stores, devices, ghosts, bounds>> /\ Done
             /\ Evolves(t) /\ Spares(t)
             /\ \E n \in Objects : Put(t, n, FALSE)
<1> DEFINE t == ev.tenant
<1>1. t \in Tenants
  BY DEF Revert, QueueInv
<1>2. /\ Current(t) /\ cache[t].exists /\ Done
      /\ UNCHANGED <<queue, node, stores, devices, ghosts, bounds>>
      /\ Put(t, [cache[t] EXCEPT !.edited = loaded.edited], FALSE)
  BY DEF Revert
<1>3. VersionInv(t) /\ GoneInv(t) /\ WorldTypes /\ loaded.edited \in BOOLEAN
  BY <1>1 DEF WorldInv, TypeInv, WorkerTypes, Contents
<1>4. cache[t] = api[t] /\ [api[t] EXCEPT !.edited = loaded.edited] \in Objects
  BY <1>1, <1>2, <1>3, Seen DEF WorldTypes, Objects
<1>5. api' = [api EXCEPT ![t].edited = loaded.edited] /\ UNCHANGED removed
  BY <1>2, <1>4 DEF Put, bounds
<1> HIDE DEF t
<1>6. Evolves(t) /\ Spares(t)
  BY <1>1, <1>2, <1>3, <1>4, <1>5, WriteEvolves
<1>7. \E n \in Objects : Put(t, n, FALSE)
  BY <1>2, <1>4
<1> QED
  BY <1>1, <1>2, <1>6, <1>7 DEF t

\* The lister gets what the API server has.
Relisted == watch' = <<>> /\ cache' = api /\ UNCHANGED <<api, removed>>

LEMMA WorldInvStep ==
  ASSUME TypeInv, WorldTypes', QueueInv, WorldInv, ~Recreates, [Next]_vars
  PROVE  WorldInv'
<1>0. WorldTypes
  BY DEF TypeInv
<1>1. CASE UNCHANGED <<world, removed>>
  <2> SUFFICES ASSUME NEW t \in Tenants PROVE VersionInv(t)' /\ GoneInv(t)' /\ OrderInv(t)'
    BY DEF WorldInv
  <2>1. Points(t)' = Points(t) /\ (\A i \in Points(t) : At(t, i)' = At(t, i)) /\ api'[t] = api[t]
    BY <1>1 DEF world, Points, At
  <2>2. \E f : Leads(t, f)
    BY <1>0, <1>1, <2>1, LeadsSame
  <2> QED
    BY <1>0, <2>2, WorldLeads DEF WorldInv
<1>2. CASE Relisted
  BY <1>0, <1>2, LeadsListed, WorldLeads DEF WorldInv, Relisted
<1>3. CASE Deliver
  BY <1>0, <1>3, LeadsDelivered, WorldLeads DEF WorldInv
<1>4. ASSUME NEW t \in Tenants, NEW n \in Objects, NEW m \in BOOLEAN, Put(t, n, m), Evolves(t)
      PROVE  WorldInv'
  BY <1>0, <1>4, WorldPut DEF WorldInv
<1>5. CASE Restart /\ UNCHANGED removed
  BY <1>2, <1>5 DEF Restart, Relisted
<1>6. CASE Relist
  BY <1>2, <1>6 DEF Relist, Relisted, Fault
<1>7. CASE (Add \/ Update \/ Delete) /\ ~Restart
  BY <1>1, <1>7 DEF Add, Update, Delete, bounds, Fault
<1>8. CASE Publish /\ ~Restart
  <2>1. CASE UNCHANGED world
    BY <1>1, <1>8, <2>1 DEF Publish, Refuses, Fault, bounds
  <2>2. CASE ~UNCHANGED world
    BY <1>4, <1>8, <2>2, PublishEvolves
  <2> QED
    BY <2>1, <2>2
<1>9. CASE Revert /\ ~Restart
  <2>1. CASE UNCHANGED world
    BY <1>1, <1>9, <2>1 DEF Revert, Refuses, Fault, bounds
  <2>2. CASE ~UNCHANGED world
    BY <1>4, <1>9, <2>2, RevertEvolves
  <2> QED
    BY <2>1, <2>2
<1>10. CASE \/ UNCHANGED vars \/ Provision \/ LoadStore \/ (CreateVxlan /\ ~Restart) \/ LabelNode
            \/ UpdateMembership \/ DeleteDevices \/ DeleteStore \/ Reclaim
  BY <1>1, <1>10 DEF vars, Provision, LoadStore, CreateVxlan, LabelNode, UpdateMembership,
                     DeleteDevices, DeleteStore, Reclaim, bounds, Fault
<1>15. CASE InsertRules
  <2>1. UNCHANGED world
    BY <1>15 DEF InsertRules
  <2>2. UNCHANGED removed
    BY <1>15 DEF InsertRules, Fault, bounds
  <2> QED
    BY <1>1, <2>1, <2>2
<1>11. CASE Crash \/ DeleteTombstone
  BY <1>5, <1>11 DEF Crash, DeleteTombstone, Fault, bounds
<1>12. CASE (Add \/ Publish \/ CreateVxlan \/ Update \/ Revert \/ Delete) /\ Restart
  <2>1. CASE Add \/ CreateVxlan \/ Delete
    BY <1>12, <1>5, <2>1 DEF Add, CreateVxlan, Delete, Fault, bounds
  <2>2. CASE Publish \/ Revert
    BY <1>12, <1>5, <2>2 DEF Publish, Revert, Refuses, GiveUp, Fault, bounds
  <2>3. CASE Update
    BY <1>12, <1>5, <2>3 DEF Update, Fault, bounds
  <2> QED
    BY <1>12, <2>1, <2>2, <2>3
<1>13. ASSUME NEW t \in Tenants, UserChange(t) PROVE WorldInv'
  <2>1. VersionInv(t) /\ GoneInv(t)
    BY DEF WorldInv
  <2> QED
    BY <1>0, <1>4, <1>13, <2>1, UserEvolves
<1>14. ASSUME NEW t \in Tenants, PodCommand(t) \/ LateWrite(t) PROVE WorldInv'
  BY <1>1, <1>14 DEF PodCommand, LateWrite, Fault, bounds
<1> QED
  BY <1>3, <1>6, <1>7, <1>8, <1>9, <1>10, <1>11, <1>12, <1>13, <1>14, <1>15 DEF Next, Work, UserChange

-----------------------------------------------------------------------------
(* What the queue still holds.                                             *)

\* The events about t in a queue.
Of(q, t) == {i \in DOMAIN q : q[i].tenant = t}
On(q, t) == {q[i] : i \in Of(q, t)}

\* Events that make this node a member of t, or no longer one.
Gain(e) == e.type = "Add" \/ (e.type = "Update" /\ Here(e.new) /\ ~Here(e.old))
Loss(e) ==
  e.type \in {"Delete", "Tombstone"} \/ (e.type = "Update" /\ Here(e.old) /\ ~Here(e.new))

\* An event takes effect before another one if it is earlier in the queue, and an
\* update always after the others: what it is about is put back at the end.
Direct(e) == e.type # "Update"
Before(q, i, j) ==
  \/ Direct(q[i]) /\ ~Direct(q[j])
  \/ (Direct(q[i]) <=> Direct(q[j])) /\ i < j

Regained(q, t) ==
  \A i \in Of(q, t) : Loss(q[i]) => \E j \in Of(q, t) : Gain(q[j]) /\ Before(q, i, j)

\* While this node is in t, no loss is the last word.
RegainInv(t) == Here(cache[t]) => Regained(queue, t)

\* An object that the lister has not got, with updates still queued, is gone for ever.
LateInv(t) ==
  ~cache[t].exists /\ (\E e \in On(queue, t) : e.type = "Update") =>
    <<t, "object">> \in removed /\ Points(t) = {0}

EventInv == \A t \in Tenants : RegainInv(t) /\ LateInv(t)

\* The first event leaves the queue.
LEMMA TailEvents ==
  ASSUME NEW q \in Seq(Events), q # <<>>, NEW t
  PROVE  /\ Tail(q) \in Seq(Events) /\ Head(q) \in Events
         /\ On(Tail(q), t) \subseteq On(q, t)
         /\ On(q, t) \subseteq On(Tail(q), t) \cup {Head(q)}
         /\ Head(q).tenant # t => On(Tail(q), t) = On(q, t)
         /\ Head(q).tenant = t => Head(q) \in On(q, t)
         /\ Regained(q, t) /\ ~(Head(q).tenant = t /\ Head(q).type = "Update" /\ Gain(Head(q))) =>
              Regained(Tail(q), t)
<1> DEFINE r == Tail(q)
<1>1. /\ Len(q) \in Nat /\ Len(q) >= 1 /\ DOMAIN q = 1 .. Len(q) /\ Head(q) = q[1]
      /\ DOMAIN r = 1 .. Len(q) - 1 /\ \A i \in 1 .. Len(q) - 1 : r[i] = q[i + 1]
      /\ r \in Seq(Events)
  OBVIOUS
<1>2. Head(q) \in Events
  BY <1>1, ElementOf
<1> HIDE DEF r
<1>3. \A i \in Of(r, t) : i \in Nat /\ i >= 1 /\ i + 1 \in Of(q, t) /\ r[i] = q[i + 1]
  BY <1>1 DEF Of
<1>4. \A k \in Of(q, t) : k \in Nat /\ k >= 1 /\ (k # 1 => k - 1 \in Of(r, t) /\ r[k - 1] = q[k])
  BY <1>1 DEF Of
<1>5. On(r, t) \subseteq On(q, t) /\ On(q, t) \subseteq On(r, t) \cup {Head(q)}
  BY <1>1, <1>3, <1>4 DEF On
<1>6. (1 \in Of(q, t)) <=> Head(q).tenant = t
  BY <1>1 DEF Of
<1>7. Head(q).tenant # t => On(q, t) \subseteq On(r, t)
  BY <1>4, <1>6 DEF On
<1>8. Head(q).tenant = t => Head(q) \in On(q, t)
  BY <1>1, <1>6 DEF On
<1>9. ASSUME Regained(q, t), ~(Head(q).tenant = t /\ Head(q).type = "Update" /\ Gain(Head(q)))
      PROVE  Regained(r, t)
  <2> SUFFICES ASSUME NEW i \in Of(r, t), Loss(r[i])
               PROVE  \E j \in Of(r, t) : Gain(r[j]) /\ Before(r, i, j)
    BY DEF Regained
  <2>1. PICK k \in Of(q, t) : Gain(q[k]) /\ Before(q, i + 1, k)
    BY <1>3, <1>9 DEF Regained
  <2>2. k # 1
    <3> SUFFICES ASSUME k = 1 PROVE FALSE
      OBVIOUS
    <3>1. q[k] = Head(q) /\ Head(q).tenant = t
      BY <1>1, <1>6, <2>1
    <3>2. Direct(q[k])
      BY <1>9, <2>1, <3>1 DEF Direct
    <3>3. i + 1 < k
      BY <2>1, <3>2 DEF Before
    <3> QED
      BY <1>3, <3>3
  <2>3. k - 1 \in Of(r, t) /\ r[k - 1] = q[k] /\ r[i] = q[i + 1] /\ k \in Nat /\ i \in Nat
    BY <1>3, <1>4, <2>2
  <2>4. Before(r, i, k - 1)
    BY <2>1, <2>3 DEF Before
  <2> QED
    BY <2>1, <2>3, <2>4
<1> QED
  BY <1>1, <1>2, <1>5, <1>7, <1>8, <1>9 DEF r

\* Events are added at the end of the queue, one of them, e, about t.
Grows(q, r, t, e) ==
  /\ \A i \in Of(q, t) : i \in Of(r, t) /\ r[i] = q[i] /\ i \in Nat
  /\ \A k \in Of(r, t) : k \in Of(q, t) \/ r[k] = e
  /\ \E k \in Of(r, t) : r[k] = e /\ k \in Nat /\ \A i \in Of(q, t) : i < k

\* Nothing happens to those about t.
Stays(q, r, t) == Of(r, t) = Of(q, t) /\ \A i \in Of(q, t) : r[i] = q[i]

LEMMA GrowsOn ==
  ASSUME NEW q, NEW r, NEW t, NEW e, Grows(q, r, t, e)
  PROVE  On(r, t) = On(q, t) \cup {e}
  BY DEF Grows, On

LEMMA StaysOn ==
  ASSUME NEW q, NEW r, NEW t, Stays(q, r, t)
  PROVE  On(r, t) = On(q, t) /\ (Regained(q, t) => Regained(r, t))
<1>1. On(r, t) = On(q, t)
  BY DEF Stays, On
<1>2. ASSUME Regained(q, t) PROVE Regained(r, t)
  BY <1>2 DEF Stays, Regained, Before
<1> QED
  BY <1>1, <1>2

\* A gain at the end of the queue makes up for every loss before it; so does what made
\* up for them if no loss is added.
LEMMA GrowsRegained ==
  ASSUME NEW q, NEW r, NEW t, NEW e, Grows(q, r, t, e), ~Loss(e),
         \/ Regained(q, t)
         \/ Gain(e) /\ (Direct(e) => \A x \in On(q, t) : Loss(x) => Direct(x))
  PROVE  Regained(r, t)
<1> SUFFICES ASSUME NEW i \in Of(r, t), Loss(r[i])
             PROVE  \E j \in Of(r, t) : Gain(r[j]) /\ Before(r, i, j)
  BY DEF Regained
<1>1. i \in Of(q, t) /\ r[i] = q[i] /\ Loss(q[i])
  BY DEF Grows
<1>2. CASE Regained(q, t)
  <2>1. PICK j \in Of(q, t) : Gain(q[j]) /\ Before(q, i, j)
    BY <1>1, <1>2 DEF Regained
  <2>2. j \in Of(r, t) /\ r[j] = q[j]
    BY <2>1 DEF Grows
  <2> QED
    BY <1>1, <2>1, <2>2 DEF Before
<1>3. CASE Gain(e) /\ (Direct(e) => \A x \in On(q, t) : Loss(x) => Direct(x))
  <2>1. PICK k \in Of(r, t) : r[k] = e /\ i < k
    BY <1>1 DEF Grows
  <2>2. Direct(e) => Direct(r[i])
    BY <1>1, <1>3 DEF On
  <2>3. Before(r, i, k)
    BY <2>1, <2>2 DEF Before
  <2> QED
    BY <1>3, <2>1, <2>3
<1> QED
  BY <1>2, <1>3

\* The sequence operations that do so.
LEMMA AppendEvents ==
  ASSUME NEW q \in Seq(Events), NEW e \in Events, NEW t
  PROVE  /\ e.tenant = t => Grows(q, Append(q, e), t, e)
         /\ e.tenant # t => Stays(q, Append(q, e), t)
<1> DEFINE r == Append(q, e)
<1>1. /\ Len(q) \in Nat /\ DOMAIN q = 1 .. Len(q) /\ DOMAIN r = 1 .. Len(q) + 1
      /\ r[Len(q) + 1] = e /\ \A i \in 1 .. Len(q) : r[i] = q[i]
  OBVIOUS
<1> HIDE DEF r
<1>2. \A i : i \in DOMAIN r <=> i \in DOMAIN q \/ i = Len(q) + 1
  BY <1>1
<1>3. \A i \in DOMAIN q : i \in Nat /\ i < Len(q) + 1 /\ r[i] = q[i]
  BY <1>1
<1>4. ASSUME e.tenant = t PROVE Grows(q, r, t, e)
  <2>1. Len(q) + 1 \in Of(r, t) /\ r[Len(q) + 1] = e /\ Len(q) + 1 \in Nat
    BY <1>1, <1>2, <1>4 DEF Of
  <2> QED
    BY <1>2, <1>3, <2>1 DEF Grows, Of
<1>5. ASSUME e.tenant # t PROVE Stays(q, r, t)
  BY <1>1, <1>2, <1>3, <1>5 DEF Stays, Of
<1> QED
  BY <1>4, <1>5 DEF r

\* Many events, those about t once at most.
LEMMA ConcatEvents ==
  ASSUME NEW q \in Seq(Events), NEW r \in Seq(Events), NEW t,
         \A i, j \in Of(r, t) : i = j
  PROVE  /\ \A k \in Of(r, t) : Grows(q, q \o r, t, r[k])
         /\ Of(r, t) = {} => Stays(q, q \o r, t)
<1> DEFINE z == q \o r
<1>1. /\ Len(q) \in Nat /\ Len(r) \in Nat /\ DOMAIN q = 1 .. Len(q) /\ DOMAIN r = 1 .. Len(r)
      /\ DOMAIN z = 1 .. Len(q) + Len(r)
      /\ \A i \in 1 .. Len(q) : z[i] = q[i]
      /\ \A i \in 1 .. Len(q) + Len(r) : i > Len(q) => z[i] = r[i - Len(q)]
  <2>1. z \in Seq(Events) /\ Len(z) = Len(q) + Len(r)
        /\ \A i \in 1 .. Len(q) + Len(r) : z[i] = IF i <= Len(q) THEN q[i] ELSE r[i - Len(q)]
    BY ConcatProperties
  <2> HIDE DEF z
  <2>2. /\ Len(q) \in Nat /\ Len(r) \in Nat /\ DOMAIN q = 1 .. Len(q) /\ DOMAIN r = 1 .. Len(r)
        /\ DOMAIN z = 1 .. Len(z)
    BY <2>1
  <2> QED
    BY <2>1, <2>2
<1> HIDE DEF z
<1>2. \A i \in Of(q, t) : i \in Of(z, t) /\ z[i] = q[i] /\ i \in Nat /\ i <= Len(q)
  BY <1>1 DEF Of
<1>3. \A i \in Of(z, t) : i \in Of(q, t) \/ (i - Len(q) \in Of(r, t) /\ z[i] = r[i - Len(q)])
  BY <1>1 DEF Of
<1>4. \A k \in Of(r, t) : /\ Len(q) + k \in Of(z, t) /\ z[Len(q) + k] = r[k]
                          /\ Len(q) + k \in Nat /\ Len(q) < Len(q) + k
  BY <1>1 DEF Of
<1>5. ASSUME NEW k \in Of(r, t) PROVE Grows(q, z, t, r[k])
  <2>1. \A i \in Of(z, t) : i \in Of(q, t) \/ z[i] = r[k]
    BY <1>3
  <2>2. \A i \in Of(q, t) : i < Len(q) + k
    BY <1>1, <1>2, <1>4
  <2> QED
    BY <1>2, <1>4, <2>1, <2>2 DEF Grows
<1>6. ASSUME Of(r, t) = {} PROVE Stays(q, z, t)
  BY <1>2, <1>3, <1>6 DEF Stays
<1> QED
  BY <1>5, <1>6 DEF z

\* A change of membership is put back at the end, as an Add or a Delete.
LEMMA MembershipEvents ==
  ASSUME NEW q \in Seq(Events), q # <<>>, Head(q).type = "Update",
         Here(Head(q).new) # Here(Head(q).old),
         NEW e \in Events, e.tenant = Head(q).tenant, Direct(e),
         Gain(e) <=> Here(Head(q).new), Loss(e) <=> Here(Head(q).old), NEW t, Regained(q, t)
  PROVE  Regained(Append(Tail(q), e), t)
<1> DEFINE s == Tail(q)
           r == Append(s, e)
<1>1. /\ Len(q) \in Nat /\ Len(q) >= 1 /\ DOMAIN q = 1 .. Len(q) /\ Head(q) = q[1]
      /\ Len(s) = Len(q) - 1 /\ DOMAIN s = 1 .. Len(q) - 1
      /\ \A i \in 1 .. Len(q) - 1 : s[i] = q[i + 1]
      /\ s \in Seq(Events)
  OBVIOUS
<1> HIDE DEF s
<1>2. /\ DOMAIN r = 1 .. Len(q) /\ r[Len(q)] = e
      /\ \A i \in 1 .. Len(q) - 1 : r[i] = q[i + 1]
  <2>1. /\ DOMAIN r = 1 .. Len(s) + 1 /\ r[Len(s) + 1] = e
        /\ \A i \in 1 .. Len(s) : r[i] = s[i]
    <3>1. s \in Seq(Events) /\ e \in Events
      BY <1>1
    <3> QED
      BY <3>1, AppendProperties
  <2>2. Len(s) + 1 = Len(q)
    BY <1>1
  <2> HIDE DEF r
  <2> QED
    BY <1>1, <2>1, <2>2
<1> HIDE DEF r
<1>3. \A i \in Of(r, t) : i \in Nat /\ (i = Len(q) \/ (i < Len(q) /\ i + 1 \in Of(q, t) /\ r[i] = q[i + 1]))
  BY <1>1, <1>2 DEF Of
<1>4. \A k \in Of(q, t) : k \in Nat /\ (k = 1 \/ (k > 1 /\ k - 1 \in Of(r, t) /\ r[k - 1] = q[k]))
  BY <1>1, <1>2 DEF Of
<1>5. e.tenant = t <=> 1 \in Of(q, t)
  BY <1>1 DEF Of
<1>6. Len(q) \in Of(r, t) <=> e.tenant = t
  BY <1>1, <1>2 DEF Of
<1>7. (Gain(q[1]) <=> Gain(e)) /\ (Loss(q[1]) <=> Loss(e)) /\ ~Direct(q[1])
  <2>1. Here(Head(q).new) <=> ~Here(Head(q).old)
    BY DEF Here, Has
  <2> QED
    BY <1>1, <2>1 DEF Gain, Loss, Direct
<1> SUFFICES ASSUME NEW i \in Of(r, t), Loss(r[i])
             PROVE  \E j \in Of(r, t) : Gain(r[j]) /\ Before(r, i, j)
  BY DEF Regained, r, s
<1>8. CASE i = Len(q)
  <2>1. 1 \in Of(q, t) /\ Loss(q[1]) /\ r[i] = e
    BY <1>2, <1>5, <1>6, <1>7, <1>8
  <2>2. PICK k \in Of(q, t) : Gain(q[k]) /\ Before(q, 1, k)
    BY <2>1 DEF Regained
  <2>3. ~Direct(q[k]) /\ k # 1
    BY <1>7, <2>2 DEF Before
  <2>4. k - 1 \in Of(r, t) /\ r[k - 1] = q[k]
    BY <1>4, <2>3
  <2> QED
    BY <2>1, <2>2, <2>3, <2>4 DEF Before
<1>9. CASE i # Len(q)
  <2>1. i \in Nat /\ i < Len(q) /\ i + 1 \in Of(q, t) /\ r[i] = q[i + 1]
    BY <1>3, <1>9
  <2>2. PICK k \in Of(q, t) : Gain(q[k]) /\ Before(q, i + 1, k)
    BY <2>1 DEF Regained
  <2>3. CASE k = 1
    <3>1. Direct(q[i + 1])
      BY <1>7, <2>1, <2>2, <2>3 DEF Before
    <3>2. Len(q) \in Of(r, t) /\ r[Len(q)] = e /\ Gain(e)
      BY <1>2, <1>5, <1>6, <1>7, <2>2, <2>3
    <3>3. Before(r, i, Len(q))
      BY <2>1, <3>1, <3>2 DEF Before
    <3> QED
      BY <3>2, <3>3
  <2>4. CASE k # 1
    <3>1. k \in Nat /\ k - 1 \in Of(r, t) /\ r[k - 1] = q[k]
      BY <1>4, <2>4
    <3>2. Before(r, i, k - 1)
      BY <2>1, <2>2, <3>1 DEF Before
    <3> QED
      BY <2>2, <3>1, <3>2
  <2> QED
    BY <2>3, <2>4
<1> QED
  BY <1>8, <1>9

\* A list of a set has every element of it once.
LEMMA OrdersOnto ==
  ASSUME NEW S, S \subseteq Tenants, NEW s \in Orders(S)
  PROVE  /\ \A x \in S : \E i \in DOMAIN s : s[i] = x
         /\ \A i, j \in DOMAIN s : s[i] = s[j] => i = j
<1> DEFINE n == Cardinality(S)
<1>1. IsFiniteSet(S) /\ n \in Nat /\ DOMAIN s = 1 .. n
  BY OrdersFacts, TenantsAssumption, FS_Subset
<1>2. s \in [1 .. n -> S] /\ \A i, j \in DOMAIN s : s[i] = s[j] => i = j
  BY DEF Orders
<1>3. s \in Injection(1 .. n, S)
  BY <1>1, <1>2 DEF Injection, IsInjective
<1>4. Cardinality(1 .. n) = Cardinality(S)
  BY <1>1, FS_Interval
<1>5. s \in Surjection(1 .. n, S)
  BY <1>1, <1>3, <1>4, FS_Injection
<1> QED
  BY <1>1, <1>2, <1>5 DEF Surjection

\* The next daemon's queue has an Add of every tenant that is there, and no other event.
LEMMA RestartEvents ==
  ASSUME TypeInv, Restart, NEW t \in Tenants
  PROVE  /\ \A e \in On(queue, t)' : e.type = "Add"
         /\ api[t].exists => \E e \in On(queue, t)' : e.type = "Add"
<1> DEFINE S == {u \in Tenants : api[u].exists}
<1>1. PICK s \in Orders(S) :
        queue' = [i \in DOMAIN s |-> Event("Add", s[i], Absent, api[s[i]], FALSE)]
  BY DEF Restart
<1>2. S \subseteq Tenants
  OBVIOUS
<1>3. t \in S <=> api[t].exists
  OBVIOUS
<1> HIDE DEF S
<1>4. /\ DOMAIN queue' = DOMAIN s
      /\ \A i \in DOMAIN s : queue'[i].type = "Add" /\ queue'[i].tenant = s[i]
  BY <1>1 DEF Event
<1>5. t \in S => \E i \in DOMAIN s : s[i] = t
  BY <1>2, OrdersOnto
<1> QED
  BY <1>3, <1>4, <1>5 DEF On, Of

\* What a new list adds to the queue.
Missed(t) == Points(t) # {0} /\ (cache[t] # api[t] \/ NewMac(t))
Merged(t) == Event(Kind(cache[t], api[t], "Tombstone"), t, cache[t], api[t], NewMac(t))

LEMMA RelistEvents ==
  ASSUME TypeInv, Relist, NEW t \in Tenants
  PROVE  /\ Missed(t) => Grows(queue, queue', t, Merged(t))
         /\ ~Missed(t) => Stays(queue, queue', t)
<1> DEFINE S == {u \in Lost : cache[u] # api[u] \/ NewMac(u)}
           k == Cardinality(S)
<1>1. S \subseteq Tenants
  <2>1. \A i \in DOMAIN watch : watch[i].tenant \in Tenants
    BY QueueTypes DEF TypeInv
  <2> QED
    BY <2>1 DEF Lost
<1>2. t \in S <=> Missed(t)
  <2>1. \A i \in DOMAIN watch : i # 0
    BY QueueTypes DEF TypeInv
  <2> QED
    BY <2>1 DEF Lost, Missed, Points
<1>3. PICK s \in Orders(S) : queue' = queue \o [i \in DOMAIN s |-> Merged(s[i])]
  BY DEF Relist, Merged
<1> HIDE DEF S
<1> DEFINE r == [i \in 1 .. k |-> Merged(s[i])]
<1>4. k \in Nat /\ DOMAIN s = 1 .. k /\ \A i \in 1 .. k : s[i] \in S /\ s[i] \in Tenants
  BY <1>1, <1>3, OrdersFacts
<1>5. \A u \in Tenants : Merged(u) \in Events /\ Merged(u).tenant = u
  <2> SUFFICES ASSUME NEW u \in Tenants PROVE Merged(u) \in Events /\ Merged(u).tenant = u
    OBVIOUS
  <2>1. cache[u] \in Objects /\ api[u] \in Objects /\ NewMac(u) \in BOOLEAN
    BY DEF TypeInv, WorldTypes, NewMac
  <2>2. Merged(u) \in Events
    BY <2>1, KindType, EventTypes DEF Merged
  <2> QED
    BY <2>2 DEF Merged, Event
<1>6. \A i \in 1 .. k : r[i] \in Events
  BY <1>4, <1>5
<1>7. r \in Seq(Events) /\ DOMAIN r = 1 .. k
  <2>1. r = [i \in 1 .. k |-> r[i]] /\ DOMAIN r = 1 .. k
    OBVIOUS
  <2> HIDE DEF r, k
  <2> QED
    BY <1>4, <1>6, <2>1, ListOf
<1>8. \A i \in 1 .. k : r[i] = Merged(s[i]) /\ r[i].tenant = s[i]
  BY <1>4, <1>5
<1>9. queue' = queue \o r
  BY <1>3, <1>4
<1> HIDE DEF r, k
<1>10. \A i \in Of(r, t) : i \in DOMAIN s /\ s[i] = t /\ r[i] = Merged(t)
  BY <1>4, <1>7, <1>8 DEF Of
<1>11. \A i, j \in Of(r, t) : i = j
  BY <1>1, <1>3, <1>10, OrdersOnto
<1>12. /\ \A i \in Of(r, t) : Grows(queue, queue', t, r[i])
       /\ Of(r, t) = {} => Stays(queue, queue', t)
  <2>1. queue \in Seq(Events)
    BY DEF TypeInv, WorldTypes
  <2> QED
    BY <1>7, <1>9, <1>11, <2>1, ConcatEvents
<1>13. t \in S => \E i \in Of(r, t) : TRUE
  <2>1. t \in S => \E i \in DOMAIN s : s[i] = t
    BY <1>1, <1>3, OrdersOnto
  <2> QED
    BY <1>4, <1>7, <1>8, <2>1 DEF Of
<1>14. t \notin S => Of(r, t) = {}
  BY <1>4, <1>10
<1> QED
  BY <1>2, <1>10, <1>12, <1>13, <1>14

\* Steps that leave the lister's object alone.
LEMMA EventKept ==
  ASSUME NEW t \in Tenants, RegainInv(t), LateInv(t), cache'[t] = cache[t],
         Regained(queue, t) => Regained(queue', t),
         \A e \in On(queue', t) : e.type = "Update" => e \in On(queue, t),
         <<t, "object">> \in removed /\ Points(t) = {0} =>
           <<t, "object">> \in removed' /\ Points(t)' = {0}
  PROVE  RegainInv(t)' /\ LateInv(t)'
<1>1. RegainInv(t)'
  BY DEF RegainInv
<1>2. LateInv(t)'
  BY DEF LateInv
<1> QED
  BY <1>1, <1>2

\* The event of a change that is delivered or merged, and what it says of this node.
LEMMA KindFacts ==
  ASSUME NEW t, NEW o \in Objects, NEW n \in Objects, NEW g \in {"Delete", "Tombstone"}, NEW m,
         Whole(o), Whole(n),
         NEW e, e = Event(Kind(o, n, g), t, o, n, m)
  PROVE  /\ e.tenant = t /\ e.old = o /\ e.new = n /\ e.mac = m
         /\ e.type = IF ~o.exists THEN "Add" ELSE IF ~n.exists THEN g ELSE "Update"
         /\ Here(n) => ~Loss(e) /\ (~Here(o) => Gain(e)) /\ (Here(o) => e.type = "Update" /\ ~Gain(e))
<1>1. ~Here(Absent)
  BY AbsentTypes
<1>2. (Here(n) => n.exists) /\ (Here(o) => o.exists)
  BY <1>1 DEF Whole
<1>3. /\ e.type = Kind(o, n, g) /\ e.tenant = t /\ e.old = o /\ e.new = n /\ e.mac = m
  BY DEF Event
<1>4. Kind(o, n, g) = IF ~o.exists THEN "Add" ELSE IF ~n.exists THEN g ELSE "Update"
  BY DEF Kind, Objects
<1> QED
  BY <1>2, <1>3, <1>4 DEF Gain, Loss

LEMMA DeliverEvents ==
  ASSUME TypeInv, WorldTypes', QueueInv, WorldInv, EventInv, Deliver, NEW t \in Tenants
  PROVE  RegainInv(t)' /\ LateInv(t)'
<1> DEFINE h == Head(watch)
           e == Event(Kind(cache[h.tenant], h.obj, "Delete"), h.tenant, cache[h.tenant], h.obj, h.mac)
<1>1. /\ watch # <<>> /\ queue' = Append(queue, e) /\ UNCHANGED <<api, removed>>
      /\ cache' = [cache EXCEPT ![h.tenant] = h.obj]
  BY DEF Deliver, bounds
<1>2. /\ VersionInv(t) /\ GoneInv(t) /\ RegainInv(t) /\ LateInv(t) /\ WorldTypes
      /\ queue \in Seq(Events) /\ cache \in [Tenants -> Objects]
  BY DEF WorldInv, EventInv, TypeInv, WorldTypes
<1>3. PICK f : /\ Leads(t, f)
               /\ IF Head(watch).tenant = t THEN f[0] = 1 /\ 1 \in Points(t) ELSE f[0] = 0
  BY <1>2, LeadsDelivered
<1>4. \A i \in Points(t)' : f[i] \in Points(t) /\ At(t, i)' = At(t, f[i]) /\ (i # 0 => f[i] # 0)
  BY <1>3 DEF Leads
<1>5. h \in [tenant : Tenants, obj : Objects, mac : BOOLEAN]
  BY <1>1, TailOf DEF TypeInv, WorldTypes
<1>6. e \in Events
  BY <1>2, <1>5, KindType, EventTypes
<1>7. e.tenant = h.tenant
  BY DEF Event
<1> HIDE DEF e
<1>8. CASE h.tenant # t
  <2>1. Stays(queue, queue', t)
    BY <1>1, <1>2, <1>6, <1>7, <1>8, AppendEvents
  <2>2. 0 \in Points(t)' /\ cache'[t] = cache[t]
    BY <1>1, <1>8 DEF Points, TypeInv, WorldTypes
  <2>3. Points(t) = {0} => Points(t)' = {0}
    BY <1>4, <2>2
  <2> QED
    BY <1>1, <1>2, <2>1, <2>2, <2>3, StaysOn, EventKept
<1>9. CASE h.tenant = t
  <2>1. Grows(queue, queue', t, e)
    BY <1>1, <1>2, <1>6, <1>7, <1>9, AppendEvents
  <2>2. /\ 0 \in Points(t)' /\ cache'[t] = h.obj /\ At(t, 0)' = cache'[t]
        /\ At(t, 1) = h.obj /\ 1 \in Points(t) /\ f[0] = 1
    <3>1. 0 \in Points(t)' /\ At(t, 0)' = cache'[t]
      BY DEF Points, At
    <3>2. cache'[t] = h.obj
      BY <1>1, <1>2, <1>9
    <3> QED
      BY <1>3, <1>4, <1>9, <3>1, <3>2
  <2>3. Whole(cache[t]) /\ Whole(h.obj)
    <3>1. 0 \in Points(t) /\ At(t, 0) = cache[t]
      BY DEF Points, At
    <3> QED
      BY <1>2, <2>2, <3>1 DEF VersionInv
  <2>4. /\ e.type = IF ~cache[t].exists THEN "Add" ELSE IF ~h.obj.exists THEN "Delete" ELSE "Update"
        /\ Here(h.obj) => ~Loss(e) /\ (~Here(cache[t]) => Gain(e))
    <3>1. e = Event(Kind(cache[t], h.obj, "Delete"), t, cache[t], h.obj, h.mac)
      BY <1>9 DEF e
    <3>2. cache[t] \in Objects /\ h.obj \in Objects
      BY <1>2, <1>5
    <3> QED
      BY <2>3, <3>1, <3>2, KindFacts
  <2>5. ASSUME Here(h.obj) PROVE Regained(queue', t)
    <3>1. ~Loss(e)
      BY <2>4, <2>5
    <3>2. CASE Here(cache[t])
      BY <1>2, <2>1, <3>1, <3>2, GrowsRegained DEF RegainInv
    <3>3. CASE ~Here(cache[t])
      <4>1. Gain(e)
        BY <2>4, <2>5, <3>3
      <4>2. Direct(e) => \A x \in On(queue, t) : Direct(x)
        <5>1. Direct(e) => ~cache[t].exists
          <6>1. Here(h.obj) => h.obj.exists
            BY <2>3, AbsentTypes DEF Whole
          <6> QED
            BY <2>4, <2>5, <6>1 DEF Direct
        <5>2. ~cache[t].exists => \A x \in On(queue, t) : x.type # "Update"
          BY <1>2, <2>2 DEF LateInv
        <5> QED
          BY <5>1, <5>2 DEF Direct
      <4> QED
        BY <2>1, <3>1, <4>1, <4>2, GrowsRegained
    <3> QED
      BY <3>2, <3>3
  <2>6. RegainInv(t)'
    BY <2>2, <2>5 DEF RegainInv
  <2>7. ASSUME ~h.obj.exists PROVE <<t, "object">> \in removed /\ Points(t)' = {0}
    <3>1. Newest(t, 1) /\ <<t, "object">> \in removed
      BY <1>2, <2>2, <2>7 DEF GoneInv
    <3>2. ASSUME NEW i \in Points(t)' PROVE i = 0
      <4>1. f[i] <= f[0]
        BY <1>4, <2>2, <3>1 DEF Newest
      <4>2. i <= 0
        BY <1>3, <2>2, <4>1 DEF Leads
      <4>3. i \in Nat
        <5>1. DOMAIN watch' \subseteq Nat
          BY DEF WorldTypes
        <5> QED
          BY <5>1 DEF Points
      <4> QED
        BY <4>2, <4>3
    <3> QED
      BY <2>2, <3>1, <3>2
  <2>8. LateInv(t)'
    BY <1>1, <2>2, <2>7 DEF LateInv
  <2> QED
    BY <2>6, <2>8
<1> QED
  BY <1>8, <1>9

LEMMA ListedEvents ==
  ASSUME TypeInv, WorldInv, EventInv, Restart \/ Relist, UNCHANGED removed, NEW t \in Tenants
  PROVE  RegainInv(t)' /\ LateInv(t)'
<1>1. /\ VersionInv(t) /\ GoneInv(t) /\ RegainInv(t) /\ LateInv(t) /\ WorldTypes
  BY DEF WorldInv, EventInv, TypeInv
<1>2. cache' = api /\ watch' = <<>> /\ Points(t)' = {0}
  <2>1. cache' = api /\ watch' = <<>>
    BY DEF Restart, Relist
  <2> QED
    BY <2>1 DEF Points
<1>3. CASE Restart
  <2>1. \A e \in On(queue', t) : e.type = "Add"
    BY <1>3, RestartEvents
  <2>2. \A e \in On(queue', t) : ~Loss(e) /\ e.type # "Update"
    BY <2>1 DEF Loss
  <2> QED
    BY <2>2 DEF RegainInv, LateInv, Regained, On
<1>4. CASE Relist
  <2>1. /\ Whole(cache[t]) /\ Whole(api[t])
        /\ cache[t] # api[t] => Points(t) # {0}
        /\ ~api[t].exists /\ Points(t) # {0} => <<t, "object">> \in removed
    <3>1. 0 \in Points(t) /\ At(t, 0) = cache[t] /\ \A i \in Points(t) : i \in Nat
      BY <1>1, PointTypes DEF At
    <3>2. PICK k \in Points(t) : Newest(t, k) /\ At(t, k) = api[t]
      BY <1>1 DEF VersionInv
    <3>3. k = 0 => Points(t) = {0}
      <4>1. k = 0 => \A j \in Points(t) : j \in Nat /\ j <= 0
        BY <3>1, <3>2 DEF Newest
      <4>2. k = 0 => \A j \in Points(t) : j = 0
        BY <4>1
      <4> QED
        BY <3>1, <4>2
    <3> QED
      BY <1>1, <3>1, <3>2, <3>3 DEF VersionInv, GoneInv
  <2>2. /\ Merged(t).type = IF ~cache[t].exists THEN "Add"
                            ELSE IF ~api[t].exists THEN "Tombstone" ELSE "Update"
        /\ Here(api[t]) => ~Loss(Merged(t)) /\ (~Here(cache[t]) => Gain(Merged(t)))
    <3>1. cache[t] \in Objects /\ api[t] \in Objects
      BY <1>1, PointTypes
    <3> QED
      BY <2>1, <3>1, KindFacts DEF Merged
  <2>3. CASE ~Missed(t)
    <3>1. Stays(queue, queue', t) /\ cache[t] = api[t]
      BY <1>4, <2>1, <2>3, RelistEvents DEF Missed
    <3> QED
      BY <1>1, <1>2, <3>1, StaysOn, EventKept
  <2>4. CASE Missed(t)
    <3>1. Grows(queue, queue', t, Merged(t)) /\ Points(t) # {0}
      BY <1>4, <2>4, RelistEvents DEF Missed
    <3>2. On(queue', t) = On(queue, t) \cup {Merged(t)}
      BY <3>1, GrowsOn
    <3>3. ASSUME Here(api[t]) PROVE Regained(queue', t)
      <4>1. CASE Here(cache[t])
        BY <1>1, <2>2, <3>1, <3>3, <4>1, GrowsRegained DEF RegainInv
      <4>2. CASE ~Here(cache[t])
        <5>1. Direct(Merged(t)) => ~cache[t].exists
          <6>1. Here(api[t]) => api[t].exists
            BY <2>1, AbsentTypes DEF Whole
          <6> QED
            BY <2>2, <3>3, <6>1 DEF Direct
        <5>2. ~cache[t].exists => \A x \in On(queue, t) : Direct(x)
          BY <1>1, <3>1 DEF LateInv, Direct
        <5> QED
          BY <2>2, <3>1, <3>3, <4>2, <5>1, <5>2, GrowsRegained
      <4> QED
        BY <4>1, <4>2
    <3>4. LateInv(t)'
      BY <1>2, <2>1, <3>1 DEF LateInv
    <3> QED
      BY <1>2, <3>3, <3>4 DEF RegainInv
  <2> QED
    BY <2>3, <2>4
<1> QED
  BY <1>3, <1>4

\* An event is taken out of the queue.
LEMMA TakenEvents ==
  ASSUME TypeInv, EventInv, (Add \/ Update \/ Delete) /\ ~Restart, NEW t \in Tenants
  PROVE  RegainInv(t)' /\ LateInv(t)'
<1>1. /\ queue # <<>> /\ queue' = Tail(queue) /\ UNCHANGED <<world, removed>>
      /\ Head(queue).type = "Update" => (Here(Head(queue).new) <=> Here(Head(queue).old))
  BY DEF Add, Update, Delete, bounds, Fault
<1>2. queue \in Seq(Events) /\ RegainInv(t) /\ LateInv(t)
  BY DEF TypeInv, WorldTypes, EventInv
<1>3. ~(Head(queue).type = "Update" /\ Gain(Head(queue)))
  BY <1>1 DEF Gain
<1>4. /\ Regained(queue, t) => Regained(queue', t)
      /\ On(queue', t) \subseteq On(queue, t)
  BY <1>1, <1>2, <1>3, TailEvents
<1>5. Points(t)' = Points(t) /\ cache'[t] = cache[t] /\ UNCHANGED removed
  BY <1>1 DEF world, Points
<1> QED
  BY <1>2, <1>4, <1>5, EventKept

\* An event is put back as an Add or a Delete.
LEMMA PutBackEvents ==
  ASSUME TypeInv, QueueInv, EventInv, UpdateMembership, NEW t \in Tenants
  PROVE  /\ RegainInv(t)' /\ LateInv(t)'
         /\ UNCHANGED <<world, worker, node, stores, devices, ghosts, bounds>>
         /\ IF Head(queue).tenant = t THEN \E e \in On(queue', t) : Gain(e) \/ Loss(e)
                                      ELSE On(queue', t) = On(queue, t)
<1> DEFINE h == Head(queue)
           e == IF Here(h.new) THEN Event("Add", h.tenant, Absent, h.new, FALSE)
                               ELSE Event("Delete", h.tenant, h.old, Absent, FALSE)
<1>1. /\ queue # <<>> /\ h.type = "Update" /\ Here(h.new) # Here(h.old)
      /\ queue' = Append(Tail(queue), e)
      /\ UNCHANGED <<world, worker, node, stores, devices, ghosts, bounds>>
  BY DEF UpdateMembership
<1>2. queue \in Seq(Events) /\ Tail(queue) \in Seq(Events) /\ RegainInv(t) /\ LateInv(t)
  BY <1>1, TailOf DEF TypeInv, WorldTypes, EventInv
<1>3. h \in Events /\ h.tenant \in Tenants /\ h.old \in Objects /\ h.new \in Objects
  <2>1. h \in Events
    BY <1>1, <1>2, TailOf
  <2>2. h.tenant \in Tenants
    BY <1>1, TenantSeqTail DEF QueueInv
  <2> QED
    BY <2>1, <2>2 DEF Events
<1>4. e \in Events
  BY <1>3, AbsentTypes, EventTypes
<1>5. Here(h.new) <=> ~Here(h.old)
  BY <1>1 DEF Here, Has
<1>6. /\ e.tenant = h.tenant /\ Direct(e) /\ e.type # "Update"
      /\ (Gain(e) <=> Here(h.new)) /\ (Loss(e) <=> Here(h.old))
  BY <1>5 DEF Event, Gain, Loss, Direct
<1> HIDE DEF e
<1>7. Regained(queue, t) => Regained(queue', t)
  BY <1>1, <1>2, <1>4, <1>6, MembershipEvents
<1>8. /\ On(Tail(queue), t) \subseteq On(queue, t)
      /\ h.tenant # t => On(Tail(queue), t) = On(queue, t)
  BY <1>1, <1>2, TailEvents
<1>9. CASE h.tenant = t
  <2>1. On(queue', t) = On(Tail(queue), t) \cup {e}
    <3>1. Grows(Tail(queue), queue', t, e)
      BY <1>1, <1>2, <1>4, <1>6, <1>9, AppendEvents
    <3> QED
      BY <3>1, GrowsOn
  <2>2. \A x \in On(queue', t) : x.type = "Update" => x \in On(queue, t)
    BY <1>6, <1>8, <2>1
  <2>3. RegainInv(t)' /\ LateInv(t)'
    <3>1. Points(t)' = Points(t) /\ cache'[t] = cache[t] /\ UNCHANGED removed
      BY <1>1 DEF world, bounds, Points
    <3> QED
      BY <1>2, <1>7, <2>2, <3>1, EventKept
  <2> QED
    BY <1>1, <1>5, <1>6, <1>9, <2>1, <2>3
<1>10. CASE h.tenant # t
  <2>1. On(queue', t) = On(Tail(queue), t)
    BY <1>1, <1>2, <1>4, <1>6, <1>10, AppendEvents, StaysOn
  <2>2. RegainInv(t)' /\ LateInv(t)'
    <3>1. Points(t)' = Points(t) /\ cache'[t] = cache[t] /\ UNCHANGED removed
      BY <1>1 DEF world, bounds, Points
    <3> QED
      BY <1>2, <1>7, <1>8, <1>10, <2>1, <3>1, EventKept
  <2> QED
    BY <1>1, <1>8, <1>10, <2>1, <2>2
<1> QED
  BY <1>9, <1>10

\* A change is put into the API server.
LEMMA PutEvents ==
  ASSUME WorldTypes, EventInv, NEW u \in Tenants, NEW n \in Objects, NEW m \in BOOLEAN,
         Put(u, n, m), Evolves(u), UNCHANGED queue, NEW t \in Tenants
  PROVE  RegainInv(t)' /\ LateInv(t)'
<1>1. RegainInv(t) /\ LateInv(t) /\ cache' = cache
  BY DEF EventInv, Put
<1>2. u # t => Points(t)' = Points(t)
  <2>1. \E k : k = Len(watch) + 1
    OBVIOUS
  <2> QED
    BY <2>1, PutPoints
<1>3. <<t, "object">> \in removed /\ Points(t) = {0} => <<t, "object">> \in removed' /\ Points(t)' = {0}
  BY <1>2 DEF Evolves
<1> QED
  BY <1>1, <1>3, EventKept

LEMMA EventInvStep ==
  ASSUME TypeInv, WorldTypes', QueueInv, WorldInv, EventInv, ~Recreates, [Next]_vars
  PROVE  EventInv'
<1> SUFFICES ASSUME NEW t \in Tenants PROVE RegainInv(t)' /\ LateInv(t)'
  BY DEF EventInv
<1>0. WorldTypes
  BY DEF TypeInv
<1>1. CASE UNCHANGED <<world, queue, removed>>
  BY <1>1 DEF world, EventInv, RegainInv, LateInv, Points
<1>2. CASE Restart /\ UNCHANGED removed
  BY <1>2, ListedEvents
<1>3. CASE Deliver
  BY <1>3, DeliverEvents
<1>4. ASSUME NEW u \in Tenants, NEW n \in Objects, NEW m \in BOOLEAN, Put(u, n, m), Evolves(u),
             UNCHANGED queue
      PROVE  RegainInv(t)' /\ LateInv(t)'
  BY <1>0, <1>4, PutEvents
<1>6. CASE Relist
  BY <1>6, ListedEvents DEF Relist, Fault
<1>7. CASE (Add \/ Update \/ Delete) /\ ~Restart
  BY <1>7, TakenEvents
<1>8. CASE Publish /\ ~Restart
  <2>1. CASE UNCHANGED world
    BY <1>1, <1>8, <2>1 DEF Publish, Refuses, Fault, bounds
  <2>2. CASE ~UNCHANGED world
    BY <1>4, <1>8, <2>2, PublishEvolves
  <2> QED
    BY <2>1, <2>2
<1>9. CASE Revert /\ ~Restart
  <2>1. CASE UNCHANGED world
    BY <1>1, <1>9, <2>1 DEF Revert, Refuses, Fault, bounds
  <2>2. CASE ~UNCHANGED world
    BY <1>4, <1>9, <2>2, RevertEvolves
  <2> QED
    BY <2>1, <2>2
<1>10. CASE \/ UNCHANGED vars \/ Provision \/ LoadStore \/ (CreateVxlan /\ ~Restart) \/ LabelNode
            \/ DeleteDevices \/ DeleteStore \/ Reclaim
  BY <1>1, <1>10 DEF vars, Provision, LoadStore, CreateVxlan, LabelNode,
                     DeleteDevices, DeleteStore, Reclaim, bounds, Fault
<1>16. CASE InsertRules
  <2>1. UNCHANGED <<world, queue>>
    BY <1>16 DEF InsertRules
  <2>2. UNCHANGED removed
    BY <1>16 DEF InsertRules, Fault, bounds
  <2> QED
    BY <1>1, <2>1, <2>2
<1>11. CASE Crash \/ DeleteTombstone
  BY <1>2, <1>11 DEF Crash, DeleteTombstone, Fault, bounds
<1>12. CASE (Add \/ Publish \/ CreateVxlan \/ Update \/ Revert \/ Delete) /\ Restart
  <2>1. CASE Add \/ CreateVxlan \/ Delete
    BY <1>12, <1>2, <2>1 DEF Add, CreateVxlan, Delete, Fault, bounds
  <2>2. CASE Publish \/ Revert
    BY <1>12, <1>2, <2>2 DEF Publish, Revert, Refuses, GiveUp, Fault, bounds
  <2>3. CASE Update
    BY <1>12, <1>2, <2>3 DEF Update, Fault, bounds
  <2> QED
    BY <1>12, <2>1, <2>2, <2>3
<1>13. ASSUME NEW u \in Tenants, UserChange(u) PROVE RegainInv(t)' /\ LateInv(t)'
  <2>1. VersionInv(u) /\ GoneInv(u)
    BY <1>13 DEF WorldInv
  <2> QED
    BY <1>0, <1>4, <1>13, <2>1, UserEvolves
<1>14. ASSUME NEW u \in Tenants, PodCommand(u) \/ LateWrite(u) PROVE RegainInv(t)' /\ LateInv(t)'
  BY <1>1, <1>14 DEF PodCommand, LateWrite, Fault, bounds
<1>15. CASE UpdateMembership
  BY <1>15, PutBackEvents
<1> QED
  BY <1>3, <1>6, <1>7, <1>8, <1>9, <1>10, <1>11, <1>12, <1>13, <1>14, <1>15, <1>16
     DEF Next, Work, UserChange

-----------------------------------------------------------------------------
(* What is set up for the tenants of this node.                            *)

\* Where the worker is with t.
Stage(t) == IF ev.tenant = t /\ pc \notin {"idle", "revert"} THEN pc ELSE "none"

\* This node is in t, nothing that is queued says so, or says that it is not, and t's
\* store is as the daemon left it.
Serving(t) ==
  /\ Here(cache[t]) /\ t \notin failed \cup astray
  /\ \A e \in On(queue, t) : ~Gain(e) /\ ~Loss(e)

\* The entries for the other node are on the device, or the kernel refused them.
Entered(t) == t \in vxlan /\ (t \in routes \/ <<t, "entries">> \in refused)

\* The entries for the other node are there, or there will be an update for them.
Known(t) ==
  Initialised(api[t]) =>
    \/ Entered(t)
    \/ cache[t].nodes # api[t].nodes
    \/ NewMac(t)
    \/ \E e \in On(queue, t) : e.type = "Update" /\ NodesDiffer(e) /\ Here(e.new)

\* The other node publishes once.
PeerKept(t) == Has(api[t], "peer") /\ (\E i \in Points(t) : PeerIn(At(t, i))) => PeerIn(api[t])

Published(t) ==
  /\ Provisioned(t)
  /\ Steady(t) => MyVtep(api[t]) = store[t] /\ (t \notin starved => Known(t) /\ PeerKept(t))

\* How far an Add has come, as long as nothing makes it void.
ServedInv(t) ==
  Serving(t) =>
    /\ Stage(t) \notin {"devices", "unstore", "reclaim"}
    /\ Stage(t) \in {"provision", "load", "publish"} =>
         (Steady(t) => Here(view) /\ Follows(t, view))
    /\ Stage(t) \in {"vxlan", "label", "rules", "none"} => Published(t)
    /\ Stage(t) \in {"rules", "none"} => t \in labelled
    /\ Stage(t) = "none" => store[t] \in accepted \/ <<t, "accept">> \in refused

\* A step that neither takes back what was published nor misses what is to be done.
Keeps(t) ==
  Serving(t)' =>
    /\ Serving(t)
    /\ Steady(t)' =>
         /\ Steady(t) /\ MyVtep(api'[t]) = MyVtep(api[t])
         /\ Known(t) /\ PeerKept(t) => Known(t)' /\ PeerKept(t)'
         /\ \A o \in Objects : Follows(t, o) => Follows(t, o)'

\* A step that leaves alone what was set up.
Holds(t) ==
  /\ Provisioned(t) /\ Stage(t) # "provision" => store'[t] = store[t]
  /\ (t \in labelled => t \in labelled') /\ accepted \subseteq accepted'
  /\ <<t, "accept">> \in refused => <<t, "accept">> \in refused'
  /\ t \in starved' <=> t \in starved

\* LoadTenantData leaves a store alone that has a subnet.
LEMMA TouchKeeps ==
  ASSUME store \in [Tenants -> Subnets \cup {None, Blank}], NEW u,
         UNCHANGED store \/ store' = Touched(u), NEW t \in Tenants, Provisioned(t)
  PROVE  store'[t] = store[t]
  BY SubnetsAssumption DEF Touched, Provisioned

\* Where the worker stays where it is with t.
LEMMA ServedKept ==
  ASSUME TypeInv, NEW t \in Tenants, ServedInv(t), Keeps(t), Holds(t),
         Stage(t)' = Stage(t), Stage(t) \in {"provision", "load", "publish"} => view' = view
  PROVE  ServedInv(t)'
<1> SUFFICES ASSUME Serving(t)'
             PROVE  /\ Stage(t)' \notin {"devices", "unstore", "reclaim"}
                    /\ Stage(t)' \in {"provision", "load", "publish"} =>
                         (Steady(t)' => Here(view') /\ Follows(t, view)')
                    /\ Stage(t)' \in {"vxlan", "label", "rules", "none"} => Published(t)'
                    /\ Stage(t)' \in {"rules", "none"} => t \in labelled'
                    /\ Stage(t)' = "none" => store'[t] \in accepted' \/ <<t, "accept">> \in refused'
  BY DEF ServedInv, Here, Has
<1>1. Serving(t)
  BY DEF Keeps
<1>2. ASSUME Stage(t) \in {"provision", "load", "publish"}, Steady(t)'
      PROVE  Here(view') /\ Follows(t, view)'
  <2>1. Here(view) /\ Follows(t, view) /\ view \in Objects /\ view' = view
    BY <1>1, <1>2 DEF ServedInv, Keeps, TypeInv, WorkerTypes
  <2>2. Follows(t, view)'
    <3>1. \A o \in Objects : Follows(t, o) => Follows(t, o)'
      BY <1>2 DEF Keeps
    <3> QED
      BY <2>1, <3>1 DEF Follows
  <2> QED
    BY <2>1, <2>2
<1>3. ASSUME Published(t), Stage(t) # "provision" PROVE Published(t)'
  <2>1. store'[t] = store[t] /\ Provisioned(t)'
    BY <1>3 DEF Published, Holds, Provisioned
  <2> QED
    BY <1>3, <2>1 DEF Published, Keeps, Holds, MyVtep
<1>4. Stage(t) \in {"vxlan", "label", "rules", "none"} => Published(t)
  BY <1>1 DEF ServedInv
<1>5. Stage(t) = "none" => store'[t] \in accepted' \/ <<t, "accept">> \in refused'
  BY <1>1, <1>4 DEF ServedInv, Published, Holds
<1> QED
  BY <1>1, <1>2, <1>3, <1>4, <1>5 DEF ServedInv, Holds


\* Steps that the API server, the watch and the queue do not take part in.
LEMMA KeepsSame ==
  ASSUME NEW t \in Tenants, UNCHANGED <<api, watch, cache, removed>>,
         On(queue', t) = On(queue, t), t \notin failed' => t \notin failed,
         t \notin astray' => t \notin astray, Entered(t) => Entered(t)'
  PROVE  Keeps(t)
<1>1. Points(t)' = Points(t) /\ \A i \in Points(t) : At(t, i)' = At(t, i)
  BY DEF Points, At
<1>2. Serving(t)' => Serving(t)
  BY DEF Serving, Here, Has
<1>3. Steady(t)' <=> Steady(t)
  BY <1>1 DEF Steady, StaysFrom, Here, Has
<1>4. Known(t) => Known(t)'
  BY DEF Known, Initialised, NewMac, Has, Index, NodesDiffer, Here
<1>5. PeerKept(t) => PeerKept(t)'
  BY <1>1 DEF PeerKept, PeerIn, Has, Index
<1>6. \A o : Follows(t, o) => Follows(t, o)'
  BY DEF Follows, Has, Index
<1> QED
  BY <1>2, <1>3, <1>4, <1>5, <1>6 DEF Keeps

\* A change of an object: this node's VTEP stays, the other one's is published once.
LEMMA KeepsPut ==
  ASSUME WorldTypes, NEW u \in Tenants, NEW n \in Objects, NEW m \in BOOLEAN, Put(u, n, m),
         Evolves(u), NEW t \in Tenants, t = u => Spares(t), VersionInv(t), OrderInv(t),
         UNCHANGED queue, t \notin failed' => t \notin failed, t \notin astray' => t \notin astray,
         UNCHANGED <<vxlan, routes, refused>>
  PROVE  Keeps(t)
<1>0. PICK k : k = Len(watch) + 1
  OBVIOUS
<1>7. Entered(t)' <=> Entered(t)
  BY DEF Entered
<1>1. /\ Points(t)' = IF t = u THEN Points(t) \cup {k} ELSE Points(t)
      /\ \A i \in Points(t) : At(t, i)' = At(t, i)
      /\ At(u, k)' = n /\ api'[u] = n /\ (u # t => api'[t] = api[t])
      /\ NewMac(t) => NewMac(t)'
      /\ cache' = cache
  <2>1. cache' = cache
    BY DEF Put
  <2> QED
    BY <1>0, <2>1, PutPoints
<1>2. 0 \in Points(t) /\ At(t, 0) = cache[t] /\ \A i \in Points(t) : At(t, i) \in Objects
  BY PointTypes DEF At
<1> HIDE DEF Points, At
<1>3. Serving(t)' => Serving(t)
  BY <1>1 DEF Serving
<1>4. Steady(t)' => Steady(t)
  BY <1>1 DEF Steady, StaysFrom
<1>5. CASE t # u
  <2>1. Known(t) => Known(t)'
    BY <1>1, <1>5, <1>7 DEF Known
  <2>2. PeerKept(t) => PeerKept(t)'
    BY <1>1, <1>5 DEF PeerKept
  <2>3. \A o \in Objects : Follows(t, o) => Follows(t, o)'
    BY <1>1, <1>5 DEF Follows, Evolves
  <2> QED
    BY <1>1, <1>3, <1>4, <1>5, <2>1, <2>2, <2>3 DEF Keeps, MyVtep
<1>6. CASE t = u
  <2> SUFFICES ASSUME Steady(t)', Serving(t)'
               PROVE  /\ MyVtep(api'[t]) = MyVtep(api[t])
                      /\ Known(t) /\ PeerKept(t) => Known(t)' /\ PeerKept(t)'
                      /\ \A o \in Objects : Follows(t, o) => Follows(t, o)'
    BY <1>3, <1>4 DEF Keeps
  <2>1. Here(api[t]) /\ Here(n)
    <3>1. \A i \in Points(t) : 0 <= i
      <4>1. \A i \in Points(t) : i \in Nat
        BY PointTypes
      <4> QED
        BY <4>1
    <3>2. \A i \in Points(t) : Here(At(t, i))
      BY <1>4, <3>1 DEF Steady, StaysFrom
    <3>3. Here(api[t])
      BY <3>2 DEF VersionInv
    <3>4. 0 <= k /\ k \in Points(t)'
      BY <1>0, <1>1, <1>6, PointTypes
    <3> QED
      BY <1>1, <1>6, <3>3, <3>4 DEF Steady, StaysFrom
  <2>2. /\ MyVtep(n) = MyVtep(api[t])
        /\ PeerIn(api[t]) /\ Has(n, "peer") => PeerIn(n)
        /\ ~Has(api[t], "peer") /\ Has(n, "peer") => <<t, "peer">> \notin removed /\ ~Initialised(n)
        /\ Initialised(n) => n.nodes = api[t].nodes \/ (~PeerIn(api[t]) /\ PeerIn(n))
    BY <1>1, <1>6, <2>1 DEF Spares
  <2>3. ASSUME Known(t), PeerKept(t), Initialised(n), cache[t].nodes = n.nodes
        PROVE  Known(t)'
    <3>1. CASE n.nodes = api[t].nodes
      <4>1. Initialised(api[t])
        BY <2>3, <3>1, NodesDecide
      <4> QED
        BY <1>1, <1>7, <2>3, <3>1, <4>1 DEF Known
    <3>2. CASE ~PeerIn(api[t]) /\ PeerIn(n)
      <4>1. PeerIn(cache[t])
        <5>1. \A x : Has(cache[t], x) = Has(n, x) /\ Index(cache[t], x) = Index(n, x)
          BY <2>3, NodesDecide
        <5> QED
          BY <2>3, <3>2, <5>1 DEF PeerIn
      <4>2. ~Has(api[t], "peer")
        BY <1>2, <2>3, <3>2, <4>1 DEF PeerKept
      <4> QED
        BY <2>2, <2>3, <3>2, <4>2 DEF PeerIn
    <3> QED
      BY <2>2, <2>3, <3>1, <3>2
  <2>4. ASSUME Known(t), PeerKept(t) PROVE Known(t)'
    <3>1. CASE Initialised(n) /\ cache[t].nodes = n.nodes
      BY <2>3, <2>4, <3>1
    <3>2. CASE ~(Initialised(n) /\ cache[t].nodes = n.nodes)
      BY <1>1, <1>6, <1>7, <3>2 DEF Known
    <3> QED
      BY <3>1, <3>2
  <2>5. ASSUME PeerKept(t), Has(n, "peer"), NEW i \in Points(t)', PeerIn(At(t, i)')
        PROVE  PeerIn(n)
    <3>1. CASE i = k
      BY <1>1, <1>6, <2>5, <3>1
    <3>2. CASE i # k
      <4>1. i \in Points(t) /\ PeerIn(At(t, i))
        BY <1>1, <2>5, <3>2
      <4>2. Has(api[t], "peer")
        <5>1. StaysFrom(t, i)
          <6>1. \A j \in Points(t) : j \in Nat
            BY PointTypes
          <6>2. \A j \in Points(t) : 0 <= j
            BY <6>1
          <6> QED
            BY <1>4, <6>2 DEF Steady, StaysFrom
        <5>2. Follows(t, At(t, i))
          BY <4>1, <5>1 DEF OrderInv
        <5> QED
          BY <2>2, <2>5, <4>1, <5>2 DEF Follows, PeerIn
      <4> QED
        BY <2>2, <2>5, <4>1, <4>2 DEF PeerKept
    <3> QED
      BY <3>1, <3>2
  <2>6. PeerKept(t) => PeerKept(t)'
    BY <1>1, <1>6, <2>5 DEF PeerKept
  <2>7. \A o \in Objects : Follows(t, o) => Follows(t, o)'
    BY <1>1, <1>6, <2>1 DEF Evolves
  <2> QED
    BY <1>1, <1>6, <2>2, <2>4, <2>6, <2>7
<1> QED
  BY <1>5, <1>6


\* The first change of the watch is delivered.
LEMMA KeepsDelivered ==
  ASSUME TypeInv, WorldTypes', WorldInv, Deliver, NEW t \in Tenants
  PROVE  Keeps(t)
<1> DEFINE h == Head(watch)
           e == Event(Kind(cache[h.tenant], h.obj, "Delete"), h.tenant, cache[h.tenant], h.obj, h.mac)
<1>1. /\ watch # <<>> /\ queue' = Append(queue, e) /\ UNCHANGED <<api, removed, failed, astray>>
      /\ watch' = Tail(watch) /\ cache' = [cache EXCEPT ![h.tenant] = h.obj]
  BY DEF Deliver, bounds, ghosts
<1>14. Entered(t)' <=> Entered(t)
  BY DEF Deliver, devices, ghosts, skipped, Entered
<1>2. /\ VersionInv(t) /\ WorldTypes
      /\ queue \in Seq(Events) /\ cache \in [Tenants -> Objects]
  BY DEF WorldInv, TypeInv, WorldTypes
<1>3. PICK f : /\ Leads(t, f)
               /\ \A k \in Points(t) : k = 0 \/ \E i \in Points(t)' : f[i] = k
               /\ IF Head(watch).tenant = t THEN f[0] = 1 /\ 1 \in Points(t) ELSE f[0] = 0
  BY <1>2, LeadsDelivered
<1>4. \A i \in Points(t)' : f[i] \in Points(t) /\ At(t, i)' = At(t, f[i])
  BY <1>3 DEF Leads
<1>5. h \in [tenant : Tenants, obj : Objects, mac : BOOLEAN]
  BY <1>1, TailOf DEF TypeInv, WorldTypes
<1>6. e \in Events /\ e.tenant = h.tenant
  <2>1. e \in Events
    BY <1>2, <1>5, KindType, EventTypes
  <2> QED
    BY <2>1 DEF Event
<1> HIDE DEF e
<1>7. NewMac(t) => NewMac(t)' \/ (h.tenant = t /\ h.mac)
  <2>1. /\ Len(watch) \in Nat /\ Len(watch) >= 1 /\ DOMAIN watch = 1 .. Len(watch)
        /\ h = watch[1] /\ DOMAIN watch' = 1 .. Len(watch) - 1
        /\ \A i \in 1 .. Len(watch) - 1 : watch'[i] = watch[i + 1]
    BY <1>1 DEF TypeInv, WorldTypes
  <2> HIDE DEF h
  <2>2. \A i \in DOMAIN watch : i = 1 \/ (i - 1 \in DOMAIN watch' /\ watch'[i - 1] = watch[i])
    BY <2>1
  <2> QED
    BY <2>1, <2>2 DEF NewMac
<1>8. 0 \in Points(t) /\ 0 \in Points(t)' /\ At(t, 0) = cache[t] /\ At(t, 0)' = cache'[t]
  BY DEF Points, At
<1>9. Steady(t)' <=> StaysFrom(t, f[0])
  BY <1>2, <1>3, <1>8, StaysLeads DEF Steady
<1>10. PeerKept(t) => PeerKept(t)'
  BY <1>1, <1>4 DEF PeerKept
<1>11. \A o : Follows(t, o) => Follows(t, o)'
  BY <1>1 DEF Follows
<1>12. CASE h.tenant # t
  <2>1. On(queue', t) = On(queue, t)
    BY <1>1, <1>2, <1>6, <1>12, AppendEvents, StaysOn
  <2>2. cache'[t] = cache[t]
    BY <1>1, <1>2, <1>12
  <2>3. Serving(t)' => Serving(t)
    BY <1>1, <2>1, <2>2 DEF Serving
  <2>4. Known(t) => Known(t)'
    BY <1>1, <1>7, <1>12, <1>14, <2>1, <2>2 DEF Known
  <2>5. Steady(t)' => Steady(t)
    BY <1>3, <1>9, <1>12 DEF Steady
  <2> QED
    BY <1>1, <1>10, <1>11, <2>3, <2>4, <2>5 DEF Keeps, MyVtep
<1>13. CASE h.tenant = t
  <2> SUFFICES ASSUME Serving(t)'
               PROVE  /\ Serving(t)
                      /\ Steady(t)' => Steady(t) /\ (Known(t) => Known(t)')
    BY <1>1, <1>10, <1>11 DEF Keeps, MyVtep
  <2>1. cache'[t] = h.obj /\ At(t, 1) = h.obj /\ 1 \in Points(t)
    <3>1. cache'[t] = h.obj
      BY <1>1, <1>2, <1>13
    <3> QED
      BY <1>3, <1>4, <1>8, <1>13, <3>1
  <2>2. On(queue', t) = On(queue, t) \cup {e}
    <3>1. Grows(queue, queue', t, e)
      BY <1>1, <1>2, <1>6, <1>13, AppendEvents
    <3> QED
      BY <3>1, GrowsOn
  <2>3. Here(h.obj) /\ ~Gain(e) /\ ~Loss(e)
    BY <2>1, <2>2 DEF Serving
  <2>4. /\ Here(cache[t]) /\ e.type = "Update"
        /\ e.old = cache[t] /\ e.new = h.obj /\ e.mac = h.mac
    <3>1. e = Event(Kind(cache[t], h.obj, "Delete"), t, cache[t], h.obj, h.mac)
      BY <1>13 DEF e
    <3>2. cache[t] \in Objects /\ h.obj \in Objects
      BY <1>2, <1>5
    <3>3. Whole(cache[t]) /\ Whole(h.obj)
      BY <1>2, <1>8, <2>1 DEF VersionInv
    <3> HIDE DEF h
    <3> QED
      BY <2>3, <3>1, <3>2, <3>3, KindFacts
  <2>5. Serving(t)
    BY <1>1, <2>2, <2>4 DEF Serving
  <2>6. ASSUME Steady(t)' PROVE Steady(t)
    <3>1. \A i \in Points(t)' : Here(At(t, f[i]))
      <4>1. \A i \in Points(t)' : 0 <= i
        <5>1. DOMAIN watch' \subseteq Nat
          BY DEF WorldTypes
        <5>2. \A i \in Points(t)' : i \in Nat
          BY <5>1 DEF Points
        <5> QED
          BY <5>2
      <4>2. \A i \in Points(t)' : f[i] \in Points(t) /\ f[0] <= f[i]
        BY <1>3, <1>4, <1>8, <4>1 DEF Leads
      <4> QED
        BY <1>9, <2>6, <4>2 DEF StaysFrom
    <3> QED
      BY <1>3, <1>8, <2>4, <3>1 DEF Steady, StaysFrom
  <2>7. ASSUME Known(t) PROVE Known(t)'
    <3>1. cache[t].nodes # h.obj.nodes \/ h.mac => NodesDiffer(e) /\ Here(e.new)
      BY <2>3, <2>4 DEF NodesDiffer
    <3>2. e \in On(queue', t) /\ On(queue, t) \subseteq On(queue', t)
      BY <2>2
    <3>3. CASE \E x \in On(queue', t) : x.type = "Update" /\ NodesDiffer(x) /\ Here(x.new)
      BY <3>3 DEF Known
    <3>4. CASE ~\E x \in On(queue', t) : x.type = "Update" /\ NodesDiffer(x) /\ Here(x.new)
      <4>1. cache[t].nodes = h.obj.nodes /\ ~h.mac
        BY <2>4, <3>1, <3>2, <3>4
      <4>2. NewMac(t) => NewMac(t)'
        BY <1>7, <4>1
      <4> QED
        BY <1>1, <1>14, <2>1, <2>7, <3>2, <3>4, <4>1, <4>2 DEF Known
    <3> QED
      BY <3>3, <3>4
  <2> QED
    BY <2>5, <2>6, <2>7
<1> QED
  BY <1>12, <1>13

\* A new list that does not hide that this node left.
LEMMA KeepsListed ==
  ASSUME TypeInv, WorldInv, Relist, NEW t \in Tenants
  PROVE  Keeps(t)
<1>1. /\ UNCHANGED <<api, removed, astray>> /\ watch' = <<>> /\ cache' = api
      /\ failed' = failed \cup {u \in Tenants : CameBack(u)}
      /\ Entered(t)' <=> Entered(t)
  BY DEF Relist, Fault, devices, skipped, Entered
<1>2. /\ VersionInv(t) /\ WorldTypes /\ 0 \in Points(t) /\ At(t, 0) = cache[t]
      /\ cache[t] \in Objects /\ api[t] \in Objects /\ \A i \in Points(t) : i \in Nat
  <2>1. VersionInv(t) /\ WorldTypes
    BY DEF WorldInv, TypeInv
  <2> QED
    BY <2>1, PointTypes DEF At
<1>3. Points(t)' = {0} /\ At(t, 0)' = api[t]
  BY <1>1 DEF Points, At
<1>4. PeerKept(t)' /\ \A o : Follows(t, o) => Follows(t, o)'
  BY <1>1, <1>3 DEF PeerKept, Follows
<1>5. cache[t] # api[t] \/ NewMac(t) => Missed(t)
  <2>1. cache[t] # api[t] => Points(t) # {0}
    BY <1>2 DEF VersionInv
  <2>2. NewMac(t) => Points(t) # {0}
    <3>1. \A i \in DOMAIN watch : i # 0
      BY QueueTypes DEF TypeInv
    <3> QED
      BY <3>1 DEF NewMac, Points
  <2> QED
    BY <2>1, <2>2 DEF Missed
<1> SUFFICES ASSUME Serving(t)' PROVE Serving(t) /\ Steady(t) /\ (Known(t) => Known(t)')
  BY <1>1, <1>4 DEF Keeps, MyVtep
<1>6. Here(api[t]) /\ t \notin failed \cup astray /\ ~CameBack(t)
  BY <1>1 DEF Serving
<1>7. CASE ~Missed(t)
  <2>1. cache[t] = api[t] /\ ~NewMac(t)
    BY <1>5, <1>7
  <2>2. On(queue', t) = On(queue, t)
    BY <1>7, RelistEvents, StaysOn
  <2>3. Serving(t)
    BY <1>6, <2>1, <2>2 DEF Serving
  <2>4. Known(t) => Known(t)'
    BY <1>1, <2>1, <2>2 DEF Known
  <2> QED
    BY <1>6, <2>1, <2>3, <2>4 DEF Steady, StaysFrom, CameBack, Points, At
<1>8. CASE Missed(t)
  <2> DEFINE e == Merged(t)
  <2>1. On(queue', t) = On(queue, t) \cup {e}
    BY <1>8, RelistEvents, GrowsOn
  <2>2. ~Gain(e) /\ ~Loss(e)
    BY <2>1 DEF Serving
  <2>3. /\ Here(cache[t]) /\ e.type = "Update"
        /\ e.old = cache[t] /\ e.new = api[t] /\ e.mac = NewMac(t)
    <3>1. Whole(cache[t]) /\ Whole(api[t])
      BY <1>2 DEF VersionInv
    <3> QED
      BY <1>2, <1>6, <2>2, <3>1, KindFacts DEF Merged
  <2> HIDE DEF e
  <2>4. Serving(t)
    BY <1>6, <2>1, <2>3 DEF Serving
  <2>5. Steady(t)
    BY <1>6, <2>3 DEF Steady, StaysFrom, CameBack, Points, At
  <2>6. ASSUME Known(t) PROVE Known(t)'
    <3>1. cache[t].nodes # api[t].nodes \/ NewMac(t) => NodesDiffer(e) /\ Here(e.new)
      BY <1>6, <2>3 DEF NodesDiffer
    <3>2. e \in On(queue', t) /\ On(queue, t) \subseteq On(queue', t)
      BY <2>1
    <3> QED
      BY <1>1, <2>3, <2>6, <3>1, <3>2 DEF Known
  <2> QED
    BY <2>4, <2>5, <2>6
<1> QED
  BY <1>7, <1>8


\* The worker takes an event that is not about t, or is no handler's in the end.
LEMMA HeadServed ==
  ASSUME TypeInv, QueueInv, WorldInv, EventInv, (Add \/ Update \/ Delete) /\ ~Restart,
         NEW t \in Tenants, ServedInv(t)
  PROVE  ServedInv(t)'
<1> DEFINE h == Head(queue)
<1>1. /\ pc = "idle" /\ queue # <<>> /\ queue' = Tail(queue) /\ UNCHANGED <<world, removed>>
      /\ UNCHANGED <<labelled, accepted, vxlan>> /\ routes \subseteq routes'
      /\ \A u : <<u, "accept">> \in refused => <<u, "accept">> \in refused'
      /\ UNCHANGED store \/ store' = Touched(h.tenant)
  <2>1. CASE Add
    BY <2>1 DEF Add, Done, devices, rules, stores, skipped, bounds
  <2>2. CASE Update
    BY <2>2 DEF Update, Done, rules, bounds, Fault
  <2>3. CASE Delete
    BY <2>3 DEF Delete, Done, devices, rules, ghosts, skipped, bounds, Fault
  <2> QED
    BY <2>1, <2>2, <2>3
<1>2. /\ queue \in Seq(Events) /\ store \in [Tenants -> Subnets \cup {None, Blank}]
      /\ OrderInv(t) /\ RegainInv(t) /\ VersionInv(t) /\ WorldTypes /\ cache[t] \in Objects
  BY DEF TypeInv, WorldTypes, StoreTypes, WorldInv, EventInv
<1>3. /\ On(queue', t) \subseteq On(queue, t) /\ On(queue, t) \subseteq On(queue', t) \cup {h}
      /\ h.tenant # t => On(queue', t) = On(queue, t)
      /\ h.tenant = t => h \in On(queue, t)
  BY <1>1, <1>2, TailEvents
<1>4. Provisioned(t) => store'[t] = store[t]
  BY <1>1, <1>2, TouchKeeps
<1>5. Stage(t) = "none"
  BY <1>1 DEF Stage
<1>6. UNCHANGED <<api, watch, cache>>
  BY <1>1 DEF world
<1>7. CASE h.tenant # t
  <2>1. /\ t \in starved' <=> t \in starved
        /\ t \notin failed' => t \notin failed
        /\ t \notin astray' => t \notin astray
        /\ <<t, "entries">> \in refused => <<t, "entries">> \in refused'
    <3>1. CASE Add
      BY <1>7, <3>1 DEF Add
    <3>2. CASE Update
      BY <1>7, <3>2 DEF Update
    <3>3. CASE Delete
      BY <1>7, <3>3 DEF Delete, ghosts, skipped
    <3> QED
      BY <3>1, <3>2, <3>3
  <2>2. Stage(t)' = "none"
    <3>1. pc' \in {"idle", "revert"} \/ ev'.tenant # t
      BY <1>7 DEF Add, Update, Delete, Done
    <3> QED
      BY <3>1 DEF Stage
  <2>3. Keeps(t)
    <3>1. Entered(t) => Entered(t)'
      BY <1>1, <2>1 DEF Entered
    <3> QED
      BY <1>1, <1>3, <1>6, <1>7, <2>1, <3>1, KeepsSame
  <2>4. Holds(t)
    BY <1>1, <1>4, <2>1 DEF Holds
  <2> QED
    BY <1>5, <2>2, <2>3, <2>4, ServedKept
<1>8. CASE h.tenant = t /\ Add
  <2>1. CASE ~Here(cache[t])
    <3>1. ~Serving(t)'
      BY <1>6, <2>1 DEF Serving
    <3> QED
      BY <3>1 DEF ServedInv
  <2>2. CASE Here(cache[t])
    <3>1. pc' \in {"provision", "load"} /\ ev' = h /\ view' = cache[t]
      BY <1>8, <2>2 DEF Add
    <3>2. Stage(t)' \in {"provision", "load"}
      BY <1>8, <3>1 DEF Stage
    <3>3. Steady(t)' => Steady(t)
      BY <1>6 DEF Steady, StaysFrom, Points, At
    <3>4. Steady(t) => Follows(t, cache[t])
      <4>1. 0 \in Points(t) /\ At(t, 0) = cache[t]
        BY DEF Points, At
      <4> QED
        BY <1>2, <4>1 DEF OrderInv, Steady
    <3>5. Follows(t, cache[t]) => Follows(t, view)'
      BY <1>1, <1>6, <3>1 DEF Follows
    <3>6. Here(view')
      BY <2>2, <3>1
    <3> QED
      BY <3>2, <3>3, <3>4, <3>5, <3>6 DEF ServedInv, Here, Has
  <2> QED
    BY <2>1, <2>2
<1>9. CASE h.tenant = t /\ Delete
  <2>1. h.type = "Delete"
    BY <1>9 DEF Delete
  <2>2. Loss(h) /\ ~Gain(h)
    BY <2>1 DEF Loss, Gain
  <2>3. ASSUME Here(cache[t]) PROVE \E e \in On(queue, t) : Gain(e)
    BY <1>2, <1>3, <1>9, <2>2, <2>3 DEF RegainInv, Regained, On
  <2>4. ~Serving(t)'
    BY <1>3, <1>6, <2>2, <2>3 DEF Serving
  <2> QED
    BY <2>4 DEF ServedInv
<1>10. CASE h.tenant = t /\ Update
  <2>1. /\ h.type = "Update" /\ (Here(h.new) <=> Here(h.old)) /\ UNCHANGED <<failed, starved, astray>>
        /\ pc' \in {"idle", "revert"}
        /\ Entered(t) => Entered(t)'
        /\ NodesDiffer(h) /\ Here(h.new) /\ Initialised(cache[t]) => Entered(t)'
    BY <1>10 DEF Update, Done, Entered
  <2>2. ~Gain(h) /\ ~Loss(h)
    BY <2>1 DEF Gain, Loss
  <2>3. Serving(t)' => Serving(t)
    BY <1>3, <1>6, <2>1, <2>2 DEF Serving
  <2>4. ASSUME Known(t) PROVE Known(t)'
    <3> SUFFICES ASSUME Initialised(api[t])
                 PROVE  \/ Entered(t)'
                        \/ cache[t].nodes # api[t].nodes
                        \/ NewMac(t)
                        \/ \E e \in On(queue', t) : e.type = "Update" /\ NodesDiffer(e) /\ Here(e.new)
      BY <1>6 DEF Known, NewMac
    <3>1. CASE Entered(t)
      BY <2>1, <3>1
    <3>2. CASE \E e \in On(queue, t) : e.type = "Update" /\ NodesDiffer(e) /\ Here(e.new)
      <4>1. CASE NodesDiffer(h) /\ Here(h.new)
        <5>1. cache[t].nodes = api[t].nodes => Initialised(cache[t])
          BY NodesDecide
        <5> QED
          BY <2>1, <4>1, <5>1
      <4>2. CASE ~(NodesDiffer(h) /\ Here(h.new))
        BY <1>3, <3>2, <4>2
      <4> QED
        BY <4>1, <4>2
    <3> QED
      BY <2>4, <3>1, <3>2 DEF Known
  <2>5. Keeps(t)
    <3>1. Points(t)' = Points(t) /\ \A i \in Points(t) : At(t, i)' = At(t, i)
      BY <1>6 DEF Points, At
    <3>2. Steady(t)' => Steady(t)
      BY <3>1 DEF Steady, StaysFrom
    <3>3. PeerKept(t) => PeerKept(t)'
      BY <1>6, <3>1 DEF PeerKept
    <3>4. \A o : Follows(t, o) => Follows(t, o)'
      BY <1>1, <1>6 DEF Follows
    <3> QED
      BY <1>6, <2>3, <2>4, <3>2, <3>3, <3>4 DEF Keeps, MyVtep
  <2>6. Holds(t)
    BY <1>1, <1>4, <2>1 DEF Holds
  <2>7. Stage(t)' = "none"
    BY <2>1 DEF Stage
  <2> QED
    BY <1>5, <2>5, <2>6, <2>7, ServedKept
<1> QED
  BY <1>7, <1>8, <1>9, <1>10

\* The VTEP is written at the index this node has in the newest version.
LEMMA PublishPlace ==
  ASSUME NEW t \in Tenants, WorldTypes, view \in Objects, Here(api[t]), Here(view),
         Follows(t, view), Index(view, "me") \in DOMAIN api[t].nodes
  PROVE  Index(view, "me") = Index(api[t], "me")
<1>1. api[t] \in Objects
  BY DEF WorldTypes
<1>2. CASE Has(api[t], "peer")
  BY <1>2, Alone DEF Follows
<1>3. CASE ~Has(api[t], "peer")
  <2>1. api[t].nodes \in NodeLists
    BY <1>1 DEF Objects
  <2>2. \A i \in DOMAIN api[t].nodes : api[t].nodes[i].name = "me"
    BY <1>3, <2>1, ListFacts DEF Has, Entry
  <2> QED
    BY <1>1, <2>2, IndexFacts DEF Here
<1> QED
  BY <1>2, <1>3


\* This node's VTEP is written into its entry.
LEMMA MyVtepWritten ==
  ASSUME NEW o \in Objects, Here(o), NEW i, i = Index(o, "me"),
         NEW v \in Subnets \cup {None, Remote}, NEW n, n = [o EXCEPT !.nodes[i].vtep = v]
  PROVE  MyVtep(n) = v /\ (PeerIn(o) => PeerIn(n))
<1>1. i \in DOMAIN o.nodes /\ (Has(o, "peer") => Index(o, "peer") # i)
  BY IndexFacts DEF Here
<1>2. ASSUME NEW y
      PROVE  /\ Has(n, y) <=> Has(o, y)
             /\ Has(o, y) =>
                  /\ Index(n, y) = Index(o, y)
                  /\ n.nodes[Index(n, y)].vtep = IF Index(o, y) = i THEN v
                                                 ELSE o.nodes[Index(o, y)].vtep
  BY <1>1, Written
<1> QED
  BY <1>1, <1>2 DEF MyVtep, PeerIn, Here

\* The daemon publishes the VTEP of t.
LEMMA PublishServed ==
  ASSUME TypeInv, WorldTypes', QueueInv, WorldInv, AgreeInv, Publish, ~Restart,
         NEW t \in Tenants, ServedInv(t)
  PROVE  ServedInv(t)'
<1>1. /\ pc = "publish" /\ UNCHANGED store /\ ev.tenant \in Tenants
      /\ UNCHANGED <<devices, queue, removed>> /\ failed \subseteq failed'
      /\ UNCHANGED <<starved, astray, refused>>
  BY DEF Publish, QueueInv, GiveUp, Refuses, Fault, bounds, stores, ghosts, skipped
<1>2. WorldTypes /\ view \in Objects /\ VersionInv(t) /\ OrderInv(t)
  BY DEF TypeInv, WorkerTypes, WorldInv
<1>4. Holds(t)
  BY <1>1 DEF Holds, devices, rules
<1>5. ASSUME UNCHANGED world PROVE Keeps(t)
  BY <1>1, <1>5, KeepsSame DEF world, devices, Entered
<1>6. CASE t # ev.tenant
  <2>1. Keeps(t)
    <3>1. CASE ~UNCHANGED world
      <4> DEFINE u == ev.tenant
      <4>1. PICK n \in Objects, m \in BOOLEAN : Put(u, n, m)
        BY <3>1, PublishEvolves DEF TypeInv
      <4>2. Evolves(u)
        BY <3>1, PublishEvolves DEF TypeInv
      <4>3. UNCHANGED <<vxlan, routes, refused, astray>> /\ u \in Tenants /\ t # u /\ UNCHANGED queue
        BY <1>1, <1>6 DEF devices
      <4> HIDE DEF u
      <4> QED
        BY <1>1, <1>2, <4>1, <4>2, <4>3, KeepsPut
    <3> QED
      BY <1>5, <3>1
  <2>2. Stage(t) = "none" /\ Stage(t)' = "none"
    <3>1. ev'.tenant # t \/ pc' = "idle"
      BY <1>6 DEF Publish, GiveUp, Done, worker
    <3> QED
      BY <1>6, <3>1 DEF Stage
  <2> QED
    BY <1>4, <2>1, <2>2, ServedKept
<1>7. CASE t = ev.tenant /\ GiveUp(t)
  BY <1>7 DEF GiveUp, ServedInv, Serving
<1>8. CASE t = ev.tenant /\ UNCHANGED <<worker, world>>
  BY <1>4, <1>5, <1>8, ServedKept DEF worker, Stage
<1>9. CASE t = ev.tenant /\ ~GiveUp(t) /\ ~UNCHANGED <<worker, world>>
  <2> DEFINE i == Index(view, "me")
             o == cache[t]
  <2>1. /\ pc' = "vxlan" /\ UNCHANGED <<ev, ghosts>> /\ Current(t) /\ loaded.subnet \in Subnets
        /\ i \in DOMAIN o.nodes
    BY <1>9 DEF Publish, world, worker
  <2>9. Serving(t) => loaded.subnet = store[t]
    BY <1>1, <1>9 DEF AgreeInv, HasLoaded, Serving
  <2>2. Points(t) = {0} /\ o = api[t] /\ o \in Objects
    BY <1>2, <2>1, Seen DEF WorldTypes
  <2>3. Stage(t) = "publish" /\ Stage(t)' = "vxlan" /\ store'[t] = store[t]
    BY <1>1, <1>9, <2>1 DEF Stage
  <2>4. Serving(t)' => Serving(t)
    <3>1. cache' = cache
      BY <1>9, <2>1 DEF Publish, Put, world
    <3> QED
      BY <1>1, <2>1, <3>1 DEF Serving, ghosts
  <2>5. SUFFICES ASSUME Serving(t)
                 PROVE  MyVtep(api'[t]) = store[t] /\ (t \notin starved => Known(t)' /\ PeerKept(t)')
    <3>1. Serving(t) => Provisioned(t)'
      BY <2>1, <2>3, <2>9 DEF Provisioned
    <3> QED
      BY <2>1, <2>3, <2>4, <3>1 DEF ServedInv, Published, ghosts, MyVtep
  <2>6. i = Index(api[t], "me") /\ Here(api[t])
    <3>1. Here(api[t])
      BY <2>2, <2>5 DEF Serving
    <3>2. Steady(t)
      BY <2>2, <3>1 DEF Steady, StaysFrom, At
    <3>3. Here(view) /\ Follows(t, view)
      BY <2>3, <2>5, <3>2 DEF ServedInv
    <3> QED
      BY <1>2, <2>1, <2>2, <3>1, <3>3, PublishPlace
  <2>7. CASE UNCHANGED world
    <3>1. t \in starved /\ o.nodes[i].vtep = loaded.subnet
      <4>1. PICK m \in IF t \in starved THEN BOOLEAN ELSE {TRUE} :
              IF m \/ o.nodes[i].vtep # loaded.subnet
                THEN Put(t, [o EXCEPT !.nodes[i].vtep = loaded.subnet], m)
                ELSE UNCHANGED world
        BY <1>9, <2>1 DEF Publish, worker
      <4>2. ~Put(t, [o EXCEPT !.nodes[i].vtep = loaded.subnet], m)
        <5>1. ASSUME NEW c, watch' = Append(watch, c) PROVE watch' # watch
          <6>1. Len(watch) \in Nat /\ Len(Append(watch, c)) = Len(watch) + 1
            BY <1>2 DEF WorldTypes
          <6> QED
            BY <5>1, <6>1
        <5> QED
          BY <2>7, <5>1 DEF world, Put
      <4> QED
        BY <4>1, <4>2
    <3> QED
      BY <2>2, <2>5, <2>6, <2>7, <2>9, <3>1 DEF world, MyVtep
  <2>8. CASE ~UNCHANGED world
    <3>1. PICK n \in Objects, m \in BOOLEAN :
            /\ Put(t, n, m) /\ (t \notin starved => m)
            /\ n = [api[t] EXCEPT !.nodes[i].vtep = loaded.subnet]
      BY <1>9, <2>8, PublishEvolves
    <3>2. PICK k : k = Len(watch) + 1
      OBVIOUS
    <3>3. /\ Points(t)' = {0, k} /\ At(t, 0)' = api[t]
          /\ At(t, k)' = n /\ api'[t] = n /\ (m => NewMac(t)')
      <4>1. At(t, 0) = cache[t]
        BY DEF At
      <4> QED
        BY <1>2, <2>2, <3>1, <3>2, <4>1, PutPoints
    <3>4. api[t] \in Objects /\ loaded.subnet \in Subnets \cup {None, Remote}
      BY <2>1, <2>2
    <3>5. n = [api[t] EXCEPT !.nodes[i].vtep = loaded.subnet]
      BY <3>1
    <3>6. MyVtep(n) = loaded.subnet /\ (PeerIn(api[t]) => PeerIn(n))
      <4> HIDE DEF i, o
      <4> QED
        BY <2>6, <3>4, <3>5, MyVtepWritten
    <3>7. PeerKept(t)'
      BY <3>3, <3>6 DEF PeerKept
    <3>8. t \notin starved => Known(t)'
      BY <3>1, <3>3 DEF Known
    <3> QED
      BY <2>5, <2>9, <3>3, <3>6, <3>7, <3>8
  <2> QED
    BY <2>7, <2>8
<1> QED
  BY <1>6, <1>7, <1>8, <1>9


\* The worker goes on with an Add, or with a Delete.
LEMMA HandlerServed ==
  ASSUME TypeInv, QueueInv, WorldInv, AgreeInv,
         \/ Provision \/ LoadStore \/ (CreateVxlan /\ ~Restart) \/ LabelNode \/ InsertRules
         \/ DeleteDevices \/ DeleteStore \/ Reclaim,
         NEW t \in Tenants, ServedInv(t)
  PROVE  ServedInv(t)'
<1>1. /\ UNCHANGED <<world, queue, removed, starved>>
      /\ failed \subseteq failed' /\ accepted \subseteq accepted' /\ labelled \subseteq labelled'
      /\ astray \subseteq astray' /\ ev.tenant \in Tenants /\ pc \notin {"idle", "revert"}
  <2>1. CASE Provision \/ LoadStore \/ (CreateVxlan /\ ~Restart) \/ LabelNode
    BY <2>1 DEF Provision, LoadStore, CreateVxlan, LabelNode, devices, rules, ghosts, bounds,
                Fault, GiveUp, QueueInv
  <2>2. CASE InsertRules
    <3>1. /\ UNCHANGED <<world, queue, failed, starved, labelled, astray>> /\ pc = "rules"
          /\ accepted \subseteq accepted'
      BY <2>2 DEF InsertRules
    <3>2. UNCHANGED removed
      BY <2>2 DEF InsertRules, Fault, bounds
    <3> QED
      BY <3>1, <3>2 DEF QueueInv
  <2>3. CASE DeleteDevices \/ DeleteStore \/ Reclaim
    BY <2>3 DEF DeleteDevices, DeleteStore, Reclaim, devices, rules, ghosts, bounds, Fault, QueueInv
  <2> QED
    BY <2>1, <2>2, <2>3
<1>2. UNCHANGED <<api, watch, cache>>
  BY <1>1 DEF world
<1>3. Stage(t) = IF t = ev.tenant THEN pc ELSE "none"
  BY <1>1 DEF Stage
<1>4. CASE t # ev.tenant
  <2>1. /\ Entered(t) => Entered(t)'
        /\ <<t, "accept">> \in refused => <<t, "accept">> \in refused'
    <3>1. CASE Provision \/ LoadStore \/ (CreateVxlan /\ ~Restart) \/ LabelNode
      BY <3>1 DEF Provision, LoadStore, CreateVxlan, LabelNode, devices, ghosts, skipped, GiveUp,
                  Entered
    <3>2. CASE InsertRules
      <4>1. /\ UNCHANGED <<vxlan, routes>>
            /\ \A x : x # <<ev.tenant, "accept">> => (x \in refused' <=> x \in refused)
        BY <3>2 DEF InsertRules, Marked
      <4> QED
        BY <1>4, <4>1 DEF Entered
    <3>3. CASE DeleteDevices \/ DeleteStore \/ Reclaim
      BY <1>4, <3>3 DEF DeleteDevices, DeleteStore, Reclaim, devices, ghosts, skipped, Entered
    <3> QED
      BY <3>1, <3>2, <3>3
  <2>2. Provisioned(t) => store'[t] = store[t]
    <3>1. store \in [Tenants -> Subnets \cup {None, Blank}]
      BY DEF TypeInv, StoreTypes
    <3>2. CASE LoadStore
      BY <3>1, <3>2, TouchKeeps DEF LoadStore
    <3>3. CASE ~LoadStore
      BY <1>4, <3>1, <3>3 DEF Provision, CreateVxlan, LabelNode, InsertRules, DeleteDevices,
                              DeleteStore, Reclaim, stores
    <3> QED
      BY <3>2, <3>3
  <2>3. Stage(t)' = "none"
    <3>1. ev'.tenant # t \/ pc' = "idle"
      BY <1>4 DEF Provision, LoadStore, CreateVxlan, LabelNode, InsertRules, DeleteDevices, DeleteStore,
                  Reclaim, Goto, GiveUp, Done
    <3> QED
      BY <3>1 DEF Stage
  <2>4. Keeps(t)
    BY <1>1, <1>2, <2>1, KeepsSame
  <2>5. Holds(t)
    BY <1>1, <2>1, <2>2 DEF Holds
  <2> QED
    BY <1>3, <1>4, <2>3, <2>4, <2>5, ServedKept
<1>5. CASE t = ev.tenant
  <2>1. Serving(t)' => Serving(t)
    BY <1>1, <1>2 DEF Serving
  <2>2. CASE DeleteDevices \/ DeleteStore \/ Reclaim
    <3>1. Stage(t) \in {"devices", "unstore", "reclaim"}
      BY <1>3, <1>5, <2>2 DEF DeleteDevices, DeleteStore, Reclaim
    <3> QED
      BY <2>1, <3>1 DEF ServedInv
  <2>3. CASE GiveUp(t)
    BY <2>3 DEF GiveUp, ServedInv, Serving
  <2>4. CASE Provision \/ LoadStore
    <3>1. /\ Stage(t) \in {"provision", "load"} /\ Stage(t)' \in {"load", "publish"} /\ UNCHANGED view
      BY <1>3, <1>5, <2>4 DEF Provision, LoadStore, Goto, Stage
    <3>2. Steady(t)' => Steady(t)
      BY <1>2 DEF Steady, StaysFrom, Points, At
    <3>3. Follows(t, view) => Follows(t, view)'
      BY <1>1, <1>2, <3>1 DEF Follows
    <3>4. Here(view) => Here(view')
      BY <3>1
    <3> QED
      BY <2>1, <3>1, <3>2, <3>3, <3>4 DEF ServedInv, Here, Has
  <2>5. CASE ((CreateVxlan /\ ~Restart) \/ LabelNode \/ InsertRules) /\ ~GiveUp(t)
    <3>1. UNCHANGED <<store, starved>>
      BY <1>1, <2>5 DEF CreateVxlan, LabelNode, InsertRules, stores
    <3>2. Keeps(t)
      <4>1. Entered(t) => Entered(t)'
        <5>1. CASE (CreateVxlan /\ ~Restart) \/ LabelNode
          BY <5>1 DEF CreateVxlan, LabelNode, ghosts, skipped, GiveUp, Entered
        <5>2. CASE InsertRules
          <6>1. /\ UNCHANGED <<vxlan, routes>>
                /\ \A x : x # <<ev.tenant, "accept">> => (x \in refused' <=> x \in refused)
            BY <5>2 DEF InsertRules, Marked
          <6> QED
            BY <6>1 DEF Entered
        <5> QED
          BY <2>5, <5>1, <5>2
      <4> QED
        BY <1>1, <1>2, <4>1, KeepsSame
    <3>3. Published(t) /\ Serving(t)' => Published(t)'
      BY <3>1, <3>2 DEF Published, Keeps, Provisioned, MyVtep
    <3>4. CASE CreateVxlan /\ ~Restart
      <4>1. Stage(t) = "vxlan" /\ Stage(t)' = "label"
        BY <1>3, <1>5, <2>5, <3>4 DEF CreateVxlan, Goto, Stage
      <4> QED
        BY <2>1, <3>3, <4>1 DEF ServedInv
    <3>5. CASE LabelNode
      <4>1. Stage(t) = "label" /\ Stage(t)' = "rules" /\ t \in labelled'
        BY <1>3, <1>5, <2>5, <3>5 DEF LabelNode, Goto, Stage
      <4> QED
        BY <2>1, <3>3, <4>1 DEF ServedInv
    <3>6. CASE InsertRules
      <4>1. /\ Stage(t) = "rules" /\ Stage(t)' = "none" /\ labelled' = labelled /\ pc = "rules"
        BY <1>3, <1>5, <3>6 DEF InsertRules, Done, Stage
      <4>2. loaded.subnet \in accepted' \/ <<t, "accept">> \in refused'
        BY <1>5, <3>6 DEF InsertRules, Marked
      <4>3. Serving(t) => loaded.subnet = store'[t]
        BY <1>5, <3>1, <4>1 DEF AgreeInv, HasLoaded, Serving
      <4> QED
        BY <2>1, <3>3, <4>1, <4>2, <4>3 DEF ServedInv
    <3> QED
      BY <2>5, <3>4, <3>5, <3>6
  <2> QED
    BY <2>2, <2>3, <2>4, <2>5
<1> QED
  BY <1>4, <1>5

\* Every step leaves the tenants served that were, and serves the others in the end.
LEMMA ServedInvStep ==
  ASSUME TypeInv, TypeInv', QueueInv, WorldInv, EventInv, AgreeInv, PastInv, ~Recreates,
         [Next]_vars,
         NEW t \in Tenants, ServedInv(t)
  PROVE  ServedInv(t)'
<1>0. /\ WorldTypes /\ WorldTypes' /\ VersionInv(t) /\ OrderInv(t)
      /\ store \in [Tenants -> Subnets \cup {None, Blank}]
  BY DEF TypeInv, WorldInv, StoreTypes
<1>1. ASSUME Keeps(t), UNCHANGED <<worker, store, labelled, accepted, starved, refused>>
      PROVE  ServedInv(t)'
  <2>1. Holds(t)
    BY <1>1 DEF Holds
  <2> QED
    BY <1>1, <2>1, ServedKept DEF worker, Stage
<1>2. CASE Restart
  <2>1. Here(api[t]) => api[t].exists
    BY <1>0, AbsentTypes DEF VersionInv, Whole
  <2>2. Here(cache'[t]) => \E e \in On(queue', t) : Gain(e)
    BY <1>2, <2>1, RestartEvents DEF Restart, Gain
  <2> QED
    BY <2>2 DEF ServedInv, Serving
<1>3. CASE Deliver
  BY <1>0, <1>1, <1>3, KeepsDelivered DEF Deliver, stores, devices, rules, ghosts, skipped
<1>4. CASE Relist
  BY <1>1, <1>4, KeepsListed DEF Relist, stores, devices, rules, skipped
<1>5. CASE UNCHANGED vars
  <2>1. Keeps(t)
    BY <1>5, KeepsSame DEF vars, world, devices, ghosts, skipped, bounds, Entered
  <2> QED
    BY <1>1, <1>5, <2>1 DEF vars, stores, devices, rules, ghosts, skipped
<1>6. ASSUME NEW u \in Tenants, PodCommand(u) PROVE ServedInv(t)'
  <2>1. Keeps(t)
    BY <1>6, KeepsSame DEF PodCommand, world, devices, ghosts, skipped, bounds, Entered
  <2>2. Provisioned(t) => store'[t] = store[t]
    BY <1>0, <1>6, TouchKeeps DEF PodCommand
  <2>3. Holds(t)
    BY <1>6, <2>2 DEF Holds, PodCommand, devices, rules, ghosts, skipped
  <2> QED
    BY <1>6, <2>1, <2>3, ServedKept DEF PodCommand, worker, Stage
<1>7. ASSUME NEW u \in Tenants, UserChange(u) PROVE ServedInv(t)'
  <2>1. VersionInv(u) /\ GoneInv(u)
    BY <1>7 DEF WorldInv
  <2>2. /\ Evolves(u) /\ Spares(u) /\ \E n \in Objects : Put(u, n, FALSE)
        /\ UNCHANGED <<queue, worker, node, stores, devices, ghosts>>
    BY <1>0, <1>7, <2>1, UserEvolves
  <2>3. UNCHANGED <<queue, failed, astray, vxlan, routes, labelled, accepted, starved, refused, store>>
    BY <2>2 DEF stores, devices, rules, ghosts, skipped
  <2>4. Keeps(t)
    BY <1>0, <2>2, <2>3, KeepsPut
  <2> QED
    BY <1>1, <2>2, <2>3, <2>4
<1>8. CASE Revert /\ ~Restart
  <2>1. /\ pc = "revert" /\ UNCHANGED <<devices, queue, ghosts, removed, store>>
        /\ pc' \in {"idle", "revert"}
    BY <1>8 DEF Revert, Done, worker, stores, bounds, Refuses, Fault
  <2>2. Keeps(t)
    <3>1. CASE UNCHANGED world
      BY <2>1, <3>1, KeepsSame DEF world, devices, ghosts, skipped, Entered
    <3>2. CASE ~UNCHANGED world
      <4> DEFINE u == ev.tenant
      <4>1. /\ u \in Tenants /\ Evolves(u) /\ Spares(u)
            /\ \E n \in Objects : Put(u, n, FALSE)
        BY <1>8, <3>2, RevertEvolves
      <4>2. UNCHANGED <<failed, astray, vxlan, routes, refused, queue>>
        BY <2>1 DEF devices, ghosts, skipped
      <4> HIDE DEF u
      <4> QED
        BY <1>0, <4>1, <4>2, KeepsPut
    <3> QED
      BY <3>1, <3>2
  <2>4. Holds(t)
    BY <2>1 DEF Holds, devices, rules, ghosts, skipped
  <2> QED
    BY <2>1, <2>2, <2>4, ServedKept DEF Stage
<1>9. CASE UpdateMembership
  <2>1. /\ UNCHANGED <<world, worker, node, stores, devices, ghosts, bounds>>
        /\ IF Head(queue).tenant = t THEN \E e \in On(queue', t) : Gain(e) \/ Loss(e)
                                     ELSE On(queue', t) = On(queue, t)
    BY <1>9, PutBackEvents
  <2>2. CASE Head(queue).tenant = t
    BY <2>1, <2>2 DEF ServedInv, Serving
  <2>3. CASE Head(queue).tenant # t
    <3>1. Keeps(t)
      BY <2>1, <2>3, KeepsSame DEF world, devices, ghosts, skipped, bounds, Entered
    <3> QED
      BY <1>1, <2>1, <3>1 DEF stores, devices, rules, ghosts, skipped
  <2> QED
    BY <2>2, <2>3
<1>10. CASE (Add \/ Update \/ Delete) /\ ~Restart
  BY <1>10, HeadServed
<1>11. CASE Publish /\ ~Restart
  BY <1>0, <1>11, PublishServed
<1>12. CASE \/ Provision \/ LoadStore \/ (CreateVxlan /\ ~Restart) \/ LabelNode \/ InsertRules
            \/ DeleteDevices \/ DeleteStore \/ Reclaim
  BY <1>12, HandlerServed
<1>13. CASE Crash \/ DeleteTombstone
  BY <1>2, <1>13 DEF Crash, DeleteTombstone
<1>14. ASSUME NEW u \in Tenants, LateWrite(u) PROVE ServedInv(t)'
  <2>1. /\ u # t => store'[t] = store[t]
        /\ \/ u \in astray' /\ astray' = astray \cup {u}
           \/ pc = "provision" /\ ev.tenant = u /\ astray' = astray
    BY <1>14, LateFacts
  <2>2. /\ UNCHANGED <<api, watch, cache, removed, queue, worker, devices>>
        /\ UNCHANGED <<failed, starved, skipped>>
    BY <1>14 DEF LateWrite, world, Fault
  <2>3. CASE u = t /\ t \in astray'
    BY <2>3 DEF ServedInv, Serving
  <2>4. CASE u # t \/ Stage(t) = "provision"
    <3>1. Keeps(t)
      <4>1. Entered(t) => Entered(t)'
        BY <2>2 DEF devices, skipped, Entered
      <4>2. t \notin astray' => t \notin astray
        BY <2>1
      <4> QED
        BY <2>2, <4>1, <4>2, KeepsSame
    <3>2. Holds(t)
      BY <2>1, <2>2, <2>4 DEF Holds, devices, rules, skipped
    <3> QED
      BY <2>2, <3>1, <3>2, ServedKept DEF worker, Stage
  <2>5. u = t /\ t \notin astray' => Stage(t) = "provision"
    BY <2>1 DEF Stage
  <2> QED
    BY <2>3, <2>4, <2>5
<1> QED
  BY <1>2, <1>3, <1>4, <1>5, <1>6, <1>7, <1>8, <1>9, <1>10, <1>11, <1>12, <1>13, <1>14
     DEF Next, Work, UserChange


RestInv ==
  /\ StoreInv /\ PastInv /\ AgreeInv /\ TypeInv /\ WorldInv /\ EventInv
  /\ \A t \in Tenants : ServedInv(t)

\* Before the first change nothing is promised to anybody.
LEMMA RestInvInit == Init => RestInv
<1> SUFFICES ASSUME Init PROVE RestInv
  OBVIOUS
<1>1. StoreInv /\ PastInv /\ AgreeInv /\ TypeInv
  BY StoreInvInit, PastInvInit, AgreeInvInit, TypeInvInit
<1>2. ~Here(Absent) /\ ~Has(Absent, "peer") /\ ~Absent.exists
  BY DEF Absent, Here, Has
<1>3. ASSUME NEW t \in Tenants
      PROVE  /\ VersionInv(t) /\ GoneInv(t) /\ OrderInv(t)
             /\ RegainInv(t) /\ LateInv(t) /\ ServedInv(t)
  <2>1. Points(t) = {0} /\ At(t, 0) = Absent /\ cache[t] = Absent /\ api[t] = Absent
    BY DEF Init, Points, At
  <2>2. queue = <<>> /\ removed = {}
    BY DEF Init
  <2>3. VersionInv(t)
    BY <2>1 DEF VersionInv, Whole, Newest
  <2>4. GoneInv(t)
    BY <2>1, <2>2 DEF GoneInv
  <2>5. OrderInv(t)
    BY <1>2, <2>1 DEF OrderInv, StaysFrom
  <2>6. RegainInv(t) /\ ServedInv(t)
    BY <1>2, <2>1 DEF RegainInv, ServedInv, Serving
  <2>7. LateInv(t)
    BY <2>2 DEF LateInv, On, Of
  <2> QED
    BY <2>3, <2>4, <2>5, <2>6, <2>7
<1> QED
  BY <1>1, <1>3 DEF RestInv, WorldInv, EventInv

\* No step breaks it, as long as what users remove stays removed.
LEMMA RestInvStep == ASSUME ~Recreates, RestInv, [Next]_vars PROVE RestInv'
<1>1. StoreInv /\ QueueInv /\ PastInv /\ AgreeInv /\ TypeInv /\ WorldInv /\ EventInv
  BY DEF RestInv, StoreInv
<1>2. StoreInv' /\ PastInv' /\ AgreeInv' /\ TypeInv'
  BY <1>1, StoreInvStep, PastInvStep, AgreeInvStep, TypeInvStep
<1>3. WorldTypes'
  BY <1>2 DEF TypeInv
<1>4. WorldInv' /\ EventInv'
  BY <1>1, <1>3, WorldInvStep, EventInvStep
<1>5. \A t \in Tenants : ServedInv(t)'
  BY <1>1, <1>2, ServedInvStep DEF RestInv
<1> QED
  BY <1>2, <1>4, <1>5 DEF RestInv

\* When nothing is under way, every tenant of this node is set up as its object says.
LEMMA RestInvConfigured == RestInv => RestMeansConfigured
<1> SUFFICES ASSUME RestInv, Quiet, NEW t \in Tenants, Here(api[t]), t \notin failed \cup astray
             PROVE  /\ Provisioned(t) /\ api[t].nodes[Index(api[t], "me")].vtep = store[t]
                    /\ t \in labelled /\ (store[t] \in accepted \/ <<t, "accept">> \in refused)
                    /\ Initialised(api[t]) /\ t \notin starved =>
                         t \in vxlan /\ (t \in routes \/ <<t, "entries">> \in refused)
  BY DEF RestMeansConfigured
<1>1. VersionInv(t) /\ ServedInv(t)
  BY DEF RestInv, WorldInv
<1>2. watch = <<>> /\ queue = <<>> /\ pc = "idle"
  BY DEF Quiet
<1>3. Points(t) = {0} /\ ~NewMac(t) /\ On(queue, t) = {}
  BY <1>2 DEF Points, NewMac, On, Of
<1>4. cache[t] = api[t]
  BY <1>1, <1>3 DEF VersionInv, At
<1>5. Serving(t) /\ Stage(t) = "none" /\ Steady(t)
  BY <1>2, <1>3, <1>4 DEF Serving, Stage, Steady, StaysFrom, At
<1>6. Published(t) /\ t \in labelled /\ (store[t] \in accepted \/ <<t, "accept">> \in refused)
  BY <1>1, <1>5 DEF ServedInv
<1>7. Initialised(api[t]) /\ t \notin starved => Entered(t)
  BY <1>3, <1>4, <1>5, <1>6 DEF Published, Known
<1> QED
  BY <1>1, <1>5, <1>6, <1>7 DEF Published, MyVtep, Entered

\* When every change has arrived and the queue is empty, a tenant of this node whose last
\* Add was not given up, and whose store no late command has rewritten and no failing call
\* left as it was, has that store and its label, its object carries the VTEP of the store,
\* it has its device once the other node has published, and all ACCEPT rules and entries
\* are in place but those that the kernel refused when they were last due: in whatever
\* order changes, merged events, panics, restarts and pods' commands come (addTenant,
\* updateTenant, deleteTenant, and what the informer calls).
THEOREM RestConfigured == ASSUME ~Recreates PROVE Spec => []RestMeansConfigured
<1>1. RestInv /\ [Next]_vars => RestInv'
  BY RestInvStep
<1> QED
  BY <1>1, RestInvInit, RestInvConfigured, PTL DEF Spec

=============================================================================
