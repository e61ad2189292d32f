-------------------- MODULE TenantController_type_proofs --------------------
(***************************************************************************)
(* TenantController: the types of its state, for every finite set of        *)
(* tenants, every list of subnets, any number of changes and faults, and    *)
(* lemmas about the Spec.Nodes lists of the Tenant objects.                 *)
(***************************************************************************)
EXTENDS TenantController_proofs

-----------------------------------------------------------------------------
(* Spec.Nodes: lists of at most two entries with different names.           *)

\* The elements of such a list.
LEMMA ListFacts ==
  ASSUME NEW l \in NodeLists
  PROVE  /\ l \in Seq(Entry) /\ Len(l) \in 0 .. 2 /\ DOMAIN l = 1 .. Len(l)
         /\ \A i \in DOMAIN l : l[i] \in Entry
         /\ \A i, j \in DOMAIN l : l[i].name = l[j].name => i = j
<1>1. PICK n \in 0 .. 2 : l \in [1 .. n -> Entry]
  BY DEF NodeLists
<1>2. l \in Seq(Entry) /\ Len(l) = n /\ DOMAIN l = 1 .. n
  BY <1>1, SeqDef
<1> QED
  BY <1>1, <1>2 DEF NodeLists

\* There are two names only.
LEMMA ListIntro ==
  ASSUME NEW l \in Seq(Entry), \A i, j \in DOMAIN l : l[i].name = l[j].name => i = j
  PROVE  l \in NodeLists
<1>1. Len(l) \in Nat /\ DOMAIN l = 1 .. Len(l) /\ l \in [1 .. Len(l) -> Entry]
  OBVIOUS
<1>2. \A i \in DOMAIN l : l[i].name = "me" \/ l[i].name = "peer"
  BY <1>1 DEF Entry
<1>3. ~(Len(l) > 2)
  <2> SUFFICES ASSUME Len(l) > 2 PROVE FALSE
    OBVIOUS
  <2>1. 1 \in DOMAIN l /\ 2 \in DOMAIN l /\ 3 \in DOMAIN l
    BY <1>1
  <2> QED
    BY <1>2, <2>1
<1>4. Len(l) \in 0 .. 2
  BY <1>1, <1>3
<1> QED
  BY <1>1, <1>4 DEF NodeLists

\* The index of a node that is in the list.
LEMMA IndexFacts ==
  ASSUME NEW o \in Objects, NEW x, Has(o, x)
  PROVE  /\ Index(o, x) \in DOMAIN o.nodes /\ o.nodes[Index(o, x)].name = x
         /\ \A i \in DOMAIN o.nodes : o.nodes[i].name = x => i = Index(o, x)
<1>1. o.nodes \in NodeLists
  BY DEF Objects
<1>2. Index(o, x) \in DOMAIN o.nodes /\ o.nodes[Index(o, x)].name = x
  BY DEF Has, Index
<1> QED
  BY <1>1, <1>2, ListFacts

\* A node that is alone in the list is the first.
LEMMA Alone ==
  ASSUME NEW o \in Objects, Here(o), ~Has(o, "peer") PROVE Index(o, "me") = 1
<1>1. o.nodes \in NodeLists
  BY DEF Objects
<1>2. /\ Len(o.nodes) \in 0 .. 2 /\ DOMAIN o.nodes = 1 .. Len(o.nodes)
      /\ \A i \in DOMAIN o.nodes : o.nodes[i].name = "me" \/ o.nodes[i].name = "peer"
      /\ Index(o, "me") \in DOMAIN o.nodes
      /\ \A i \in DOMAIN o.nodes : o.nodes[i].name = "me" => i = Index(o, "me")
  BY <1>1, ListFacts, IndexFacts DEF Here, Entry
<1>3. \A i \in DOMAIN o.nodes : i = Index(o, "me")
  BY <1>2 DEF Has
<1>4. 1 \in DOMAIN o.nodes
  BY <1>2
<1> QED
  BY <1>3, <1>4

\* Nothing but the list decides who is in it, where, and with which VTEP.
LEMMA NodesDecide ==
  ASSUME NEW o, NEW n, o.nodes = n.nodes
  PROVE  /\ \A x : Has(o, x) = Has(n, x) /\ Index(o, x) = Index(n, x)
         /\ Here(o) = Here(n) /\ Initialised(o) = Initialised(n)
  BY DEF Has, Index, Here, Initialised

\* A node joins the list.
LEMMA Joined ==
  ASSUME NEW o \in Objects, NEW x \in {"me", "peer"}, ~Has(o, x),
         NEW n, n = [o EXCEPT !.nodes = Append(@, Listed(x))]
  PROVE  /\ n \in Objects /\ n.exists = o.exists
         /\ \A y : Has(n, y) <=> Has(o, y) \/ y = x
         /\ \A y : Has(o, y) => /\ Index(n, y) = Index(o, y)
                                /\ n.nodes[Index(n, y)] = o.nodes[Index(o, y)]
         /\ n.nodes[Index(n, x)] = Listed(x)
<1> DEFINE l == o.nodes
           m == Append(l, Listed(x))
<1>1. /\ l \in Seq(Entry) /\ Len(l) \in Nat /\ DOMAIN l = 1 .. Len(l)
      /\ \A i, j \in DOMAIN l : l[i].name = l[j].name => i = j
      /\ Listed(x) \in Entry /\ Listed(x).name = x
  <2>1. l \in NodeLists
    BY DEF Objects
  <2>2. Listed(x) \in Entry /\ Listed(x).name = x
    BY DEF Listed, Entry
  <2> QED
    BY <2>1, <2>2, ListFacts
<1>2. /\ m \in Seq(Entry) /\ DOMAIN m = 1 .. Len(l) + 1
      /\ \A i \in DOMAIN l : m[i] = l[i]
      /\ m[Len(l) + 1] = Listed(x)
  BY <1>1
<1>3. \A i \in DOMAIN l : l[i].name # x
  BY DEF Has
<1>4. \A i \in DOMAIN m : i \in DOMAIN l \/ i = Len(l) + 1
  BY <1>1, <1>2
<1>5. \A i, j \in DOMAIN m : m[i].name = m[j].name => i = j
  BY <1>1, <1>2, <1>3, <1>4
<1>6. m \in NodeLists
  BY <1>2, <1>5, ListIntro
<1>7. n \in Objects /\ n.exists = o.exists /\ n.nodes = m
  BY <1>6 DEF Objects
<1>8. ASSUME NEW y PROVE Has(n, y) <=> Has(o, y) \/ y = x
  <2>1. Len(l) + 1 \in DOMAIN m /\ \A i \in DOMAIN l : i \in DOMAIN m
    BY <1>1, <1>2
  <2> QED
    BY <1>1, <1>2, <1>4, <1>7, <2>1 DEF Has
<1>9. ASSUME NEW y, Has(o, y)
      PROVE  Index(n, y) = Index(o, y) /\ n.nodes[Index(n, y)] = o.nodes[Index(o, y)]
  <2>1. Index(o, y) \in DOMAIN l /\ l[Index(o, y)].name = y
    BY <1>9, IndexFacts
  <2>2. Index(o, y) \in DOMAIN m /\ m[Index(o, y)] = l[Index(o, y)]
    BY <1>1, <1>2, <2>1
  <2>3. Has(n, y)
    BY <1>8, <1>9
  <2>4. \A i \in DOMAIN n.nodes : n.nodes[i].name = y => i = Index(n, y)
    BY <1>7, <2>3, IndexFacts
  <2> HIDE DEF m
  <2> QED
    BY <1>7, <2>1, <2>2, <2>4
<1>10. n.nodes[Index(n, x)] = Listed(x)
  <2>1. Len(l) + 1 \in DOMAIN m /\ m[Len(l) + 1].name = x
    BY <1>1, <1>2
  <2>2. Has(n, x)
    BY <1>8
  <2>3. \A i \in DOMAIN n.nodes : n.nodes[i].name = x => i = Index(n, x)
    BY <1>7, <2>2, IndexFacts
  <2> HIDE DEF m
  <2> QED
    BY <1>2, <1>7, <2>1, <2>3
<1> QED
  BY <1>7, <1>8, <1>9, <1>10

\* A sequence without one of its elements.
LEMMA RemoveAtFacts ==
  ASSUME NEW S, NEW q \in Seq(S), NEW k \in DOMAIN q
  PROVE  /\ RemoveAt(q, k) \in Seq(S)
         /\ DOMAIN RemoveAt(q, k) = 1 .. Len(q) - 1
         /\ \A i \in 1 .. Len(q) - 1 : RemoveAt(q, k)[i] = IF i < k THEN q[i] ELSE q[i + 1]
<1> DEFINE a == SubSeq(q, 1, k - 1)
           b == SubSeq(q, k + 1, Len(q))
<1>1. Len(q) \in Nat /\ k \in 1 .. Len(q) /\ \A i \in 1 .. Len(q) : q[i] \in S
  OBVIOUS
<1>2. a \in Seq(S) /\ Len(a) = k - 1 /\ \A i \in 1 .. k - 1 : a[i] = q[i]
  BY <1>1, SubSeqProperties
<1>3. b \in Seq(S) /\ Len(b) = Len(q) - k /\ \A i \in 1 .. Len(q) - k : b[i] = q[k + i]
  BY <1>1, SubSeqProperties
<1>4. RemoveAt(q, k) = a \o b
  BY DEF RemoveAt
<1>5. /\ a \o b \in Seq(S) /\ Len(a \o b) = Len(q) - 1
      /\ \A i \in 1 .. Len(q) - 1 : (a \o b)[i] = IF i <= k - 1 THEN a[i] ELSE b[i - (k - 1)]
  <2> HIDE DEF a, b
  <2>1. Len(a) + Len(b) = Len(q) - 1
    BY <1>1, <1>2, <1>3
  <2>2. /\ a \o b \in Seq(S) /\ Len(a \o b) = Len(a) + Len(b)
        /\ \A i \in 1 .. Len(a) + Len(b) : (a \o b)[i] = IF i <= Len(a) THEN a[i] ELSE b[i - Len(a)]
    BY <1>2, <1>3, ConcatProperties
  <2> QED
    BY <1>2, <2>1, <2>2
<1>6. ASSUME NEW i \in 1 .. Len(q) - 1
      PROVE  (a \o b)[i] = IF i < k THEN q[i] ELSE q[i + 1]
  <2>1. CASE i < k
    BY <1>1, <1>2, <1>5, <2>1
  <2>2. CASE ~(i < k)
    <3>1. i - (k - 1) \in 1 .. Len(q) - k /\ k + (i - (k - 1)) = i + 1 /\ ~(i <= k - 1)
      BY <1>1, <2>2
    <3> QED
      BY <1>3, <1>5, <2>2, <3>1
  <2> QED
    BY <2>1, <2>2
<1>7. DOMAIN (a \o b) = 1 .. Len(q) - 1
  BY <1>1, <1>5
<1> QED
  BY <1>4, <1>5, <1>6, <1>7

\* A node leaves the list.
LEMMA Left ==
  ASSUME NEW o \in Objects, NEW x, Has(o, x),
         NEW n, n = [o EXCEPT !.nodes = RemoveAt(@, Index(o, x))]
  PROVE  /\ n \in Objects /\ n.exists = o.exists
         /\ \A y : Has(n, y) <=> Has(o, y) /\ y # x
         /\ \A y : Has(n, y) => n.nodes[Index(n, y)] = o.nodes[Index(o, y)]
<1> DEFINE l == o.nodes
           k == Index(o, x)
           m == RemoveAt(l, k)
<1>1. /\ l \in Seq(Entry) /\ Len(l) \in Nat /\ DOMAIN l = 1 .. Len(l)
      /\ \A i, j \in DOMAIN l : l[i].name = l[j].name => i = j
  BY ListFacts DEF Objects
<1>2. k \in DOMAIN l /\ l[k].name = x
  BY IndexFacts
<1>3. /\ m \in Seq(Entry) /\ DOMAIN m = 1 .. Len(l) - 1
      /\ \A i \in 1 .. Len(l) - 1 : m[i] = IF i < k THEN l[i] ELSE l[i + 1]
  <2> HIDE DEF k, l
  <2>1. l \in Seq(Entry) /\ k \in DOMAIN l
    BY <1>1, <1>2
  <2> QED
    BY <2>1, RemoveAtFacts
<1> DEFINE f(i) == IF i < k THEN i ELSE i + 1
           g(j) == IF j < k THEN j ELSE j - 1
<1> HIDE DEF m, k, l
<1>4. \A i \in DOMAIN m : f(i) \in DOMAIN l /\ f(i) # k /\ m[i] = l[f(i)] /\ g(f(i)) = i
  BY <1>1, <1>2, <1>3
<1>5. \A j \in DOMAIN l : j # k => g(j) \in DOMAIN m /\ m[g(j)] = l[j]
  BY <1>1, <1>2, <1>3
<1>6. \A i, j \in DOMAIN m : f(i) = f(j) => i = j
  BY <1>4
<1> HIDE DEF f, g
<1>7. \A i, j \in DOMAIN m : m[i].name = m[j].name => i = j
  BY <1>1, <1>4, <1>6
<1>8. m \in NodeLists
  BY <1>3, <1>7, ListIntro
<1>9. n \in Objects /\ n.exists = o.exists /\ n.nodes = m /\ o.nodes = l
  BY <1>8 DEF Objects, m, l, k
<1>10. ASSUME NEW y PROVE Has(n, y) <=> Has(o, y) /\ y # x
  BY <1>1, <1>2, <1>4, <1>5, <1>9 DEF Has
<1>11. ASSUME NEW y, Has(n, y) PROVE n.nodes[Index(n, y)] = o.nodes[Index(o, y)]
  <2>1. Index(n, y) \in DOMAIN m /\ m[Index(n, y)].name = y /\ Has(o, y)
    BY <1>9, <1>10, <1>11, IndexFacts
  <2>2. l[f(Index(n, y))].name = y /\ f(Index(n, y)) \in DOMAIN l
    BY <1>4, <2>1
  <2>3. f(Index(n, y)) = Index(o, y)
    BY <1>9, <2>1, <2>2, IndexFacts
  <2> QED
    BY <1>4, <1>9, <2>1, <2>3
<1> QED
  BY <1>9, <1>10, <1>11

\* A VTEP is written into an entry.
LEMMA Written ==
  ASSUME NEW o \in Objects, NEW i \in DOMAIN o.nodes, NEW v \in Subnets \cup {None, Remote},
         NEW n, n = [o EXCEPT !.nodes[i].vtep = v]
  PROVE  /\ n \in Objects /\ n.exists = o.exists /\ n.edited = o.edited
         /\ \A y : Has(n, y) <=> Has(o, y)
         /\ \A y : Has(o, y) =>
              /\ Index(n, y) = Index(o, y)
              /\ n.nodes[Index(n, y)].vtep = IF Index(o, y) = i THEN v
                                             ELSE o.nodes[Index(o, y)].vtep
<1> DEFINE l == o.nodes
           m == [l EXCEPT ![i].vtep = v]
<1>1. /\ l \in Seq(Entry) /\ Len(l) \in Nat /\ DOMAIN l = 1 .. Len(l)
      /\ \A j \in DOMAIN l : l[j] \in Entry
      /\ \A j, k \in DOMAIN l : l[j].name = l[k].name => j = k
  BY ListFacts DEF Objects
<1>2. /\ DOMAIN m = DOMAIN l
      /\ \A j \in DOMAIN l : /\ m[j] \in Entry /\ m[j].name = l[j].name
                             /\ m[j].vtep = IF j = i THEN v ELSE l[j].vtep
  BY <1>1 DEF Entry
<1>3. m \in Seq(Entry)
  <2>1. m \in [1 .. Len(l) -> Entry]
    BY <1>1, <1>2
  <2> QED
    BY <1>1, <2>1, SeqDef
<1>4. m \in NodeLists
  <2>1. \A j, k \in DOMAIN m : m[j].name = m[k].name => j = k
    BY <1>1, <1>2
  <2> HIDE DEF m
  <2> QED
    BY <1>3, <2>1, ListIntro
<1>5. n \in Objects /\ n.exists = o.exists /\ n.edited = o.edited /\ n.nodes = m
  BY <1>4 DEF Objects
<1> HIDE DEF m
<1>6. ASSUME NEW y PROVE Has(n, y) <=> Has(o, y)
  BY <1>2, <1>5 DEF Has
<1>7. ASSUME NEW y, Has(o, y)
      PROVE  /\ Index(n, y) = Index(o, y)
             /\ n.nodes[Index(n, y)].vtep = IF Index(o, y) = i THEN v
                                            ELSE o.nodes[Index(o, y)].vtep
  <2>1. Index(o, y) \in DOMAIN l /\ l[Index(o, y)].name = y
    BY <1>7, IndexFacts
  <2>2. \A j \in DOMAIN n.nodes : n.nodes[j].name = y => j = Index(n, y)
    BY <1>5, <1>6, <1>7, IndexFacts
  <2>3. Index(n, y) = Index(o, y)
    BY <1>2, <1>5, <2>1, <2>2
  <2> QED
    BY <1>2, <1>5, <2>1, <2>3
<1> QED
  BY <1>5, <1>6, <1>7

-----------------------------------------------------------------------------
(* Types.                                                                  *)

WorldTypes ==
  /\ api \in [Tenants -> Objects] /\ cache \in [Tenants -> Objects]
  /\ watch \in Seq([tenant : Tenants, obj : Objects, mac : BOOLEAN])
  /\ queue \in Seq(Events)

\* An Add that has published is of a tenant whose store, when it was loaded, had a subnet.
AddInv == pc \in {"vxlan", "label", "rules"} => loaded.subnet \in Subnets

WorkerTypes == pc \in Labels /\ ev \in Events /\ view \in Objects /\ loaded \in Contents /\ AddInv

RuleTypes ==
  /\ dropped \in SUBSET (Subnets \X Subnets) /\ missed \in SUBSET (Subnets \X Subnets)
  /\ accepted \in SUBSET Subnets

SetTypes ==
  /\ vxlan \in SUBSET Tenants /\ routes \in SUBSET Tenants
  /\ labelled \in SUBSET Tenants /\ failed \in SUBSET Tenants /\ starved \in SUBSET Tenants
  /\ astray \in SUBSET Tenants /\ refused \in SUBSET (Tenants \X {"accept", "entries"})
  /\ restarted \in BOOLEAN

BoundTypes ==
  /\ removed \in SUBSET (Tenants \X {"me", "peer", "object"})
  /\ changes \in 0 .. MaxChanges /\ faults \in 0 .. MaxFaults

StoreTypes ==
  /\ store \in [Tenants -> Subnets \cup {None, Blank}] /\ altered \in SUBSET Tenants
  /\ past \in [Tenants -> SUBSET Contents]

TypeInv == WorldTypes /\ WorkerTypes /\ RuleTypes /\ SetTypes /\ BoundTypes /\ StoreTypes

\* An object that does not exist, and an event that is none.
LEMMA AbsentTypes == Absent \in Objects /\ ~Here(Absent) /\ NoEvent \in Events
<1>1. <<>> \in NodeLists
  <2>1. <<>> \in Seq(Entry) /\ DOMAIN <<>> = {}
    OBVIOUS
  <2> QED
    BY <2>1, ListIntro
<1>2. Absent \in Objects /\ Absent.nodes = <<>>
  BY <1>1 DEF Absent, Objects
<1> QED
  BY <1>2 DEF NoEvent, Event, Events, Here, Has

\* What is loaded from a store, or from none.
LEMMA ContentTypes ==
  ASSUME StoreTypes
  PROVE  /\ Nothing \in Contents
         /\ \A t \in Tenants : Content(t) \in Contents /\ Content(t).subnet = Touched(t)[t]
  BY DEF StoreTypes, Nothing, Content, Contents, Touched

\* A new event.
LEMMA EventTypes ==
  ASSUME NEW k \in {"Add", "Update", "Delete", "Tombstone"}, NEW t \in Tenants,
         NEW o \in Objects, NEW n \in Objects, NEW m \in BOOLEAN
  PROVE  Event(k, t, o, n, m) \in Events
  BY DEF Event, Events

\* The kind of an event.
LEMMA KindType ==
  ASSUME NEW o, NEW n, NEW g \in {"Delete", "Tombstone"}
  PROVE  Kind(o, n, g) \in {"Add", "Update", g}
  BY DEF Kind

\* A list of elements of one set.
LEMMA ListOf ==
  ASSUME NEW S, NEW k \in Nat, NEW r, r = [i \in 1 .. k |-> r[i]], \A i \in 1 .. k : r[i] \in S
  PROVE  r \in Seq(S)
<1>1. r \in [1 .. k -> S]
  OBVIOUS
<1> QED
  BY <1>1, SeqDef

\* A sequence without its first element.
LEMMA TailOf ==
  ASSUME NEW S, NEW q \in Seq(S), q # <<>> PROVE Head(q) \in S /\ Tail(q) \in Seq(S)
  OBVIOUS

\* An element of a sequence.
LEMMA ElementOf ==
  ASSUME NEW S, NEW q \in Seq(S), NEW i \in DOMAIN q PROVE q[i] \in S
  OBVIOUS

\* What is in the queues is of its type.
LEMMA QueueTypes ==
  ASSUME WorldTypes
  PROVE  /\ Len(watch) \in Nat /\ DOMAIN watch = 1 .. Len(watch)
         /\ \A i \in DOMAIN watch :
              watch[i].tenant \in Tenants /\ watch[i].obj \in Objects /\ watch[i].mac \in BOOLEAN
         /\ Len(queue) \in Nat /\ DOMAIN queue = 1 .. Len(queue)
         /\ \A i \in DOMAIN queue : queue[i] \in Events
<1> DEFINE R == [tenant : Tenants, obj : Objects, mac : BOOLEAN]
<1>1. watch \in Seq(R) /\ queue \in Seq(Events)
  BY DEF WorldTypes
<1>2. \A i \in DOMAIN watch : watch[i] \in R
  <2> HIDE DEF R
  <2> QED
    BY <1>1, ElementOf
<1>3. \A i \in DOMAIN queue : queue[i] \in Events
  BY <1>1, ElementOf
<1> QED
  BY <1>1, <1>2, <1>3

\* The lists in which Relist and Restart put the tenants of a set.
LEMMA OrdersFacts ==
  ASSUME NEW S, S \subseteq Tenants, NEW s \in Orders(S)
  PROVE  /\ Cardinality(S) \in Nat /\ DOMAIN s = 1 .. Cardinality(S)
         /\ \A i \in DOMAIN s : s[i] \in S
  BY TenantsAssumption, FS_Subset, FS_CardinalityType DEF Orders

\* What the next daemon starts with.
LEMMA RestartTypes ==
  ASSUME TypeInv, Restart
  PROVE  /\ WorldTypes' /\ WorkerTypes'
         /\ pc' = "idle" /\ failed' = {} /\ starved' = {} /\ restarted' = TRUE
<1> DEFINE A == {t \in Tenants : api[t].exists}
           k == Cardinality(A)
<1>1. PICK s \in Orders(A) :
        queue' = [i \in DOMAIN s |-> Event("Add", s[i], Absent, api[s[i]], FALSE)]
  BY DEF Restart
<1> DEFINE r == [i \in 1 .. k |-> Event("Add", s[i], Absent, api[s[i]], FALSE)]
<1>2. k \in Nat /\ DOMAIN s = 1 .. k /\ \A i \in 1 .. k : s[i] \in Tenants
  <2>1. A \subseteq Tenants
    OBVIOUS
  <2> HIDE DEF A
  <2> QED
    BY <1>1, <2>1, OrdersFacts
<1>3. \A i \in 1 .. k : r[i] \in Events
  <2> SUFFICES ASSUME NEW i \in 1 .. k PROVE Event("Add", s[i], Absent, api[s[i]], FALSE) \in Events
    OBVIOUS
  <2>1. s[i] \in Tenants /\ api[s[i]] \in Objects
    BY <1>2 DEF TypeInv, WorldTypes
  <2> QED
    BY <2>1, AbsentTypes, EventTypes
<1>4. queue' = r
  BY <1>1, <1>2
<1>5. r \in Seq(Events)
  <2>1. r = [i \in 1 .. k |-> r[i]]
    OBVIOUS
  <2> HIDE DEF r, k
  <2> QED
    BY <1>2, <1>3, <2>1, ListOf
<1>6. queue' \in Seq(Events)
  BY <1>4, <1>5
<1> QED
  BY <1>6, AbsentTypes, ContentTypes DEF Restart, Done, TypeInv, WorldTypes, WorkerTypes, AddInv, Labels

\* A change of an object.
LEMMA PutTypes ==
  ASSUME TypeInv, NEW t \in Tenants, NEW o \in Objects, NEW m \in BOOLEAN, Put(t, o, m),
         UNCHANGED queue
  PROVE  WorldTypes'
<1>1. [tenant |-> t, obj |-> o, mac |-> m] \in [tenant : Tenants, obj : Objects, mac : BOOLEAN]
  OBVIOUS
<1> QED
  BY <1>1 DEF Put, TypeInv, WorldTypes

\* The events of a new list.
LEMMA RelistTypes == ASSUME TypeInv, Relist PROVE WorldTypes'
<1> DEFINE S == {t \in Lost : cache[t] # api[t] \/ NewMac(t)}
           E(t) == Event(Kind(cache[t], api[t], "Tombstone"), t, cache[t], api[t], NewMac(t))
<1>1. S \subseteq Tenants
  <2>1. \A i \in DOMAIN watch : watch[i].tenant \in Tenants
    BY QueueTypes DEF TypeInv
  <2> QED
    BY <2>1 DEF Lost
<1>2. PICK s \in Orders(S) : queue' = queue \o [i \in DOMAIN s |-> E(s[i])]
  BY DEF Relist
<1> DEFINE k == Cardinality(S)
           r == [i \in 1 .. k |-> E(s[i])]
<1>3. k \in Nat /\ DOMAIN s = 1 .. k /\ \A i \in 1 .. k : s[i] \in Tenants
  <2> HIDE DEF S
  <2> QED
    BY <1>1, <1>2, OrdersFacts
<1>4. \A i \in 1 .. k : r[i] \in Events
  <2> SUFFICES ASSUME NEW t \in Tenants PROVE E(t) \in Events
    BY <1>3
  <2>1. cache[t] \in Objects /\ api[t] \in Objects /\ NewMac(t) \in BOOLEAN
    BY DEF TypeInv, WorldTypes, NewMac
  <2> QED
    BY <2>1, KindType, EventTypes
<1>5. r \in Seq(Events)
  <2>1. r = [i \in 1 .. k |-> r[i]]
    OBVIOUS
  <2> HIDE DEF r, k
  <2> QED
    BY <1>3, <1>4, <2>1, ListOf
<1>6. queue' = queue \o r
  BY <1>2, <1>3
<1>7. queue' \in Seq(Events)
  <2> HIDE DEF r
  <2> QED
    BY <1>5, <1>6 DEF TypeInv, WorldTypes
<1> QED
  BY <1>7 DEF Relist, TypeInv, WorldTypes

\* An object that users have changed is an object.
LEMMA UserTypes ==
  ASSUME WorldTypes, NEW t \in Tenants,
         \/ Create(t) \/ Join(t, "me") \/ Join(t, "peer")
         \/ Leave(t, "me") \/ Leave(t, "peer") \/ PeerPublishes(t)
         \/ Edit(t) \/ RemoveObject(t)
  PROVE  \E n \in Objects : Change(t, n)
<1>1. api[t] \in Objects
  BY DEF WorldTypes
<1>2. ASSUME NEW l, l \in {<<>>, <<Listed("me")>>, <<Listed("peer")>>,
                          <<Listed("me"), Listed("peer")>>, <<Listed("peer"), Listed("me")>>}
      PROVE  l \in NodeLists
  <2>1. Listed("me") \in Entry /\ Listed("peer") \in Entry /\ Listed("me").name # Listed("peer").name
    BY DEF Listed, Entry
  <2>2. ASSUME NEW a \in Entry, NEW b \in Entry, a.name # b.name, l \in {<<>>, <<a>>, <<a, b>>}
        PROVE  l \in NodeLists
    <3>1. CASE l = <<>>
      <4>1. <<>> \in Seq(Entry) /\ DOMAIN <<>> = {}
        OBVIOUS
      <4> QED
        BY <3>1, <4>1, ListIntro
    <3>2. CASE l = <<a>>
      <4>1. l \in Seq(Entry) /\ DOMAIN l = {1}
        BY <2>2, <3>2
      <4> QED
        BY <4>1, ListIntro
    <3>3. CASE l = <<a, b>>
      <4>1. l \in Seq(Entry) /\ DOMAIN l = {1, 2} /\ l[1] = a /\ l[2] = b
        BY <2>2, <3>3
      <4>2. \A i, j \in DOMAIN l : l[i].name = l[j].name => i = j
        BY <2>2, <4>1
      <4> QED
        BY <4>1, <4>2, ListIntro
    <3> QED
      BY <2>2, <3>1, <3>2, <3>3
  <2> HIDE DEF Listed
  <2> QED
    BY <1>2, <2>1, <2>2
<1>3. CASE Create(t)
  <2>1. PICK l \in {<<>>, <<Listed("me")>>, <<Listed("peer")>>,
                    <<Listed("me"), Listed("peer")>>, <<Listed("peer"), Listed("me")>>} :
          Change(t, [Absent EXCEPT !.exists = TRUE, !.nodes = l])
    BY <1>3 DEF Create
  <2>2. l \in NodeLists
    BY <1>2
  <2>3. [Absent EXCEPT !.exists = TRUE, !.nodes = l] \in Objects
    BY <2>2, AbsentTypes DEF Objects
  <2> QED
    BY <2>1, <2>3
<1>4. ASSUME NEW x \in {"me", "peer"}, Join(t, x) PROVE \E n \in Objects : Change(t, n)
  <2>1. api[t] \in Objects /\ ~Has(api[t], x)
    BY <1>1, <1>4 DEF Join
  <2>2. [api[t] EXCEPT !.nodes = Append(@, Listed(x))] \in Objects
    BY <2>1, Joined
  <2> QED
    BY <1>4, <2>2 DEF Join
<1>5. ASSUME NEW x \in {"me", "peer"}, Leave(t, x) PROVE \E n \in Objects : Change(t, n)
  BY <1>1, <1>5, Left DEF Leave
<1>6. CASE PeerPublishes(t)
  BY <1>1, <1>6, IndexFacts, Written DEF PeerPublishes
<1>7. CASE Edit(t)
  BY <1>1, <1>7 DEF Edit, Objects
<1>8. CASE RemoveObject(t)
  BY <1>8, AbsentTypes DEF RemoveObject
<1> QED
  BY <1>3, <1>4, <1>5, <1>6, <1>7, <1>8

\* Only the changes that Publish and Revert make of the lister's object are the daemon's.
LEMMA PublishTypes ==
  ASSUME TypeInv, QueueInv, Publish, ~Restart PROVE WorldTypes'
<1> DEFINE t == ev.tenant
           o == cache[t]
           k == Index(view, "me")
<1>1. t \in Tenants /\ o \in Objects /\ UNCHANGED queue
  BY DEF Publish, QueueInv, TypeInv, WorldTypes
<1>2. CASE UNCHANGED world
  BY <1>1, <1>2 DEF world, TypeInv, WorldTypes
<1>3. CASE ~UNCHANGED world
  <2>1. PICK m \in BOOLEAN : /\ Put(t, [o EXCEPT !.nodes[k].vtep = loaded.subnet], m)
                             /\ loaded.subnet \in Subnets /\ k \in DOMAIN o.nodes
    BY <1>3 DEF Publish
  <2>2. [o EXCEPT !.nodes[k].vtep = loaded.subnet] \in Objects
    BY <1>1, <2>1, Written
  <2> HIDE DEF o, k, t
  <2> QED
    BY <1>1, <2>1, <2>2, PutTypes
<1> QED
  BY <1>2, <1>3

\* Revert writes the fields of the store back.
LEMMA RevertTypes ==
  ASSUME TypeInv, QueueInv, Revert, ~Restart PROVE WorldTypes'
<1> DEFINE t == ev.tenant
           o == cache[t]
<1>1. t \in Tenants /\ o \in Objects /\ UNCHANGED queue
  BY DEF Revert, QueueInv, TypeInv, WorldTypes
<1>2. CASE UNCHANGED world
  BY <1>1, <1>2 DEF world, TypeInv, WorldTypes
<1>3. CASE ~UNCHANGED world
  <2>1. Put(t, [o EXCEPT !.edited = loaded.edited], FALSE)
    BY <1>3 DEF Revert
  <2>2. [o EXCEPT !.edited = loaded.edited] \in Objects
    BY <1>1 DEF Objects, TypeInv, WorkerTypes, Contents
  <2> HIDE DEF o, t
  <2> QED
    BY <1>1, <2>1, <2>2, PutTypes
<1> QED
  BY <1>2, <1>3

\* Every step leaves objects and events in the API, the lister and the queues.
LEMMA WorldTypesStep == ASSUME TypeInv, QueueInv, [Next]_vars PROVE WorldTypes'
<1> DEFINE Changes == [tenant : Tenants, obj : Objects, mac : BOOLEAN]
<1>1. /\ api \in [Tenants -> Objects] /\ cache \in [Tenants -> Objects]
      /\ watch \in Seq(Changes) /\ queue \in Seq(Events) /\ WorldTypes
  BY DEF TypeInv, WorldTypes
<1>2. CASE UNCHANGED <<world, queue>>
  BY <1>1, <1>2 DEF world, WorldTypes
<1>3. CASE UNCHANGED world /\ queue # <<>> /\ queue' = Tail(queue)
  <2>1. queue' \in Seq(Events)
    BY <1>1, <1>3, TailOf
  <2> QED
    BY <1>1, <1>3, <2>1 DEF world, WorldTypes
<1>4. CASE Restart
  BY <1>4, RestartTypes
<1>5. CASE Deliver
  <2> DEFINE t == Head(watch).tenant
             n == Head(watch).obj
             m == Head(watch).mac
             e == Event(Kind(cache[t], n, "Delete"), t, cache[t], n, m)
  <2>1. /\ watch # <<>> /\ watch' = Tail(watch) /\ cache' = [cache EXCEPT ![t] = n]
        /\ queue' = Append(queue, e) /\ UNCHANGED api
    BY <1>5 DEF Deliver
  <2>2. Head(watch) \in Changes /\ watch' \in Seq(Changes)
    <3> HIDE DEF Changes
    <3> QED
      BY <1>1, <2>1, TailOf
  <2>3. t \in Tenants /\ n \in Objects /\ m \in BOOLEAN /\ cache[t] \in Objects
    BY <1>1, <2>2
  <2>4. e \in Events
    BY <2>3, KindType, EventTypes
  <2>5. queue' \in Seq(Events)
    <3> HIDE DEF e
    <3> QED
      BY <1>1, <2>1, <2>4
  <2>6. cache' \in [Tenants -> Objects]
    <3> HIDE DEF n, t
    <3> QED
      BY <1>1, <2>1, <2>3
  <2> QED
    BY <1>1, <2>1, <2>2, <2>5, <2>6 DEF WorldTypes
<1>6. CASE Relist
  BY <1>6, RelistTypes
<1>7. CASE UpdateMembership
  <2> DEFINE h == Head(queue)
             e == IF Here(h.new) THEN Event("Add", h.tenant, Absent, h.new, FALSE)
                                 ELSE Event("Delete", h.tenant, h.old, Absent, FALSE)
  <2>1. queue # <<>> /\ queue' = Append(Tail(queue), e) /\ UNCHANGED world
    BY <1>7 DEF UpdateMembership
  <2>2. h \in Events /\ Tail(queue) \in Seq(Events)
    BY <1>1, <2>1, TailOf
  <2>3. h.tenant \in Tenants /\ h.old \in Objects /\ h.new \in Objects
    BY <2>1, <2>2, TenantSeqTail DEF QueueInv, Events
  <2>4. e \in Events
    BY <2>3, AbsentTypes, EventTypes
  <2>5. queue' \in Seq(Events)
    <3> HIDE DEF e
    <3> QED
      BY <2>1, <2>2, <2>4
  <2> QED
    BY <1>1, <2>1, <2>5 DEF world, WorldTypes
<1>8. CASE (Add \/ Update \/ Delete) /\ ~Restart
  BY <1>3, <1>8 DEF Add, Update, Delete
<1>9. CASE Publish /\ ~Restart
  BY <1>9, PublishTypes
<1>10. CASE Revert /\ ~Restart
  BY <1>10, RevertTypes
<1>11. CASE UNCHANGED vars \/ Provision \/ LoadStore \/ (CreateVxlan /\ ~Restart) \/ LabelNode \/ InsertRules
            \/ DeleteDevices \/ DeleteStore \/ Reclaim
  BY <1>2, <1>11 DEF vars, Provision, LoadStore, CreateVxlan, LabelNode, InsertRules, DeleteDevices,
                     DeleteStore, Reclaim
<1>12. CASE Crash \/ DeleteTombstone
  BY <1>4, <1>12 DEF Crash, DeleteTombstone
<1>13. ASSUME NEW t \in Tenants,
              \/ Create(t) \/ Join(t, "me") \/ Join(t, "peer")
              \/ Leave(t, "me") \/ Leave(t, "peer") \/ PeerPublishes(t)
              \/ Edit(t) \/ RemoveObject(t)
       PROVE  WorldTypes'
  <2>1. PICK n \in Objects : Change(t, n)
    BY <1>1, <1>13, UserTypes
  <2> QED
    BY <2>1, PutTypes DEF Change
<1>14. ASSUME NEW t \in Tenants, PodCommand(t) \/ LateWrite(t) PROVE WorldTypes'
  BY <1>2, <1>14 DEF PodCommand, LateWrite
<1> QED
  BY <1>4, <1>5, <1>6, <1>7, <1>8, <1>9, <1>10, <1>11, <1>12, <1>13, <1>14 DEF Next, Work

\* The worker has an event, an object and a store's content whatever it does next.
LEMMA WorkerTypesStep == ASSUME TypeInv, QueueInv, [Next]_vars PROVE WorkerTypes'
<1>1. /\ pc \in Labels /\ ev \in Events /\ view \in Objects /\ loaded \in Contents /\ AddInv
      /\ WorldTypes
  BY DEF TypeInv, WorkerTypes
<1>2. CASE UNCHANGED worker
  BY <1>1, <1>2 DEF worker, WorkerTypes, AddInv
<1>3. CASE Done
  BY <1>3, AbsentTypes, ContentTypes DEF Done, WorkerTypes, Labels, AddInv, TypeInv
<1>4. CASE Restart
  BY <1>4, RestartTypes
<1>5. ASSUME NEW l \in Labels, Goto(l), l # "vxlan", l \in {"label", "rules"} => pc \in {"vxlan", "label"}
      PROVE  WorkerTypes'
  BY <1>1, <1>5 DEF Goto, WorkerTypes, AddInv
<1>6. ASSUME queue # <<>> PROVE /\ Head(queue) \in Events /\ Head(queue).tenant \in Tenants
                                /\ cache[Head(queue).tenant] \in Objects
                                /\ Content(Head(queue).tenant) \in Contents
  BY <1>1, <1>6, TailOf, TenantSeqTail, ContentTypes DEF WorldTypes, QueueInv, TypeInv
<1>7. CASE Add /\ ~Restart
  <2>1. CASE ~Done
    <3>1. /\ ev' = Head(queue) /\ view' = cache[Head(queue).tenant] /\ queue # <<>>
          /\ pc' \in {"load", "provision"} /\ UNCHANGED loaded
      BY <1>7, <2>1 DEF Add
    <3> QED
      BY <1>1, <1>6, <3>1 DEF WorkerTypes, AddInv, Labels
  <2> QED
    BY <1>3, <2>1
<1>8. CASE Publish /\ ~Restart
  <2>1. cache[ev.tenant] \in Objects
    BY <1>1, <1>8 DEF Publish, QueueInv, WorldTypes
  <2>2. CASE loaded.subnet \in Subnets /\ pc' = "vxlan" /\ view' = cache[ev.tenant] /\ UNCHANGED <<ev, loaded>>
    BY <1>1, <2>1, <2>2 DEF WorkerTypes, AddInv, Labels
  <2> QED
    BY <1>2, <1>3, <1>8, <2>2 DEF Publish, GiveUp
<1>9. CASE (Update \/ Delete) /\ ~Restart
  <2>1. CASE Done
    BY <1>3, <2>1
  <2>2. CASE /\ pc' \in {"revert", "devices"} /\ ev' = Head(queue) /\ UNCHANGED view /\ queue # <<>>
             /\ loaded' \in {loaded, Content(Head(queue).tenant)}
    BY <1>1, <1>6, <2>2 DEF WorkerTypes, AddInv, Labels
  <2> QED
    BY <1>9, <2>1, <2>2 DEF Update, Delete
<1>10. CASE Revert /\ ~Restart
  BY <1>2, <1>3, <1>10 DEF Revert
<1>11. CASE Provision \/ (CreateVxlan /\ ~Restart) \/ DeleteDevices \/ DeleteStore
  BY <1>5, <1>11 DEF Provision, CreateVxlan, DeleteDevices, DeleteStore, Labels
<1>12. CASE LabelNode \/ InsertRules \/ Reclaim
  BY <1>3, <1>5, <1>12 DEF LabelNode, InsertRules, Reclaim, GiveUp, Labels
<1>13. CASE Crash \/ DeleteTombstone
  BY <1>4, <1>13 DEF Crash, DeleteTombstone
<1>14. CASE UNCHANGED vars \/ Deliver \/ Relist \/ UpdateMembership
  BY <1>2, <1>14 DEF vars, Deliver, Relist, UpdateMembership
<1>15. ASSUME NEW t \in Tenants,
              \/ Create(t) \/ Join(t, "me") \/ Join(t, "peer")
              \/ Leave(t, "me") \/ Leave(t, "peer") \/ PeerPublishes(t)
              \/ Edit(t) \/ RemoveObject(t) \/ PodCommand(t) \/ LateWrite(t)
       PROVE  WorkerTypes'
  BY <1>2, <1>15 DEF Create, Join, Leave, PeerPublishes, Edit, RemoveObject, PodCommand, LateWrite, Change
<1>16. CASE LoadStore
  <2>1. ev.tenant \in Tenants
    BY <1>16 DEF LoadStore, QueueInv
  <2>2. pc' = "publish" /\ loaded' \in Contents /\ UNCHANGED <<ev, view>>
    BY <1>16, <2>1, ContentTypes DEF LoadStore, TypeInv
  <2> QED
    BY <1>1, <2>2 DEF WorkerTypes, AddInv, Labels
<1> QED
  BY <1>4, <1>7, <1>8, <1>9, <1>10, <1>11, <1>12, <1>13, <1>14, <1>15, <1>16 DEF Next, Work

\* What the daemon has set up is for tenants of this cluster.
LEMMA SetTypesStep == ASSUME TypeInv, QueueInv, [Next]_vars PROVE SetTypes'
<1>1. /\ vxlan \in SUBSET Tenants /\ routes \in SUBSET Tenants
      /\ labelled \in SUBSET Tenants /\ failed \in SUBSET Tenants /\ starved \in SUBSET Tenants
      /\ astray \in SUBSET Tenants /\ refused \in SUBSET (Tenants \X {"accept", "entries"})
      /\ restarted \in BOOLEAN
  BY DEF TypeInv, SetTypes
<1>2. queue # <<>> => Head(queue).tenant \in Tenants
  BY TenantSeqTail DEF QueueInv
<1>3. pc # "idle" => ev.tenant \in Tenants
  BY DEF QueueInv
<1>4. CASE UNCHANGED <<devices, ghosts>>
  BY <1>1, <1>4 DEF devices, ghosts, skipped, SetTypes
<1>5. Restart => /\ failed' = {} /\ starved' = {} /\ restarted' = TRUE
                 /\ UNCHANGED <<astray, missed, refused>>
  BY RestartTypes DEF Restart, skipped
<1>6. CASE Restart /\ UNCHANGED devices
  BY <1>1, <1>5, <1>6 DEF devices, SetTypes
<1>7. CASE UNCHANGED vars \/ Deliver \/ LoadStore \/ Reclaim \/ UpdateMembership
  BY <1>4, <1>7 DEF vars, Deliver, LoadStore, Reclaim, UpdateMembership
<1>8. CASE Relist
  BY <1>1, <1>8 DEF Relist, devices, skipped, SetTypes
<1>9. CASE Add
  BY <1>1, <1>2, <1>6, <1>9 DEF Add, devices, skipped, SetTypes
<1>10. CASE Provision \/ DeleteStore
  BY <1>1, <1>3, <1>10 DEF Provision, DeleteStore, devices, skipped, SetTypes
<1>11. CASE Publish
  <2>1. UNCHANGED devices
    BY <1>11 DEF Publish
  <2>2. Restart \/ UNCHANGED ghosts \/ GiveUp(ev.tenant)
    BY <1>11 DEF Publish
  <2>3. CASE GiveUp(ev.tenant)
    BY <1>1, <1>3, <1>11, <2>1, <2>3 DEF Publish, GiveUp, devices, skipped, SetTypes
  <2> QED
    BY <1>4, <1>6, <2>1, <2>2, <2>3
<1>12. CASE CreateVxlan
  <2>1. vxlan' \in SUBSET Tenants /\ UNCHANGED <<routes, labelled>>
    BY <1>1, <1>3, <1>12 DEF CreateVxlan
  <2>2. Restart \/ UNCHANGED ghosts
    BY <1>12 DEF CreateVxlan
  <2> QED
    BY <1>1, <1>5, <2>1, <2>2 DEF ghosts, skipped, SetTypes
<1>13. CASE LabelNode
  BY <1>1, <1>3, <1>13 DEF LabelNode, GiveUp, ghosts, skipped, SetTypes
<1>14. CASE InsertRules
  <2>1. refused' \in SUBSET (Tenants \X {"accept", "entries"})
    BY <1>1, <1>3, <1>14 DEF InsertRules, Marked
  <2> QED
    BY <1>1, <1>14, <2>1 DEF InsertRules, SetTypes
<1>15. CASE Update
  <2>1. UNCHANGED <<vxlan, labelled>> /\ routes' \in SUBSET Tenants
    BY <1>1, <1>2, <1>15 DEF Update
  <2>2. \/ Restart
        \/ /\ UNCHANGED <<restarted, failed, starved, astray>>
           /\ refused' \in SUBSET (Tenants \X {"accept", "entries"})
    BY <1>1, <1>2, <1>15 DEF Update
  <2> QED
    BY <1>1, <1>5, <2>1, <2>2 DEF SetTypes
<1>16. CASE Revert \/ Delete \/ DeleteTombstone \/ Crash
  BY <1>4, <1>6, <1>16 DEF Revert, Delete, DeleteTombstone, Crash
<1>17. CASE DeleteDevices
  BY <1>1, <1>17 DEF DeleteDevices, ghosts, skipped, SetTypes
<1>18. ASSUME NEW t \in Tenants,
              \/ Create(t) \/ Join(t, "me") \/ Join(t, "peer")
              \/ Leave(t, "me") \/ Leave(t, "peer") \/ PeerPublishes(t)
              \/ Edit(t) \/ RemoveObject(t) \/ PodCommand(t)
       PROVE  SetTypes'
  BY <1>4, <1>18 DEF Create, Join, Leave, PeerPublishes, Edit, RemoveObject, PodCommand, Change
<1>19. ASSUME NEW t \in Tenants, LateWrite(t) PROVE SetTypes'
  BY <1>1, <1>19 DEF LateWrite, devices, skipped, SetTypes
<1> QED
  BY <1>7, <1>8, <1>9, <1>10, <1>11, <1>12, <1>13, <1>14, <1>15, <1>16, <1>17, <1>18, <1>19
     DEF Next, Work

\* The bounds are kept.
LEMMA BoundTypesStep == ASSUME TypeInv, [Next]_vars, QueueInv PROVE BoundTypes'
<1>1. /\ removed \in SUBSET (Tenants \X {"me", "peer", "object"})
      /\ changes \in 0 .. MaxChanges /\ faults \in 0 .. MaxFaults
  BY DEF TypeInv, BoundTypes
<1>2. CASE UNCHANGED bounds
  BY <1>1, <1>2 DEF bounds, BoundTypes
<1>3. CASE Fault
  BY <1>1, <1>3, BoundsAssumption DEF Fault, BoundTypes
<1>4. ASSUME NEW t \in Tenants, Refuses(t) PROVE BoundTypes'
  BY <1>2, <1>3, <1>4 DEF Refuses
<1>5. CASE UNCHANGED vars \/ Deliver \/ Relist \/ Add \/ Provision \/ LoadStore
  BY <1>2, <1>3, <1>5 DEF vars, Deliver, Relist, Add, Provision, LoadStore
<1>6. CASE Publish \/ Revert
  <2>1. ev.tenant \in Tenants
    BY <1>6 DEF Publish, Revert, QueueInv
  <2> QED
    BY <1>2, <1>4, <1>6, <2>1 DEF Publish, Revert
<1>7. CASE CreateVxlan \/ LabelNode \/ InsertRules
  BY <1>2, <1>3, <1>7 DEF CreateVxlan, LabelNode, InsertRules
<1>8. CASE UpdateMembership \/ Update \/ Delete
  BY <1>2, <1>3, <1>8 DEF UpdateMembership, Update, Delete
<1>9. CASE DeleteTombstone \/ DeleteDevices \/ DeleteStore \/ Reclaim \/ Crash
  BY <1>2, <1>3, <1>9 DEF DeleteTombstone, DeleteDevices, DeleteStore, Reclaim, Crash
<1>10. ASSUME NEW t \in Tenants,
              \/ Create(t) \/ Join(t, "me") \/ Join(t, "peer")
              \/ Leave(t, "me") \/ Leave(t, "peer") \/ PeerPublishes(t)
              \/ Edit(t) \/ RemoveObject(t)
       PROVE  BoundTypes'
  <2>1. (\E o : Change(t, o)) /\ (UNCHANGED removed \/
                                  \E x \in {"me", "peer", "object"} : removed' = removed \cup {<<t, x>>})
    BY <1>10 DEF Create, Join, Leave, PeerPublishes, Edit, RemoveObject
  <2>2. removed' \in SUBSET (Tenants \X {"me", "peer", "object"})
    BY <1>1, <2>1
  <2>3. UNCHANGED faults /\ changes' = changes + 1 /\ changes + faults < MaxChanges
    BY <2>1 DEF Change
  <2>4. changes' \in 0 .. MaxChanges
    BY <1>1, <2>3, BoundsAssumption
  <2> QED
    BY <1>1, <2>2, <2>3, <2>4 DEF BoundTypes
<1>11. ASSUME NEW t \in Tenants, PodCommand(t) \/ LateWrite(t) PROVE BoundTypes'
  BY <1>2, <1>3, <1>11 DEF PodCommand, LateWrite
<1> QED
  BY <1>5, <1>6, <1>7, <1>8, <1>9, <1>10, <1>11 DEF Next, Work

\* What a store holds is a subnet, or nothing.
LEMMA StoreTypesStep == ASSUME TypeInv, StoreInv, [Next]_vars PROVE StoreTypes'
<1>1. /\ store \in [Tenants -> Subnets \cup {None, Blank}] /\ altered \in SUBSET Tenants
      /\ past \in [Tenants -> SUBSET Contents]
      /\ node.list \in [Tenants -> Subnets \cup {None}]
  BY DEF TypeInv, StoreTypes, StoreInv, NodeInv
<1>2. pc # "idle" => ev.tenant \in Tenants
  BY DEF StoreInv, QueueInv
<1>3. CASE (UNCHANGED store \/ \E t : store' = Touched(t)) /\ UNCHANGED <<altered, past>>
  <2>1. store' \in [Tenants -> Subnets \cup {None, Blank}]
    BY <1>1, <1>3 DEF Touched
  <2> QED
    BY <1>1, <1>3, <2>1 DEF StoreTypes
<1>4. CASE Provision
  <2> DEFINE t == ev.tenant
             c == [subnet |-> node.list[t], edited |-> view.edited]
  <2>1. t \in Tenants /\ node.list[t] \in Subnets \cup {None} /\ c \in Contents
    BY <1>1, <1>2, <1>4 DEF Provision, Contents, TypeInv, WorkerTypes, Objects
  <2>2. \/ UNCHANGED stores
        \/ /\ store' = [store EXCEPT ![t] = node.list[t]] /\ altered' = Marked(altered, t, view.edited)
           /\ past' = [past EXCEPT ![t] = @ \cup {c}]
    BY <1>4 DEF Provision
  <2> HIDE DEF c, t
  <2> QED
    BY <1>1, <2>1, <2>2 DEF stores, StoreTypes, Marked
<1>5. CASE UNCHANGED vars \/ Deliver \/ Relist \/ Add \/ LoadStore \/ Publish
  BY <1>3, <1>5 DEF vars, stores, Deliver, Relist, Add, LoadStore, Publish
<1>6. CASE CreateVxlan \/ LabelNode \/ InsertRules \/ UpdateMembership \/ Update \/ Revert
  BY <1>3, <1>6 DEF stores, CreateVxlan, LabelNode, InsertRules, UpdateMembership, Update, Revert
<1>7. CASE Delete \/ DeleteTombstone \/ DeleteDevices \/ Reclaim \/ Crash
  BY <1>3, <1>7 DEF stores, Delete, DeleteTombstone, DeleteDevices, Reclaim, Crash
<1>8. CASE DeleteStore
  BY <1>1, <1>2, <1>8 DEF DeleteStore, StoreTypes
<1>9. ASSUME NEW t \in Tenants,
             \/ Create(t) \/ Join(t, "me") \/ Join(t, "peer")
             \/ Leave(t, "me") \/ Leave(t, "peer") \/ PeerPublishes(t)
             \/ Edit(t) \/ RemoveObject(t) \/ PodCommand(t)
      PROVE  StoreTypes'
  BY <1>3, <1>9 DEF stores, Create, Join, Leave, PeerPublishes, Edit, RemoveObject, PodCommand, Change
<1>10. ASSUME NEW t \in Tenants, LateWrite(t) PROVE StoreTypes'
  <2>1. PICK c \in past[t] \cup {[subnet |-> Blank, edited |-> FALSE]} :
          store' = [store EXCEPT ![t] = c.subnet] /\ altered' = Marked(altered, t, c.edited)
    BY <1>10 DEF LateWrite
  <2>2. c.subnet \in Subnets \cup {None, Blank}
    BY <1>1, <2>1 DEF Contents
  <2> QED
    BY <1>1, <1>10, <2>1, <2>2 DEF LateWrite, StoreTypes, Marked
<1> QED
  BY <1>4, <1>5, <1>6, <1>7, <1>8, <1>9, <1>10 DEF Next, Work

\* The rules name subnets: those of the stores and of the TenantList.
LEMMA RuleTypesStep == ASSUME TypeInv, StoreInv, [Next]_vars PROVE RuleTypes'
<1>1. /\ dropped \in SUBSET (Subnets \X Subnets) /\ missed \in SUBSET (Subnets \X Subnets)
      /\ accepted \in SUBSET Subnets
  BY DEF TypeInv, RuleTypes
<1>2. CASE InsertRules
  <2> DEFINE B == BlockedBy(ev.tenant)
  <2>1. loaded.subnet \in Subnets /\ node.list \in [Tenants -> Subnets \cup {None}]
    BY <1>2 DEF InsertRules, TypeInv, WorkerTypes, AddInv, StoreInv, NodeInv
  <2>2. Others(ev.tenant) \in SUBSET Subnets
    BY <2>1 DEF Others
  <2>3. B \in SUBSET (Subnets \X Subnets)
    BY <2>1, <2>2 DEF BlockedBy
  <2>4. /\ accepted' \in {accepted, accepted \cup {loaded.subnet}}
        /\ \E lost \in SUBSET B : dropped' = dropped \cup (B \ lost) /\ missed' = (missed \ B) \cup lost
    <3>1. CASE /\ accepted' = accepted \cup {loaded.subnet} /\ dropped' = dropped \cup B
               /\ missed' = missed \ B
      <4>1. dropped' = dropped \cup (B \ {}) /\ missed' = (missed \ B) \cup {} /\ {} \in SUBSET B
        BY <3>1
      <4> QED
        BY <3>1, <4>1
    <3>2. CASE \E a \in BOOLEAN, lost \in SUBSET B :
                 /\ accepted' = IF a THEN accepted \cup {loaded.subnet} ELSE accepted
                 /\ dropped' = dropped \cup (B \ lost) /\ missed' = (missed \ B) \cup lost
      BY <3>2
    <3> QED
      BY <1>2, <3>1, <3>2 DEF InsertRules
  <2> HIDE DEF B
  <2> QED
    BY <1>1, <2>1, <2>3, <2>4 DEF RuleTypes
<1>3. CASE UNCHANGED <<dropped, accepted, missed>>
  BY <1>1, <1>3 DEF RuleTypes
<1>4. CASE UNCHANGED <<rules, missed>>
  BY <1>3, <1>4 DEF rules
<1>5. Restart => UNCHANGED missed
  BY DEF Restart, skipped
<1>6. CASE UNCHANGED vars \/ Deliver \/ Relist \/ Crash
  BY <1>4, <1>5, <1>6 DEF vars, devices, ghosts, skipped, Deliver, Relist, Crash
<1>7. CASE Add \/ Provision \/ LoadStore \/ Publish
  BY <1>4, <1>5, <1>7 DEF Add, Provision, LoadStore, Publish, GiveUp, devices, ghosts, skipped
<1>8. CASE CreateVxlan \/ LabelNode \/ UpdateMembership
  BY <1>4, <1>5, <1>8 DEF CreateVxlan, LabelNode, UpdateMembership, GiveUp, devices, ghosts, skipped
<1>9. CASE Update \/ Revert
  BY <1>4, <1>5, <1>9 DEF Update, Revert, devices, ghosts, skipped
<1>10. CASE Delete \/ DeleteTombstone \/ DeleteDevices \/ DeleteStore \/ Reclaim
  BY <1>4, <1>5, <1>10 DEF Delete, DeleteTombstone, DeleteDevices, DeleteStore, Reclaim, devices,
                           ghosts, skipped
<1>11. ASSUME NEW t \in Tenants,
             \/ Create(t) \/ Join(t, "me") \/ Join(t, "peer")
             \/ Leave(t, "me") \/ Leave(t, "peer") \/ PeerPublishes(t)
             \/ Edit(t) \/ RemoveObject(t) \/ PodCommand(t) \/ LateWrite(t)
      PROVE  RuleTypes'
  BY <1>4, <1>11 DEF Create, Join, Leave, PeerPublishes, Edit, RemoveObject, PodCommand, LateWrite,
                     Change, devices, ghosts, skipped
<1> QED
  BY <1>2, <1>6, <1>7, <1>8, <1>9, <1>10, <1>11 DEF Next, Work

\* The types hold at the start.
LEMMA TypeInvInit == Init => TypeInv
<1> SUFFICES ASSUME Init PROVE TypeInv
  OBVIOUS
<1>1. WorldTypes
  BY AbsentTypes DEF Init, WorldTypes
<1>2. WorkerTypes
  BY AbsentTypes DEF Init, WorkerTypes, AddInv, Labels, Nothing, Contents
<1>3. RuleTypes
  BY DEF Init, RuleTypes
<1>4. SetTypes
  BY DEF Init, SetTypes
<1>5. BoundTypes
  <2>1. 0 \in 0 .. MaxChanges /\ 0 \in 0 .. MaxFaults
    BY BoundsAssumption
  <2> QED
    BY <2>1 DEF Init, BoundTypes
<1>6. StoreTypes
  BY DEF Init, StoreTypes
<1> QED
  BY <1>1, <1>2, <1>3, <1>4, <1>5, <1>6 DEF TypeInv

\* No step breaks them.
LEMMA TypeInvStep == StoreInv /\ TypeInv /\ [Next]_vars => TypeInv'
  BY WorldTypesStep, WorkerTypesStep, SetTypesStep, BoundTypesStep, StoreTypesStep, RuleTypesStep
     DEF TypeInv, StoreInv

\* Every variable keeps its type; in particular the rules speak of subnets only, a
\* handler has its event, and Spec.Nodes never names a node twice.
THEOREM TypeCorrect == Spec => []TypeOK
<1>1. StoreInv /\ TypeInv => TypeOK
  BY DEF StoreInv, NodeInv, TypeInv, WorldTypes, WorkerTypes, RuleTypes, SetTypes, BoundTypes,
         StoreTypes, TypeOK
<1> QED
  BY <1>1, StoreInvInit, StoreInvStep, TypeInvInit, TypeInvStep, PTL DEF Spec

=============================================================================
