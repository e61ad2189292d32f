----------------------- MODULE TenantLifecycle_proofs -----------------------
(***************************************************************************)
(* Proofs about TenantLifecycle, for any finite sets of tenants and pods,   *)
(* however tenants come and go, whatever commands run meanwhile, and        *)
(* wherever commands and the daemon die.                                    *)
(***************************************************************************)
EXTENDS TenantLifecycle, TLAPS, FiniteSetTheorems, SequenceTheorems, WellFoundedInduction

-----------------------------------------------------------------------------
(* Sequences, and the least of some numbers.                                *)

\* A sequence is a function on its indices.
LEMMA SeqFacts ==
  ASSUME NEW S, NEW q \in Seq(S)
  PROVE  /\ Len(q) \in Nat /\ DOMAIN q = 1 .. Len(q)
         /\ \A i \in DOMAIN q : q[i] \in S
         /\ q # <<>> <=> Len(q) # 0
OBVIOUS

\* What is left of a sequence without its first element.
LEMMA TailFacts ==
  ASSUME NEW S, NEW q \in Seq(S), q # <<>>
  PROVE  /\ Head(q) = q[1] /\ 1 \in DOMAIN q
         /\ Tail(q) \in Seq(S) /\ Len(Tail(q)) = Len(q) - 1 /\ DOMAIN Tail(q) = 1 .. Len(q) - 1
         /\ \A i \in 1 .. Len(q) - 1 : Tail(q)[i] = q[i + 1]
<1>1. Len(q) \in Nat /\ Len(q) # 0 /\ DOMAIN q = 1 .. Len(q)
  BY SeqFacts
<1> QED
  BY <1>1, HeadTailProperties

\* A sequence with an element at its end.
LEMMA AppendFacts ==
  ASSUME NEW S, NEW q \in Seq(S), NEW e \in S
  PROVE  /\ Append(q, e) \in Seq(S)
         /\ Len(Append(q, e)) = Len(q) + 1
         /\ DOMAIN Append(q, e) = 1 .. Len(q) + 1
         /\ \A i \in 1 .. Len(q) : Append(q, e)[i] = q[i]
         /\ Append(q, e)[Len(q) + 1] = e
<1>1. Len(q) \in Nat
  OBVIOUS
<1> QED
  BY <1>1, AppendProperties

\* The scan of AllocateIP finds the lowest address there is.
LEMMA MinFacts == ASSUME NEW S \in SUBSET Nat, S # {} PROVE Min(S) \in S
<1>1. PICK x \in S : \A y \in S : ~(<<y, x>> \in OpToRel(<, Nat))
  BY NatLessThanWellFounded, WFMin
<1>2. ASSUME NEW y \in S
      PROVE  x =< y
  <2>1. y < x => <<y, x>> \in OpToRel(<, Nat)
    BY DEF OpToRel
  <2>2. ~(y < x)
    BY <1>1, <2>1, Zenon
  <2> QED
    BY <2>2
<1> QED
  BY <1>2 DEF Min

-----------------------------------------------------------------------------
(* The order in which an informer lists a set.                              *)

\* Every member of the set is listed, once.
LEMMA OrderFacts ==
  ASSUME NEW S, IsFiniteSet(S), NEW s \in Orders(S)
  PROVE  /\ Cardinality(S) \in Nat /\ s \in [1 .. Cardinality(S) -> S]
         /\ \A i, j \in 1 .. Cardinality(S) : s[i] = s[j] => i = j
         /\ \A x \in S : \E i \in 1 .. Cardinality(S) : s[i] = x
<1>1. Cardinality(S) \in Nat
  BY FS_CardinalityType
<1>2. s \in [1 .. Cardinality(S) -> S] /\ \A i, j \in 1 .. Cardinality(S) : s[i] = s[j] => i = j
  BY DEF Orders
<1>3. Cardinality(1 .. Cardinality(S)) = Cardinality(S)
  BY <1>1, FS_Interval
<1>4. s \in Injection(1 .. Cardinality(S), S)
  BY <1>2 DEF Injection, IsInjective
<1>5. s \in Surjection(1 .. Cardinality(S), S)
  BY <1>3, <1>4, FS_Injection
<1> QED
  BY <1>1, <1>2, <1>5 DEF Surjection

-----------------------------------------------------------------------------
(* What the queue of the daemon will do.                                    *)

\* f leads from the tenants A to the tenants B by the events of q: a tenant is added
\* that is not there, or one is deleted that is there.
Leads(f, q, A, B) ==
  /\ f \in [0 .. Len(q) -> SUBSET Tenants]
  /\ f[0] = A /\ f[Len(q)] = B
  /\ \A i \in 1 .. Len(q) :
       IF q[i].kind = "Add" THEN q[i].tenant \notin f[i - 1] /\ f[i] = f[i - 1] \cup {q[i].tenant}
                            ELSE q[i].tenant \in f[i - 1] /\ f[i] = f[i - 1] \ {q[i].tenant}

Leading(q, A, B) == \E f : Leads(f, q, A, B)

EventsOf == [kind : {"Add", "Delete"}, tenant : Tenants]

\* An empty queue leaves the tenants as they are.
LEMMA LeadsNowhere == ASSUME NEW A, NEW B, Leading(<<>>, A, B) PROVE A = B
BY DEF Leading, Leads

\* The first event is taken from the queue.
LEMMA LeadsTail ==
  ASSUME NEW q \in Seq(EventsOf), q # <<>>, NEW A, NEW B, Leading(q, A, B)
  PROVE  LET t == Head(q).tenant IN
         IF Head(q).kind = "Add" THEN t \notin A /\ Leading(Tail(q), A \cup {t}, B)
                                 ELSE t \in A /\ Leading(Tail(q), A \ {t}, B)
<1>1. PICK f : Leads(f, q, A, B)
  BY DEF Leading
<1>2. Len(q) \in Nat /\ Len(q) # 0 /\ Head(q) = q[1]
  BY SeqFacts, TailFacts
<1> DEFINE g == [i \in 0 .. Len(q) - 1 |-> f[i + 1]]
<1>3. Len(Tail(q)) = Len(q) - 1 /\ \A i \in 1 .. Len(q) - 1 : Tail(q)[i] = q[i + 1]
  BY TailFacts
<1>4. g \in [0 .. Len(q) - 1 -> SUBSET Tenants] /\ g[0] = f[1] /\ g[Len(q) - 1] = B
  BY <1>1, <1>2 DEF Leads
<1>5. ASSUME NEW i \in 1 .. Len(q) - 1
      PROVE  /\ i + 1 \in 1 .. Len(q) /\ (i + 1) - 1 = i
             /\ g[i] = f[i + 1] /\ g[i - 1] = f[i]
  BY <1>2
<1>6. \A i \in 1 .. Len(q) - 1 :
        IF Tail(q)[i].kind = "Add"
          THEN Tail(q)[i].tenant \notin g[i - 1] /\ g[i] = g[i - 1] \cup {Tail(q)[i].tenant}
          ELSE Tail(q)[i].tenant \in g[i - 1] /\ g[i] = g[i - 1] \ {Tail(q)[i].tenant}
  <2> HIDE DEF g
  <2> TAKE i \in 1 .. Len(q) - 1
  <2>1. Tail(q)[i] = q[i + 1]
    BY <1>3
  <2>2. IF q[i + 1].kind = "Add"
          THEN q[i + 1].tenant \notin f[(i + 1) - 1] /\ f[i + 1] = f[(i + 1) - 1] \cup {q[i + 1].tenant}
          ELSE q[i + 1].tenant \in f[(i + 1) - 1] /\ f[i + 1] = f[(i + 1) - 1] \ {q[i + 1].tenant}
    BY <1>1, <1>5 DEF Leads
  <2> QED
    BY <1>5, <2>1, <2>2
<1>7. Leads(g, Tail(q), f[1], B)
  <2> HIDE DEF g
  <2> QED
    BY <1>3, <1>4, <1>6 DEF Leads
<1>8. IF q[1].kind = "Add" THEN q[1].tenant \notin A /\ f[1] = A \cup {q[1].tenant}
                           ELSE q[1].tenant \in A /\ f[1] = A \ {q[1].tenant}
  BY <1>1, <1>2 DEF Leads
<1> QED
  BY <1>2, <1>7, <1>8 DEF Leading

\* An event is added to the queue.
LEMMA LeadsAppend ==
  ASSUME NEW q \in Seq(EventsOf), NEW A, NEW B, Leading(q, A, B), NEW e \in EventsOf,
         NEW C \in SUBSET Tenants,
         IF e.kind = "Add" THEN e.tenant \notin B /\ C = B \cup {e.tenant}
                           ELSE e.tenant \in B /\ C = B \ {e.tenant}
  PROVE  Leading(Append(q, e), A, C)
<1>1. PICK f : Leads(f, q, A, B)
  BY DEF Leading
<1>2. Len(q) \in Nat
  BY SeqFacts
<1> DEFINE r == Append(q, e)
           n == Len(q)
           g == [i \in 0 .. n + 1 |-> IF i = n + 1 THEN C ELSE f[i]]
<1>3. Len(r) = n + 1 /\ (\A i \in 1 .. n : r[i] = q[i]) /\ r[n + 1] = e
  BY AppendFacts
<1>4. g \in [0 .. n + 1 -> SUBSET Tenants] /\ g[n + 1] = C /\ \A i \in 0 .. n : g[i] = f[i]
  BY <1>1, <1>2 DEF Leads
<1> HIDE DEF r, g
<1>5. ASSUME NEW i \in 1 .. n + 1
      PROVE  IF r[i].kind = "Add" THEN r[i].tenant \notin g[i - 1] /\ g[i] = g[i - 1] \cup {r[i].tenant}
                                  ELSE r[i].tenant \in g[i - 1] /\ g[i] = g[i - 1] \ {r[i].tenant}
  <2>1. CASE i = n + 1
    <3>1. i - 1 = n /\ n \in 0 .. n /\ f[n] = B
      BY <1>1, <1>2, <2>1 DEF Leads
    <3> QED
      BY <1>3, <1>4, <2>1, <3>1
  <2>2. CASE i # n + 1
    <3>1. i \in 1 .. n /\ i - 1 \in 0 .. n /\ i \in 0 .. n
      BY <1>2, <2>2
    <3>2. r[i] = q[i] /\ g[i] = f[i] /\ g[i - 1] = f[i - 1]
      BY <1>3, <1>4, <3>1
    <3>3. IF q[i].kind = "Add" THEN q[i].tenant \notin f[i - 1] /\ f[i] = f[i - 1] \cup {q[i].tenant}
                               ELSE q[i].tenant \in f[i - 1] /\ f[i] = f[i - 1] \ {q[i].tenant}
      BY <1>1, <3>1 DEF Leads
    <3> QED
      BY <3>2, <3>3
  <2> QED
    BY <2>1, <2>2
<1>6. g[0] = A /\ 0 \in 0 .. n
  BY <1>1, <1>2, <1>4 DEF Leads
<1>7. Leads(g, r, A, C)
  BY <1>3, <1>4, <1>5, <1>6 DEF Leads
<1> QED
  BY <1>7 DEF Leading, r

\* The daemon starts, with nothing provisioned and an event for every tenant.
LEMMA LeadsFresh ==
  ASSUME NEW S \in SUBSET Tenants, NEW s \in Orders(S), NEW q,
         q = [i \in DOMAIN s |-> [kind |-> "Add", tenant |-> s[i]]]
  PROVE  /\ q \in Seq(EventsOf)
         /\ Leading(q, {}, S)
         /\ \A t \in S : \E i \in DOMAIN q : q[i] = [kind |-> "Add", tenant |-> t]
<1> DEFINE n == Cardinality(S)
<1>1. IsFiniteSet(S)
  BY LifecycleAssumption, FS_Subset
<1>2. /\ n \in Nat /\ s \in [1 .. n -> S]
      /\ \A i, j \in 1 .. n : s[i] = s[j] => i = j
      /\ \A x \in S : \E i \in 1 .. n : s[i] = x
  BY <1>1, OrderFacts
<1> HIDE DEF n
<1>3. q = [i \in 1 .. n |-> [kind |-> "Add", tenant |-> s[i]]]
  BY <1>2
<1>4. \A i \in 1 .. n : [kind |-> "Add", tenant |-> s[i]] \in EventsOf
  BY <1>2 DEF EventsOf
<1>5. q \in Seq(EventsOf) /\ Len(q) = n
  BY <1>2, <1>3, <1>4
<1> DEFINE f == [i \in 0 .. n |-> {s[j] : j \in 1 .. i}]
<1>6. f \in [0 .. n -> SUBSET Tenants] /\ f[0] = {} /\ f[n] = S
  BY <1>2
<1>7. ASSUME NEW i \in 1 .. n
      PROVE  /\ q[i].kind = "Add" /\ q[i].tenant = s[i]
             /\ s[i] \notin f[i - 1] /\ f[i] = f[i - 1] \cup {s[i]}
  <2>1. i - 1 \in 0 .. n /\ i \in 0 .. n /\ i \notin 1 .. i - 1 /\ 1 .. i = 1 .. i - 1 \cup {i}
    BY <1>2
  <2>2. 1 .. i - 1 \subseteq 1 .. n
    BY <1>2
  <2> QED
    BY <1>2, <1>3, <2>1, <2>2
<1> HIDE DEF f
<1>8. Leads(f, q, {}, S)
  BY <1>5, <1>6, <1>7 DEF Leads
<1>9. \A t \in S : \E i \in DOMAIN q : q[i] = [kind |-> "Add", tenant |-> t]
  BY <1>2, <1>3
<1>10. Leading(q, {}, S)
  BY <1>8 DEF Leading
<1> QED
  BY <1>5, <1>9, <1>10

-----------------------------------------------------------------------------
(* Types, and what a process and a store look like.                         *)

\* A tenant that the NodeStore has and that is not being deleted.
Given(t) == mine[t] # 0 /\ daemon.tenant # t

DaemonInv == IF At("idle") THEN daemon = Resting ELSE daemon.tenant \in Tenants

\* A process r for a pod of which DEL was asked for or not (s), with interface i: where
\* each command can be, and what it has read before it gets there.
ProcOK(r, s, i) ==
  /\ r.at = "idle" => r = NoProcess
  /\ r.at # "idle" => r.op # "none"
  /\ r.op = "ADD" => ~s /\ i.on = "never" /\ r.at # "net"
  /\ r.op = "DEL" => s /\ r.at \in {"first", "firstCreate", "load", "create", "write", "net"}
  /\ r.op = "ADD" /\ r.at \notin {"first", "firstCreate"} => r.gateway # 0 /\ r.data.subnet # 0
  /\ r.at = "write" => r.data.subnet # 0
  /\ r.op = "ADD" /\ r.at \notin {"first", "firstCreate", "load", "create"} => r.host # 0

ProcInv == \A p \in Pods : ProcOK(proc[p], stopping[p], iface[p])

\* A store without a subnet has no leases.
FileInv == \A t \in Tenants : file[t].subnet = 0 => file[t] = Blank

TypeInv == TypeOK /\ DaemonInv /\ ProcInv /\ FileInv

\* The numbers there are.
LEMMA Numbers ==
  /\ Subnets \in Nat /\ HostCount \in Nat /\ Cardinality(Tenants) \in Nat
  /\ Subnets >= Cardinality(Tenants)
BY LifecycleAssumption, FS_CardinalityType

\* A missing file is told from every other; a store is one of TenantData.
LEMMA DataFacts ==
  ASSUME TypeOK, NEW t \in Tenants
  PROVE  /\ Blank \in TenantData /\ NoFile \notin TenantData /\ NoFile.subnet = -1
         /\ Blank.subnet = 0 /\ Blank # NoFile
         /\ \A h \in Hosts : Blank.ips[h] = Nobody /\ NoFile.ips[h] = Nobody
         /\ \A s \in 0 .. Subnets : NewData(s) \in TenantData /\ NewData(s).subnet = s
         /\ file[t] \in TenantData \cup {NoFile}
         /\ Data(t) \in TenantData /\ Data(t).subnet \in 0 .. Subnets
<1>1. \A s \in 0 .. Subnets : NewData(s) \in TenantData /\ NewData(s).subnet = s
  BY Numbers DEF NewData, TenantData
<1>2. Blank \in TenantData /\ Blank.subnet = 0
  BY <1>1, Numbers DEF Blank
<1>3. NoFile.subnet = -1 /\ \A d \in TenantData : d.subnet \in 0 .. Subnets
  BY DEF NoFile, NewData, TenantData
<1>4. NoFile \notin TenantData /\ Blank # NoFile
  BY <1>2, <1>3, Numbers
<1>5. file[t] \in TenantData \cup {NoFile}
  BY DEF TypeOK
<1>6. Data(t) \in TenantData /\ Data(t).subnet \in 0 .. Subnets
  BY <1>2, <1>3, <1>5 DEF Data
<1>7. \A h \in Hosts : Blank.ips[h] = Nobody /\ NoFile.ips[h] = Nobody
  BY DEF Blank, NoFile, NewData
<1> QED
  BY <1>1, <1>2, <1>3, <1>4, <1>5, <1>6, <1>7

\* A missing interface is told from every other.
LEMMA IfaceFacts ==
  /\ BareIface \in Ifaces /\ NoIface \notin Ifaces
  /\ BareIface.on = "never" /\ BareIface.subnet = 0
  /\ NoIface.subnet = -1 /\ NoIface.on = "never"
BY Numbers DEF BareIface, NoIface, Ifaces

\* The types of a process, part by part.
LEMMA ProcTypes ==
  ASSUME TypeInv, NEW p \in Pods
  PROVE  /\ Here(p) \in Tenants
         /\ proc[p] \in Process /\ proc[p].data \in TenantData
         /\ proc[p].host \in Hosts \cup {0} /\ proc[p].gateway \in 0 .. Subnets
         /\ ProcOK(proc[p], stopping[p], iface[p])
         /\ NoProcess \in Process
<1>1. Here(p) \in Tenants /\ proc[p] \in Process
  BY DEF TypeInv, TypeOK, Here
<1>2. /\ proc[p].data \in TenantData
      /\ proc[p].host \in Hosts \cup {0} /\ proc[p].gateway \in 0 .. Subnets
  BY <1>1 DEF Process
<1>3. NoProcess \in Process
  BY <1>1, DataFacts, Numbers DEF TypeInv, Process, NoProcess, Labels
<1> QED
  BY <1>1, <1>2, <1>3 DEF TypeInv, ProcInv

\* One process goes on.
LEMMA OneProc ==
  ASSUME TypeInv, NEW p \in Pods, NEW r \in Process, proc' = [proc EXCEPT ![p] = r],
         iface' = [iface EXCEPT ![p] = iface'[p]], stopping' = [stopping EXCEPT ![p] = stopping'[p]],
         ProcOK(r, stopping'[p], iface'[p])
  PROVE  /\ proc' \in [Pods -> Process] /\ proc'[p] = r /\ ProcInv'
         /\ \A q \in Pods \ {p} : proc'[q] = proc[q] /\ iface'[q] = iface[q] /\ stopping'[q] = stopping[q]
<1>1. proc \in [Pods -> Process] /\ iface \in [Pods -> Ifaces \cup {NoIface}] /\ stopping \in [Pods -> BOOLEAN]
  BY DEF TypeInv, TypeOK
<1>2. proc' \in [Pods -> Process] /\ proc'[p] = r /\ \A q \in Pods \ {p} : proc'[q] = proc[q]
  BY <1>1
<1>3. \A q \in Pods \ {p} : iface'[q] = iface[q] /\ stopping'[q] = stopping[q]
  BY <1>1
<1>4. \A q \in Pods : ProcOK(proc'[q], stopping'[q], iface'[q])
  BY <1>2, <1>3 DEF TypeInv, ProcInv
<1> QED
  BY <1>2, <1>3, <1>4 DEF ProcInv

\* One process goes on, and interfaces and requests stay.
LEMMA OneProcOnly ==
  ASSUME TypeInv, NEW p \in Pods, NEW r \in Process, proc' = [proc EXCEPT ![p] = r],
         UNCHANGED <<iface, stopping>>, ProcOK(r, stopping[p], iface[p])
  PROVE  /\ proc' \in [Pods -> Process] /\ proc'[p] = r /\ ProcInv'
         /\ \A q \in Pods \ {p} : proc'[q] = proc[q] /\ iface'[q] = iface[q] /\ stopping'[q] = stopping[q]
<1>1. iface' = [iface EXCEPT ![p] = iface'[p]] /\ stopping' = [stopping EXCEPT ![p] = stopping'[p]]
  BY DEF TypeInv, TypeOK
<1> QED
  BY <1>1, OneProc

\* A process ends.
LEMMA ExitFacts ==
  ASSUME TypeInv, NEW p \in Pods, Exit(p), UNCHANGED <<iface, stopping>>
  PROVE  /\ proc' \in [Pods -> Process] /\ proc'[p] = NoProcess /\ ProcInv'
         /\ \A q \in Pods \ {p} : proc'[q] = proc[q] /\ iface'[q] = iface[q] /\ stopping'[q] = stopping[q]
<1>1. ProcOK(NoProcess, stopping[p], iface[p]) /\ NoProcess \in Process
  BY ProcTypes DEF ProcOK, NoProcess
<1> QED
  BY <1>1, OneProcOnly DEF Exit

\* A process goes on to another place.
LEMMA GotoFacts ==
  ASSUME TypeInv, NEW p \in Pods, NEW l \in Labels, Goto(p, l), UNCHANGED <<iface, stopping>>,
         ProcOK([proc[p] EXCEPT !.at = l], stopping[p], iface[p])
  PROVE  /\ proc' \in [Pods -> Process] /\ proc'[p] = [proc[p] EXCEPT !.at = l] /\ ProcInv'
         /\ \A q \in Pods \ {p} : proc'[q] = proc[q] /\ iface'[q] = iface[q] /\ stopping'[q] = stopping[q]
<1>1. [proc[p] EXCEPT !.at = l] \in Process
  BY ProcTypes DEF Process
<1>2. proc' = [proc EXCEPT ![p] = [proc[p] EXCEPT !.at = l]]
  BY DEF Goto
<1> QED
  BY <1>1, <1>2, OneProcOnly

\* CreateFile makes a blank file, if there is a directory, and does no more.
LEMMA CreateFacts ==
  ASSUME TypeInv, NEW t \in Tenants, CreateFile(t)
  PROVE  /\ file' \in [Tenants -> TenantData \cup {NoFile}]
         /\ \A u \in Tenants \ {t} : file'[u] = file[u]
         /\ IF t \in dir THEN file'[t] = Blank ELSE file'[t] = file[t]
         /\ \A u \in Tenants : file'[u] # NoFile => u \in dir
         /\ \A u \in Tenants : file'[u].subnet = 0 => file'[u] = Blank
         /\ disturbed' \in SUBSET Tenants /\ disturbed \subseteq disturbed'
         /\ \A u \in Tenants \ {t} : u \in disturbed' => u \in disturbed
         /\ t \notin disturbed' => file'[t] = file[t] \/ (file[t] = NoFile /\ file'[t] = Blank)
<1>1. file \in [Tenants -> TenantData \cup {NoFile}] /\ \A u \in Tenants : file[u] # NoFile => u \in dir
  BY DEF TypeInv, TypeOK
<1>2. \A u \in Tenants : file[u].subnet = 0 => file[u] = Blank
  BY DEF TypeInv, FileInv
<1>3. Blank \in TenantData
  BY DataFacts DEF TypeInv
<1>4. IF t \in dir THEN file'[t] = Blank ELSE file'[t] = file[t]
  BY <1>1 DEF CreateFile
<1>5. disturbed' \in SUBSET Tenants /\ disturbed \subseteq disturbed' /\ \A u \in Tenants \ {t} : u \in disturbed' => u \in disturbed
  BY DEF CreateFile, TypeInv, TypeOK
<1>6. t \notin disturbed' => file'[t] = file[t] \/ (file[t] = NoFile /\ file'[t] = Blank)
  BY <1>2, <1>4 DEF CreateFile, Data
<1> QED
  BY <1>1, <1>2, <1>3, <1>4, <1>5, <1>6 DEF CreateFile

\* The types, when only the plugin's part of the state changes.
LEMMA PluginTypes ==
  ASSUME TypeInv, UNCHANGED <<wanted, worker, node, removed, deleted, tenantOf>>,
         dir' \in SUBSET Tenants, file' \in [Tenants -> TenantData \cup {NoFile}],
         \A t \in Tenants : file'[t] # NoFile => t \in dir',
         \A t \in Tenants : file'[t].subnet = 0 => file'[t] = Blank,
         bridge' \in [Tenants -> (SUBSET (1 .. Subnets)) \cup {NoBridge}],
         proc' \in [Pods -> Process], ProcInv',
         iface' \in [Pods -> Ifaces \cup {NoIface}], stopping' \in [Pods -> BOOLEAN],
         disturbed' \in SUBSET Tenants, abandoned' \in SUBSET Tenants,
         unfinished' \in SUBSET Tenants, up' \in SUBSET Tenants,
         commands' \in 0 .. MaxCommands, events' \in 0 .. MaxEvents
  PROVE  TypeInv'
<1>1. TypeOK'
  BY DEF TypeInv, TypeOK, worker, node
<1>2. DaemonInv'
  BY DEF TypeInv, DaemonInv, At, worker
<1>3. FileInv'
  BY DEF FileInv
<1> QED
  BY <1>1, <1>2, <1>3 DEF TypeInv

\* The types of what most of the plugin's steps leave alone.
LEMMA KeptTypes ==
  ASSUME TypeInv
  PROVE  /\ dir \in SUBSET Tenants /\ file \in [Tenants -> TenantData \cup {NoFile}]
         /\ \A t \in Tenants : file[t] # NoFile => t \in dir
         /\ \A t \in Tenants : file[t].subnet = 0 => file[t] = Blank
         /\ bridge \in [Tenants -> (SUBSET (1 .. Subnets)) \cup {NoBridge}]
         /\ iface \in [Pods -> Ifaces \cup {NoIface}] /\ stopping \in [Pods -> BOOLEAN]
         /\ disturbed \in SUBSET Tenants /\ abandoned \in SUBSET Tenants
         /\ unfinished \in SUBSET Tenants /\ up \in SUBSET Tenants
         /\ commands \in 0 .. MaxCommands /\ events \in 0 .. MaxEvents
BY DEF TypeInv, TypeOK, FileInv

\* The runtime starts the plugin.
LEMMA InvokeType == ASSUME TypeInv, NEW p \in Pods, NEW o \in {"ADD", "DEL"}, Invoke(p, o) PROVE TypeInv'
<1> DEFINE t == Here(p)
           r == [proc[p] EXCEPT !.at = "first", !.op = o, !.lock = removed[t]]
<1>1. t \in Tenants /\ proc[p] \in Process /\ proc[p].at = "idle" /\ ProcOK(proc[p], stopping[p], iface[p])
  BY ProcTypes DEF Invoke
<1>2. r \in Process
  BY <1>1 DEF Process, Labels, TypeInv, TypeOK
<1>3. stopping \in [Pods -> BOOLEAN] /\ stopping' = [stopping EXCEPT ![p] = stopping[p] \/ o = "DEL"]
  BY DEF Invoke, TypeInv, TypeOK
<1>4. stopping'[p] = (stopping[p] \/ o = "DEL") /\ iface' = iface
  BY <1>3 DEF Invoke
<1>5. ProcOK(r, stopping'[p], iface'[p])
  <2>1. proc[p] = NoProcess
    BY <1>1 DEF ProcOK
  <2>2. r.at = "first" /\ r.op = o /\ r.data = NoProcess.data /\ r.host = NoProcess.host
    BY <1>1, <2>1 DEF NoProcess
  <2>3. o = "ADD" => ~stopping'[p] /\ iface'[p].on = "never"
    BY <1>4 DEF Invoke, Runs
  <2>4. o = "DEL" => stopping'[p]
    BY <1>4
  <2> QED
    BY <2>2, <2>3, <2>4 DEF ProcOK
<1>6. proc' = [proc EXCEPT ![p] = r]
  BY DEF Invoke
<1>7. iface' = [iface EXCEPT ![p] = iface'[p]] /\ stopping' = [stopping EXCEPT ![p] = stopping'[p]]
  BY <1>3, <1>4 DEF TypeInv, TypeOK
<1> HIDE DEF r
<1>8. proc' \in [Pods -> Process] /\ ProcInv'
  BY <1>2, <1>5, <1>6, <1>7, OneProc
<1>9. stopping' \in [Pods -> BOOLEAN]
  BY <1>3
<1>10. commands' \in 0 .. MaxCommands
  BY LifecycleAssumption DEF Invoke, TypeInv, TypeOK
<1> QED
  BY <1>1, <1>4, <1>8, <1>9, <1>10, PluginTypes, KeptTypes DEF Invoke, MakeStore, bridges

\* A process takes its first copy of the store.
LEMMA TakeFirstFacts ==
  ASSUME TypeInv, NEW p \in Pods, proc[p].at \in {"first", "firstCreate"}, NEW d \in TenantData,
         TakeFirst(p, d), UNCHANGED <<iface, stopping>>
  PROVE  /\ proc' \in [Pods -> Process] /\ ProcInv'
         /\ \A q \in Pods \ {p} : proc'[q] = proc[q]
         /\ \/ proc'[p] = NoProcess
            \/ /\ proc[p].op = "ADD" => d.subnet # 0
               /\ proc'[p].at = "load" /\ proc'[p].op = proc[p].op /\ proc'[p].lock = proc[p].lock
               /\ proc'[p].data = d /\ proc'[p].gateway = d.subnet
<1> DEFINE r == [proc[p] EXCEPT !.at = "load", !.data = d, !.gateway = d.subnet]
<1>1. proc[p] \in Process /\ ProcOK(proc[p], stopping[p], iface[p])
  BY ProcTypes
<1>2. d.subnet \in 0 .. Subnets
  BY DEF TenantData
<1>3. CASE Exit(p)
  BY <1>3, ExitFacts
<1>4. CASE ~(proc[p].op = "ADD" /\ d.subnet = 0) /\ proc' = [proc EXCEPT ![p] = r]
  <2>1. /\ r \in Process /\ r.at = "load" /\ r.op = proc[p].op /\ r.data = d /\ r.gateway = d.subnet
        /\ r.lock = proc[p].lock
    BY <1>1, <1>2 DEF Process, Labels
  <2>2. ProcOK(r, stopping[p], iface[p])
    BY <1>1, <1>2, <1>4, <2>1 DEF ProcOK
  <2> HIDE DEF r
  <2> QED
    BY <1>4, <2>1, <2>2, OneProcOnly
<1> QED
  BY <1>3, <1>4 DEF TakeFirst

\* A process allocates from the store it has loaded.
LEMMA AllocateFromFacts ==
  ASSUME TypeInv, NEW p \in Pods, proc[p].at \in {"load", "create"}, proc[p].op = "ADD",
         NEW d \in TenantData, AllocateFrom(p, d), UNCHANGED <<iface, stopping>>
  PROVE  /\ proc' \in [Pods -> Process] /\ ProcInv'
         /\ \A q \in Pods \ {p} : proc'[q] = proc[q]
         /\ \/ proc'[p] = NoProcess
            \/ /\ d.subnet # 0 /\ proc'[p].op = "ADD" /\ proc'[p].lock = proc[p].lock
               /\ proc'[p].gateway = proc[p].gateway /\ proc'[p].host \in Hosts
               /\ \/ /\ proc'[p].at = "bridge" /\ proc'[p].data = d /\ d.ips[proc'[p].host] = p
                  \/ /\ proc'[p].at = "write" /\ proc'[p].data.subnet = d.subnet
                     /\ \A h \in Hosts : d.ips[h] # p
                     /\ d.ips[proc'[p].host] = Nobody
                     /\ \A h \in Hosts : proc'[p].data.ips[h] = IF h = proc'[p].host THEN p ELSE d.ips[h]
<1> DEFINE h0 == Min(Ahead(d))
<1>1. proc[p] \in Process /\ ProcOK(proc[p], stopping[p], iface[p])
  BY ProcTypes
<1>2. CASE Exit(p)
  BY <1>2, ExitFacts
<1>3. ASSUME d.subnet # 0, NEW h \in Leased(d, p),
             proc' = [proc EXCEPT ![p].at = "bridge", ![p].data = d, ![p].host = h]
      PROVE  /\ proc' \in [Pods -> Process] /\ ProcInv'
             /\ \A q \in Pods \ {p} : proc'[q] = proc[q]
             /\ proc'[p].op = "ADD" /\ proc'[p].lock = proc[p].lock /\ proc'[p].gateway = proc[p].gateway
             /\ proc'[p].host \in Hosts /\ proc'[p].at = "bridge" /\ proc'[p].data = d
             /\ d.ips[proc'[p].host] = p
  <2> DEFINE r == [proc[p] EXCEPT !.at = "bridge", !.data = d, !.host = h]
  <2>1. h \in Hosts /\ h # 0 /\ d.ips[h] = p
    BY Numbers DEF Leased, Hosts
  <2>2. /\ r \in Process /\ r.at = "bridge" /\ r.op = "ADD" /\ r.data = d /\ r.host = h
        /\ r.gateway = proc[p].gateway /\ r.lock = proc[p].lock
    BY <1>1, <2>1 DEF Process, Labels
  <2>3. ProcOK(r, stopping[p], iface[p])
    BY <1>1, <1>3, <2>1, <2>2 DEF ProcOK
  <2>4. proc' = [proc EXCEPT ![p] = r]
    BY <1>3
  <2> HIDE DEF r
  <2> QED
    BY <2>1, <2>2, <2>3, <2>4, OneProcOnly
<1>4. ASSUME d.subnet # 0, Leased(d, p) = {}, Ahead(d) # {},
             proc' = [proc EXCEPT ![p].at = "write", ![p].host = h0,
                                  ![p].data = [d EXCEPT !.ips[h0] = p, !.last = h0]]
      PROVE  /\ proc' \in [Pods -> Process] /\ ProcInv'
             /\ \A q \in Pods \ {p} : proc'[q] = proc[q]
             /\ proc'[p].op = "ADD" /\ proc'[p].lock = proc[p].lock /\ proc'[p].gateway = proc[p].gateway
             /\ proc'[p].host \in Hosts /\ proc'[p].at = "write" /\ proc'[p].data.subnet = d.subnet
             /\ \A h \in Hosts : d.ips[h] # p
             /\ d.ips[proc'[p].host] = Nobody
             /\ \A h \in Hosts : proc'[p].data.ips[h] = IF h = proc'[p].host THEN p ELSE d.ips[h]
  <2> DEFINE e == [d EXCEPT !.ips[h0] = p, !.last = h0]
             r == [proc[p] EXCEPT !.at = "write", !.host = h0, !.data = e]
  <2>1. h0 \in Hosts /\ h0 # 0 /\ h0 \in 0 .. HostCount /\ d.ips[h0] = Nobody
    <3>1. Ahead(d) \in SUBSET Nat /\ Ahead(d) \subseteq Hosts
      BY Numbers DEF Ahead, Hosts
    <3>2. h0 \in Ahead(d)
      BY <1>4, <3>1, MinFacts
    <3> HIDE DEF h0
    <3> QED
      BY <3>1, <3>2, Numbers DEF Hosts, Ahead
  <2>2. proc' = [proc EXCEPT ![p] = r]
    BY <1>4
  <2> HIDE DEF h0
  <2>3. /\ e \in TenantData /\ e.subnet = d.subnet
        /\ \A h \in Hosts : e.ips[h] = IF h = h0 THEN p ELSE d.ips[h]
    BY <2>1 DEF TenantData
  <2> HIDE DEF e
  <2>4. /\ r \in Process /\ r.at = "write" /\ r.op = "ADD" /\ r.data = e /\ r.host = h0
        /\ r.gateway = proc[p].gateway /\ r.lock = proc[p].lock
    BY <1>1, <2>1, <2>3 DEF Process, Labels
  <2>5. ProcOK(r, stopping[p], iface[p])
    BY <1>1, <1>4, <2>1, <2>3, <2>4 DEF ProcOK
  <2>6. \A h \in Hosts : d.ips[h] # p
    BY <1>4 DEF Leased
  <2> HIDE DEF r
  <2> QED
    BY <2>1, <2>2, <2>3, <2>4, <2>5, <2>6, OneProcOnly
<1>5. \/ Exit(p)
      \/ d.subnet # 0 /\ \E h \in Leased(d, p) : proc' = [proc EXCEPT ![p].at = "bridge", ![p].data = d, ![p].host = h]
      \/ /\ d.subnet # 0 /\ Leased(d, p) = {} /\ Ahead(d) # {}
         /\ proc' = [proc EXCEPT ![p].at = "write", ![p].host = h0, ![p].data = [d EXCEPT !.ips[h0] = p, !.last = h0]]
  BY DEF AllocateFrom
<1> HIDE DEF h0
<1>6. CASE d.subnet # 0 /\ \E h \in Leased(d, p) : proc' = [proc EXCEPT ![p].at = "bridge", ![p].data = d, ![p].host = h]
  BY <1>3, <1>6
<1>7. CASE /\ d.subnet # 0 /\ Leased(d, p) = {} /\ Ahead(d) # {}
           /\ proc' = [proc EXCEPT ![p].at = "write", ![p].host = h0, ![p].data = [d EXCEPT !.ips[h0] = p, !.last = h0]]
  BY <1>4, <1>7
<1> QED
  BY <1>2, <1>5, <1>6, <1>7

\* A process releases in the store it has loaded.
LEMMA ReleaseFromFacts ==
  ASSUME TypeInv, NEW p \in Pods, proc[p].at \in {"load", "create"}, proc[p].op = "DEL",
         NEW d \in TenantData, d.subnet = 0 => d = Blank, ReleaseFrom(p, d), UNCHANGED <<iface, stopping>>
  PROVE  /\ proc' \in [Pods -> Process] /\ ProcInv'
         /\ \A q \in Pods \ {p} : proc'[q] = proc[q]
         /\ proc'[p].op = "DEL" /\ proc'[p].lock = proc[p].lock
         /\ \/ proc'[p].at = "net"
            \/ /\ proc'[p].at = "write" /\ d.subnet # 0 /\ proc'[p].data.subnet = d.subnet
               /\ \A h \in Hosts : d.ips[h] # p => proc'[p].data.ips[h] = d.ips[h]
<1>1. proc[p] \in Process /\ ProcOK(proc[p], stopping[p], iface[p]) /\ Here(p) \in Tenants
  BY ProcTypes
<1>2. Leased(d, p) # {} => d.subnet # 0
  <2>1. \A h \in Hosts : Blank.ips[h] # p
    BY <1>1, DataFacts, LifecycleAssumption DEF TypeInv
  <2> QED
    BY <2>1 DEF Leased
<1>3. CASE Goto(p, "net")
  <2>1. ProcOK([proc[p] EXCEPT !.at = "net"], stopping[p], iface[p])
    BY <1>1 DEF ProcOK, Process
  <2>2. "net" \in Labels
    BY DEF Labels
  <2>3. /\ proc' \in [Pods -> Process] /\ proc'[p] = [proc[p] EXCEPT !.at = "net"] /\ ProcInv'
        /\ \A q \in Pods \ {p} : proc'[q] = proc[q]
    BY <1>3, <2>1, <2>2, GotoFacts
  <2> QED
    BY <1>1, <2>3 DEF Process
<1>4. ASSUME NEW h \in Leased(d, p),
             proc' = [proc EXCEPT ![p].at = "write", ![p].data = [d EXCEPT !.ips[h] = Nobody]]
      PROVE  /\ proc' \in [Pods -> Process] /\ ProcInv'
             /\ \A q \in Pods \ {p} : proc'[q] = proc[q]
             /\ proc'[p].op = "DEL" /\ proc'[p].lock = proc[p].lock
             /\ proc'[p].at = "write" /\ d.subnet # 0 /\ proc'[p].data.subnet = d.subnet
             /\ \A g \in Hosts : d.ips[g] # p => proc'[p].data.ips[g] = d.ips[g]
  <2> DEFINE e == [d EXCEPT !.ips[h] = Nobody]
             r == [proc[p] EXCEPT !.at = "write", !.data = e]
  <2>1. /\ e \in TenantData /\ e.subnet = d.subnet
        /\ \A g \in Hosts : d.ips[g] # p => e.ips[g] = d.ips[g]
    BY DEF TenantData, Leased
  <2>2. proc' = [proc EXCEPT ![p] = r]
    BY <1>4
  <2> HIDE DEF e
  <2>3. r \in Process /\ r.at = "write" /\ r.op = "DEL" /\ r.data = e /\ r.lock = proc[p].lock
    BY <1>1, <2>1 DEF Process, Labels
  <2>4. ProcOK(r, stopping[p], iface[p])
    BY <1>1, <1>2, <2>1, <2>3 DEF ProcOK
  <2> HIDE DEF r
  <2> QED
    BY <1>2, <2>1, <2>2, <2>3, <2>4, OneProcOnly
<1> QED
  BY <1>3, <1>4 DEF ReleaseFrom

\* The first load.
LEMMA FirstLoadType == ASSUME TypeInv, NEW p \in Pods, FirstLoad(p) PROVE TypeInv'
<1> DEFINE t == Here(p)
<1>1. /\ t \in Tenants /\ proc[p] \in Process /\ proc[p].at = "first"
      /\ ProcOK(proc[p], stopping[p], iface[p])
      /\ UNCHANGED <<wanted, worker, node, stores, bridges, pods, ghosts, bounds>>
  BY ProcTypes DEF FirstLoad
<1>2. proc' \in [Pods -> Process] /\ ProcInv'
  <2>1. CASE Goto(p, "firstCreate")
    <3>1. ProcOK([proc[p] EXCEPT !.at = "firstCreate"], stopping[p], iface[p])
      BY <1>1 DEF ProcOK, Process
    <3>2. "firstCreate" \in Labels
      BY DEF Labels
    <3> QED
      BY <1>1, <2>1, <3>1, <3>2, GotoFacts DEF pods
  <2>2. CASE file[t] # NoFile /\ TakeFirst(p, file[t])
    <3>1. file[t] \in TenantData
      BY <1>1, <2>2, KeptTypes
    <3> QED
      BY <1>1, <2>2, <3>1, TakeFirstFacts DEF pods
  <2> QED
    BY <2>1, <2>2 DEF FirstLoad
<1> QED
  BY <1>1, <1>2, PluginTypes, KeptTypes DEF stores, bridges, pods, bounds, ghosts

\* The first load makes the file.
LEMMA FirstCreateType == ASSUME TypeInv, NEW p \in Pods, FirstCreate(p) PROVE TypeInv'
<1>1. /\ Here(p) \in Tenants /\ CreateFile(Here(p)) /\ Blank \in TenantData
      /\ UNCHANGED <<wanted, worker, node, dir, removed, bridges, pods, abandoned, bounds>>
  BY ProcTypes, DataFacts DEF FirstCreate, TypeInv
<1>2. proc' \in [Pods -> Process] /\ ProcInv'
  BY <1>1, TakeFirstFacts DEF FirstCreate, pods
<1> QED
  BY <1>1, <1>2, PluginTypes, KeptTypes, CreateFacts DEF bridges, pods, bounds

\* AllocateIP and ReleaseIP: the load.
LEMMA LoadType == ASSUME TypeInv, NEW p \in Pods, Load(p) PROVE TypeInv'
<1> DEFINE d == file[Here(p)]
<1>1. /\ Here(p) \in Tenants /\ proc[p] \in Process /\ proc[p].at = "load"
      /\ ProcOK(proc[p], stopping[p], iface[p])
      /\ UNCHANGED <<wanted, worker, node, stores, bridges, pods, ghosts, bounds>>
  BY ProcTypes DEF Load
<1>2. d # NoFile => d \in TenantData /\ (d.subnet = 0 => d = Blank)
  BY <1>1, KeptTypes
<1>3. proc' \in [Pods -> Process] /\ ProcInv'
  <2>1. CASE Goto(p, "create")
    <3>1. ProcOK([proc[p] EXCEPT !.at = "create"], stopping[p], iface[p])
      BY <1>1 DEF ProcOK, Process
    <3>2. "create" \in Labels
      BY DEF Labels
    <3> QED
      BY <1>1, <2>1, <3>1, <3>2, GotoFacts DEF pods
  <2>2. CASE d # NoFile /\ proc[p].op = "ADD" /\ AllocateFrom(p, d)
    BY <1>1, <1>2, <2>2, AllocateFromFacts DEF pods
  <2>3. CASE d # NoFile /\ proc[p].op = "DEL" /\ ReleaseFrom(p, d)
    BY <1>1, <1>2, <2>3, ReleaseFromFacts DEF pods
  <2> QED
    BY <2>1, <2>2, <2>3 DEF Load
<1> QED
  BY <1>1, <1>3, PluginTypes, KeptTypes DEF stores, bridges, pods, bounds, ghosts

\* AllocateIP and ReleaseIP: the load makes the file.
LEMMA CreateType == ASSUME TypeInv, NEW p \in Pods, Create(p) PROVE TypeInv'
<1> DEFINE t == Here(p)
           d == IF t \in dir THEN Blank ELSE proc[p].data
<1>1. /\ t \in Tenants /\ proc[p] \in Process /\ proc[p].at = "create" /\ CreateFile(t)
      /\ UNCHANGED <<wanted, worker, node, dir, removed, bridges, pods, abandoned, bounds>>
  BY ProcTypes DEF Create
<1>2. d \in TenantData /\ Blank \in TenantData
  BY <1>1, ProcTypes, DataFacts DEF TypeInv
<1>3. \/ Exit(p)
      \/ proc[p].op = "ADD" /\ AllocateFrom(p, d)
      \/ proc[p].op = "DEL" /\ ReleaseFrom(p, Blank)
  BY DEF Create
<1> HIDE DEF d
<1>4. proc' \in [Pods -> Process] /\ ProcInv'
  <2>1. CASE Exit(p)
    BY <1>1, <2>1, ExitFacts DEF pods
  <2>2. CASE proc[p].op = "ADD" /\ AllocateFrom(p, d)
    BY <1>1, <1>2, <2>2, AllocateFromFacts DEF pods
  <2>3. CASE proc[p].op = "DEL" /\ ReleaseFrom(p, Blank)
    BY <1>1, <1>2, <2>3, ReleaseFromFacts DEF pods
  <2> QED
    BY <1>3, <2>1, <2>2, <2>3
<1> QED
  BY <1>1, <1>4, PluginTypes, KeptTypes, CreateFacts DEF bridges, pods, bounds

\* The store is written.
LEMMA WriteStoreType == ASSUME TypeInv, NEW p \in Pods, WriteStore(p) PROVE TypeInv'
<1> DEFINE t == Here(p)
           l == IF proc[p].op = "ADD" THEN "bridge" ELSE "net"
<1>1. /\ t \in Tenants /\ proc[p] \in Process /\ proc[p].at = "write" /\ proc[p].data \in TenantData
      /\ ProcOK(proc[p], stopping[p], iface[p])
      /\ UNCHANGED <<wanted, worker, node, dir, removed, bridges, pods, ghosts, bounds>>
  BY ProcTypes DEF WriteStore
<1>2. CASE t \in dir
  <2>1. file' = [file EXCEPT ![t] = proc[p].data] /\ Goto(p, l)
    BY <1>2 DEF WriteStore
  <2>2. proc[p].data.subnet # 0 /\ proc[p].op \in {"ADD", "DEL"}
    BY <1>1 DEF ProcOK, Process
  <2>3. ProcOK([proc[p] EXCEPT !.at = l], stopping[p], iface[p])
    BY <1>1, <2>2 DEF ProcOK, Process
  <2>4. l \in Labels
    BY DEF Labels
  <2> HIDE DEF l
  <2>5. proc' \in [Pods -> Process] /\ ProcInv'
    BY <1>1, <2>1, <2>3, <2>4, GotoFacts DEF pods
  <2>6. /\ file' \in [Tenants -> TenantData \cup {NoFile}]
        /\ \A u \in Tenants : file'[u] # NoFile => u \in dir
        /\ \A u \in Tenants : file'[u].subnet = 0 => file'[u] = Blank
    BY <1>1, <1>2, <2>1, <2>2, KeptTypes
  <2> QED
    BY <1>1, <2>5, <2>6, PluginTypes, KeptTypes DEF bridges, pods, bounds, ghosts
<1>3. CASE t \notin dir
  <2>1. proc' \in [Pods -> Process] /\ ProcInv' /\ UNCHANGED file
    BY <1>1, <1>3, ExitFacts DEF pods, WriteStore
  <2> QED
    BY <1>1, <2>1, PluginTypes, KeptTypes DEF bridges, pods, bounds, ghosts
<1> QED
  BY <1>2, <1>3

\* The bridge is looked up.
LEMMA FindBridgeType == ASSUME TypeInv, NEW p \in Pods, FindBridge(p) PROVE TypeInv'
<1> DEFINE t == Here(p)
           r == [proc[p] EXCEPT !.at = "veth", !.link = deleted[t]]
<1>1. /\ t \in Tenants /\ proc[p] \in Process /\ proc[p].at = "bridge"
      /\ ProcOK(proc[p], stopping[p], iface[p])
      /\ UNCHANGED <<wanted, worker, node, stores, bridges, pods, ghosts, bounds>>
  BY ProcTypes DEF FindBridge
<1>2. proc' \in [Pods -> Process] /\ ProcInv'
  <2>1. CASE Goto(p, "linkAdd")
    <3>1. ProcOK([proc[p] EXCEPT !.at = "linkAdd"], stopping[p], iface[p])
      BY <1>1 DEF ProcOK, Process
    <3> QED
      BY <1>1, <2>1, <3>1, GotoFacts DEF pods, Labels
  <2>2. CASE proc' = [proc EXCEPT ![p] = r]
    <3>1. deleted[t] \in Nat
      BY <1>1 DEF TypeInv, TypeOK
    <3>2. r \in Process
      BY <1>1, <3>1 DEF Process, Labels
    <3>3. ProcOK(r, stopping[p], iface[p])
      BY <1>1 DEF ProcOK, Process
    <3> HIDE DEF r
    <3> QED
      BY <1>1, <2>2, <3>2, <3>3, OneProcOnly DEF pods
  <2> QED
    BY <2>1, <2>2 DEF FindBridge
<1> QED
  BY <1>1, <1>2, PluginTypes, KeptTypes DEF stores, bridges, pods, bounds, ghosts

\* The bridge is added.
LEMMA LinkAddType == ASSUME TypeInv, NEW p \in Pods, LinkAdd(p) PROVE TypeInv'
<1> DEFINE t == Here(p)
           r == [proc[p] EXCEPT !.at = "addrAdd", !.link = deleted[t]]
<1>1. /\ t \in Tenants /\ proc[p] \in Process /\ proc[p].at = "linkAdd"
      /\ ProcOK(proc[p], stopping[p], iface[p]) /\ proc' = [proc EXCEPT ![p] = r]
      /\ UNCHANGED <<wanted, worker, node, stores, up, deleted, unfinished, pods, ghosts, bounds>>
  BY ProcTypes DEF LinkAdd
<1>2. deleted[t] \in Nat
  BY <1>1 DEF TypeInv, TypeOK
<1>3. r \in Process
  BY <1>1, <1>2 DEF Process, Labels
<1>4. ProcOK(r, stopping[p], iface[p])
  BY <1>1 DEF ProcOK, Process
<1> HIDE DEF r
<1>5. proc' \in [Pods -> Process] /\ ProcInv'
  BY <1>1, <1>3, <1>4, OneProcOnly DEF pods
<1>6. bridge' \in [Tenants -> (SUBSET (1 .. Subnets)) \cup {NoBridge}]
  BY <1>1, KeptTypes DEF LinkAdd
<1> QED
  BY <1>1, <1>5, <1>6, PluginTypes, KeptTypes DEF stores, pods, bounds, ghosts

\* The bridge gets its address.
LEMMA AddrAddType == ASSUME TypeInv, NEW p \in Pods, AddrAdd(p) PROVE TypeInv'
<1> DEFINE t == Here(p)
           g == proc[p].gateway
<1>1. /\ t \in Tenants /\ proc[p] \in Process /\ proc[p].at = "addrAdd" /\ g \in 0 .. Subnets
      /\ ProcOK(proc[p], stopping[p], iface[p])
      /\ UNCHANGED <<wanted, worker, node, stores, deleted, unfinished, pods, ghosts, bounds>>
  BY ProcTypes DEF AddrAdd
<1>2. CASE StillThere(p) /\ g \notin bridge[t]
  <2>1. g # 0 /\ proc[p].op = "ADD"
    BY <1>1 DEF ProcOK, Process
  <2>2. bridge[t] \in SUBSET (1 .. Subnets)
    BY <1>1, <1>2, KeptTypes DEF StillThere, HasBridge
  <2>3. bridge' \in [Tenants -> (SUBSET (1 .. Subnets)) \cup {NoBridge}]
    <3>1. g \in 1 .. Subnets
      BY <1>1, <2>1, Numbers
    <3>2. bridge' = [bridge EXCEPT ![t] = bridge[t] \cup {g}]
      BY <1>2 DEF AddrAdd, WithAddress
    <3> QED
      BY <1>1, <2>2, <3>1, <3>2, KeptTypes
  <2>4. ProcOK([proc[p] EXCEPT !.at = "veth"], stopping[p], iface[p])
    BY <1>1 DEF ProcOK, Process
  <2>5. proc' \in [Pods -> Process] /\ ProcInv'
    BY <1>1, <1>2, <2>4, GotoFacts DEF pods, Labels, AddrAdd
  <2> QED
    BY <1>1, <1>2, <2>3, <2>5, PluginTypes, KeptTypes DEF AddrAdd, stores, pods, bounds, ghosts
<1>3. CASE ~(StillThere(p) /\ g \notin bridge[t])
  <2>1. Exit(p) /\ UNCHANGED <<bridge, up>>
    BY <1>3 DEF AddrAdd
  <2>2. proc' \in [Pods -> Process] /\ ProcInv' /\ UNCHANGED <<bridge, up>>
    BY <1>1, <2>1, ExitFacts DEF pods
  <2> QED
    BY <1>1, <2>2, PluginTypes, KeptTypes DEF stores, pods, bounds, ghosts
<1> QED
  BY <1>2, <1>3

\* What SetupVeth makes is an interface.
LEMMA VethFacts ==
  ASSUME TypeInv, NEW p \in Pods, proc[p].at = "veth"
  PROVE  /\ proc[p].op = "ADD" /\ proc[p].host \in Hosts /\ proc[p].data.subnet \in 1 .. Subnets
         /\ \A o \in {"never", "yes", "lost"} : [Veth(p) EXCEPT !.on = o] \in Ifaces
         /\ \A o : /\ [Veth(p) EXCEPT !.on = o].on = o
                  /\ [Veth(p) EXCEPT !.on = o].subnet = proc[p].data.subnet
                  /\ [Veth(p) EXCEPT !.on = o].host = proc[p].host
                  /\ [Veth(p) EXCEPT !.on = o].gateway = proc[p].gateway
         /\ Veth(p) \in Ifaces /\ [Veth(p) EXCEPT !.gateway = 0] \in Ifaces
         /\ Veth(p).on = "never" /\ Veth(p).subnet = proc[p].data.subnet /\ Veth(p).host = proc[p].host
         /\ [Veth(p) EXCEPT !.gateway = 0].on = "never"
         /\ [Veth(p) EXCEPT !.gateway = 0].subnet = proc[p].data.subnet
         /\ [Veth(p) EXCEPT !.gateway = 0].host = proc[p].host
<1>1. /\ proc[p] \in Process /\ ProcOK(proc[p], stopping[p], iface[p])
      /\ proc[p].data \in TenantData /\ proc[p].host \in Hosts \cup {0} /\ proc[p].gateway \in 0 .. Subnets
  BY ProcTypes
<1>2. proc[p].op = "ADD" /\ proc[p].host # 0 /\ proc[p].gateway # 0 /\ proc[p].data.subnet # 0
  BY <1>1 DEF ProcOK, Process
<1>3. proc[p].data.subnet \in 1 .. Subnets
  BY <1>1, <1>2, Numbers DEF TenantData
<1>4. 0 \in 0 .. Subnets
  BY Numbers
<1> QED
  BY <1>1, <1>2, <1>3, <1>4 DEF Veth, Ifaces

\* The interface is set up.
LEMMA SetupVethType == ASSUME TypeInv, NEW p \in Pods, SetupVeth(p) PROVE TypeInv'
<1>1. /\ proc[p].at = "veth" /\ proc' = [proc EXCEPT ![p] = NoProcess]
      /\ UNCHANGED <<wanted, worker, node, stores, bridges, tenantOf, stopping, ghosts, bounds>>
  BY DEF SetupVeth, Exit
<1>2. PICK i \in Ifaces \cup {NoIface} : iface' = [iface EXCEPT ![p] = i]
  <2>1. iface \in [Pods -> Ifaces \cup {NoIface}]
    BY KeptTypes
  <2>2. CASE iface' = iface
    <3>1. iface[p] \in Ifaces \cup {NoIface} /\ iface' = [iface EXCEPT ![p] = iface[p]]
      BY <2>1, <2>2
    <3> QED
      BY <3>1
  <2>3. CASE iface' # iface
    <3> DEFINE o == IF StillThere(p) THEN "yes" ELSE "never"
    <3>1. iface' = [iface EXCEPT ![p] = [Veth(p) EXCEPT !.on = o]]
      BY <2>3 DEF SetupVeth
    <3>2. [Veth(p) EXCEPT !.on = o] \in Ifaces
      <4>1. o \in {"never", "yes", "lost"}
        OBVIOUS
      <4> HIDE DEF o
      <4> QED
        BY <1>1, <4>1, VethFacts
    <3> QED
      BY <3>1, <3>2
  <2> QED
    BY <2>2, <2>3
<1>3. iface' \in [Pods -> Ifaces \cup {NoIface}]
  BY <1>2, KeptTypes
<1>4. ProcOK(NoProcess, stopping'[p], iface'[p]) /\ NoProcess \in Process
  BY ProcTypes DEF ProcOK, NoProcess
<1>5. iface' = [iface EXCEPT ![p] = iface'[p]] /\ stopping' = [stopping EXCEPT ![p] = stopping'[p]]
  BY <1>1, <1>2, KeptTypes
<1>6. proc' \in [Pods -> Process] /\ ProcInv'
  BY <1>1, <1>4, <1>5, OneProc
<1> QED
  BY <1>1, <1>3, <1>6, PluginTypes, KeptTypes DEF stores, bridges, bounds, ghosts

\* The interface is taken away.
LEMMA DelVethType == ASSUME TypeInv, NEW p \in Pods, DelVeth(p) PROVE TypeInv'
<1>1. /\ proc' = [proc EXCEPT ![p] = NoProcess]
      /\ UNCHANGED <<wanted, worker, node, stores, bridges, tenantOf, ghosts, bounds>>
  BY DEF DelVeth, Exit
<1>2. /\ iface' \in [Pods -> Ifaces \cup {NoIface}] /\ stopping' \in [Pods -> BOOLEAN]
      /\ iface' = [iface EXCEPT ![p] = iface'[p]] /\ stopping' = [stopping EXCEPT ![p] = stopping'[p]]
  BY KeptTypes DEF DelVeth
<1>3. ProcOK(NoProcess, stopping'[p], iface'[p]) /\ NoProcess \in Process
  BY ProcTypes DEF ProcOK, NoProcess
<1>4. proc' \in [Pods -> Process] /\ ProcInv'
  BY <1>1, <1>2, <1>3, OneProc
<1> QED
  BY <1>1, <1>2, <1>4, PluginTypes, KeptTypes DEF stores, bridges, bounds, ghosts

\* What a command that is killed leaves behind.
LEMMA KillFacts ==
  ASSUME TypeInv, NEW p \in Pods, Kill(p)
  PROVE  LET t == Here(p)
             g == proc[p].gateway
         IN
         /\ proc[p].at # "idle" /\ proc' = [proc EXCEPT ![p] = NoProcess]
         /\ UNCHANGED <<wanted, worker, node, stores, up, deleted, tenantOf, stopping, ghosts>>
         /\ unfinished' \in SUBSET Tenants /\ unfinished \subseteq unfinished'
         /\ bridge' \in [Tenants -> (SUBSET (1 .. Subnets)) \cup {NoBridge}]
         /\ \A u \in Tenants \ {t} : bridge'[u] = bridge[u]
         /\ \/ bridge' = bridge /\ ~(proc[p].at = "addrAdd" /\ StillThere(p) /\ g \notin bridge[t])
            \/ t \in unfinished' /\ HasBridge(t) /\ bridge'[t] # NoBridge
         /\ iface' \in [Pods -> Ifaces \cup {NoIface}]
         /\ \A q \in Pods \ {p} : iface'[q] = iface[q]
         /\ \/ iface' = iface
            \/ /\ proc[p].at = "veth" /\ iface[p] = NoIface /\ iface'[p].on = "never"
               /\ \/ iface'[p].subnet = 0
                  \/ iface'[p].subnet = proc[p].data.subnet /\ iface'[p].host = proc[p].host
<1> DEFINE t == Here(p)
           g == proc[p].gateway
<1>1. /\ proc[p].at # "idle" /\ proc' = [proc EXCEPT ![p] = NoProcess]
      /\ UNCHANGED <<wanted, worker, node, stores, up, deleted, tenantOf, stopping, ghosts>>
  BY DEF Kill, Exit
<1>2. /\ t \in Tenants /\ proc[p] \in Process /\ g \in 0 .. Subnets /\ ProcOK(proc[p], stopping[p], iface[p])
      /\ iface \in [Pods -> Ifaces \cup {NoIface}] /\ unfinished \in SUBSET Tenants
      /\ bridge \in [Tenants -> (SUBSET (1 .. Subnets)) \cup {NoBridge}]
  BY ProcTypes, KeptTypes
<1>3. CASE LeaveBridge(p)
  <2>1. PICK b \in {bridge[t], WithAddress(t, g)} : bridge' = [bridge EXCEPT ![t] = b]
    BY <1>3 DEF LeaveBridge
  <2>2. /\ proc[p].at = "addrAdd" /\ HasBridge(t) /\ unfinished' = unfinished \cup {t} /\ iface' = iface
        /\ g \notin bridge[t]
    BY <1>3 DEF LeaveBridge, StillThere
  <2>3. g \in 1 .. Subnets /\ bridge[t] \in SUBSET (1 .. Subnets)
    BY <1>2, <2>2, Numbers DEF ProcOK, Process, HasBridge
  <2>4. b \in SUBSET (1 .. Subnets) /\ b # NoBridge
    <3>1. NoBridge \notin SUBSET (1 .. Subnets)
      BY DEF NoBridge
    <3> QED
      BY <2>1, <2>3, <3>1 DEF WithAddress
  <2> QED
    BY <1>1, <1>2, <2>1, <2>2, <2>4
<1>4. CASE LeaveVeth(p)
  <2>1. PICK i \in {BareIface, [Veth(p) EXCEPT !.gateway = 0], Veth(p)} : iface' = [iface EXCEPT ![p] = i]
    BY <1>4 DEF LeaveVeth
  <2>2. proc[p].at = "veth" /\ iface[p] = NoIface /\ UNCHANGED <<bridge, unfinished>>
    BY <1>4 DEF LeaveVeth
  <2>3. /\ i \in Ifaces /\ i.on = "never"
        /\ i.subnet = 0 \/ (i.subnet = proc[p].data.subnet /\ i.host = proc[p].host)
    <3>1. /\ Veth(p) \in Ifaces /\ [Veth(p) EXCEPT !.gateway = 0] \in Ifaces
          /\ Veth(p).on = "never" /\ Veth(p).subnet = proc[p].data.subnet /\ Veth(p).host = proc[p].host
          /\ [Veth(p) EXCEPT !.gateway = 0].on = "never"
          /\ [Veth(p) EXCEPT !.gateway = 0].subnet = proc[p].data.subnet
          /\ [Veth(p) EXCEPT !.gateway = 0].host = proc[p].host
      BY <2>2, VethFacts
    <3> HIDE DEF Veth
    <3>2. CASE i = BareIface
      BY <3>2, IfaceFacts
    <3>3. CASE i = Veth(p)
      BY <3>1, <3>3
    <3>4. CASE i = [Veth(p) EXCEPT !.gateway = 0]
      BY <3>1, <3>4
    <3> QED
      BY <2>1, <3>2, <3>3, <3>4
  <2> QED
    BY <1>1, <1>2, <2>1, <2>2, <2>3
<1>5. CASE /\ ~(proc[p].at = "addrAdd" /\ StillThere(p) /\ g \notin bridge[t])
           /\ UNCHANGED <<bridge, unfinished, iface>>
  BY <1>1, <1>2, <1>5
<1> QED
  BY <1>3, <1>4, <1>5 DEF Kill

\* A command is killed.
LEMMA KillType == ASSUME TypeInv, NEW p \in Pods, Kill(p) PROVE TypeInv'
<1>1. ProcOK(NoProcess, stopping'[p], iface'[p]) /\ NoProcess \in Process
  BY ProcTypes DEF ProcOK, NoProcess
<1>2. iface' = [iface EXCEPT ![p] = iface'[p]] /\ stopping' = [stopping EXCEPT ![p] = stopping'[p]]
  <2>1. iface \in [Pods -> Ifaces \cup {NoIface}] /\ stopping \in [Pods -> BOOLEAN]
    BY KeptTypes
  <2> QED
    BY <2>1, KillFacts
<1>3. proc' \in [Pods -> Process] /\ ProcInv'
  BY <1>1, <1>2, OneProc, KillFacts
<1>4. commands' \in 0 .. MaxCommands /\ events' \in 0 .. MaxEvents
  BY LifecycleAssumption DEF Kill, Happens, TypeInv, TypeOK
<1> QED
  BY <1>3, <1>4, PluginTypes, KeptTypes, KillFacts DEF stores, ghosts

-----------------------------------------------------------------------------
(* The NodeStore and the queue.                                             *)

\* Every subnet is available or some tenant's, and only once.
NodeInv ==
  /\ \A i, j \in DOMAIN avail : avail[i] = avail[j] => i = j
  /\ \A t, u \in Tenants : mine[t] = mine[u] /\ mine[t] # 0 => t = u
  /\ \A i \in DOMAIN avail : \A t \in Tenants : avail[i] # mine[t]
  /\ \A s \in 1 .. Subnets : (\E i \in DOMAIN avail : avail[i] = s) \/ \E t \in Tenants : mine[t] = s

\* The events in the queue make, of the tenants that are provisioned, those wanted.
QueueInv == Leading(queue, {t \in Tenants : Given(t)}, wanted)

AddQueued(t) == \E i \in DOMAIN queue : queue[i] = [kind |-> "Add", tenant |-> t]

DaemonInvs == TypeInv /\ NodeInv /\ QueueInv

\* The types of the daemon's variables, one by one.
LEMMA DaemonKept ==
  ASSUME TypeInv
  PROVE  /\ wanted \in SUBSET Tenants /\ queue \in Seq(EventsOf)
         /\ daemon \in [at : {"idle", "entries", "dir"}, tenant : Tenants \cup {Nobody}, left : SUBSET {"lock", "data"}]
         /\ avail \in Seq(1 .. Subnets) /\ mine \in [Tenants -> 0 .. Subnets]
         /\ removed \in [Tenants -> Nat] /\ deleted \in [Tenants -> Nat]
         /\ Nobody \notin Tenants /\ Nobody \notin Pods
         /\ IF At("idle") THEN daemon = Resting /\ daemon.tenant = Nobody ELSE daemon.tenant \in Tenants
<1>1. Nobody \notin Tenants /\ Nobody \notin Pods
  BY LifecycleAssumption
<1>2. IF At("idle") THEN daemon = Resting /\ daemon.tenant = Nobody ELSE daemon.tenant \in Tenants
  BY DEF TypeInv, DaemonInv, Resting
<1> QED
  BY <1>1, <1>2 DEF TypeInv, TypeOK, EventsOf

\* The types, when the daemon's part of the state changes.
LEMMA DaemonTypes ==
  ASSUME TypeInv, UNCHANGED <<tenantOf, proc, stopping>>, wanted' \in SUBSET Tenants, queue' \in Seq(EventsOf),
         daemon' \in [at : {"idle", "entries", "dir"}, tenant : Tenants \cup {Nobody}, left : SUBSET {"lock", "data"}],
         DaemonInv', avail' \in Seq(1 .. Subnets), mine' \in [Tenants -> 0 .. Subnets],
         dir' \in SUBSET Tenants, file' \in [Tenants -> TenantData \cup {NoFile}],
         \A t \in Tenants : file'[t] # NoFile => t \in dir',
         \A t \in Tenants : file'[t].subnet = 0 => file'[t] = Blank,
         removed' \in [Tenants -> Nat], deleted' \in [Tenants -> Nat],
         bridge' \in [Tenants -> (SUBSET (1 .. Subnets)) \cup {NoBridge}],
         iface' \in [Pods -> Ifaces \cup {NoIface}],
         \A p \in Pods : iface[p].on = "never" => iface'[p].on = "never",
         disturbed' \in SUBSET Tenants, abandoned' \in SUBSET Tenants,
         unfinished' \in SUBSET Tenants, up' \in SUBSET Tenants,
         commands' \in 0 .. MaxCommands, events' \in 0 .. MaxEvents
  PROVE  TypeInv'
<1>1. TypeOK'
  BY DEF TypeInv, TypeOK, EventsOf
<1>2. ASSUME NEW p \in Pods
      PROVE  ProcOK(proc'[p], stopping'[p], iface'[p])
  <2>1. ProcOK(proc[p], stopping[p], iface[p])
    BY DEF TypeInv, ProcInv
  <2> QED
    BY <2>1 DEF ProcOK
<1>3. ProcInv'
  BY <1>2 DEF ProcInv
<1>4. FileInv'
  BY DEF FileInv
<1> QED
  BY <1>1, <1>3, <1>4 DEF TypeInv

\* As long as a tenant has no subnet, there is one for it.
LEMMA SubnetsLeft ==
  ASSUME TypeInv, NodeInv, NEW t \in Tenants, mine[t] = 0
  PROVE  avail # <<>>
<1> SUFFICES ASSUME avail = <<>>
             PROVE  FALSE
  OBVIOUS
<1> DEFINE U == {u \in Tenants : mine[u] # 0}
           g == [u \in U |-> mine[u]]
<1>1. mine \in [Tenants -> 0 .. Subnets] /\ Subnets \in Nat
  BY DaemonKept, Numbers
<1>2. \A s \in 1 .. Subnets : \E u \in Tenants : mine[u] = s
  BY DEF NodeInv
<1>3. U \in SUBSET (Tenants \ {t}) /\ IsFiniteSet(Tenants)
  BY LifecycleAssumption
<1>4. IsFiniteSet(Tenants \ {t}) /\ Cardinality(Tenants \ {t}) = Cardinality(Tenants) - 1
  BY <1>3, FS_RemoveElement
<1>5. IsFiniteSet(U) /\ Cardinality(U) <= Cardinality(Tenants) - 1 /\ Cardinality(U) \in Nat
  BY <1>3, <1>4, FS_Subset, FS_CardinalityType
<1>6. g \in [U -> 1 .. Subnets]
  BY <1>1
<1>7. \A s \in 1 .. Subnets : \E u \in U : g[u] = s
  <2> TAKE s \in 1 .. Subnets
  <2>1. PICK u \in Tenants : mine[u] = s
    BY <1>2
  <2>2. u \in U /\ g[u] = s
    BY <1>1, <2>1
  <2> QED
    BY <2>2
<1> HIDE DEF g, U
<1>8. g \in Surjection(U, 1 .. Subnets)
  BY <1>6, <1>7 DEF Surjection
<1>9. Cardinality(1 .. Subnets) <= Cardinality(U)
  BY <1>5, <1>8, FS_Surjection
<1>10. Cardinality(1 .. Subnets) = Subnets
  BY <1>1, FS_Interval
<1> QED
  BY <1>5, <1>9, <1>10, Numbers

\* What a start of the daemon leaves.
LEMMA RestartFacts ==
  ASSUME TypeInv, Restart, UNCHANGED wanted
  PROVE  /\ queue' \in Seq(EventsOf) /\ daemon' = Resting /\ DaemonInv'
         /\ daemon' \in [at : {"idle", "entries", "dir"}, tenant : Tenants \cup {Nobody}, left : SUBSET {"lock", "data"}]
         /\ avail' \in Seq(1 .. Subnets) /\ mine' \in [Tenants -> 0 .. Subnets]
         /\ disturbed' \in SUBSET Tenants /\ abandoned' \in SUBSET Tenants
         /\ \A t \in Tenants : mine'[t] = 0
         /\ \A t \in wanted : AddQueued(t)'
         /\ NodeInv' /\ QueueInv'
<1>1. PICK s \in Orders(wanted) : queue' = [i \in DOMAIN s |-> [kind |-> "Add", tenant |-> s[i]]]
  BY DEF Restart
<1>2. /\ queue' \in Seq(EventsOf) /\ Leading(queue', {}, wanted)
      /\ \A t \in wanted : \E i \in DOMAIN queue' : queue'[i] = [kind |-> "Add", tenant |-> t]
  <2>1. wanted \in SUBSET Tenants
    BY DaemonKept
  <2> QED
    BY <1>1, <2>1, LeadsFresh
<1>3. daemon' = Resting /\ mine' = [t \in Tenants |-> 0] /\ avail' = [i \in 1 .. Subnets |-> i]
  BY DEF Restart, Rests, FreshNodeStore, ListSubnets
<1>4. avail' \in Seq(1 .. Subnets) /\ mine' \in [Tenants -> 0 .. Subnets] /\ DOMAIN avail' = 1 .. Subnets
  BY <1>3, Numbers
<1>5. NodeInv'
  BY <1>3, <1>4, Numbers DEF NodeInv
<1>6. {t \in Tenants : Given(t)'} = {}
  BY <1>3 DEF Given
<1>7. QueueInv'
  BY <1>2, <1>6 DEF QueueInv
<1>8. disturbed' \in SUBSET Tenants /\ abandoned' \in SUBSET Tenants
  BY KeptTypes DEF Restart
<1>9. DaemonInv'
  BY <1>3 DEF DaemonInv, At, Resting
<1>10. daemon' \in [at : {"idle", "entries", "dir"}, tenant : Tenants \cup {Nobody}, left : SUBSET {"lock", "data"}]
  BY <1>3 DEF Resting
<1> QED
  BY <1>2, <1>3, <1>4, <1>5, <1>7, <1>8, <1>9, <1>10 DEF AddQueued

\* The daemon dies and starts again.
LEMMA CrashInvs == ASSUME DaemonInvs, DaemonCrash PROVE DaemonInvs'
<1>1. TypeInv /\ Restart /\ UNCHANGED <<wanted, stores, bridges, proc, pods>>
  BY DEF DaemonInvs, DaemonCrash
<1>2. commands' \in 0 .. MaxCommands /\ events' \in 0 .. MaxEvents
  BY <1>1, LifecycleAssumption DEF DaemonCrash, Happens, TypeInv, TypeOK
<1>3. TypeInv'
  BY <1>1, <1>2, RestartFacts, DaemonTypes, DaemonKept, KeptTypes DEF stores, bridges, pods
<1> QED
  BY <1>1, <1>3, RestartFacts DEF DaemonInvs

\* Users create or delete a tenant.
LEMMA ChangeInvs == ASSUME DaemonInvs, NEW t \in Tenants, Change(t) PROVE DaemonInvs'
<1> DEFINE e == [kind |-> IF t \in wanted THEN "Delete" ELSE "Add", tenant |-> t]
<1>1. TypeInv /\ NodeInv /\ QueueInv /\ UNCHANGED <<daemon, node, stores, bridges, proc, pods, ghosts>>
  BY DEF DaemonInvs, Change
<1>2. commands' \in 0 .. MaxCommands /\ events' \in 0 .. MaxEvents
  BY <1>1, LifecycleAssumption DEF Change, Happens, TypeInv, TypeOK
<1>3. e \in EventsOf /\ e.tenant = t /\ (e.kind = "Add" <=> t \notin wanted) /\ queue' = Append(queue, e)
  BY DEF EventsOf, Change
<1>4. wanted' \in SUBSET Tenants /\ wanted' = IF t \in wanted THEN wanted \ {t} ELSE wanted \cup {t}
  BY <1>1, DaemonKept DEF Change
<1> HIDE DEF e
<1>5. queue' \in Seq(EventsOf)
  BY <1>1, <1>3, AppendFacts, DaemonKept
<1>6. DaemonInv'
  BY <1>1 DEF TypeInv, DaemonInv, At
<1>7. TypeInv'
  BY <1>1, <1>2, <1>4, <1>5, <1>6, DaemonTypes, DaemonKept, KeptTypes DEF node, stores, bridges, pods, ghosts
<1>8. Leading(Append(queue, e), {u \in Tenants : Given(u)}, wanted')
  BY <1>1, <1>3, <1>4, LeadsAppend, DaemonKept DEF QueueInv
<1>9. QueueInv'
  BY <1>1, <1>3, <1>8 DEF QueueInv, Given, node
<1>10. NodeInv'
  BY <1>1 DEF NodeInv, node
<1> QED
  BY <1>7, <1>9, <1>10 DEF DaemonInvs

\* The event that the daemon takes up.
LEMMA ReadyFacts ==
  ASSUME DaemonInvs, NEW t \in Tenants, NEW k \in {"Add", "Delete"}, Ready(k, t)
  PROVE  /\ queue # <<>> /\ Tail(queue) \in Seq(EventsOf) /\ daemon = Resting /\ daemon.tenant = Nobody
         /\ \A u \in Tenants : Given(u) <=> mine[u] # 0
         /\ k = "Add" => /\ mine[t] = 0
                         /\ Leading(Tail(queue), {u \in Tenants : mine[u] # 0} \cup {t}, wanted)
         /\ k = "Delete" => /\ mine[t] # 0
                            /\ Leading(Tail(queue), {u \in Tenants : mine[u] # 0} \ {t}, wanted)
<1>1. queue \in Seq(EventsOf) /\ queue # <<>> /\ Head(queue).kind = k /\ Head(queue).tenant = t /\ At("idle")
  BY DaemonKept DEF Ready, DaemonInvs
<1>2. daemon = Resting /\ daemon.tenant = Nobody /\ \A u \in Tenants : Given(u) <=> mine[u] # 0
  BY <1>1, DaemonKept DEF Given, DaemonInvs
<1>3. {u \in Tenants : Given(u)} = {u \in Tenants : mine[u] # 0}
  BY <1>2
<1>4. Leading(queue, {u \in Tenants : mine[u] # 0}, wanted)
  BY <1>3 DEF DaemonInvs, QueueInv
<1>5. IF k = "Add" THEN t \notin {u \in Tenants : mine[u] # 0} /\ Leading(Tail(queue), {u \in Tenants : mine[u] # 0} \cup {t}, wanted)
      ELSE t \in {u \in Tenants : mine[u] # 0} /\ Leading(Tail(queue), {u \in Tenants : mine[u] # 0} \ {t}, wanted)
  BY <1>1, <1>4, LeadsTail
<1>6. Tail(queue) \in Seq(EventsOf)
  BY <1>1, TailFacts
<1> QED
  BY <1>1, <1>2, <1>5, <1>6

\* A tenant that is added is provisioned.
LEMMA AllocateFacts ==
  ASSUME DaemonInvs, NEW t \in Tenants, AllocateTenant(t), t \in wanted
  PROVE  /\ avail # <<>> /\ Head(avail) \in 1 .. Subnets /\ Head(avail) = avail[1] /\ 1 \in DOMAIN avail
         /\ mine[t] = 0 /\ mine' = [mine EXCEPT ![t] = Head(avail)]
         /\ file' = [file EXCEPT ![t] = NewData(Head(avail))]
         /\ NewData(Head(avail)) \in TenantData /\ NewData(Head(avail)).subnet = Head(avail)
         /\ queue' = Tail(queue) /\ avail' = Tail(avail) /\ dir' = dir \cup {t}
         /\ daemon = Resting /\ daemon.tenant = Nobody
         /\ UNCHANGED <<daemon, wanted, removed, bridges, proc, pods, bounds>>
<1>1. Ready("Add", t) /\ TypeInv /\ NodeInv
  BY DEF AllocateTenant, DaemonInvs
<1>2. mine[t] = 0 /\ daemon = Resting /\ daemon.tenant = Nobody
  BY <1>1, ReadyFacts
<1>3. avail # <<>> /\ avail \in Seq(1 .. Subnets)
  BY <1>1, <1>2, SubnetsLeft, DaemonKept
<1>4. Head(avail) = avail[1] /\ 1 \in DOMAIN avail /\ Head(avail) \in 1 .. Subnets
  <2>1. Head(avail) = avail[1] /\ 1 \in DOMAIN avail
    BY <1>3, TailFacts
  <2>2. avail[1] \in 1 .. Subnets
    BY <1>3, <2>1, SeqFacts
  <2> QED
    BY <2>1, <2>2
<1>5. NewData(Head(avail)) \in TenantData /\ NewData(Head(avail)).subnet = Head(avail)
  BY <1>1, <1>4, DataFacts, Numbers DEF TypeInv
<1> QED
  BY <1>2, <1>3, <1>4, <1>5 DEF AllocateTenant, MakeStore

\* A tenant is provisioned, or the daemon panics.
LEMMA AllocateInvs == ASSUME DaemonInvs, NEW t \in Tenants, AllocateTenant(t) PROVE DaemonInvs'
<1>1. TypeInv /\ NodeInv /\ QueueInv /\ Ready("Add", t)
  BY DEF DaemonInvs, AllocateTenant
<1>2. CASE t \in wanted
  <2>1. /\ avail # <<>> /\ Head(avail) \in 1 .. Subnets /\ Head(avail) = avail[1] /\ 1 \in DOMAIN avail
        /\ mine[t] = 0 /\ mine' = [mine EXCEPT ![t] = Head(avail)]
        /\ file' = [file EXCEPT ![t] = NewData(Head(avail))]
        /\ NewData(Head(avail)) \in TenantData /\ NewData(Head(avail)).subnet = Head(avail)
        /\ queue' = Tail(queue) /\ avail' = Tail(avail) /\ dir' = dir \cup {t}
        /\ UNCHANGED <<daemon, wanted, removed, bridges, proc, pods, bounds>>
    BY <1>2, AllocateFacts
  <2>2. /\ queue' \in Seq(EventsOf) /\ daemon.tenant = Nobody
        /\ Leading(queue', {u \in Tenants : mine[u] # 0} \cup {t}, wanted)
    BY <1>1, <2>1, ReadyFacts
  <2>3. /\ avail' \in Seq(1 .. Subnets) /\ DOMAIN avail' = 1 .. Len(avail) - 1 /\ DOMAIN avail = 1 .. Len(avail)
        /\ \A i \in 1 .. Len(avail) - 1 : avail'[i] = avail[i + 1] /\ i + 1 \in DOMAIN avail /\ i + 1 # 1
        /\ Len(avail) \in Nat
    BY <1>1, <2>1, TailFacts, SeqFacts, DaemonKept
  <2>4. mine' \in [Tenants -> 0 .. Subnets]
    BY <1>1, <2>1, DaemonKept
  <2>5. disturbed' \in SUBSET Tenants /\ abandoned' \in SUBSET Tenants
    BY <1>1, <1>2, KeptTypes DEF AllocateTenant
  <2>6. /\ file' \in [Tenants -> TenantData \cup {NoFile}]
        /\ \A u \in Tenants : file'[u] # NoFile => u \in dir'
        /\ \A u \in Tenants : file'[u].subnet = 0 => file'[u] = Blank
    BY <1>1, <2>1, KeptTypes
  <2>7. DaemonInv'
    BY <1>1, <2>1 DEF TypeInv, DaemonInv, At
  <2>8. dir' \in SUBSET Tenants
    BY <1>1, <2>1, KeptTypes
  <2>9. TypeInv'
    BY <1>1, <2>1, <2>2, <2>3, <2>4, <2>5, <2>6, <2>7, <2>8, DaemonTypes, DaemonKept, KeptTypes
       DEF bridges, pods, bounds
  <2>10. {u \in Tenants : Given(u)'} = {u \in Tenants : mine[u] # 0} \cup {t}
    BY <1>1, <2>1, <2>2, DaemonKept DEF Given
  <2>11. QueueInv'
    BY <2>1, <2>2, <2>10 DEF QueueInv
  <2>12. NodeInv'
    <3>1. \A i, j \in DOMAIN avail' : avail'[i] = avail'[j] => i = j
      BY <1>1, <2>3 DEF NodeInv
    <3>2. \A u \in Tenants : mine'[u] = IF u = t THEN avail[1] ELSE mine[u]
      BY <1>1, <2>1, DaemonKept
    <3>3. \A u, v \in Tenants : mine'[u] = mine'[v] /\ mine'[u] # 0 => u = v
      BY <1>1, <2>1, <3>2 DEF NodeInv
    <3>4. \A i \in DOMAIN avail' : \A u \in Tenants : avail'[i] # mine'[u]
      BY <1>1, <2>1, <2>3, <3>2 DEF NodeInv
    <3>5. ASSUME NEW s \in 1 .. Subnets
          PROVE  (\E i \in DOMAIN avail' : avail'[i] = s) \/ \E u \in Tenants : mine'[u] = s
      <4>1. CASE \E u \in Tenants : mine[u] = s
        BY <2>1, <3>2, <4>1
      <4>2. CASE \E i \in DOMAIN avail : avail[i] = s
        <5>1. PICK i \in DOMAIN avail : avail[i] = s
          BY <4>2
        <5>2. CASE i = 1
          BY <3>2, <5>1, <5>2
        <5>3. CASE i # 1
          <6>1. i - 1 \in DOMAIN avail' /\ avail'[i - 1] = s
            <7>1. i - 1 \in 1 .. Len(avail) - 1 /\ (i - 1) + 1 = i
              BY <2>3, <5>3
            <7>2. avail'[i - 1] = avail[(i - 1) + 1]
              BY <2>3, <7>1
            <7> QED
              BY <2>3, <5>1, <7>1, <7>2
          <6> QED
            BY <6>1
        <5> QED
          BY <5>2, <5>3
      <4> QED
        BY <1>1, <4>1, <4>2 DEF NodeInv
    <3> QED
      BY <3>1, <3>3, <3>4, <3>5 DEF NodeInv
  <2> QED
    BY <2>9, <2>11, <2>12 DEF DaemonInvs
<1>3. CASE t \notin wanted
  <2>1. Restart /\ UNCHANGED <<wanted, stores, bridges, proc, pods, bounds>>
    BY <1>3 DEF AllocateTenant
  <2>2. TypeInv'
    BY <1>1, <2>1, RestartFacts, DaemonTypes, DaemonKept, KeptTypes DEF stores, bridges, pods, bounds
  <2> QED
    BY <1>1, <2>1, <2>2, RestartFacts DEF DaemonInvs
<1> QED
  BY <1>2, <1>3

\* What deleteTenant does to files and the bridge.
LEMMA DeleteFacts ==
  ASSUME TypeInv, NEW t \in Tenants, DeleteTenant(t)
  PROVE  /\ dir' = dir \cup {t} /\ dir' \in SUBSET Tenants
         /\ file' = [file EXCEPT ![t] = Data(t)]
         /\ file' \in [Tenants -> TenantData \cup {NoFile}]
         /\ \A u \in Tenants : file'[u] # NoFile => u \in dir'
         /\ \A u \in Tenants : file'[u].subnet = 0 => file'[u] = Blank
         /\ UNCHANGED <<wanted, removed, proc, tenantOf, stopping>>
<1>1. dir' = dir \cup {t} /\ file' = [file EXCEPT ![t] = Data(t)] /\ UNCHANGED <<wanted, removed, proc, tenantOf, stopping>>
  BY DEF DeleteTenant, MakeStore
<1>2. Data(t) \in TenantData /\ (Data(t).subnet = 0 => Data(t) = Blank)
  BY DataFacts DEF TypeInv, FileInv, Data
<1> QED
  BY <1>1, <1>2, KeptTypes

\* The bridge is deleted, or that fails.
LEMMA BridgeGone ==
  ASSUME TypeInv, NEW t \in Tenants,
         \/ DeleteTenantBridge(t) /\ UNCHANGED <<abandoned, bounds>>
         \/ Fails(t) /\ UNCHANGED <<bridges, iface>>
  PROVE  /\ bridge' \in [Tenants -> (SUBSET (1 .. Subnets)) \cup {NoBridge}]
         /\ deleted' \in [Tenants -> Nat] /\ unfinished' \in SUBSET Tenants /\ up' \in SUBSET Tenants
         /\ abandoned' \in SUBSET Tenants /\ abandoned \subseteq abandoned'
         /\ commands' \in 0 .. MaxCommands /\ events' \in 0 .. MaxEvents
         /\ iface' \in [Pods -> Ifaces \cup {NoIface}]
         /\ \A p \in Pods : /\ iface[p].on = "never" => iface'[p].on = "never"
                            /\ Here(p) # t => iface'[p] = iface[p]
         /\ \A u \in Tenants \ {t} : /\ bridge'[u] = bridge[u] /\ deleted'[u] = deleted[u]
                                      /\ (u \in up' <=> u \in up) /\ (u \in unfinished' <=> u \in unfinished)
         /\ bridge'[t] # NoBridge => t \in abandoned'
<1>1. CASE DeleteTenantBridge(t) /\ UNCHANGED <<abandoned, bounds>>
  <2>1. /\ bridge' \in [Tenants -> (SUBSET (1 .. Subnets)) \cup {NoBridge}]
        /\ deleted' \in [Tenants -> Nat] /\ unfinished' \in SUBSET Tenants /\ up' \in SUBSET Tenants
        /\ bridge'[t] = NoBridge
    BY <1>1, KeptTypes, DaemonKept DEF DeleteTenantBridge
  <2>2. ASSUME NEW p \in Pods
        PROVE  /\ iface'[p] \in Ifaces \cup {NoIface}
               /\ iface[p].on = "never" => iface'[p].on = "never"
               /\ Here(p) # t => iface'[p] = iface[p]
    <3>1. iface[p] \in Ifaces \cup {NoIface}
      BY KeptTypes
    <3>2. iface'[p] = IF Here(p) = t /\ HasBridge(t) /\ iface[p].on = "yes"
                        THEN [iface[p] EXCEPT !.on = "lost"] ELSE iface[p]
      BY <1>1 DEF DeleteTenantBridge
    <3>3. iface[p] \in Ifaces => [iface[p] EXCEPT !.on = "lost"] \in Ifaces
      BY DEF Ifaces
    <3> QED
      BY <3>1, <3>2, <3>3, IfaceFacts
  <2>3. iface' \in [Pods -> Ifaces \cup {NoIface}]
    <3>1. iface' = [p \in Pods |-> iface'[p]]
      BY <1>1 DEF DeleteTenantBridge
    <3> QED
      BY <2>2, <3>1
  <2>4. /\ \A u \in Tenants \ {t} : /\ bridge'[u] = bridge[u] /\ deleted'[u] = deleted[u]
                                     /\ (u \in up' <=> u \in up) /\ (u \in unfinished' <=> u \in unfinished)
    BY <1>1, KeptTypes, DaemonKept DEF DeleteTenantBridge
  <2> QED
    BY <1>1, <2>1, <2>2, <2>3, <2>4, KeptTypes DEF bounds
<1>2. CASE Fails(t) /\ UNCHANGED <<bridges, iface>>
  <2>1. commands' \in 0 .. MaxCommands /\ events' \in 0 .. MaxEvents /\ abandoned' = abandoned \cup {t}
    BY <1>2, LifecycleAssumption DEF Fails, Happens, TypeInv, TypeOK
  <2> QED
    BY <1>2, <2>1, KeptTypes, DaemonKept DEF bridges
<1> QED
  BY <1>1, <1>2

\* A tenant's removal begins, or the daemon panics.
LEMMA DeleteInvs == ASSUME DaemonInvs, NEW t \in Tenants, DeleteTenant(t) PROVE DaemonInvs'
<1>1. TypeInv /\ NodeInv /\ QueueInv /\ Ready("Delete", t)
  BY DEF DaemonInvs, DeleteTenant
<1>2. CASE Data(t).subnet # 0
  <2>1. /\ queue' = Tail(queue) /\ daemon' = [at |-> "entries", tenant |-> t, left |-> {"lock", "data"}]
        /\ \/ DeleteTenantBridge(t) /\ UNCHANGED <<abandoned, bounds>>
           \/ Fails(t) /\ UNCHANGED <<bridges, iface>>
        /\ UNCHANGED node
        /\ disturbed' = IF InUse(t) THEN disturbed \cup {t} ELSE disturbed
    BY <1>2 DEF DeleteTenant
  <2>2. /\ queue' \in Seq(EventsOf) /\ daemon.tenant = Nobody
        /\ Leading(queue', {u \in Tenants : mine[u] # 0} \ {t}, wanted)
    BY <1>1, <2>1, ReadyFacts
  <2>3. /\ daemon' \in [at : {"idle", "entries", "dir"}, tenant : Tenants \cup {Nobody}, left : SUBSET {"lock", "data"}]
        /\ DaemonInv' /\ daemon'.tenant = t
    BY <2>1 DEF DaemonInv, At
  <2>7. disturbed' \in SUBSET Tenants
    BY <1>1, <2>1, KeptTypes
  <2>8. TypeInv'
    BY <1>1, <2>1, <2>2, <2>3, <2>7, BridgeGone, DeleteFacts, DaemonTypes, DaemonKept, KeptTypes DEF node
  <2>9. {u \in Tenants : Given(u)'} = {u \in Tenants : mine[u] # 0} \ {t}
    BY <2>1, <2>3 DEF Given, node
  <2>10. QueueInv'
    BY <2>1, <2>2, <2>9 DEF QueueInv, DeleteTenant
  <2>11. NodeInv'
    BY <1>1, <2>1 DEF NodeInv, node
  <2> QED
    BY <2>8, <2>10, <2>11 DEF DaemonInvs
<1>3. CASE Data(t).subnet = 0
  <2>1. Restart /\ UNCHANGED <<wanted, bridges, iface, bounds>>
    BY <1>3 DEF DeleteTenant
  <2>2. TypeInv'
    BY <1>1, <2>1, DeleteFacts, RestartFacts, DaemonTypes, DaemonKept, KeptTypes DEF bridges, bounds
  <2> QED
    BY <1>1, <2>1, <2>2, RestartFacts DEF DaemonInvs
<1> QED
  BY <1>2, <1>3

\* An entry of the directory goes.
LEMMA RemoveEntryInvs ==
  ASSUME DaemonInvs, NEW e \in {"lock", "data"}, RemoveEntry(e)
  PROVE  DaemonInvs'
<1> DEFINE t == daemon.tenant
<1>1. TypeInv /\ NodeInv /\ QueueInv /\ At("entries") /\ t \in Tenants
  BY DaemonKept DEF DaemonInvs, RemoveEntry, At
<1>2. /\ UNCHANGED <<wanted, queue, node, dir, bridges, proc, pods, ghosts, bounds>>
      /\ \/ removed' = [removed EXCEPT ![t] = @ + 1] /\ UNCHANGED file
         \/ file' = [file EXCEPT ![t] = NoFile] /\ UNCHANGED removed
  BY DEF RemoveEntry
<1>3. /\ file' \in [Tenants -> TenantData \cup {NoFile}]
      /\ \A u \in Tenants : file'[u] # NoFile => u \in dir'
      /\ \A u \in Tenants : file'[u].subnet = 0 => file'[u] = Blank
  BY <1>1, <1>2, KeptTypes, DataFacts DEF TypeInv
<1>4. removed' \in [Tenants -> Nat]
  <2>1. removed \in [Tenants -> Nat] /\ removed[t] + 1 \in Nat
    BY <1>1, DaemonKept
  <2> QED
    BY <1>1, <1>2, <2>1
<1>5. /\ daemon' \in [at : {"idle", "entries", "dir"}, tenant : Tenants \cup {Nobody}, left : SUBSET {"lock", "data"}]
      /\ daemon'.tenant = t /\ daemon'.at # "idle"
  <2>1. daemon' = [daemon EXCEPT !.left = @ \ {e}, !.at = IF daemon.left = {e} THEN "dir" ELSE @]
    BY DEF RemoveEntry
  <2>2. /\ daemon \in [at : {"idle", "entries", "dir"}, tenant : Tenants \cup {Nobody}, left : SUBSET {"lock", "data"}]
        /\ daemon.at = "entries"
    BY <1>1, DaemonKept DEF At
  <2> QED
    BY <2>1, <2>2
<1>6. DaemonInv'
  BY <1>1, <1>5 DEF DaemonInv, At
<1>7. TypeInv'
  BY <1>1, <1>2, <1>3, <1>4, <1>5, <1>6, DaemonTypes, DaemonKept, KeptTypes DEF node, bridges, pods, ghosts, bounds
<1>8. QueueInv' /\ NodeInv'
  BY <1>1, <1>2, <1>5 DEF QueueInv, NodeInv, Given, node
<1> QED
  BY <1>7, <1>8 DEF DaemonInvs

\* The subnet comes back.
LEMMA ReclaimInvs ==
  ASSUME DaemonInvs, NEW t \in Tenants, daemon.tenant = t, Reclaim(t), UNCHANGED <<wanted, queue>>
  PROVE  /\ daemon' = Resting /\ DaemonInv'
         /\ daemon' \in [at : {"idle", "entries", "dir"}, tenant : Tenants \cup {Nobody}, left : SUBSET {"lock", "data"}]
         /\ avail' \in Seq(1 .. Subnets) /\ mine' \in [Tenants -> 0 .. Subnets]
         /\ \A u \in Tenants : mine'[u] = IF u = t THEN 0 ELSE mine[u]
         /\ NodeInv' /\ QueueInv'
<1>1. TypeInv /\ NodeInv /\ QueueInv /\ Nobody \notin Tenants
  BY DaemonKept DEF DaemonInvs
<1>2. /\ daemon' = Resting /\ mine' = [mine EXCEPT ![t] = 0]
      /\ avail' = IF mine[t] = 0 THEN avail ELSE Append(avail, mine[t])
  BY DEF Reclaim, Rests
<1>3. /\ avail \in Seq(1 .. Subnets) /\ mine \in [Tenants -> 0 .. Subnets]
      /\ Len(avail) \in Nat /\ DOMAIN avail = 1 .. Len(avail)
  BY <1>1, DaemonKept, SeqFacts
<1>4. /\ \A u \in Tenants : mine'[u] = IF u = t THEN 0 ELSE mine[u]
      /\ mine' \in [Tenants -> 0 .. Subnets]
  BY <1>2, <1>3, Numbers
<1>5. avail' \in Seq(1 .. Subnets) /\ NodeInv'
  <2>1. CASE mine[t] = 0
    <3>1. mine' = mine /\ avail' = avail
      BY <1>2, <1>3, <2>1
    <3> QED
      BY <1>1, <1>3, <3>1 DEF NodeInv
  <2>2. CASE mine[t] # 0
    <3>1. mine[t] \in 1 .. Subnets /\ avail' = Append(avail, mine[t])
      BY <1>2, <1>3, <2>2, Numbers
    <3>2. /\ avail' \in Seq(1 .. Subnets) /\ DOMAIN avail' = 1 .. Len(avail) + 1
          /\ \A i \in 1 .. Len(avail) : avail'[i] = avail[i]
          /\ avail'[Len(avail) + 1] = mine[t]
      BY <1>3, <3>1, AppendFacts
    <3>3. \A i \in DOMAIN avail' : i \in DOMAIN avail \/ i = Len(avail) + 1
      BY <1>3, <3>2
    <3>4. \A i, j \in DOMAIN avail' : avail'[i] = avail'[j] => i = j
      BY <1>1, <1>3, <3>2, <3>3 DEF NodeInv
    <3>5. \A u, v \in Tenants : mine'[u] = mine'[v] /\ mine'[u] # 0 => u = v
      BY <1>1, <1>4 DEF NodeInv
    <3>6. ASSUME NEW i \in DOMAIN avail', NEW u \in Tenants
          PROVE  avail'[i] # mine'[u]
      <4>1. avail'[i] # 0
        <5>1. \A j \in DOMAIN avail : avail[j] \in 1 .. Subnets
          BY <1>3, SeqFacts
        <5> QED
          BY <1>3, <2>2, <3>2, <3>3, <5>1, Numbers
      <4>2. CASE i \in DOMAIN avail
        BY <1>1, <1>3, <1>4, <3>2, <4>1, <4>2 DEF NodeInv
      <4>3. CASE i = Len(avail) + 1
        BY <1>1, <1>4, <2>2, <3>2, <4>1, <4>3 DEF NodeInv
      <4> QED
        BY <3>3, <4>2, <4>3
    <3>7. ASSUME NEW s \in 1 .. Subnets
          PROVE  (\E i \in DOMAIN avail' : avail'[i] = s) \/ \E u \in Tenants : mine'[u] = s
      <4>1. CASE \E i \in DOMAIN avail : avail[i] = s
        BY <1>3, <3>2, <4>1
      <4>2. CASE \E u \in Tenants : mine[u] = s
        <5>1. PICK u \in Tenants : mine[u] = s
          BY <4>2
        <5>2. CASE u = t
          <6>1. Len(avail) + 1 \in DOMAIN avail'
            BY <1>3, <3>2
          <6> QED
            BY <3>2, <5>1, <5>2, <6>1
        <5>3. CASE u # t
          BY <1>4, <5>1, <5>3
        <5> QED
          BY <5>2, <5>3
      <4> QED
        BY <1>1, <4>1, <4>2 DEF NodeInv
    <3> QED
      BY <3>2, <3>4, <3>5, <3>6, <3>7 DEF NodeInv
  <2> QED
    BY <2>1, <2>2
<1>6. {u \in Tenants : Given(u)'} = {u \in Tenants : Given(u)}
  BY <1>1, <1>2, <1>4 DEF Given, Resting
<1>7. QueueInv'
  BY <1>1, <1>6 DEF QueueInv
<1>8. DaemonInv' /\ daemon' \in [at : {"idle", "entries", "dir"}, tenant : Tenants \cup {Nobody}, left : SUBSET {"lock", "data"}]
  BY <1>2 DEF DaemonInv, At, Resting
<1> QED
  BY <1>2, <1>4, <1>5, <1>7, <1>8

\* The directory goes.
LEMMA RemoveDirectoryInvs == ASSUME DaemonInvs, RemoveDirectory PROVE DaemonInvs'
<1> DEFINE t == daemon.tenant
<1>1. TypeInv /\ At("dir") /\ t \in Tenants
  BY DaemonKept DEF DaemonInvs, RemoveDirectory, At
<1>2. /\ UNCHANGED <<wanted, queue, bridges, proc, pods, ghosts, bounds>> /\ Reclaim(t)
      /\ dir' = dir \ {t} /\ file' = [file EXCEPT ![t] = NoFile]
      /\ removed' = [removed EXCEPT ![t] = @ + 1]
  BY DEF RemoveDirectory
<1>3. /\ dir' \in SUBSET Tenants
      /\ file' \in [Tenants -> TenantData \cup {NoFile}]
      /\ \A u \in Tenants : file'[u] # NoFile => u \in dir'
      /\ \A u \in Tenants : file'[u].subnet = 0 => file'[u] = Blank
  BY <1>1, <1>2, KeptTypes, DataFacts DEF TypeInv
<1>4. removed' \in [Tenants -> Nat]
  BY <1>1, <1>2, DaemonKept
<1>5. TypeInv'
  BY <1>1, <1>2, <1>3, <1>4, ReclaimInvs, DaemonTypes, DaemonKept, KeptTypes DEF bridges, pods, ghosts, bounds
<1> QED
  BY <1>1, <1>2, <1>5, ReclaimInvs DEF DaemonInvs

\* The store stays.
LEMMA StoreStaysInvs == ASSUME DaemonInvs, StoreStays PROVE DaemonInvs'
<1> DEFINE t == daemon.tenant
<1>1. TypeInv /\ t \in Tenants
  BY DaemonKept DEF DaemonInvs, StoreStays, At
<1>2. /\ UNCHANGED <<wanted, queue, stores, bridges, proc, pods, disturbed>> /\ Reclaim(t)
      /\ abandoned' = abandoned \cup {t} /\ Happens
  BY DEF StoreStays, Fails
<1>3. commands' \in 0 .. MaxCommands /\ events' \in 0 .. MaxEvents
  BY <1>1, <1>2, LifecycleAssumption DEF Happens, TypeInv, TypeOK
<1>4. TypeInv'
  BY <1>1, <1>2, <1>3, ReclaimInvs, DaemonTypes, DaemonKept, KeptTypes DEF stores, bridges, pods
<1> QED
  BY <1>1, <1>2, <1>4, ReclaimInvs DEF DaemonInvs

-----------------------------------------------------------------------------
(* What is true of a tenant that was not disturbed.                         *)

Active(p) == proc[p].at # "idle"

\* Nothing of the tenant but a bridge is left, or nothing of it is there yet.
Clean(t) == Data(t).subnet = 0 /\ \A p \in Pods : Here(p) = t => iface[p] = NoIface

\* What is left of a tenant that is not provisioned was given up, or will be found when
\* it is provisioned again.
Left(t) == AddQueued(t) \/ t \in abandoned

\* The tenant is provisioned; or it is not and nothing of it is there; or it is being
\* deleted; or it is not provisioned, with something left, and not in use.
StageInv(t) ==
  \/ Given(t) /\ t \in dir /\ file[t] # NoFile /\ file[t].subnet = mine[t]
  \/ daemon.tenant # t /\ mine[t] = 0 /\ Clean(t) /\ (HasBridge(t) => Left(t))
  \/ daemon.tenant = t /\ ~InUse(t) /\ (HasBridge(t) => t \in abandoned)
  \/ daemon.tenant # t /\ mine[t] = 0 /\ ~InUse(t) /\ Left(t)

\* A command has opened the lock file that is there, and once it is past the first
\* load the tenant is provisioned; what it is about to write has every lease of the
\* others, and that of an ADD every lease; an ADD has its address leased, and the
\* bridge it has looked up is there.
CommandInv(p) ==
  LET t == Here(p) IN
  Active(p) =>
    /\ proc[p].lock = removed[t] /\ t \in dir
    /\ proc[p].at = "write" =>
         /\ Given(t) /\ proc[p].data.subnet = mine[t]
         /\ \A h \in Hosts : \A q \in Pods :
              file[t].ips[h] = q /\ (proc[p].op = "ADD" \/ q # p) => proc[p].data.ips[h] = q
    /\ proc[p].op = "ADD" /\ proc[p].at \notin {"first", "firstCreate"} =>
         Given(t) /\ proc[p].gateway = mine[t] /\ proc[p].data.subnet = mine[t]
    /\ proc[p].op = "ADD" => proc[p].at # "create"
    /\ proc[p].op = "ADD" /\ proc[p].at = "write" => proc[p].data.ips[proc[p].host] = p
    /\ proc[p].at \in {"bridge", "linkAdd", "addrAdd", "veth"} => file[t].ips[proc[p].host] = p
    /\ proc[p].at \in {"addrAdd", "veth"} => StillThere(p)

\* The tenant of an interface is provisioned; an address is in its subnet, and leased
\* to the pod until its DEL runs; an interface that was connected still is.
PlugInv(p) ==
  LET t == Here(p) IN
  iface[p] # NoIface =>
    /\ Given(t) /\ iface[p].on # "lost"
    /\ iface[p].on = "yes" => HasBridge(t) /\ iface[p].subnet = mine[t] /\ iface[p].gateway = mine[t]
    /\ iface[p].subnet # 0 =>
         /\ iface[p].subnet = mine[t]
         /\ ~stopping[p] => iface[p].host \in Hosts /\ file[t].ips[iface[p].host] = p

\* The bridge of a provisioned tenant that has its gateway is up, and one that has not
\* is being made, unless its maker has stopped.
BridgeInv(t) ==
  Given(t) /\ HasBridge(t) =>
    IF mine[t] \in bridge[t] THEN t \in up \/ t \in unfinished
                             ELSE BeingMade(t) \/ t \in unfinished

TenantInv(t) ==
  /\ StageInv(t) /\ BridgeInv(t)
  /\ \A p \in Pods : Here(p) = t => CommandInv(p) /\ PlugInv(p)

TrustInv == \A t \in Tenants \ disturbed : TenantInv(t)

Holds(p) == proc[p].at \in {"create", "write"}

\* No two commands for a tenant that have opened the same lock file have locked it.
LockInv ==
  \A p, q \in Pods :
    Holds(p) /\ Holds(q) /\ Here(p) = Here(q) /\ proc[p].lock = proc[q].lock => p = q

\* A step that leaves a tenant alone.
KeptPods(u) ==
  /\ tenantOf' = tenantOf
  /\ \A p \in Pods : Here(p) = u => proc'[p] = proc[p] /\ iface'[p] = iface[p] /\ stopping'[p] = stopping[p]

Kept(u) ==
  /\ mine'[u] = mine[u] /\ (daemon'.tenant = u <=> daemon.tenant = u)
  /\ (u \in dir => u \in dir') /\ file'[u] = file[u] /\ removed'[u] = removed[u]
  /\ bridge'[u] = bridge[u] /\ deleted'[u] = deleted[u] /\ (u \in unfinished => u \in unfinished')
  /\ (u \in up => u \in up') /\ (u \in abandoned => u \in abandoned')
  /\ AddQueued(u) => AddQueued(u)'
  /\ KeptPods(u)

\* What is true of a tenant stays true when it is left alone.
LEMMA KeptInv == ASSUME NEW u \in Tenants, TenantInv(u), Kept(u) PROVE TenantInv(u)'
<1>1. /\ Given(u)' <=> Given(u)
      /\ HasBridge(u)' <=> HasBridge(u)
      /\ Data(u)' = Data(u)
      /\ \A p \in Pods : Here(p)' = Here(p)
  BY DEF Kept, KeptPods, Given, HasBridge, Data, Here
<1>2. \A p \in Pods : Here(p) = u => proc'[p] = proc[p] /\ iface'[p] = iface[p] /\ stopping'[p] = stopping[p]
  BY DEF Kept, KeptPods
<1>3. \A p \in Pods : Here(p) = u => (StillThere(p)' <=> StillThere(p))
  BY <1>1, <1>2 DEF StillThere, Kept
<1>4. (InUse(u)' <=> InUse(u)) /\ (BeingMade(u)' <=> BeingMade(u)) /\ (Clean(u)' <=> Clean(u))
  <2>1. InUse(u)' <=> InUse(u)
    BY <1>1, <1>2 DEF InUse
  <2>2. BeingMade(u)' <=> BeingMade(u)
    BY <1>1, <1>2, <1>3 DEF BeingMade
  <2>3. Clean(u)' <=> Clean(u)
    BY <1>1, <1>2 DEF Clean
  <2> QED
    BY <2>1, <2>2, <2>3
<1>5. StageInv(u)'
  BY <1>1, <1>4 DEF TenantInv, StageInv, Kept, Given, Left
<1>6. BridgeInv(u)'
  BY <1>1, <1>4 DEF TenantInv, BridgeInv, Kept
<1>7. ASSUME NEW p \in Pods, Here(p) = u
      PROVE  CommandInv(p)' /\ PlugInv(p)'
  <2>1. CommandInv(p) /\ PlugInv(p)
    BY <1>7 DEF TenantInv
  <2>2. CommandInv(p)'
    BY <1>1, <1>2, <1>3, <1>7, <2>1 DEF CommandInv, Active, Kept
  <2>3. PlugInv(p)'
    BY <1>1, <1>2, <1>7, <2>1 DEF PlugInv, Kept
  <2> QED
    BY <2>2, <2>3
<1> QED
  BY <1>1, <1>5, <1>6, <1>7 DEF TenantInv

-----------------------------------------------------------------------------
(* The plugin's steps.                                                      *)

\* What a step of p, or its end, never touches.
Apart(p) ==
  /\ UNCHANGED <<queue, daemon, mine, tenantOf, dir, removed, deleted, abandoned>>
  /\ \A u \in Tenants \ {Here(p)} : file'[u] = file[u] /\ bridge'[u] = bridge[u]
  /\ unfinished \subseteq unfinished' /\ up \subseteq up' /\ disturbed \subseteq disturbed'
  /\ \A q \in Pods \ {p} : proc'[q] = proc[q] /\ iface'[q] = iface[q] /\ stopping'[q] = stopping[q]

\* A step of p, or its end, touches no more than that.
LEMMA StepApart == ASSUME TypeInv, NEW p \in Pods, Step(p) \/ Kill(p) PROVE Apart(p)
<1>1. /\ proc \in [Pods -> Process] /\ iface \in [Pods -> Ifaces \cup {NoIface}] /\ stopping \in [Pods -> BOOLEAN]
      /\ file \in [Tenants -> TenantData \cup {NoFile}]
      /\ bridge \in [Tenants -> (SUBSET (1 .. Subnets)) \cup {NoBridge}] /\ Here(p) \in Tenants
  BY KeptTypes, ProcTypes DEF TypeInv, TypeOK
<1>2. ASSUME Kill(p)
      PROVE  Apart(p)
  BY <1>1, <1>2, KillFacts DEF Apart, worker, node, stores, ghosts
<1>3. ASSUME Step(p)
      PROVE  UNCHANGED <<queue, daemon, mine, tenantOf, dir, removed, deleted, abandoned, unfinished>>
  BY <1>3 DEF Step, FirstLoad, FirstCreate, Load, Create, WriteStore, FindBridge, LinkAdd, AddrAdd, SetupVeth, DelVeth,
         worker, node, stores, bridges, pods, ghosts
<1>4. ASSUME Step(p)
      PROVE  \A u \in Tenants \ {Here(p)} : file'[u] = file[u]
  <2>1. CASE FirstCreate(p) \/ Create(p)
    BY <1>1, <2>1, CreateFacts DEF FirstCreate, Create
  <2>2. CASE ~(FirstCreate(p) \/ Create(p))
    BY <1>1, <1>4, <2>2 DEF Step, FirstLoad, Load, WriteStore, FindBridge, LinkAdd, AddrAdd, SetupVeth, DelVeth, stores
  <2> QED
    BY <2>1, <2>2
<1>5. ASSUME Step(p)
      PROVE  (\A u \in Tenants \ {Here(p)} : bridge'[u] = bridge[u]) /\ up \subseteq up'
  BY <1>1, <1>5 DEF Step, FirstLoad, FirstCreate, Load, Create, WriteStore, FindBridge, LinkAdd, AddrAdd, SetupVeth,
              DelVeth, bridges
<1>6. ASSUME Step(p)
      PROVE  \A q \in Pods \ {p} : iface'[q] = iface[q] /\ stopping'[q] = stopping[q]
  BY <1>1, <1>6 DEF Step, FirstLoad, FirstCreate, Load, Create, WriteStore, FindBridge, LinkAdd, AddrAdd, SetupVeth,
              DelVeth, pods
<1>7. ASSUME Step(p)
      PROVE  disturbed \subseteq disturbed'
  <2>1. CASE FirstCreate(p) \/ Create(p)
    BY <1>1, <2>1, CreateFacts DEF FirstCreate, Create
  <2>2. CASE ~(FirstCreate(p) \/ Create(p))
    BY <1>7, <2>2 DEF Step, FirstLoad, Load, WriteStore, FindBridge, LinkAdd, AddrAdd, SetupVeth, DelVeth, ghosts
  <2> QED
    BY <2>1, <2>2
<1>8. ASSUME Step(p)
      PROVE  \A q \in Pods \ {p} : proc'[q] = proc[q]
  <2>1. CASE FirstLoad(p) \/ FirstCreate(p)
    BY <1>1, <2>1 DEF FirstLoad, FirstCreate, TakeFirst, Exit, Goto
  <2>2. CASE Load(p) \/ Create(p)
    BY <1>1, <2>2 DEF Load, Create, AllocateFrom, ReleaseFrom, Exit, Goto
  <2>3. CASE WriteStore(p)
    BY <1>1, <2>3 DEF WriteStore, Exit, Goto
  <2>4. CASE FindBridge(p) \/ LinkAdd(p) \/ AddrAdd(p)
    BY <1>1, <2>4 DEF FindBridge, LinkAdd, AddrAdd, Exit, Goto
  <2>5. CASE SetupVeth(p) \/ DelVeth(p)
    BY <1>1, <2>5 DEF SetupVeth, DelVeth, Exit
  <2> QED
    BY <1>8, <2>1, <2>2, <2>3, <2>4, <2>5 DEF Step
<1>9. ASSUME Step(p)
      PROVE  Apart(p)
  BY <1>3, <1>4, <1>5, <1>6, <1>7, <1>8, <1>9 DEF Apart
<1> QED
  BY <1>2, <1>9

\* The other tenants are left alone by a step of p.
LEMMA OtherTenants ==
  ASSUME NEW p \in Pods, Apart(p), NEW u \in Tenants, u # Here(p)
  PROVE  Kept(u)
<1>1. KeptPods(u)
  BY DEF Apart, KeptPods
<1>2. AddQueued(u) => AddQueued(u)'
  BY DEF Apart, AddQueued
<1> QED
  BY <1>1, <1>2 DEF Apart, Kept

\* While a command for a tenant runs, the tenant is provisioned, or nothing of it is
\* there.
LEMMA ActiveStage ==
  ASSUME TypeInv, NEW p \in Pods, Active(p), StageInv(Here(p))
  PROVE  LET t == Here(p) IN
         \/ Given(t) /\ t \in dir /\ file[t] # NoFile /\ file[t].subnet = mine[t] /\ mine[t] # 0
         \/ /\ daemon.tenant # t /\ mine[t] = 0 /\ ~Given(t) /\ Clean(t)
            /\ HasBridge(t) => Left(t)
<1>1. InUse(Here(p))
  BY DEF InUse, Active
<1> QED
  BY <1>1 DEF StageInv, Given

\* What a step of p must leave to the other commands and pods of its tenant: their
\* leases, the bridge, and, if one of them is about to write, the store.
Considerate(p) ==
  LET t == Here(p) IN
  /\ \A q \in Pods \ {p} : \A h \in Hosts : file[t].ips[h] = q => file'[t].ips[h] = q
  /\ (\E q \in Pods \ {p} : Here(q) = t /\ proc[q].at = "write") => \A h \in Hosts : file'[t].ips[h] = file[t].ips[h]
  /\ HasBridge(t) => HasBridge(t)'

\* Then what is true of them stays true.
LEMMA OtherPods ==
  ASSUME TypeInv, NEW p \in Pods, TenantInv(Here(p)), Apart(p), Considerate(p),
         NEW q \in Pods \ {p}, Here(q) = Here(p)
  PROVE  CommandInv(q)' /\ PlugInv(q)'
<1> DEFINE t == Here(p)
<1>1. CommandInv(q) /\ PlugInv(q) /\ t \in Tenants
  BY ProcTypes DEF TenantInv
<1>2. /\ Here(q)' = t /\ Here(p)' = t /\ (Given(t)' <=> Given(t)) /\ mine' = mine /\ removed' = removed /\ deleted' = deleted /\ dir' = dir
      /\ proc'[q] = proc[q] /\ iface'[q] = iface[q] /\ stopping'[q] = stopping[q]
  BY DEF Apart, Given, Here
<1>3. ProcOK(proc[q], stopping[q], iface[q]) /\ proc[q].host \in Hosts \cup {0} /\ proc[q] \in Process
  BY ProcTypes
<1>4. StillThere(q) => StillThere(q)'
  BY <1>2 DEF StillThere, Considerate
<1>6. proc[q].at \in {"bridge", "linkAdd", "addrAdd", "veth"} => proc[q].host \in Hosts
  BY <1>3 DEF ProcOK, Process
<1>7. CommandInv(q)'
  <2>1. proc[q].at = "write" => \A h \in Hosts : file'[t].ips[h] = file[t].ips[h]
    BY DEF Considerate
  <2>2. proc[q].at \in {"bridge", "linkAdd", "addrAdd", "veth"} /\ file[t].ips[proc[q].host] = q => file'[t].ips[proc[q].host] = q
    BY <1>6 DEF Considerate
  <2> QED
    BY <1>1, <1>2, <1>4, <2>1, <2>2 DEF CommandInv, Active
<1>8. PlugInv(q)'
  <2>1. iface[q].host \in Hosts /\ file[t].ips[iface[q].host] = q => file'[t].ips[iface[q].host] = q
    BY DEF Considerate
  <2>2. HasBridge(t) => HasBridge(t)'
    BY DEF Considerate
  <2> QED
    BY <1>1, <1>2, <2>1, <2>2 DEF PlugInv
<1> QED
  BY <1>7, <1>8

\* What is left to show of a step of p.
LEMMA OwnTenant ==
  ASSUME TypeInv, NEW p \in Pods, TenantInv(Here(p)), Apart(p), Considerate(p),
         StageInv(Here(p))', BridgeInv(Here(p))', CommandInv(p)', PlugInv(p)'
  PROVE  TenantInv(Here(p))'
<1>1. \A q \in Pods : Here(q)' = Here(q)
  BY DEF Apart, Here
<1>2. \A q \in Pods \ {p} : Here(q) = Here(p) => CommandInv(q)' /\ PlugInv(q)'
  BY OtherPods
<1>3. (\A q \in Pods : Here(q) = Here(p) => CommandInv(q) /\ PlugInv(q))'
  BY <1>1, <1>2
<1> QED
  BY <1>3 DEF TenantInv

\* A step that does not touch the bridge, of a command that is not making it.
LEMMA BridgeKept ==
  ASSUME TypeInv, NEW p \in Pods, TenantInv(Here(p)), Apart(p), UNCHANGED bridge, proc[p].at # "addrAdd"
  PROVE  BridgeInv(Here(p))'
<1> DEFINE t == Here(p)
<1>1. /\ t' = t /\ (Given(t)' <=> Given(t)) /\ (HasBridge(t)' <=> HasBridge(t)) /\ mine' = mine
      /\ \A q \in Pods : Here(q)' = Here(q)
  BY DEF Apart, Given, Here, HasBridge
<1>2. BeingMade(t) => BeingMade(t)'
  <2> SUFFICES ASSUME NEW q \in Pods, Here(q) = t, proc[q].at = "addrAdd", StillThere(q)
               PROVE  BeingMade(t)'
    BY DEF BeingMade
  <2>1. q # p /\ proc'[q] = proc[q] /\ deleted' = deleted
    BY DEF Apart
  <2>2. StillThere(q)'
    BY <1>1, <2>1 DEF StillThere
  <2> QED
    BY <1>1, <2>1, <2>2 DEF BeingMade
<1>3. BridgeInv(t) /\ (t \in unfinished => t \in unfinished') /\ (t \in up => t \in up')
  BY DEF TenantInv, Apart
<1> QED
  BY <1>1, <1>2, <1>3 DEF BridgeInv

\* A step that changes no lease and leaves the interfaces: the tenant stays at its stage.
LEMMA StageKept ==
  ASSUME TypeInv, NEW p \in Pods, Active(p), TenantInv(Here(p)), Apart(p), UNCHANGED bridge,
         file'[Here(p)] = file[Here(p)] \/ (file[Here(p)] = NoFile /\ file'[Here(p)] = Blank),
         iface'[p] \in {iface[p], NoIface}
  PROVE  StageInv(Here(p))' /\ Considerate(p)
<1> DEFINE t == Here(p)
<1>1. t \in Tenants /\ t' = t /\ mine' = mine /\ daemon' = daemon /\ dir' = dir /\ (HasBridge(t)' <=> HasBridge(t))
  BY ProcTypes DEF Apart, Here, HasBridge
<1>2. file'[t] = file[t] \/ (file[t] = NoFile /\ file'[t] = Blank)
  OBVIOUS
<1>3. \A h \in Hosts : file'[t].ips[h] = file[t].ips[h]
  BY <1>1, <1>2, DataFacts DEF TypeInv
<1>4. Data(t)' = Data(t)
  BY <1>1, <1>2 DEF Data
<1>5. \A q \in Pods : Here(q)' = Here(q) /\ (iface[q] = NoIface => iface'[q] = NoIface)
  BY DEF Apart, Here
<1>6. StageInv(t)
  BY DEF TenantInv
<1>7. Considerate(p)
  BY <1>1, <1>3 DEF Considerate
<1>8. CASE Given(t) /\ t \in dir /\ file[t] # NoFile /\ file[t].subnet = mine[t]
  <2>1. file'[t] = file[t]
    BY <1>2, <1>8
  <2> QED
    BY <1>1, <1>7, <1>8, <2>1 DEF StageInv, Given
<1>9. CASE daemon.tenant # t /\ mine[t] = 0 /\ Clean(t) /\ (HasBridge(t) => Left(t))
  <2>1. Clean(t)'
    BY <1>1, <1>4, <1>5, <1>9 DEF Clean
  <2>2. Left(t) => Left(t)'
    BY <1>1 DEF Left, AddQueued, Apart
  <2> QED
    BY <1>1, <1>7, <1>9, <2>1, <2>2 DEF StageInv
<1> QED
  BY <1>6, <1>8, <1>9, <1>7, ActiveStage

\* A step that changes no lease of p, neither its interface nor its bridge.
LEMMA PlugKept ==
  ASSUME TypeInv, NEW p \in Pods, TenantInv(Here(p)), Apart(p),
         iface'[p] = iface[p], stopping'[p] = stopping[p], HasBridge(Here(p)) => bridge'[Here(p)] # NoBridge,
         ~stopping[p] /\ iface[p] # NoIface =>
           \A h \in Hosts : file[Here(p)].ips[h] = p => file'[Here(p)].ips[h] = p
  PROVE  PlugInv(p)'
<1>1. Here(p)' = Here(p) /\ (Given(Here(p))' <=> Given(Here(p))) /\ mine' = mine
  BY DEF Apart, Here, Given
<1>2. HasBridge(Here(p)) => HasBridge(Here(p))'
  BY <1>1 DEF HasBridge
<1>3. PlugInv(p)
  BY ProcTypes DEF TenantInv
<1> QED
  BY <1>1, <1>2, <1>3 DEF PlugInv

\* A load leaves the leases alone.
LEMMA SameLeases ==
  ASSUME TypeInv, NEW t \in Tenants, file'[t] = file[t] \/ (file[t] = NoFile /\ file'[t] = Blank)
  PROVE  \A h \in Hosts : file'[t].ips[h] = file[t].ips[h]
BY DataFacts DEF TypeInv

\* What a command that has just gone on, or ended, has to be.
LEMMA CommandNew ==
  ASSUME TypeInv, NEW p \in Pods, TenantInv(Here(p)), Active(p), Apart(p),
         \/ proc'[p].at = "idle"
         \/ /\ proc'[p].at \in {"firstCreate", "load", "create", "bridge", "linkAdd", "net"}
            /\ proc'[p].lock = proc[p].lock
            /\ proc'[p].op = "ADD" =>
                 /\ proc'[p].at # "create"
                 /\ proc'[p].at # "firstCreate" =>
                      /\ Given(Here(p)) /\ proc'[p].gateway = mine[Here(p)]
                      /\ proc'[p].data.subnet = mine[Here(p)]
            /\ proc'[p].at \in {"bridge", "linkAdd"} => file'[Here(p)].ips[proc'[p].host] = p
  PROVE  CommandInv(p)'
<1>1. Here(p)' = Here(p) /\ (Given(Here(p))' <=> Given(Here(p))) /\ mine' = mine /\ removed' = removed /\ dir' = dir
  BY DEF Apart, Here, Given
<1>2. CommandInv(p) /\ Here(p) \in dir /\ proc[p].lock = removed[Here(p)]
  BY ProcTypes DEF TenantInv, CommandInv
<1> QED
  BY <1>1, <1>2 DEF CommandInv, Active

\* A step that touches neither the bridge nor the interface, and no lease.
LEMMA LoadKeeps ==
  ASSUME TypeInv, NEW p \in Pods, TenantInv(Here(p)), Apart(p), Active(p), UNCHANGED <<bridge, iface, stopping>>,
         proc[p].at # "addrAdd", CommandInv(p)',
         file'[Here(p)] = file[Here(p)] \/ (file[Here(p)] = NoFile /\ file'[Here(p)] = Blank)
  PROVE  TenantInv(Here(p))'
<1>1. Here(p) \in Tenants
  BY ProcTypes
<1>2. StageInv(Here(p))' /\ Considerate(p)
  BY StageKept
<1>3. BridgeInv(Here(p))'
  BY BridgeKept
<1>4. PlugInv(p)'
  BY <1>1, SameLeases, PlugKept DEF HasBridge
<1> QED
  BY <1>2, <1>3, <1>4, OwnTenant

\* The first load.
LEMMA FirstLoadTenant ==
  ASSUME TypeInv, NEW p \in Pods, TenantInv(Here(p)), Apart(p), FirstLoad(p)
  PROVE  TenantInv(Here(p))'
<1> DEFINE t == Here(p)
<1>1. /\ t \in Tenants /\ proc \in [Pods -> Process] /\ proc[p].at = "first" /\ Active(p)
      /\ UNCHANGED <<file, bridge, iface, stopping>>
  BY ProcTypes DEF FirstLoad, Active, stores, bridges, pods, TypeInv, TypeOK
<1>2. CommandInv(p)'
  <2>1. CASE Goto(p, "firstCreate")
    <3>1. proc'[p].at = "firstCreate" /\ proc'[p].lock = proc[p].lock
      BY <1>1, <2>1 DEF Goto, Process
    <3> QED
      BY <1>1, <3>1, CommandNew
  <2>2. CASE file[t] # NoFile /\ TakeFirst(p, file[t])
    <3>1. file[t] \in TenantData
      BY <1>1, <2>2, KeptTypes
    <3>2. \/ proc'[p] = NoProcess
          \/ /\ proc[p].op = "ADD" => file[t].subnet # 0
             /\ proc'[p].at = "load" /\ proc'[p].op = proc[p].op /\ proc'[p].lock = proc[p].lock
             /\ proc'[p].data = file[t] /\ proc'[p].gateway = file[t].subnet
      BY <1>1, <2>2, <3>1, TakeFirstFacts
    <3>3. file[t].subnet # 0 => Given(t) /\ file[t].subnet = mine[t]
      BY <1>1, <2>2, ActiveStage DEF TenantInv, Clean, Data
    <3>4. NoProcess.at = "idle"
      BY DEF NoProcess
    <3> QED
      BY <1>1, <3>2, <3>3, <3>4, CommandNew
  <2> QED
    BY <2>1, <2>2 DEF FirstLoad
<1> QED
  BY <1>1, <1>2, LoadKeeps

\* The first load makes the file.
LEMMA FirstCreateTenant ==
  ASSUME TypeInv, NEW p \in Pods, TenantInv(Here(p)), Apart(p), FirstCreate(p), Here(p) \notin disturbed'
  PROVE  TenantInv(Here(p))'
<1> DEFINE t == Here(p)
<1>1. /\ t \in Tenants /\ proc[p].at = "firstCreate" /\ Active(p) /\ CreateFile(t) /\ TakeFirst(p, Blank)
      /\ UNCHANGED <<bridge, iface, stopping>> /\ Blank \in TenantData /\ Blank.subnet = 0
  BY ProcTypes, DataFacts DEF FirstCreate, Active, bridges, pods, TypeInv
<1>2. file'[t] = file[t] \/ (file[t] = NoFile /\ file'[t] = Blank)
  BY <1>1, CreateFacts
<1>3. CommandInv(p)'
  <2>1. \/ proc'[p] = NoProcess
        \/ /\ proc[p].op # "ADD" /\ proc'[p].at = "load" /\ proc'[p].op = proc[p].op
           /\ proc'[p].lock = proc[p].lock
    BY <1>1, TakeFirstFacts
  <2>2. NoProcess.at = "idle"
    BY DEF NoProcess
  <2> QED
    BY <1>1, <2>1, <2>2, CommandNew
<1> QED
  BY <1>1, <1>2, <1>3, LoadKeeps

\* AllocateIP and ReleaseIP: the load.
LEMMA LoadTenant ==
  ASSUME TypeInv, NEW p \in Pods, TenantInv(Here(p)), Apart(p), Load(p)
  PROVE  TenantInv(Here(p))'
<1> DEFINE t == Here(p)
           d == file[t]
<1>1. /\ t \in Tenants /\ proc \in [Pods -> Process] /\ proc[p].at = "load" /\ Active(p)
      /\ proc[p].op \in {"ADD", "DEL"}
      /\ UNCHANGED <<file, bridge, iface, stopping>>
  BY ProcTypes DEF Load, Active, stores, bridges, pods, TypeInv, TypeOK, ProcOK, Process
<1>2. t \in dir /\ proc[p].lock = removed[t] /\ (proc[p].op = "ADD" => Given(t) /\ proc[p].gateway = mine[t])
  BY <1>1 DEF TenantInv, CommandInv
<1>3. d # NoFile => d \in TenantData /\ (d.subnet = 0 => d = Blank)
  BY <1>1, KeptTypes
<1>4. \/ Given(t) /\ d # NoFile /\ d.subnet = mine[t]
      \/ ~Given(t) /\ (d # NoFile => d.subnet = 0)
  BY <1>1, ActiveStage DEF TenantInv, Clean, Data
<1>5. Here(p)' = t /\ (Given(t)' <=> Given(t)) /\ mine' = mine /\ removed' = removed /\ dir' = dir /\ file' = file
  BY <1>1 DEF Apart, Here, Given
<1>6. NoProcess.at = "idle" /\ Nobody \notin Pods
  BY LifecycleAssumption DEF NoProcess
<1> HIDE DEF t, d
<1>7. CommandInv(p)'
  <2>1. CASE d = NoFile /\ Goto(p, "create")
    <3>1. proc'[p].at = "create" /\ proc'[p].lock = proc[p].lock /\ proc'[p].op = proc[p].op /\ proc[p].op # "ADD"
      BY <1>1, <1>2, <1>4, <2>1 DEF Goto, Process
    <3> QED
      BY <1>1, <3>1, CommandNew
  <2>2. CASE d # NoFile /\ proc[p].op = "ADD" /\ AllocateFrom(p, d)
    <3>1. \/ proc'[p] = NoProcess
          \/ /\ d.subnet # 0 /\ proc'[p].op = "ADD" /\ proc'[p].lock = proc[p].lock
             /\ proc'[p].gateway = proc[p].gateway /\ proc'[p].host \in Hosts
             /\ \/ /\ proc'[p].at = "bridge" /\ proc'[p].data = d /\ d.ips[proc'[p].host] = p
                \/ /\ proc'[p].at = "write" /\ proc'[p].data.subnet = d.subnet
                   /\ \A h \in Hosts : d.ips[h] # p
                   /\ d.ips[proc'[p].host] = Nobody
                   /\ \A h \in Hosts : proc'[p].data.ips[h] = IF h = proc'[p].host THEN p ELSE d.ips[h]
      BY <1>1, <1>3, <2>2, AllocateFromFacts
    <3>2. CASE proc'[p] = NoProcess
      BY <1>1, <1>6, <3>2, CommandNew
    <3>3. CASE proc'[p].at = "bridge" /\ proc'[p] # NoProcess
      BY <1>1, <1>2, <1>4, <1>5, <2>2, <3>1, <3>3, CommandNew DEF d, t
    <3>4. CASE proc'[p].at = "write" /\ proc'[p] # NoProcess
      <4>1. \A h \in Hosts : \A q \in Pods : d.ips[h] = q => proc'[p].data.ips[h] = q
        BY <1>6, <3>1, <3>4
      <4>2. proc'[p].data.ips[proc'[p].host] = p
        BY <3>1, <3>4
      <4> QED
        BY <1>2, <1>4, <1>5, <2>2, <3>1, <3>4, <4>1, <4>2 DEF CommandInv, d, t
    <3> QED
      BY <3>1, <3>2, <3>3, <3>4
  <2>3. CASE d # NoFile /\ proc[p].op = "DEL" /\ ReleaseFrom(p, d)
    <3>1. /\ proc'[p].op = "DEL" /\ proc'[p].lock = proc[p].lock
          /\ \/ proc'[p].at = "net"
             \/ /\ proc'[p].at = "write" /\ d.subnet # 0 /\ proc'[p].data.subnet = d.subnet
                /\ \A h \in Hosts : d.ips[h] # p => proc'[p].data.ips[h] = d.ips[h]
      BY <1>1, <1>3, <2>3, ReleaseFromFacts
    <3>2. CASE proc'[p].at = "net"
      BY <1>1, <3>1, <3>2, CommandNew
    <3>3. CASE proc'[p].at = "write"
      <4>1. Given(t) /\ d.subnet = mine[t]
        BY <1>4, <2>3, <3>1, <3>3
      <4>2. \A h \in Hosts : \A q \in Pods : d.ips[h] = q /\ q # p => proc'[p].data.ips[h] = q
        BY <3>1, <3>3
      <4> QED
        BY <1>2, <1>5, <3>1, <3>3, <4>1, <4>2 DEF CommandInv, d, t
    <3> QED
      BY <3>1, <3>2, <3>3
  <2> QED
    BY <2>1, <2>2, <2>3 DEF Load, d, t
<1> QED
  BY <1>1, <1>7, LoadKeeps DEF t

\* AllocateIP and ReleaseIP: the load makes the file; here only ReleaseIP's.
LEMMA CreateTenant ==
  ASSUME TypeInv, NEW p \in Pods, TenantInv(Here(p)), Apart(p), Create(p), Here(p) \notin disturbed'
  PROVE  TenantInv(Here(p))'
<1> DEFINE t == Here(p)
<1>1. /\ t \in Tenants /\ proc[p].at = "create" /\ Active(p) /\ CreateFile(t)
      /\ UNCHANGED <<bridge, iface, stopping>> /\ Blank \in TenantData /\ Blank.subnet = 0
  BY ProcTypes, DataFacts DEF Create, Active, bridges, pods, TypeInv
<1>2. file'[t] = file[t] \/ (file[t] = NoFile /\ file'[t] = Blank)
  BY <1>1, CreateFacts
<1>3. t \in dir /\ proc[p].op # "ADD"
  BY <1>1 DEF TenantInv, CommandInv
<1>4. proc[p].op = "DEL" /\ ReleaseFrom(p, Blank)
  BY <1>3 DEF Create
<1>5. proc'[p].op = "DEL" /\ proc'[p].lock = proc[p].lock /\ proc'[p].at = "net"
  BY <1>1, <1>4, ReleaseFromFacts
<1>6. CommandInv(p)'
  BY <1>1, <1>5, CommandNew
<1> QED
  BY <1>1, <1>2, <1>6, LoadKeeps

\* The store is written: nobody else is about to write it.
LEMMA WriteStoreTenant ==
  ASSUME TypeInv, LockInv, NEW p \in Pods, TenantInv(Here(p)), Apart(p), WriteStore(p)
  PROVE  TenantInv(Here(p))'
<1> DEFINE t == Here(p)
           l == IF proc[p].op = "ADD" THEN "bridge" ELSE "net"
<1>1. /\ t \in Tenants /\ proc \in [Pods -> Process] /\ proc[p].at = "write" /\ Active(p)
      /\ proc[p].op \in {"ADD", "DEL"} /\ ProcOK(proc[p], stopping[p], iface[p])
      /\ UNCHANGED <<bridge, iface, stopping>>
  BY ProcTypes DEF WriteStore, Active, bridges, pods, TypeInv, TypeOK, ProcOK, Process
<1>2. /\ t \in dir /\ Given(t) /\ proc[p].lock = removed[t] /\ proc[p].data.subnet = mine[t]
      /\ \A h \in Hosts : \A q \in Pods \ {p} : file[t].ips[h] = q => proc[p].data.ips[h] = q
      /\ proc[p].op = "ADD" => \A h \in Hosts : file[t].ips[h] = p => proc[p].data.ips[h] = p
      /\ proc[p].op = "ADD" => proc[p].gateway = mine[t] /\ proc[p].data.ips[proc[p].host] = p
  BY <1>1 DEF TenantInv, CommandInv
<1>3. file' = [file EXCEPT ![t] = proc[p].data] /\ Goto(p, l)
  BY <1>2 DEF WriteStore
<1>4. file'[t] = proc[p].data
  BY <1>1, <1>3, KeptTypes
<1>5. \A q \in Pods \ {p} : ~(Here(q) = t /\ proc[q].at = "write")
  <2> SUFFICES ASSUME NEW q \in Pods \ {p}, Here(q) = t, proc[q].at = "write"
               PROVE  FALSE
    OBVIOUS
  <2>1. proc[q].lock = removed[t]
    BY DEF TenantInv, CommandInv, Active
  <2> QED
    BY <1>1, <1>2, <2>1 DEF LockInv, Holds
<1>6. Considerate(p)
  <2>1. HasBridge(t) => HasBridge(t)'
    BY <1>1 DEF HasBridge, Here, Apart
  <2> QED
    BY <1>2, <1>4, <1>5, <2>1 DEF Considerate
<1>7. StageInv(t)'
  <2>1. proc[p].data # NoFile
    BY <1>1, ProcTypes, DataFacts DEF TypeInv
  <2>2. t' = t /\ mine' = mine /\ dir' = dir /\ daemon' = daemon
    BY DEF Apart, Here
  <2> QED
    BY <1>2, <1>4, <2>1, <2>2 DEF StageInv, Given
<1>8. BridgeInv(t)'
  BY <1>1, BridgeKept
<1>9. PlugInv(p)'
  <2>1. ~stopping[p] => proc[p].op = "ADD"
    BY <1>1 DEF ProcOK
  <2>2. ~stopping[p] => \A h \in Hosts : file[t].ips[h] = p => file'[t].ips[h] = p
    BY <1>2, <1>4, <2>1
  <2> QED
    BY <1>1, <2>2, PlugKept DEF HasBridge
<1>10. CommandInv(p)'
  <2>1. /\ proc'[p].at = l /\ proc'[p].lock = proc[p].lock /\ proc'[p].op = proc[p].op
        /\ proc'[p].data = proc[p].data /\ proc'[p].gateway = proc[p].gateway /\ proc'[p].host = proc[p].host
    BY <1>1, <1>3 DEF Goto, Process
  <2> QED
    BY <1>1, <1>2, <1>4, <2>1, CommandNew
<1> QED
  BY <1>6, <1>7, <1>8, <1>9, <1>10, OwnTenant

\* The bridge is looked up.
LEMMA FindBridgeTenant ==
  ASSUME TypeInv, NEW p \in Pods, TenantInv(Here(p)), Apart(p), FindBridge(p)
  PROVE  TenantInv(Here(p))'
<1> DEFINE t == Here(p)
<1>1. /\ t \in Tenants /\ proc \in [Pods -> Process] /\ proc[p].at = "bridge" /\ Active(p) /\ proc[p].op = "ADD"
      /\ UNCHANGED <<file, bridge, iface, stopping>>
  BY ProcTypes DEF FindBridge, Active, stores, bridges, pods, TypeInv, TypeOK, ProcOK, Process
<1>2. StageInv(t)' /\ Considerate(p)
  BY <1>1, StageKept
<1>3. BridgeInv(t)'
  BY <1>1, BridgeKept
<1>4. PlugInv(p)'
  BY <1>1, PlugKept DEF HasBridge
<1>5. /\ t \in dir /\ Given(t) /\ proc[p].lock = removed[t] /\ proc[p].data.subnet = mine[t]
      /\ proc[p].gateway = mine[t] /\ file[t].ips[proc[p].host] = p
  BY <1>1 DEF TenantInv, CommandInv
<1>6. CommandInv(p)'
  <2>1. CASE ~HasBridge(t)
    <3>1. proc'[p] = [proc[p] EXCEPT !.at = "linkAdd"]
      BY <1>1, <2>1 DEF FindBridge, Goto
    <3>2. /\ proc'[p].at = "linkAdd" /\ proc'[p].lock = proc[p].lock /\ proc'[p].op = "ADD"
          /\ proc'[p].data = proc[p].data /\ proc'[p].gateway = proc[p].gateway /\ proc'[p].host = proc[p].host
      BY <1>1, <3>1 DEF Process
    <3> QED
      BY <1>1, <1>5, <3>2, CommandNew
  <2>2. CASE HasBridge(t)
    <3>1. proc'[p] = [proc[p] EXCEPT !.at = "veth", !.link = deleted[t]]
      BY <1>1, <2>2 DEF FindBridge
    <3>2. /\ proc'[p].at = "veth" /\ proc'[p].lock = proc[p].lock /\ proc'[p].op = "ADD" /\ proc'[p].link = deleted[t]
          /\ proc'[p].data = proc[p].data /\ proc'[p].gateway = proc[p].gateway /\ proc'[p].host = proc[p].host
      BY <1>1, <3>1 DEF Process
    <3>3. /\ Here(p)' = t /\ (Given(t)' <=> Given(t)) /\ mine' = mine /\ removed' = removed /\ deleted' = deleted
          /\ dir' = dir /\ t' = t /\ HasBridge(t)'
      BY <1>1, <2>2 DEF Apart, Here, Given, HasBridge
    <3>4. StillThere(p)'
      BY <3>2, <3>3 DEF StillThere
    <3> QED
      BY <1>1, <1>5, <3>2, <3>3, <3>4 DEF CommandInv
  <2> QED
    BY <2>1, <2>2
<1> QED
  BY <1>2, <1>3, <1>4, <1>6, OwnTenant

\* The bridge is added.
LEMMA LinkAddTenant ==
  ASSUME TypeInv, NEW p \in Pods, TenantInv(Here(p)), Apart(p), LinkAdd(p)
  PROVE  TenantInv(Here(p))'
<1> DEFINE t == Here(p)
<1>1. /\ t \in Tenants /\ proc \in [Pods -> Process] /\ proc[p].at = "linkAdd" /\ Active(p) /\ proc[p].op = "ADD"
      /\ UNCHANGED <<file, iface, stopping>>
      /\ bridge \in [Tenants -> (SUBSET (1 .. Subnets)) \cup {NoBridge}]
  BY ProcTypes DEF LinkAdd, Active, stores, pods, TypeInv, TypeOK, ProcOK, Process
<1>2. /\ t \in dir /\ Given(t) /\ proc[p].lock = removed[t] /\ proc[p].data.subnet = mine[t]
      /\ proc[p].gateway = mine[t] /\ file[t].ips[proc[p].host] = p
  BY <1>1 DEF TenantInv, CommandInv
<1>3. /\ Here(p)' = t /\ (Given(t)' <=> Given(t)) /\ mine' = mine /\ removed' = removed /\ deleted' = deleted
      /\ dir' = dir /\ t' = t /\ daemon' = daemon
  BY DEF Apart, Here, Given
<1>4. bridge'[t] # NoBridge /\ HasBridge(t)'
  <2>1. bridge'[t] = IF HasBridge(t) THEN bridge[t] ELSE {}
    BY <1>1 DEF LinkAdd
  <2>2. bridge'[t] # NoBridge
    BY <2>1 DEF HasBridge, NoBridge
  <2> QED
    BY <1>3, <2>2 DEF HasBridge
<1>5. /\ proc'[p].at = "addrAdd" /\ proc'[p].lock = proc[p].lock /\ proc'[p].op = "ADD" /\ proc'[p].link = deleted[t]
      /\ proc'[p].data = proc[p].data /\ proc'[p].gateway = proc[p].gateway /\ proc'[p].host = proc[p].host
  <2>1. proc'[p] = [proc[p] EXCEPT !.at = "addrAdd", !.link = deleted[t]]
    BY <1>1 DEF LinkAdd
  <2> QED
    BY <1>1, <2>1 DEF Process
<1>6. StillThere(p)'
  BY <1>3, <1>4, <1>5 DEF StillThere
<1>7. StageInv(t)'
  <2>1. t \in dir /\ file[t] # NoFile /\ file[t].subnet = mine[t]
    BY <1>1, <1>2, ActiveStage DEF TenantInv
  <2> QED
    BY <1>1, <1>2, <1>3, <2>1 DEF StageInv
<1>8. BridgeInv(t)'
  <2>1. BeingMade(t)'
    BY <1>3, <1>5, <1>6 DEF BeingMade
  <2>2. mine[t] \in bridge'[t] => HasBridge(t) /\ mine[t] \in bridge[t]
    BY <1>1 DEF LinkAdd, HasBridge
  <2>3. mine[t] \in bridge'[t] => t \in up' \/ t \in unfinished'
    BY <1>2, <2>2 DEF TenantInv, BridgeInv, Apart
  <2> QED
    BY <1>3, <2>1, <2>3 DEF BridgeInv
<1>9. Considerate(p)
  BY <1>1, <1>3, <1>4 DEF Considerate
<1>10. PlugInv(p)'
  BY <1>1, <1>4, PlugKept
<1>11. CommandInv(p)'
  BY <1>1, <1>2, <1>3, <1>5, <1>6 DEF CommandInv
<1> QED
  BY <1>7, <1>8, <1>9, <1>10, <1>11, OwnTenant

\* The bridge gets its address.
LEMMA AddrAddTenant ==
  ASSUME TypeInv, NEW p \in Pods, TenantInv(Here(p)), Apart(p), AddrAdd(p)
  PROVE  TenantInv(Here(p))'
<1> DEFINE t == Here(p)
           g == proc[p].gateway
<1>1. /\ t \in Tenants /\ proc \in [Pods -> Process] /\ proc[p].at = "addrAdd" /\ Active(p) /\ proc[p].op = "ADD"
      /\ UNCHANGED <<file, iface, stopping>>
      /\ bridge \in [Tenants -> (SUBSET (1 .. Subnets)) \cup {NoBridge}]
  BY ProcTypes DEF AddrAdd, Active, stores, pods, TypeInv, TypeOK, ProcOK, Process
<1>2. /\ t \in dir /\ Given(t) /\ proc[p].lock = removed[t] /\ proc[p].data.subnet = mine[t]
      /\ g = mine[t] /\ file[t].ips[proc[p].host] = p /\ StillThere(p) /\ HasBridge(t)
      /\ proc[p].link = deleted[t]
  BY <1>1 DEF TenantInv, CommandInv, StillThere
<1>3. /\ Here(p)' = t /\ (Given(t)' <=> Given(t)) /\ mine' = mine /\ removed' = removed /\ deleted' = deleted
      /\ dir' = dir /\ t' = t /\ daemon' = daemon
  BY DEF Apart, Here, Given
<1>4. mine[t] \in bridge'[t] /\ bridge'[t] # NoBridge /\ HasBridge(t)'
  <2>1. mine[t] \in bridge'[t]
    BY <1>1, <1>2 DEF AddrAdd, WithAddress
  <2>2. mine[t] # 0
    BY <1>2 DEF Given
  <2>3. bridge'[t] # NoBridge
    BY <2>1, <2>2 DEF NoBridge
  <2> QED
    BY <1>3, <2>1, <2>3 DEF HasBridge
<1>5. StageInv(t)'
  <2>1. t \in dir /\ file[t] # NoFile /\ file[t].subnet = mine[t]
    BY <1>1, <1>2, ActiveStage DEF TenantInv
  <2> QED
    BY <1>1, <1>2, <1>3, <2>1 DEF StageInv
<1>6. BridgeInv(t)'
  <2>1. CASE g \notin bridge[t]
    <3>1. t \in up'
      BY <1>2, <2>1 DEF AddrAdd
    <3> QED
      BY <1>3, <1>4, <3>1 DEF BridgeInv
  <2>2. CASE g \in bridge[t]
    <3>1. t \in up' \/ t \in unfinished'
      BY <1>2, <2>2 DEF TenantInv, BridgeInv, Apart
    <3> QED
      BY <1>3, <1>4, <3>1 DEF BridgeInv
  <2> QED
    BY <2>1, <2>2
<1>7. Considerate(p)
  BY <1>1, <1>3, <1>4 DEF Considerate
<1>8. PlugInv(p)'
  BY <1>1, <1>4, PlugKept
<1>9. CommandInv(p)'
  <2>1. CASE g \in bridge[t]
    <3>1. proc'[p].at = "idle"
      BY <1>1, <2>1 DEF AddrAdd, Exit, NoProcess
    <3> QED
      BY <1>1, <3>1, CommandNew
  <2>2. CASE g \notin bridge[t]
    <3>1. proc'[p] = [proc[p] EXCEPT !.at = "veth"]
      BY <1>1, <1>2, <2>2 DEF AddrAdd, Goto
    <3>2. /\ proc'[p].at = "veth" /\ proc'[p].lock = proc[p].lock /\ proc'[p].op = "ADD" /\ proc'[p].link = deleted[t]
          /\ proc'[p].data = proc[p].data /\ proc'[p].gateway = proc[p].gateway /\ proc'[p].host = proc[p].host
      BY <1>1, <1>2, <3>1 DEF Process
    <3>3. StillThere(p)'
      BY <1>3, <1>4, <3>2 DEF StillThere
    <3> QED
      BY <1>1, <1>2, <1>3, <3>2, <3>3 DEF CommandInv
  <2> QED
    BY <2>1, <2>2
<1> QED
  BY <1>5, <1>6, <1>7, <1>8, <1>9, OwnTenant

\* The interface is set up.
LEMMA SetupVethTenant ==
  ASSUME TypeInv, NEW p \in Pods, TenantInv(Here(p)), Apart(p), SetupVeth(p)
  PROVE  TenantInv(Here(p))'
<1> DEFINE t == Here(p)
<1>1. /\ t \in Tenants /\ proc \in [Pods -> Process] /\ proc[p].at = "veth" /\ Active(p) /\ proc[p].op = "ADD"
      /\ iface \in [Pods -> Ifaces \cup {NoIface}]
      /\ UNCHANGED <<file, bridge, stopping>>
  BY ProcTypes DEF SetupVeth, Active, stores, bridges, TypeInv, TypeOK, ProcOK, Process
<1>2. /\ t \in dir /\ Given(t) /\ proc[p].data.subnet = mine[t]
      /\ proc[p].gateway = mine[t] /\ file[t].ips[proc[p].host] = p /\ StillThere(p) /\ HasBridge(t)
  BY <1>1 DEF TenantInv, CommandInv, StillThere
<1>3. /\ Here(p)' = t /\ (Given(t)' <=> Given(t)) /\ mine' = mine /\ dir' = dir /\ t' = t
      /\ (HasBridge(t)' <=> HasBridge(t))
  BY <1>1 DEF Apart, Here, Given, HasBridge
<1>4. proc'[p].at = "idle"
  BY <1>1 DEF SetupVeth, Exit, NoProcess
<1>5. \/ iface'[p] = iface[p]
      \/ /\ iface'[p].subnet = mine[t] /\ iface'[p].gateway = mine[t] /\ iface'[p].on = "yes"
         /\ iface'[p].host = proc[p].host
  <2>1. \/ iface'[p] = iface[p]
        \/ iface'[p] = [Veth(p) EXCEPT !.on = "yes"]
    BY <1>1, <1>2 DEF SetupVeth
  <2> QED
    BY <1>2, <2>1 DEF Veth
<1>6. PlugInv(p)'
  <2>1. CASE iface'[p] = iface[p]
    BY <1>1, <2>1, PlugKept DEF HasBridge
  <2>2. CASE /\ iface'[p].subnet = mine[t] /\ iface'[p].gateway = mine[t] /\ iface'[p].on = "yes"
             /\ iface'[p].host = proc[p].host
    <3>1. proc[p].host \in Hosts
      BY <1>1, VethFacts
    <3> QED
      BY <1>1, <1>2, <1>3, <2>2, <3>1 DEF PlugInv
  <2> QED
    BY <1>5, <2>1, <2>2
<1>7. StageInv(t)'
  <2>1. t \in dir /\ file[t] # NoFile /\ file[t].subnet = mine[t]
    BY <1>1, <1>2, ActiveStage DEF TenantInv
  <2> QED
    BY <1>1, <1>2, <1>3, <2>1 DEF StageInv
<1>8. BridgeInv(t)'
  BY <1>1, BridgeKept
<1>9. Considerate(p)
  BY <1>1, <1>3 DEF Considerate
<1>10. CommandInv(p)'
  BY <1>1, <1>4, CommandNew
<1> QED
  BY <1>6, <1>7, <1>8, <1>9, <1>10, OwnTenant

\* The interface is taken away.
LEMMA DelVethTenant ==
  ASSUME TypeInv, NEW p \in Pods, TenantInv(Here(p)), Apart(p), DelVeth(p)
  PROVE  TenantInv(Here(p))'
<1> DEFINE t == Here(p)
<1>1. /\ t \in Tenants /\ proc \in [Pods -> Process] /\ proc[p].at = "net" /\ Active(p)
      /\ iface \in [Pods -> Ifaces \cup {NoIface}]
      /\ UNCHANGED <<file, bridge>>
  BY ProcTypes DEF DelVeth, Active, stores, bridges, TypeInv, TypeOK
<1>2. proc'[p].at = "idle" /\ iface'[p] = NoIface
  BY <1>1 DEF DelVeth, Exit, NoProcess, pods
<1>3. StageInv(t)' /\ Considerate(p)
  BY <1>1, <1>2, StageKept
<1>4. BridgeInv(t)'
  BY <1>1, BridgeKept
<1>5. PlugInv(p)'
  BY <1>2 DEF PlugInv
<1>6. CommandInv(p)'
  BY <1>1, <1>2, CommandNew
<1> QED
  BY <1>3, <1>4, <1>5, <1>6, OwnTenant

\* A command is killed.
LEMMA KillTenant ==
  ASSUME TypeInv, NEW p \in Pods, TenantInv(Here(p)), Apart(p), Kill(p)
  PROVE  TenantInv(Here(p))'
<1> DEFINE t == Here(p)
<1>1. /\ t \in Tenants /\ proc \in [Pods -> Process] /\ proc[p].at # "idle" /\ Active(p)
      /\ UNCHANGED <<file, stopping>>
      /\ HasBridge(t) => bridge'[t] # NoBridge
  BY ProcTypes, KillFacts DEF Active, stores, TypeInv, TypeOK, HasBridge
<1>2. proc'[p].at = "idle"
  BY <1>1, KillFacts DEF NoProcess
<1>3. Here(p)' = t /\ (Given(t)' <=> Given(t)) /\ mine' = mine /\ dir' = dir /\ daemon' = daemon /\ t' = t
  BY DEF Apart, Here, Given
<1>4. CommandInv(p)'
  BY <1>1, <1>2, CommandNew
<1>5. CASE proc[p].at \notin {"addrAdd", "veth"}
  <2>1. UNCHANGED <<bridge, iface>>
    BY <1>5 DEF Kill, LeaveBridge, LeaveVeth
  <2> QED
    BY <1>1, <1>4, <1>5, <2>1, LoadKeeps
<1>6. CASE proc[p].at \in {"addrAdd", "veth"}
  <2>1. /\ Given(t) /\ StillThere(p) /\ HasBridge(t) /\ file[t].ips[proc[p].host] = p
        /\ proc[p].gateway = mine[t] /\ proc[p].data.subnet = mine[t]
    <3>1. proc[p].op = "ADD"
      BY <1>6, ProcTypes DEF ProcOK, Process
    <3> QED
      BY <1>1, <1>6, <3>1 DEF TenantInv, CommandInv, StillThere
  <2>2. StageInv(t)'
    <3>1. t \in dir /\ file[t] # NoFile /\ file[t].subnet = mine[t]
      BY <1>1, <2>1, ActiveStage DEF TenantInv
    <3> QED
      BY <1>1, <1>3, <2>1, <3>1 DEF StageInv
  <2>3. Considerate(p)
    BY <1>1, <1>3 DEF Considerate, HasBridge
  <2>4. BridgeInv(t)'
    <3>1. CASE bridge' = bridge /\ proc[p].at # "addrAdd"
      BY <3>1, BridgeKept
    <3>2. CASE bridge' = bridge /\ proc[p].gateway \in bridge[t]
      <4>1. t \in up' \/ t \in unfinished'
        BY <2>1, <3>2 DEF TenantInv, BridgeInv, Apart
      <4> QED
        BY <1>3, <2>1, <3>2, <4>1 DEF BridgeInv
    <3>3. CASE t \in unfinished'
      BY <1>3, <3>3 DEF BridgeInv
    <3> QED
      BY <2>1, <3>1, <3>2, <3>3, KillFacts
  <2>5. PlugInv(p)'
    <3>1. CASE iface'[p] = iface[p]
      BY <1>1, <3>1, PlugKept
    <3>2. CASE /\ proc[p].at = "veth" /\ iface'[p].on = "never"
               /\ iface'[p].subnet = 0 \/ (iface'[p].subnet = proc[p].data.subnet /\ iface'[p].host = proc[p].host)
      <4>1. proc[p].host \in Hosts
        BY <3>2, VethFacts
      <4> QED
        BY <1>1, <1>3, <2>1, <3>2, <4>1 DEF PlugInv
    <3> QED
      BY <3>1, <3>2, KillFacts
  <2> QED
    BY <1>4, <2>2, <2>3, <2>4, <2>5, OwnTenant
<1> QED
  BY <1>5, <1>6

\* The plugin's steps keep what is true of the tenants that were not disturbed.
LEMMA StepTrust ==
  ASSUME TypeInv, LockInv, TrustInv, NEW p \in Pods, Step(p) \/ Kill(p)
  PROVE  TrustInv'
<1>1. Apart(p) /\ Here(p) \in Tenants /\ disturbed \subseteq disturbed'
  BY StepApart, ProcTypes DEF Apart
<1>2. ASSUME NEW t \in Tenants \ disturbed'
      PROVE  TenantInv(t)'
  <2>1. TenantInv(t)
    BY <1>1 DEF TrustInv
  <2>2. CASE t # Here(p)
    BY <1>1, <2>1, <2>2, OtherTenants, KeptInv
  <2>3. CASE t = Here(p)
    <3>1. TenantInv(Here(p)) /\ Here(p) \notin disturbed'
      BY <2>1, <2>3
    <3>2. TenantInv(Here(p))'
      BY <1>1, <3>1, FirstLoadTenant, FirstCreateTenant, LoadTenant, CreateTenant, WriteStoreTenant, FindBridgeTenant,
         LinkAddTenant, AddrAddTenant, SetupVethTenant, DelVethTenant, KillTenant DEF Step
    <3>3. Here(p)' = t
      BY <1>1, <2>3 DEF Apart, Here
    <3> QED
      BY <3>2, <3>3 DEF TenantInv
  <2> QED
    BY <2>2, <2>3
<1> QED
  BY <1>1, <1>2 DEF TrustInv

\* The runtime starts the plugin: for a tenant that is provisioned, or that is not and
\* has nothing; else the tenant is disturbed.
LEMMA InvokeTrust ==
  ASSUME TypeInv, TrustInv, NEW p \in Pods, NEW o \in {"ADD", "DEL"}, Invoke(p, o)
  PROVE  TrustInv'
<1> DEFINE t == Here(p)
<1>1. /\ t \in Tenants /\ proc \in [Pods -> Process] /\ stopping \in [Pods -> BOOLEAN] /\ dir \in SUBSET Tenants
      /\ proc[p].at = "idle" /\ dir' = dir \cup {t}
      /\ UNCHANGED <<queue, daemon, mine, tenantOf, file, removed, bridge, up, deleted, unfinished, iface, abandoned>>
      /\ disturbed' = IF Unsettled(t) THEN disturbed \cup {t} ELSE disturbed
  BY ProcTypes, KeptTypes DEF Invoke, worker, node, bridges, MakeStore, TypeInv, TypeOK
<1>2. \A q \in Pods \ {p} : proc'[q] = proc[q] /\ stopping'[q] = stopping[q]
  BY <1>1 DEF Invoke
<1>3. proc'[p] = [proc[p] EXCEPT !.at = "first", !.op = o, !.lock = removed[t]] /\ (stopping[p] => stopping'[p])
  BY <1>1 DEF Invoke
<1>4. ASSUME NEW u \in Tenants \ disturbed', u # t
      PROVE  TenantInv(u)'
  <2>1. TenantInv(u)
    BY <1>1 DEF TrustInv
  <2>2. KeptPods(u)
    BY <1>1, <1>2, <1>4 DEF KeptPods
  <2>3. AddQueued(u) => AddQueued(u)'
    BY <1>1 DEF AddQueued
  <2>4. Kept(u)
    BY <1>1, <2>2, <2>3 DEF Kept
  <2> QED
    BY <2>1, <2>4, KeptInv
<1>5. ASSUME t \notin disturbed'
      PROVE  TenantInv(t)'
  <2>1. TenantInv(t) /\ daemon.tenant # t /\ (mine[t] # 0 \/ Data(t).subnet = 0)
    BY <1>1, <1>5 DEF TrustInv, Unsettled
  <2>2. /\ (Given(t)' <=> Given(t)) /\ (HasBridge(t)' <=> HasBridge(t)) /\ Data(t)' = Data(t)
        /\ \A q \in Pods : Here(q)' = Here(q)
    BY <1>1 DEF Given, HasBridge, Data, Here
  <2>3. t' = t
    BY <2>2
  <2>4. StageInv(t)'
    <3>1. CASE Given(t) /\ t \in dir /\ file[t] # NoFile /\ file[t].subnet = mine[t]
      BY <1>1, <2>2, <2>3, <3>1 DEF StageInv
    <3>2. CASE mine[t] = 0 /\ Clean(t) /\ (HasBridge(t) => Left(t))
      <4>1. Clean(t)'
        BY <1>1, <2>2, <2>3, <3>2 DEF Clean
      <4>2. Left(t) => Left(t)'
        BY <1>1, <2>3 DEF Left, AddQueued
      <4> QED
        BY <1>1, <2>1, <2>2, <2>3, <3>2, <4>1, <4>2 DEF StageInv
    <3>3. CASE mine[t] = 0 /\ ~InUse(t) /\ Left(t)
      <4>1. Clean(t)
        BY <2>1, <3>3 DEF Clean, InUse
      <4> QED
        BY <3>2, <3>3, <4>1
    <3> QED
      BY <2>1, <3>1, <3>2, <3>3 DEF TenantInv, StageInv
  <2>5. BridgeInv(t)'
    <3>1. BeingMade(t) => BeingMade(t)'
      <4> SUFFICES ASSUME NEW q \in Pods, Here(q) = t, proc[q].at = "addrAdd", StillThere(q)
                   PROVE  BeingMade(t)'
        BY DEF BeingMade
      <4>1. q # p /\ proc'[q] = proc[q]
        BY <1>1, <1>2
      <4>2. StillThere(q)'
        BY <1>1, <2>2, <4>1 DEF StillThere
      <4> QED
        BY <2>2, <2>3, <4>1, <4>2 DEF BeingMade
    <3> QED
      BY <1>1, <2>1, <2>2, <2>3, <3>1 DEF TenantInv, BridgeInv
  <2>6. ASSUME NEW q \in Pods \ {p}, Here(q) = t
        PROVE  CommandInv(q)' /\ PlugInv(q)'
    <3>1. CommandInv(q) /\ PlugInv(q)
      BY <2>1, <2>6 DEF TenantInv
    <3>2. StillThere(q) => StillThere(q)'
      BY <1>1, <1>2, <2>2, <2>3, <2>6 DEF StillThere
    <3>3. CommandInv(q)'
      BY <1>1, <1>2, <2>2, <2>3, <2>6, <3>1, <3>2 DEF CommandInv, Active
    <3>4. PlugInv(q)'
      BY <1>1, <1>2, <2>2, <2>3, <2>6, <3>1 DEF PlugInv
    <3> QED
      BY <3>3, <3>4
  <2>7. CommandInv(p)'
    <3>1. proc'[p].at = "first" /\ proc'[p].lock = removed[t]
      BY <1>1, <1>3 DEF Process
    <3> QED
      BY <1>1, <2>2, <3>1 DEF CommandInv
  <2>8. PlugInv(p)'
    <3>1. PlugInv(p)
      BY <2>1 DEF TenantInv
    <3> QED
      BY <1>1, <1>3, <2>2, <2>3, <3>1 DEF PlugInv
  <2>9. (\A q \in Pods : Here(q) = t => CommandInv(q) /\ PlugInv(q))'
    BY <2>2, <2>3, <2>6, <2>7, <2>8
  <2> QED
    BY <2>4, <2>5, <2>9 DEF TenantInv
<1>6. \A u \in Tenants \ disturbed' : TenantInv(u)'
  <2>1. Here(p)' = Here(p)
    BY <1>1 DEF Here
  <2>2. ASSUME NEW u \in Tenants \ disturbed', u = t
        PROVE  TenantInv(u)'
    BY <1>5, <2>1, <2>2 DEF TenantInv
  <2> QED
    BY <1>4, <2>2
<1> QED
  BY <1>6 DEF TrustInv

-----------------------------------------------------------------------------
(* The lock of a store.                                                     *)

\* One process goes on; if it has the lock, it has found it free, or had it.
LEMMA LockOne ==
  ASSUME TypeInv, LockInv, NEW p \in Pods, UNCHANGED tenantOf, \A q \in Pods \ {p} : proc'[q] = proc[q],
         Holds(p)' => (LockFree(p) \/ Holds(p)) /\ proc'[p].lock = proc[p].lock
  PROVE  LockInv'
<1>1. \A q \in Pods : Here(q)' = Here(q)
  BY DEF Here
<1> SUFFICES ASSUME NEW q \in Pods, NEW r \in Pods, Holds(q)', Holds(r)',
                    Here(q) = Here(r), proc'[q].lock = proc'[r].lock
             PROVE  q = r
  BY <1>1 DEF LockInv
<1>2. \A o \in Pods \ {p} : Holds(o)' => Holds(o)
  BY DEF Holds
<1>3. CASE (q # p /\ r # p) \/ Holds(p)
  BY <1>2, <1>3 DEF LockInv
<1>4. CASE LockFree(p)
  <2>1. CASE q = p /\ r # p
    BY <1>2, <1>4, <2>1 DEF LockFree, Holds
  <2>2. CASE r = p /\ q # p
    BY <1>2, <1>4, <2>2 DEF LockFree, Holds
  <2> QED
    BY <1>2, <2>1, <2>2 DEF LockInv
<1> QED
  BY <1>3, <1>4

\* A step keeps the lock.
LEMMA LockStep == ASSUME TypeInv, LockInv, [Next]_vars PROVE LockInv'
<1>1. /\ proc \in [Pods -> Process]
      /\ NoProcess.at = "idle"
  BY DEF TypeInv, TypeOK, NoProcess
<1>2. ASSUME UNCHANGED <<proc, tenantOf>>
      PROVE  LockInv'
  <2>1. \A q \in Pods : Here(q)' = Here(q) /\ proc'[q] = proc[q]
    BY <1>2 DEF Here
  <2> QED
    BY <2>1 DEF LockInv, Holds
<1>3. ASSUME NEW p \in Pods, Step(p) \/ Kill(p)
      PROVE  LockInv'
  <2>1. Apart(p)
    BY <1>3, StepApart
  <2>2. Holds(p)' => (LockFree(p) \/ Holds(p)) /\ proc'[p].lock = proc[p].lock
    <3>1. CASE FirstLoad(p) \/ FirstCreate(p)
      BY <1>1, <3>1 DEF FirstLoad, FirstCreate, TakeFirst, Exit, Goto, Process, Holds
    <3>2. CASE Load(p)
      <4>1. LockFree(p) /\ proc[p].at = "load" /\ UNCHANGED <<iface, stopping>> /\ Here(p) \in Tenants
        BY <3>2, ProcTypes DEF Load, pods
      <4>2. file[Here(p)] # NoFile =>
              /\ file[Here(p)] \in TenantData
              /\ file[Here(p)].subnet = 0 => file[Here(p)] = Blank
        BY <4>1, KeptTypes
      <4>3. proc'[p] = NoProcess \/ proc'[p].lock = proc[p].lock
        <5>1. CASE Goto(p, "create")
          BY <1>1, <5>1 DEF Goto, Process
        <5>2. CASE file[Here(p)] # NoFile /\ proc[p].op = "ADD" /\ AllocateFrom(p, file[Here(p)])
          BY <4>1, <4>2, <5>2, AllocateFromFacts
        <5>3. CASE file[Here(p)] # NoFile /\ proc[p].op = "DEL" /\ ReleaseFrom(p, file[Here(p)])
          BY <4>1, <4>2, <5>3, ReleaseFromFacts
        <5> QED
          BY <3>2, <5>1, <5>2, <5>3 DEF Load
      <4> QED
        BY <1>1, <4>1, <4>3 DEF Holds
    <3>3. CASE Create(p)
      <4>1. /\ proc[p].at = "create" /\ Holds(p) /\ UNCHANGED <<iface, stopping>> /\ Blank \in TenantData
            /\ proc[p].data \in TenantData
        BY <3>3, ProcTypes, DataFacts DEF Create, pods, Holds, TypeInv
      <4>2. proc'[p] = NoProcess \/ proc'[p].lock = proc[p].lock
        <5> DEFINE d == IF Here(p) \in dir THEN Blank ELSE proc[p].data
        <5>1. d \in TenantData
          BY <4>1
        <5>2. \/ Exit(p)
              \/ proc[p].op = "ADD" /\ AllocateFrom(p, d)
              \/ proc[p].op = "DEL" /\ ReleaseFrom(p, Blank)
          BY <3>3 DEF Create
        <5> HIDE DEF d
        <5>3. CASE Exit(p)
          BY <1>1, <5>3 DEF Exit
        <5>4. CASE proc[p].op = "ADD" /\ AllocateFrom(p, d)
          BY <4>1, <5>1, <5>4, AllocateFromFacts
        <5>5. CASE proc[p].op = "DEL" /\ ReleaseFrom(p, Blank)
          BY <4>1, <5>5, ReleaseFromFacts
        <5> QED
          BY <5>2, <5>3, <5>4, <5>5
      <4> QED
        BY <1>1, <4>1, <4>2 DEF Holds
    <3>4. CASE WriteStore(p)
      BY <1>1, <3>4 DEF WriteStore, Exit, Goto, Process, Holds
    <3>5. CASE FindBridge(p) \/ LinkAdd(p) \/ AddrAdd(p)
      BY <1>1, <3>5 DEF FindBridge, LinkAdd, AddrAdd, Exit, Goto, Process, Holds
    <3>6. CASE SetupVeth(p) \/ DelVeth(p) \/ Kill(p)
      BY <1>1, <3>6 DEF SetupVeth, DelVeth, Kill, Exit, Holds
    <3> QED
      BY <1>3, <3>1, <3>2, <3>3, <3>4, <3>5, <3>6 DEF Step
  <2> QED
    BY <2>1, <2>2, LockOne DEF Apart
<1>4. ASSUME NEW p \in Pods, NEW o \in {"ADD", "DEL"}, Invoke(p, o)
      PROVE  LockInv'
  <2>1. proc'[p].at = "first" /\ (\A q \in Pods \ {p} : proc'[q] = proc[q]) /\ UNCHANGED tenantOf
    BY <1>1, <1>4 DEF Invoke, Process
  <2> QED
    BY <2>1, LockOne DEF Holds
<1>5. CASE \E t \in Tenants : Change(t) \/ AllocateTenant(t) \/ DeleteTenant(t)
  BY <1>2, <1>5 DEF Change, AllocateTenant, DeleteTenant, pods
<1>6. CASE RemoveDirectory \/ StoreStays \/ DaemonCrash \/ (\E e \in {"lock", "data"} : RemoveEntry(e)) \/ UNCHANGED vars
  BY <1>2, <1>6 DEF RemoveDirectory, StoreStays, DaemonCrash, RemoveEntry, vars, pods
<1> QED
  BY <1>3, <1>4, <1>5, <1>6 DEF Next, Daemon

-----------------------------------------------------------------------------
(* The daemon's steps, and those of users.                                  *)

\* An event that is not taken up stays in the queue.
LEMMA QueuedTail ==
  ASSUME TypeInv, NEW t \in Tenants, NEW k \in {"Add", "Delete"}, Ready(k, t), queue' = Tail(queue),
         NEW u \in Tenants, u # t, AddQueued(u)
  PROVE  AddQueued(u)'
<1>1. queue \in Seq(EventsOf) /\ queue # <<>> /\ Head(queue).tenant = t
  BY DaemonKept DEF Ready
<1>2. PICK i \in DOMAIN queue : queue[i] = [kind |-> "Add", tenant |-> u]
  BY DEF AddQueued
<1>3. /\ Len(queue) \in Nat /\ DOMAIN queue = 1 .. Len(queue)
      /\ Head(queue) = queue[1] /\ DOMAIN Tail(queue) = 1 .. Len(queue) - 1
      /\ \A j \in 1 .. Len(queue) - 1 : Tail(queue)[j] = queue[j + 1]
  BY <1>1, SeqFacts, TailFacts
<1>4. i # 1
  BY <1>1, <1>2, <1>3
<1>5. i - 1 \in DOMAIN Tail(queue) /\ (i - 1) + 1 = i
  BY <1>3, <1>4
<1>6. Tail(queue)[i - 1] = [kind |-> "Add", tenant |-> u]
  BY <1>2, <1>3, <1>5
<1> QED
  BY <1>5, <1>6 DEF AddQueued

\* After a start of the daemon, a tenant that is not disturbed is not in use, and is
\* either to be provisioned or not there.
LEMMA RestartTrust ==
  ASSUME TypeInv, TrustInv, Restart, UNCHANGED <<wanted, tenantOf, proc, iface, stopping, bridge>>,
         \A u \in Tenants \ disturbed : file'[u] = file[u] /\ (u \in dir => u \in dir')
  PROVE  TrustInv'
<1> SUFFICES ASSUME NEW u \in Tenants \ disturbed'
             PROVE  TenantInv(u)'
  BY DEF TrustInv
<1>1. /\ u \in Tenants \ disturbed /\ ~InUse(u)
      /\ u \in wanted \/ u \in abandoned' \/ (~HasBridge(u) /\ Data(u).subnet = 0)
  BY DEF Restart
<1>2. /\ daemon'.tenant = Nobody /\ u # Nobody /\ mine'[u] = 0 /\ (u \in wanted => AddQueued(u)')
  BY <1>1, RestartFacts, DaemonKept DEF Resting
<1>3. /\ (HasBridge(u)' <=> HasBridge(u)) /\ Data(u)' = Data(u) /\ (InUse(u)' <=> InUse(u)) /\ ~Given(u)'
      /\ \A q \in Pods : Here(q)' = Here(q)
  BY <1>1, <1>2 DEF HasBridge, Data, InUse, Given, Here
<1>4. \A q \in Pods : Here(q) = u => iface[q] = NoIface /\ proc[q].at = "idle"
  BY <1>1 DEF InUse
<1>6. StageInv(u)'
  <2>1. CASE u \in wanted \/ u \in abandoned'
    BY <1>1, <1>2, <1>3, <2>1 DEF StageInv, Left
  <2>2. CASE ~HasBridge(u) /\ Data(u).subnet = 0
    <3>1. Clean(u)'
      BY <1>1, <1>3, <1>4, <2>2 DEF Clean
    <3> QED
      BY <1>2, <1>3, <2>2, <3>1 DEF StageInv
  <2> QED
    BY <1>1, <2>1, <2>2
<1>7. BridgeInv(u)'
  BY <1>3 DEF BridgeInv
<1>8. (\A q \in Pods : Here(q) = u => CommandInv(q) /\ PlugInv(q))'
  BY <1>3, <1>4 DEF CommandInv, PlugInv, Active
<1> QED
  BY <1>6, <1>7, <1>8 DEF TenantInv

\* Users create or delete a tenant.
LEMMA ChangeTrust == ASSUME TypeInv, TrustInv, NEW t \in Tenants, Change(t) PROVE TrustInv'
<1>1. UNCHANGED <<daemon, node, stores, bridges, proc, pods, ghosts>>
  BY DEF Change
<1>2. ASSUME NEW u \in Tenants
      PROVE  Kept(u)
  <2>1. AddQueued(u) => AddQueued(u)'
    <3> DEFINE e == [kind |-> IF t \in wanted THEN "Delete" ELSE "Add", tenant |-> t]
    <3>1. queue \in Seq(EventsOf) /\ e \in EventsOf /\ queue' = Append(queue, e)
      BY DaemonKept DEF Change, EventsOf
    <3> HIDE DEF e
    <3>2. /\ DOMAIN queue' = 1 .. Len(queue) + 1 /\ \A i \in 1 .. Len(queue) : queue'[i] = queue[i]
          /\ Len(queue) \in Nat /\ DOMAIN queue = 1 .. Len(queue)
      BY <3>1, AppendFacts, SeqFacts
    <3> QED
      BY <3>2 DEF AddQueued
  <2>2. KeptPods(u)
    BY <1>1 DEF KeptPods, pods
  <2> QED
    BY <1>1, <2>1, <2>2 DEF Kept, node, stores, bridges, ghosts
<1>3. \A u \in Tenants \ disturbed' : TenantInv(u)'
  BY <1>1, <1>2, KeptInv DEF TrustInv, ghosts
<1> QED
  BY <1>3 DEF TrustInv

\* A tenant is provisioned that had no bridge and, if it was in use, no store.
LEMMA AllocateTrust == ASSUME DaemonInvs, TrustInv, NEW t \in Tenants, AllocateTenant(t) PROVE TrustInv'
<1>1. TypeInv /\ Ready("Add", t)
  BY DEF DaemonInvs, AllocateTenant
<1>2. CASE t \notin wanted
  <2>1. Restart /\ UNCHANGED <<wanted, stores, bridges, proc, pods>>
    BY <1>2 DEF AllocateTenant
  <2> QED
    BY <1>1, <2>1, RestartTrust DEF stores, bridges, pods
<1>3. CASE t \in wanted
  <2> DEFINE s == Head(avail)
  <2>1. /\ s \in 1 .. Subnets /\ mine[t] = 0 /\ mine' = [mine EXCEPT ![t] = s]
        /\ file' = [file EXCEPT ![t] = NewData(s)] /\ NewData(s) \in TenantData /\ NewData(s).subnet = s
        /\ queue' = Tail(queue) /\ dir' = dir \cup {t} /\ daemon.tenant = Nobody
        /\ UNCHANGED <<daemon, wanted, removed, bridges, proc, pods, bounds>>
    BY <1>3, AllocateFacts
  <2> HIDE DEF s
  <2>2. /\ mine \in [Tenants -> 0 .. Subnets] /\ file \in [Tenants -> TenantData \cup {NoFile}] /\ Nobody \notin Tenants
    BY <1>1, DaemonKept, KeptTypes
  <2>3. /\ disturbed' = IF HasBridge(t) \/ (InUse(t) /\ Data(t).subnet # 0) THEN disturbed \cup {t} ELSE disturbed
        /\ abandoned' = abandoned \ {t}
    BY <1>3 DEF AllocateTenant
  <2>4. ASSUME NEW u \in Tenants \ disturbed', u # t
        PROVE  TenantInv(u)'
    <3>1. AddQueued(u) => AddQueued(u)'
      BY <1>1, <2>1, <2>4, QueuedTail
    <3>2. KeptPods(u)
      BY <2>1 DEF KeptPods, pods
    <3>3. Kept(u)
      BY <2>1, <2>2, <2>3, <2>4, <3>1, <3>2 DEF Kept, bridges
    <3> QED
      BY <2>3, <2>4, <3>3, KeptInv DEF TrustInv
  <2>5. ASSUME t \notin disturbed'
        PROVE  TenantInv(t)'
    <3>1. TenantInv(t) /\ ~HasBridge(t) /\ (InUse(t) => Data(t).subnet = 0) /\ ~Given(t)
      BY <2>1, <2>3, <2>5 DEF TrustInv, Given
    <3>2. mine'[t] = s /\ s # 0 /\ daemon'.tenant # t /\ file'[t] = NewData(s) /\ t \in dir'
      BY <2>1, <2>2, Numbers
    <3>3. NewData(s) # NoFile
      BY <1>1, <2>1, DataFacts DEF TypeInv
    <3>4. Given(t)' /\ ~HasBridge(t)' /\ \A q \in Pods : Here(q)' = Here(q)
      BY <2>1, <3>1, <3>2 DEF Given, HasBridge, Here, bridges, pods
    <3>5. StageInv(t)'
      BY <2>1, <3>2, <3>3, <3>4 DEF StageInv
    <3>6. BridgeInv(t)'
      BY <3>4 DEF BridgeInv
    <3>7. ASSUME NEW q \in Pods, Here(q) = t
          PROVE  CommandInv(q)' /\ PlugInv(q)'
      <4>1. CommandInv(q) /\ PlugInv(q) /\ proc'[q] = proc[q] /\ iface'[q] = iface[q] /\ removed' = removed
        BY <2>1, <3>1, <3>7 DEF TenantInv, pods
      <4>2. iface[q] = NoIface
        BY <3>1, <3>7, <4>1 DEF PlugInv
      <4>3. PlugInv(q)'
        BY <4>1, <4>2 DEF PlugInv
      <4>4. ProcOK(proc[q], stopping[q], iface[q]) /\ proc[q] \in Process
        BY <1>1, ProcTypes
      <4>5. Active(q) => /\ proc[q].at # "write" /\ (proc[q].op = "ADD" => proc[q].at \in {"first", "firstCreate"})
                         /\ proc[q].lock = removed[t]
        BY <3>1, <3>7, <4>1 DEF CommandInv
      <4>6. Active(q) => proc[q].at \notin {"bridge", "linkAdd", "addrAdd", "veth", "write"}
        BY <4>4, <4>5 DEF ProcOK, Process, Active
      <4>7. CommandInv(q)'
        BY <3>2, <3>4, <3>7, <4>1, <4>5, <4>6 DEF CommandInv, Active
      <4> QED
        BY <4>3, <4>7
    <3>8. (\A q \in Pods : Here(q) = t => CommandInv(q) /\ PlugInv(q))'
      BY <3>4, <3>7
    <3> QED
      BY <3>5, <3>6, <3>8 DEF TenantInv
  <2>6. \A u \in Tenants \ disturbed' : TenantInv(u)'
    BY <2>4, <2>5
  <2> QED
    BY <2>6 DEF TrustInv
<1> QED
  BY <1>2, <1>3

\* A tenant is deleted that is not in use.
LEMMA DeleteTrust == ASSUME DaemonInvs, TrustInv, NEW t \in Tenants, DeleteTenant(t) PROVE TrustInv'
<1>1. TypeInv /\ Ready("Delete", t)
  BY DEF DaemonInvs, DeleteTenant
<1>2. /\ mine[t] # 0 /\ daemon.tenant = Nobody /\ Nobody \notin Tenants /\ Given(t)
  BY <1>1, ReadyFacts, DaemonKept
<1>3. /\ file \in [Tenants -> TenantData \cup {NoFile}] /\ dir' = dir \cup {t} /\ file' = [file EXCEPT ![t] = Data(t)]
      /\ UNCHANGED <<wanted, removed, proc, tenantOf, stopping>>
  BY <1>1, KeptTypes, DeleteFacts
<1>4. CASE Data(t).subnet = 0
  <2>1. Restart /\ UNCHANGED <<bridges, iface>>
    BY <1>4 DEF DeleteTenant
  <2>2. t \in disturbed
    <3> SUFFICES ASSUME t \notin disturbed
                 PROVE  FALSE
      OBVIOUS
    <3>1. StageInv(t)
      BY DEF TrustInv, TenantInv
    <3> QED
      BY <1>2, <1>4, <3>1 DEF StageInv, Data
  <2>3. \A u \in Tenants \ disturbed : file'[u] = file[u] /\ (u \in dir => u \in dir')
    BY <1>3, <2>2
  <2> QED
    BY <1>1, <1>3, <2>1, <2>3, RestartTrust DEF bridges
<1>5. CASE Data(t).subnet # 0
  <2>1. /\ queue' = Tail(queue) /\ daemon'.tenant = t /\ UNCHANGED node
        /\ \/ DeleteTenantBridge(t) /\ UNCHANGED <<abandoned, bounds>>
           \/ Fails(t) /\ UNCHANGED <<bridges, iface>>
        /\ disturbed' = IF InUse(t) THEN disturbed \cup {t} ELSE disturbed
    BY <1>5 DEF DeleteTenant
  <2>2. /\ \A u \in Tenants \ {t} : /\ bridge'[u] = bridge[u] /\ deleted'[u] = deleted[u]
                                   /\ (u \in unfinished => u \in unfinished') /\ (u \in up => u \in up')
                                   /\ (u \in abandoned => u \in abandoned')
        /\ bridge'[t] # NoBridge => t \in abandoned'
        /\ \A q \in Pods : Here(q) # t => iface'[q] = iface[q]
    BY <1>1, <2>1, BridgeGone
  <2>6. \A q \in Pods : iface[q] = NoIface => iface'[q] = NoIface
    BY <2>1, IfaceFacts DEF DeleteTenantBridge
  <2>3. ASSUME NEW u \in Tenants \ disturbed', u # t
        PROVE  TenantInv(u)'
    <3>1. AddQueued(u) => AddQueued(u)'
      BY <1>1, <2>1, <2>3, QueuedTail
    <3>2. KeptPods(u)
      BY <1>3, <2>2, <2>3 DEF KeptPods
    <3>3. Kept(u)
      BY <1>2, <1>3, <2>1, <2>2, <2>3, <3>1, <3>2 DEF Kept, node
    <3> QED
      BY <2>1, <2>3, <3>3, KeptInv DEF TrustInv
  <2>4. ASSUME t \notin disturbed'
        PROVE  TenantInv(t)'
    <3>1. \A q \in Pods : Here(q) = t => iface[q] = NoIface /\ proc[q].at = "idle"
      BY <2>1, <2>4 DEF InUse
    <3>2. \A q \in Pods : Here(q)' = Here(q)
      BY <1>3 DEF Here
    <3>3. \A q \in Pods : Here(q) = t => iface'[q] = NoIface /\ proc'[q].at = "idle"
      BY <1>3, <2>2, <2>6, <3>1
    <3>4. ~InUse(t)' /\ (HasBridge(t)' => t \in abandoned') /\ ~Given(t)'
      BY <2>1, <2>2, <3>2, <3>3 DEF InUse, HasBridge, Given
    <3>5. StageInv(t)'
      BY <2>1, <3>4 DEF StageInv
    <3>6. BridgeInv(t)'
      BY <3>4 DEF BridgeInv
    <3>7. (\A q \in Pods : Here(q) = t => CommandInv(q) /\ PlugInv(q))'
      BY <3>2, <3>3 DEF CommandInv, PlugInv, Active
    <3> QED
      BY <3>5, <3>6, <3>7 DEF TenantInv
  <2>5. \A u \in Tenants \ disturbed' : TenantInv(u)'
    BY <2>3, <2>4
  <2> QED
    BY <2>5 DEF TrustInv
<1> QED
  BY <1>4, <1>5

\* An entry of the directory of a tenant that is not in use goes, or the directory.
LEMMA RemoveTrust ==
  ASSUME DaemonInvs, TrustInv, (\E e \in {"lock", "data"} : RemoveEntry(e)) \/ RemoveDirectory \/ StoreStays
  PROVE  TrustInv'
<1> DEFINE t == daemon.tenant
<1>1. TypeInv /\ t \in Tenants /\ Nobody \notin Tenants
  BY DaemonKept DEF DaemonInvs, RemoveEntry, RemoveDirectory, StoreStays, At
<1>2. /\ file \in [Tenants -> TenantData \cup {NoFile}] /\ removed \in [Tenants -> Nat]
      /\ mine \in [Tenants -> 0 .. Subnets]
  BY <1>1, KeptTypes, DaemonKept
<1>3. /\ UNCHANGED <<wanted, queue, bridges, proc, pods, disturbed>> /\ abandoned \subseteq abandoned'
      /\ \A u \in Tenants \ {t} : file'[u] = file[u] /\ removed'[u] = removed[u] /\ mine'[u] = mine[u] /\ (u \in dir => u \in dir')
  BY <1>2 DEF RemoveEntry, RemoveDirectory, StoreStays, Reclaim, Fails, node, stores, ghosts
<1>4. \/ daemon'.tenant = t
      \/ daemon'.tenant = Nobody /\ file'[t] = NoFile /\ mine'[t] = 0
      \/ daemon'.tenant = Nobody /\ t \in abandoned' /\ mine'[t] = 0
  <2>1. CASE RemoveDirectory
    BY <1>1, <1>2, <2>1 DEF RemoveDirectory, Reclaim, Rests, Resting
  <2>3. CASE StoreStays
    BY <1>1, <1>2, <2>3 DEF StoreStays, Fails, Reclaim, Rests, Resting
  <2>2. CASE \E e \in {"lock", "data"} : RemoveEntry(e)
    <3>1. daemon \in [at : {"idle", "entries", "dir"}, tenant : Tenants \cup {Nobody}, left : SUBSET {"lock", "data"}]
      BY <1>1, DaemonKept
    <3> QED
      BY <2>2, <3>1 DEF RemoveEntry
  <2> QED
    BY <2>1, <2>2, <2>3
<1> HIDE DEF t
<1>5. ASSUME NEW u \in Tenants \ disturbed', u # t
      PROVE  TenantInv(u)'
  <2>1. KeptPods(u)
    BY <1>3 DEF KeptPods, pods
  <2>2. AddQueued(u) => AddQueued(u)'
    BY <1>3 DEF AddQueued
  <2>3. daemon'.tenant # u /\ daemon.tenant # u
    BY <1>1, <1>4, <1>5 DEF t
  <2>4. Kept(u)
    BY <1>3, <1>5, <2>1, <2>2, <2>3 DEF Kept, bridges
  <2> QED
    BY <1>3, <1>5, <2>4, KeptInv DEF TrustInv
<1>6. ASSUME NEW u \in Tenants \ disturbed', u = t
      PROVE  TenantInv(u)'
  <2>1. ~InUse(u) /\ (HasBridge(u) => u \in abandoned)
    <3>1. StageInv(u)
      BY <1>3, <1>6 DEF TrustInv, TenantInv
    <3> QED
      BY <1>6, <3>1 DEF StageInv, Given, t
  <2>2. /\ ~InUse(u)' /\ (HasBridge(u)' => u \in abandoned') /\ \A q \in Pods : Here(q)' = Here(q)
    BY <1>3, <2>1 DEF InUse, HasBridge, Here, bridges, pods
  <2>3. ~Given(u)'
    BY <1>4, <1>6 DEF Given
  <2>4. \A q \in Pods : Here(q) = u => iface'[q] = NoIface /\ proc'[q].at = "idle"
    BY <1>3, <2>1 DEF InUse, pods
  <2>5. StageInv(u)'
    <3>1. CASE daemon'.tenant = t
      BY <1>6, <2>2, <3>1 DEF StageInv
    <3>2. CASE daemon'.tenant = Nobody /\ file'[t] = NoFile /\ mine'[t] = 0
      <4>1. Data(u)'.subnet = 0
        BY <1>1, <1>6, <3>2, DataFacts DEF Data, TypeInv
      <4>2. Clean(u)'
        BY <2>2, <2>4, <4>1 DEF Clean
      <4> QED
        BY <1>1, <1>6, <2>2, <3>2, <4>2 DEF StageInv, Left
    <3>3. CASE daemon'.tenant = Nobody /\ t \in abandoned' /\ mine'[t] = 0
      BY <1>1, <1>6, <2>2, <3>3 DEF StageInv, Left
    <3> QED
      BY <1>4, <3>1, <3>2, <3>3
  <2>6. BridgeInv(u)'
    BY <2>3 DEF BridgeInv
  <2>7. (\A q \in Pods : Here(q) = u => CommandInv(q) /\ PlugInv(q))'
    BY <2>2, <2>4 DEF CommandInv, PlugInv, Active
  <2> QED
    BY <2>5, <2>6, <2>7 DEF TenantInv
<1>7. \A u \in Tenants \ disturbed' : TenantInv(u)'
  BY <1>5, <1>6
<1> QED
  BY <1>7 DEF TrustInv

-----------------------------------------------------------------------------
(* The inductive invariant, and what follows.                               *)

Inv == DaemonInvs /\ LockInv /\ TrustInv

\* At first nothing is provisioned and nothing is there.
LEMMA InvInit == Init => Inv
<1> SUFFICES ASSUME Init
             PROVE  Inv
  OBVIOUS
<1>1. PICK s \in Orders(wanted) : queue = [i \in DOMAIN s |-> [kind |-> "Add", tenant |-> s[i]]]
  BY DEF Init
<1>2. wanted \in SUBSET Tenants /\ Nobody \notin Tenants
  BY LifecycleAssumption DEF Init
<1>3. queue \in Seq(EventsOf) /\ Leading(queue, {}, wanted)
  BY <1>1, <1>2, LeadsFresh
<1>4. Blank \in TenantData
  BY Numbers DEF Blank, NewData, TenantData
<1>5. NoFile.subnet = -1
  BY DEF NoFile, NewData
<1>6. NoProcess \in Process /\ NoProcess.at = "idle" /\ NoProcess.op = "none"
  BY <1>4, Numbers DEF NoProcess, Process, Labels
<1>7. avail = [i \in 1 .. Subnets |-> i] /\ avail \in Seq(1 .. Subnets) /\ DOMAIN avail = 1 .. Subnets
  BY Numbers DEF Init, ListSubnets
<1>8. TypeOK
  <2>1. Resting \in [at : {"idle", "entries", "dir"}, tenant : Tenants \cup {Nobody}, left : SUBSET {"lock", "data"}]
    BY DEF Resting
  <2>2. commands \in 0 .. MaxCommands /\ events \in 0 .. MaxEvents
    BY LifecycleAssumption DEF Init
  <2>3. mine \in [Tenants -> 0 .. Subnets]
    BY Numbers DEF Init
  <2>4. /\ queue \in Seq([kind : {"Add", "Delete"}, tenant : Tenants])
        /\ wanted \in SUBSET Tenants
    BY <1>2, <1>3 DEF EventsOf
  <2>5. /\ dir \in SUBSET Tenants /\ file \in [Tenants -> TenantData \cup {NoFile}]
        /\ \A t \in Tenants : file[t] # NoFile => t \in dir
        /\ removed \in [Tenants -> Nat] /\ deleted \in [Tenants -> Nat]
        /\ bridge \in [Tenants -> (SUBSET (1 .. Subnets)) \cup {NoBridge}]
    BY DEF Init
  <2>6. /\ tenantOf \in [Pods -> Tenants] /\ proc \in [Pods -> Process]
        /\ iface \in [Pods -> Ifaces \cup {NoIface}] /\ stopping \in [Pods -> BOOLEAN]
        /\ disturbed \in SUBSET Tenants /\ abandoned \in SUBSET Tenants
        /\ unfinished \in SUBSET Tenants /\ up \in SUBSET Tenants
    BY <1>6 DEF Init
  <2>7. daemon = Resting
    BY DEF Init
  <2> QED
    BY <1>7, <2>1, <2>2, <2>3, <2>4, <2>5, <2>6, <2>7 DEF TypeOK
<1>9. DaemonInv
  BY DEF Init, DaemonInv, At, Resting
<1>10. ProcInv
  BY <1>6, IfaceFacts DEF Init, ProcInv, ProcOK
<1>11. FileInv
  BY <1>5 DEF Init, FileInv
<1>12. NodeInv
  BY <1>7, Numbers DEF Init, NodeInv
<1>13. \A t \in Tenants : mine[t] = 0 /\ daemon.tenant # t /\ ~Given(t)
  BY <1>2 DEF Init, Resting, Given
<1>14. QueueInv
  <2>1. {t \in Tenants : Given(t)} = {}
    BY <1>13
  <2> QED
    BY <1>3, <2>1 DEF QueueInv
<1>15. LockInv
  BY <1>6 DEF Init, LockInv, Holds
<1>16. ASSUME NEW t \in Tenants
       PROVE  TenantInv(t)
  <2>1. Clean(t)
    BY DEF Init, Clean, Data, Blank, NewData
  <2>2. StageInv(t)
    BY <1>13, <2>1 DEF StageInv, Init, HasBridge
  <2>3. BridgeInv(t)
    BY <1>13 DEF BridgeInv
  <2>4. \A p \in Pods : CommandInv(p) /\ PlugInv(p)
    BY <1>6 DEF Init, CommandInv, PlugInv, Active
  <2> QED
    BY <2>2, <2>3, <2>4 DEF TenantInv
<1> QED
  BY <1>8, <1>9, <1>10, <1>11, <1>12, <1>14, <1>15, <1>16 DEF Inv, DaemonInvs, TypeInv, TrustInv

\* Every step keeps the types, the NodeStore and the queue.
LEMMA DaemonInvsStep == ASSUME DaemonInvs, [Next]_vars PROVE DaemonInvs'
<1>1. ASSUME NEW p \in Pods, (\E o \in {"ADD", "DEL"} : Invoke(p, o)) \/ Step(p) \/ Kill(p)
      PROVE  DaemonInvs'
  <2>1. TypeInv'
    BY <1>1, InvokeType, FirstLoadType, FirstCreateType, LoadType, CreateType, WriteStoreType, FindBridgeType, LinkAddType,
       AddrAddType, SetupVethType, DelVethType, KillType DEF Step, DaemonInvs
  <2>2. UNCHANGED <<wanted, worker, node>>
    BY <1>1 DEF Invoke, Step, FirstLoad, FirstCreate, Load, Create, WriteStore, FindBridge, LinkAdd, AddrAdd, SetupVeth,
       DelVeth, Kill
  <2>3. NodeInv' /\ QueueInv'
    BY <2>2 DEF DaemonInvs, NodeInv, QueueInv, Given, worker, node
  <2> QED
    BY <2>1, <2>3 DEF DaemonInvs
<1>2. CASE UNCHANGED vars
  <2>1. NodeInv' /\ QueueInv'
    BY <1>2 DEF DaemonInvs, NodeInv, QueueInv, Given, vars, worker, node
  <2>2. TypeOK'
    BY <1>2 DEF DaemonInvs, TypeInv, TypeOK, vars, worker, node, stores, bridges, pods, ghosts, bounds
  <2>3. DaemonInv' /\ ProcInv' /\ FileInv'
    BY <1>2 DEF DaemonInvs, TypeInv, DaemonInv, At, ProcInv, FileInv, vars, worker, stores, pods
  <2> QED
    BY <2>1, <2>2, <2>3 DEF DaemonInvs, TypeInv
<1> QED
  BY <1>1, <1>2, ChangeInvs, AllocateInvs, DeleteInvs, RemoveEntryInvs, RemoveDirectoryInvs, StoreStaysInvs, CrashInvs
     DEF Next, Daemon

\* Every step keeps what is true of the tenants that were not disturbed.
LEMMA TrustStep == ASSUME DaemonInvs, LockInv, TrustInv, [Next]_vars PROVE TrustInv'
<1>1. TypeInv
  BY DEF DaemonInvs
<1>2. ASSUME UNCHANGED vars
      PROVE  TrustInv'
  <2>1. ASSUME NEW u \in Tenants
        PROVE  Kept(u)
    BY <1>2 DEF Kept, KeptPods, AddQueued, vars, worker, node, stores, bridges, pods, ghosts
  <2>2. \A u \in Tenants \ disturbed' : TenantInv(u)'
    BY <1>2, <2>1, KeptInv DEF TrustInv, vars, ghosts
  <2> QED
    BY <2>2 DEF TrustInv
<1>3. ASSUME DaemonCrash
      PROVE  TrustInv'
  BY <1>1, <1>3, RestartTrust DEF DaemonCrash, stores, bridges, pods
<1> QED
  BY <1>1, <1>2, <1>3, StepTrust, InvokeTrust, ChangeTrust, AllocateTrust, DeleteTrust, RemoveTrust DEF Next, Daemon

\* The inductive invariant holds in every reachable state.
LEMMA InvHolds == Spec => []Inv
<1>1. Inv /\ [Next]_vars => Inv'
  BY DaemonInvsStep, LockStep, TrustStep DEF Inv, DaemonInvs
<1> QED
  BY <1>1, InvInit, PTL DEF Spec

\* TypeOK: every variable keeps its type; in particular the NodeStore always has a
\* subnet for a tenant that is to be provisioned, and a store's file is always in a
\* directory.
THEOREM TypeCorrect == Spec => []TypeOK
<1>1. Inv => TypeOK
  BY DEF Inv, DaemonInvs, TypeInv
<1> QED
  BY <1>1, InvHolds, PTL

\* AddressesApart: no two pods on the node carry one address, although subnets go from
\* tenant to tenant, lock files are removed under the processes that have opened them,
\* and commands leave interfaces behind half made, unless the tenant of one was
\* provisioned or deleted while in use, or its store emptied by a late command.
THEOREM AddressesStayApart == Spec => []AddressesApart
<1>1. Inv => AddressesApart
  <2> SUFFICES ASSUME Inv, NEW p \in Pods, NEW q \in Pods, p # q, Addressed(p), Addressed(q),
                      Trusted(Here(p)), Trusted(Here(q)),
                      iface[p].subnet = iface[q].subnet, iface[p].host = iface[q].host
               PROVE  FALSE
    BY DEF AddressesApart
  <2>1. PlugInv(p) /\ PlugInv(q) /\ Here(p) \in Tenants /\ Here(q) \in Tenants
    BY ProcTypes DEF Inv, DaemonInvs, TrustInv, TenantInv, Trusted
  <2>2. /\ iface[p].subnet # 0 /\ iface[q].subnet # 0 /\ ~stopping[p] /\ ~stopping[q]
        /\ iface[p] # NoIface /\ iface[q] # NoIface
    <3>1. iface \in [Pods -> Ifaces \cup {NoIface}]
      BY KeptTypes DEF Inv, DaemonInvs
    <3>2. \A i \in Ifaces : i.subnet \in Int
      BY Numbers DEF Ifaces
    <3> QED
      BY <3>1, <3>2, IfaceFacts DEF Addressed
  <2>3. /\ mine[Here(p)] = mine[Here(q)] /\ mine[Here(p)] # 0
        /\ file[Here(p)].ips[iface[p].host] = p /\ file[Here(q)].ips[iface[q].host] = q
    BY <2>1, <2>2 DEF PlugInv, Given
  <2>4. Here(p) = Here(q)
    BY <2>1, <2>3 DEF Inv, DaemonInvs, NodeInv
  <2> QED
    BY <2>3, <2>4
<1> QED
  BY <1>1, InvHolds, PTL

\* GatewayServed: the interface of a running pod is on the bridge, in the subnet of its
\* default gateway, and the bridge is up and has that gateway's address, or its maker is
\* about to put it on, or stopped before the bridge was up, unless the pod's tenant was
\* disturbed.
THEOREM GatewaysServed == Spec => []GatewayServed
<1>1. Inv => GatewayServed
  <2> SUFFICES ASSUME Inv, NEW p \in Pods, Runs(p), Trusted(Here(p))
               PROVE  /\ iface[p].on = "yes" /\ iface[p].gateway = iface[p].subnet
                      /\ \/ iface[p].gateway \in bridge[Here(p)] /\ Here(p) \in up
                         \/ BeingMade(Here(p))
                         \/ Here(p) \in unfinished
    BY DEF GatewayServed
  <2>1. PlugInv(p) /\ BridgeInv(Here(p))
    BY ProcTypes DEF Inv, DaemonInvs, TrustInv, TenantInv, Trusted
  <2>2. iface[p] # NoIface /\ iface[p].on \in {"yes", "lost"}
    <3>1. iface \in [Pods -> Ifaces \cup {NoIface}]
      BY KeptTypes DEF Inv, DaemonInvs
    <3> QED
      BY <3>1, IfaceFacts DEF Runs, Ifaces
  <2> QED
    BY <2>1, <2>2 DEF PlugInv, BridgeInv
<1> QED
  BY <1>1, InvHolds, PTL

\* CleanRemoval: at rest, an undisturbed tenant that is not wanted has left no subnet and
\* no interface behind, and no bridge and no store unless a crash cut its deletion short
\* or a call of it failed; one that is wanted has a store of the subnet the NodeStore
\* holds for it.
THEOREM RemovalIsClean == Spec => []CleanRemoval
<1>1. Inv => CleanRemoval
  <2> SUFFICES ASSUME Inv, AtRest, NEW t \in Tenants \ disturbed
               PROVE  IF t \in wanted
                        THEN mine[t] # 0 /\ file[t].subnet = mine[t]
                        ELSE /\ mine[t] = 0 /\ \A p \in Pods : Here(p) = t => iface[p] = NoIface
                             /\ t \notin abandoned => ~HasBridge(t) /\ Data(t).subnet = 0
    BY DEF CleanRemoval
  <2>1. TypeInv /\ QueueInv /\ StageInv(t) /\ queue = <<>> /\ At("idle")
    BY DEF Inv, DaemonInvs, TrustInv, TenantInv, AtRest
  <2>2. daemon.tenant # t /\ (Given(t) <=> mine[t] # 0)
    BY <2>1, DaemonKept DEF Given
  <2>3. {u \in Tenants : Given(u)} = wanted
    BY <2>1, LeadsNowhere DEF QueueInv
  <2>4. t \in wanted <=> Given(t)
    BY <2>3
  <2>5. ~AddQueued(t)
    BY <2>1 DEF AddQueued
  <2>6. (~InUse(t) \/ Clean(t)) /\ mine[t] = 0 => \A p \in Pods : Here(p) = t => iface[p] = NoIface
    BY DEF InUse, Clean
  <2> QED
    BY <2>1, <2>2, <2>4, <2>5, <2>6 DEF StageInv, Clean, Left
<1> QED
  BY <1>1, InvHolds, PTL

=============================================================================
