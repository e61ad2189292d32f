----------------------------- MODULE TenantIPAM -----------------------------
(***************************************************************************)
(* The address allocator of ONE tenant on ONE node: the CNI plugin          *)
(* (cmd/tenantcni) runs as one operating-system process per ADD, DEL or     *)
(* CHECK, and all of them share the tenant's JSON file under a flock        *)
(* (pkg/network/ipam).  The node daemon writes the same file, without the   *)
(* lock, when it provisions the tenant (AllocateTenant), and again after    *)
(* each of its restarts.                                                    *)
(*                                                                         *)
(* Addresses are the offsets 0 .. N-1 of the tenant's subnet.  A file is    *)
(* missing, torn (empty or half written: it does not parse) or whole.       *)
(* os.WriteFile and os.Create truncate first and write afterwards, so every *)
(* write is two steps, and a process can be killed between any two steps.   *)
(* Removal of the store (DeleteTenantStore) is not part of this module.     *)
(***************************************************************************)
EXTENDS Integers

CONSTANTS
  Containers,  \* container ids; the runtime serialises the calls on one id
  N,           \* number of addresses of the subnet (a /24 in the program)
  Nobody,      \* not a container: the owner of a free address
  Restarts     \* BOUND: whether a daemon that has provisioned may restart

ASSUME NAssumption == N \in Nat /\ N >= 3
ASSUME NobodyAssumption == Nobody \notin Containers
ASSUME RestartsAssumption == Restarts \in BOOLEAN

Addr    == 0 .. N - 1
Gateway == 1                 \* tenantCIDR.Addr().Next()
Hosts   == 2 .. N - 1        \* what NextIP reaches from the gateway on
NoIP    == -1                \* a nil net.IP, or bytes that are no address

\* net.IP(gtw) converts the TEXT of the gateway to bytes: 7 to 15 bytes, which
\* no method of net.IP takes for an address and which equal no parsed address.
GatewayBytes == NoIP

Ops == {"ADD", "DEL", "CHECK"}

-----------------------------------------------------------------------------
(* The file and the process's copy of it.                                  *)

\* TenantData: the bridge entry is there or nil, the map from addresses to
\* container ids, and the last address given.
TenantData ==
  [bridge : BOOLEAN, ips : [Addr -> Containers \cup {Nobody}], last : Addr \cup {NoIP}]

NoIPs      == [a \in Addr |-> Nobody]
EmptyData  == [bridge |-> FALSE, ips |-> NoIPs, last |-> NoIP]
\* Variant: Last starts behind the subnet.
DataPastEnd == [bridge |-> TRUE, ips |-> NoIPs, last |-> N]
\* What AllocateTenant writes: no leases, and Last at the gateway.
FreshData  == [bridge |-> TRUE, ips |-> NoIPs, last |-> Gateway]

File  == [state : {"missing", "torn", "whole"}, data : TenantData]
Torn  == [state |-> "torn", data |-> EmptyData]
Whole(d) == [state |-> "whole", data |-> d]

VARIABLES
  file,      \* <tenant>.json
  writer,    \* the process that holds the flock exclusively, or Nobody
  readers,   \* the processes that hold it shared
  pc,        \* where the process serving a container is
  op,        \* the CNI command it serves
  data,      \* TenantStore.Data of that process
  cursor,    \* AllocateIP's start, then the address it returns
  iface,     \* the address on the interface in the container's netns
  stopping,  \* the runtime asked for DEL and no DEL has succeeded yet
  daemon,    \* how far the daemon is with AllocateTenant's file write
  damaged    \* leases were lost: torn for good or overwritten

cni  == <<pc, op, data, cursor>>
lock == <<writer, readers>>
vars == <<file, lock, cni, iface, stopping, daemon, damaged>>

Locked == {"load", "probe", "write", "fill", "writeLast", "fillLast",
           "unlock", "unlockErr"}
Labels == {"idle", "open", "create", "fillEmpty", "lock", "net"} \cup Locked

TypeOK ==
  /\ file \in File
  /\ writer \in Containers \cup {Nobody}
  /\ readers \in SUBSET Containers
  /\ pc \in [Containers -> Labels]
  /\ op \in [Containers -> Ops \cup {"none"}]
  /\ data \in [Containers -> TenantData]
  /\ cursor \in [Containers -> Addr \cup {NoIP}]
  /\ iface \in [Containers -> Addr \cup {NoIP}]
  /\ stopping \in [Containers -> BOOLEAN]
  /\ daemon \in {"absent", "writing", "done", "again"}
  /\ damaged \in BOOLEAN

-----------------------------------------------------------------------------
(* Operators of the store and of the allocator.                            *)

\* cip.NextIP and the check that the result is inside the subnet; NoIP stands
\* for ErrIPOverflow, which an invalid argument gives too.
NextIP(ip) == IF ip + 1 \in Addr /\ ip # NoIP THEN ip + 1 ELSE NoIP

\* Variant: every address looks free.
NeverContains(d, ip) == FALSE

Contains(d, ip) == d.ips[ip] # Nobody

\* Variant: the ids are not looked at.
NothingLeased(d, c) == {}

\* The addresses recorded under a container id (GetIPByID and Del stop at the
\* first one that the iteration of the Go map meets).
Leased(d, c) == {a \in Addr : d.ips[a] = c}

AddTo(d, ip, c) == [d EXCEPT !.ips[ip] = c]

\* Variant: nothing is given back.
KeepIt(d, ip) == d

DelFrom(d, ip) == [d EXCEPT !.ips[ip] = Nobody]

\* Variant: no lock.
LockIgnored(c) == TRUE

\* flock: an exclusive holder excludes everybody, shared holders exclude only
\* the exclusive ones.
LockFree(c) ==
  /\ writer = Nobody
  /\ op[c] # "CHECK" => readers = {}

-----------------------------------------------------------------------------
(* Steps shared by the three commands.                                     *)

Goto(c, l) == pc' = [pc EXCEPT ![c] = l]

\* The process ends: normally, with an error, by a panic, or killed.
Exit(c) ==
  /\ Goto(c, "idle")
  /\ op' = [op EXCEPT ![c] = "none"]
  /\ data' = [data EXCEPT ![c] = EmptyData]
  /\ cursor' = [cursor EXCEPT ![c] = NoIP]

\* Variant: the lock is kept.
KeepLock(c) == UNCHANGED lock

\* The deferred Unlock, or the kernel when the process dies.
ReleaseLock(c) ==
  /\ writer' = IF writer = c THEN Nobody ELSE writer
  /\ readers' = readers \ {c}

\* The runtime starts the plugin.  It does not ADD a sandbox that is up or
\* being torn down; it may ask for DEL at any time and repeat it.
Invoke(c, o) ==
  /\ pc[c] = "idle"
  /\ o # "DEL" => ~stopping[c]
  /\ o = "ADD" => iface[c] = NoIP
  /\ op' = [op EXCEPT ![c] = o]
  /\ stopping' = [stopping EXCEPT ![c] = stopping[c] \/ o = "DEL"]
  /\ Goto(c, "open")
  /\ UNCHANGED <<file, lock, data, cursor, iface, daemon, damaged>>

\* NewTenantStore starts with an empty Data; the first LoadTenantData runs
\* without the lock and its error is ignored.
Loaded(c) == IF file.state = "whole" THEN file.data ELSE data[c]

\* Variant: there is no second load.
FirstLoad(c) == data[c]

\* The second load runs under the lock; if it fails the allocator only logs it
\* and goes on with what the first, unlocked load returned.
Reloaded(c) == Loaded(c)

\* cmdAdd dereferences Data.Bridge right after the first load: without a
\* bridge the process panics.  cmdDel and cmdCheck do not look at it.
AfterOpen(c, d) ==
  IF op[c] = "ADD" /\ ~d.bridge
    THEN Exit(c)
    ELSE /\ Goto(c, "lock")
         /\ data' = [data EXCEPT ![c] = d]
         /\ UNCHANGED <<op, cursor>>

OpenStore(c) ==
  /\ pc[c] = "open"
  /\ IF file.state = "missing"
       THEN Goto(c, "create") /\ UNCHANGED <<op, data, cursor>>
       ELSE AfterOpen(c, Loaded(c))
  /\ UNCHANGED <<file, lock, iface, stopping, daemon, damaged>>

\* LoadTenantData found no file: os.Create, which truncates whatever has been
\* written since, and then the two bytes "{}".
CreateEmpty(c) ==
  /\ pc[c] = "create"
  /\ file' = Torn
  /\ damaged' = (damaged \/ (file.state = "whole" /\ file.data.bridge))
  /\ Goto(c, "fillEmpty")
  /\ UNCHANGED <<lock, op, data, cursor, iface, stopping, daemon>>

\* The two bytes overwrite the head of a store that was written in between,
\* which leaves a file that does not parse.
FillEmpty(c) ==
  LET clobbers == file.state = "whole" /\ file.data.bridge IN
  /\ pc[c] = "fillEmpty"
  /\ file' = IF clobbers THEN Torn ELSE Whole(EmptyData)
  /\ damaged' = (damaged \/ clobbers)
  /\ AfterOpen(c, data[c])
  /\ UNCHANGED <<lock, iface, stopping, daemon>>

\* TenantStore.Lock, or RLock for CHECK.
TakeLock(c) ==
  /\ pc[c] = "lock"
  /\ LockFree(c)
  /\ IF op[c] = "CHECK"
       THEN readers' = readers \cup {c} /\ UNCHANGED writer
       ELSE writer' = c /\ UNCHANGED readers
  /\ Goto(c, "load")
  /\ UNCHANGED <<file, op, data, cursor, iface, stopping, daemon, damaged>>

\* os.WriteFile of the process's Data: truncate, then write.
Truncate(c) ==
  /\ pc[c] \in {"write", "writeLast"}
  /\ file' = Torn
  /\ Goto(c, IF pc[c] = "write" THEN "fill" ELSE "fillLast")
  /\ UNCHANGED <<lock, op, data, cursor, iface, stopping, daemon, damaged>>

\* After Add has stored the new lease AllocateIP sets Last and stores again.
Fill(c) ==
  /\ pc[c] = "fill"
  /\ file' = Whole(data[c])
  /\ IF op[c] = "ADD"
       THEN /\ data' = [data EXCEPT ![c].last = cursor[c]]
            /\ Goto(c, "writeLast")
       ELSE /\ Goto(c, "unlock")
            /\ UNCHANGED data
  /\ UNCHANGED <<lock, op, cursor, iface, stopping, daemon, damaged>>

FillLast(c) ==
  /\ pc[c] = "fillLast"
  /\ file' = Whole(data[c])
  /\ Goto(c, "unlock")
  /\ UNCHANGED <<lock, op, data, cursor, iface, stopping, daemon, damaged>>

\* Return from AllocateIP, ReleaseIP or CheckIP: with an error the command ends.
Unlock(c) ==
  /\ pc[c] \in {"unlock", "unlockErr"}
  /\ ReleaseLock(c)
  /\ IF pc[c] = "unlock"
       THEN Goto(c, "net") /\ UNCHANGED <<op, data, cursor>>
       ELSE Exit(c)
  /\ UNCHANGED <<file, iface, stopping, daemon, damaged>>

-----------------------------------------------------------------------------
(* ADD: AllocateIP and the network set-up.                                 *)

LoadAdd(c) ==
  LET d == Reloaded(c) IN
  /\ pc[c] = "load"
  /\ op[c] = "ADD"
  /\ \/ /\ ~d.bridge                           \* nil Bridge: panic
        /\ Exit(c)
        /\ ReleaseLock(c)
     \/ /\ d.bridge
        /\ data' = [data EXCEPT ![c] = d]
        /\ IF Leased(d, c) # {}                \* the id has an address already
             THEN /\ \E a \in Leased(d, c) : cursor' = [cursor EXCEPT ![c] = a]
                  /\ Goto(c, "unlock")
             ELSE /\ cursor' = [cursor EXCEPT ![c] = d.last]
                  /\ Goto(c, "probe")
        /\ UNCHANGED <<lock, op>>
  /\ UNCHANGED <<file, iface, stopping, daemon, damaged>>

\* One turn of the loop of AllocateIP.  Data.Last does not change while the
\* loop runs, so it is the loop's lastIP.
Probe(c) ==
  LET next == NextIP(cursor[c]) IN
  /\ pc[c] = "probe"
  /\ \/ /\ next = NoIP                         \* ErrIPOverflow
        /\ IF data[c].last # GatewayBytes
             THEN /\ cursor' = [cursor EXCEPT ![c] = GatewayBytes]
                  /\ UNCHANGED pc
             ELSE Goto(c, "unlockErr") /\ UNCHANGED cursor
        /\ UNCHANGED data
     \/ /\ next # NoIP
        /\ ~Contains(data[c], next)
        /\ data' = [data EXCEPT ![c] = AddTo(data[c], next, c)]
        /\ cursor' = [cursor EXCEPT ![c] = next]
        /\ Goto(c, "write")
     \/ /\ next # NoIP
        /\ Contains(data[c], next)
        /\ cursor' = [cursor EXCEPT ![c] = next]
        /\ Goto(c, IF next = data[c].last THEN "unlockErr" ELSE "probe")
        /\ UNCHANGED data
  /\ UNCHANGED <<file, lock, op, iface, stopping, daemon, damaged>>

\* CreateTenantBridge, GetNS and SetupVeth with the allocated address.  Any of
\* them may fail, before or after the address is on the interface, and nothing
\* is undone: the lease stays in the store.
SetupVeth(c) ==
  /\ pc[c] = "net"
  /\ op[c] = "ADD"
  /\ \E up \in {cursor[c], NoIP} : iface' = [iface EXCEPT ![c] = up]
  /\ Exit(c)
  /\ UNCHANGED <<file, lock, stopping, daemon, damaged>>

-----------------------------------------------------------------------------
(* DEL: ReleaseIP and the tear-down; CHECK: CheckIP.                       *)

LoadDel(c) ==
  /\ pc[c] = "load"
  /\ op[c] = "DEL"
  /\ IF file.state # "whole"
       THEN Goto(c, "unlockErr") /\ UNCHANGED data
       ELSE IF Leased(file.data, c) = {}
              THEN Goto(c, "unlock") /\ UNCHANGED data
              ELSE /\ \E a \in Leased(file.data, c) :
                        data' = [data EXCEPT ![c] = DelFrom(file.data, a)]
                   /\ Goto(c, "write")
  /\ UNCHANGED <<file, lock, op, cursor, iface, stopping, daemon, damaged>>

\* GetNS and DelVeth.  Both may fail: DelVeth does when the interface is not
\* there (netlink's "Link not found" is not os.ErrNotExist).  A veth left without
\* an address by an ADD that stopped half-way is deleted like any other; NoIP
\* does not tell it from no interface, so the call may succeed there too.
DelVeth(c) ==
  /\ pc[c] = "net"
  /\ op[c] = "DEL"
  /\ \/ UNCHANGED <<iface, stopping>>
     \/ /\ iface' = [iface EXCEPT ![c] = NoIP]
        /\ stopping' = [stopping EXCEPT ![c] = FALSE]
  /\ Exit(c)
  /\ UNCHANGED <<file, lock, daemon, damaged>>

LoadCheck(c) ==
  /\ pc[c] = "load"
  /\ op[c] = "CHECK"
  /\ Goto(c, IF file.state = "whole" /\ Leased(file.data, c) # {}
               THEN "unlock" ELSE "unlockErr")
  /\ UNCHANGED <<file, lock, op, data, cursor, iface, stopping, daemon, damaged>>

\* CheckVeth only reads the interface.
CheckVeth(c) ==
  /\ pc[c] = "net"
  /\ op[c] = "CHECK"
  /\ Exit(c)
  /\ UNCHANGED <<file, lock, iface, stopping, daemon, damaged>>

-----------------------------------------------------------------------------
(* The environment: the runtime's time-out, and the daemon.                *)

\* The runtime kills a plugin that takes too long.  A process killed between
\* truncating the store and writing it leaves it torn.
Kill(c) ==
  /\ pc[c] # "idle"
  /\ Exit(c)
  /\ ReleaseLock(c)
  /\ damaged' = (damaged \/ pc[c] \in {"fill", "fillLast"})
  /\ UNCHANGED <<file, iface, stopping, daemon>>

\* AllocateTenant writes the store of the tenant without taking its lock, and
\* without looking whether there is one.
ProvisionTruncate ==
  /\ daemon \in {"absent", "again"}
  /\ daemon' = "writing"
  /\ damaged' = (damaged \/ daemon = "again")
  /\ file' = Torn
  /\ UNCHANGED <<lock, cni, iface, stopping>>

ProvisionFill ==
  /\ daemon = "writing"
  /\ daemon' = "done"
  /\ file' = Whole(FreshData)
  /\ UNCHANGED <<lock, cni, iface, stopping, damaged>>

\* The daemon dies.  The next one meets the tenant as a new one and provisions
\* it from the start.
DaemonCrash ==
  /\ daemon \in IF Restarts THEN {"writing", "done"} ELSE {"writing"}
  /\ daemon' = IF daemon = "done" THEN "again" ELSE "absent"
  /\ UNCHANGED <<file, lock, cni, iface, stopping, damaged>>

-----------------------------------------------------------------------------
Init ==
  /\ file = [state |-> "missing", data |-> EmptyData]
  /\ writer = Nobody
  /\ readers = {}
  /\ pc = [c \in Containers |-> "idle"]
  /\ op = [c \in Containers |-> "none"]
  /\ data = [c \in Containers |-> EmptyData]
  /\ cursor = [c \in Containers |-> NoIP]
  /\ iface = [c \in Containers |-> NoIP]
  /\ stopping = [c \in Containers |-> FALSE]
  /\ daemon = "absent"
  /\ damaged = FALSE

\* What a started plugin process does by itself.
Step(c) ==
  \/ OpenStore(c) \/ CreateEmpty(c) \/ FillEmpty(c)
  \/ TakeLock(c)
  \/ LoadAdd(c) \/ Probe(c) \/ LoadDel(c) \/ LoadCheck(c)
  \/ Truncate(c) \/ Fill(c) \/ FillLast(c)
  \/ Unlock(c)
  \/ SetupVeth(c) \/ DelVeth(c) \/ CheckVeth(c)

Provision == ProvisionTruncate \/ ProvisionFill

Next ==
  \/ \E c \in Containers : \/ \E o \in Ops : Invoke(c, o)
                           \/ Step(c)
                           \/ Kill(c)
  \/ Provision
  \/ DaemonCrash

Spec == Init /\ [][Next]_vars

\* A started process keeps running: the operating system schedules it.
Fairness == \A c \in Containers : WF_vars(Step(c))

FairSpec == Spec /\ Fairness

-----------------------------------------------------------------------------
(* Properties.                                                             *)

\* The process that has truncated the store and not written it back yet.
MidWrite(c) == pc[c] \in {"fill", "fillLast"}

\* The lease table that a crash-free continuation would leave in the file: the
\* writer's copy while it is writing, what the file holds otherwise.
Table ==
  IF \E c \in Containers : MidWrite(c)
    THEN data[CHOOSE c \in Containers : MidWrite(c)].ips
    ELSE file.data.ips

\* The flock works: whoever is between Lock and Unlock excludes every other
\* process, and CHECKs only share it among themselves.
LockDiscipline ==
  \A c, d \in Containers :
    (c # d /\ pc[c] \in Locked /\ pc[d] \in Locked) => op[c] = "CHECK" /\ op[d] = "CHECK"

\* A container never has two addresses of the tenant, whatever ADD is killed,
\* repeated, or racing with other containers' calls, and whatever is lost.
OneAddressPerContainer ==
  \A a, b \in Addr : Table[a] = Table[b] /\ Table[a] # Nobody => a = b

\* An address configured on an interface is leased to that very container until
\* the runtime starts to tear the container down.  Two running pods therefore
\* never carry the same address.
LeaseBacksInterface ==
  ~damaged => \A c \in Containers :
                iface[c] # NoIP /\ ~stopping[c] => Table[iface[c]] = c

\* A DEL that takes the interface down has given its address back: nothing
\* stays leased to a container that is gone.
NoLeakedLease ==
  [][\A c \in Containers :
       stopping[c] /\ ~stopping'[c] /\ ~damaged => \A a \in Addr : Table[a] # c]_vars

\* Every write of the store is one atomic change of a table of leases.
Leases == INSTANCE LeaseTable
            WITH Pool <- Addr, lease <- IF damaged THEN NoIPs ELSE Table,
                 intact <- ~damaged
ImplementsLeaseTable == Leases!Spec

\* A scan that has run off the end of the subnet: it never leaves the loop.
Spinning(c) == pc[c] = "probe" /\ cursor[c] = NoIP

Holds(c) == writer = c \/ c \in readers

\* Whoever takes the lock gives it back, unless its scan for a free address ran
\* off the end of the subnet.
LockReleased ==
  \A c \in Containers : Holds(c) ~> (~Holds(c) \/ Spinning(c))

\* A restarted daemon leaves the leases of the running containers alone.
RestartKeepsLeases ==
  [][~damaged /\ damaged' /\ daemon = "again" /\ daemon' = "writing" =>
       \A a \in Addr : Table[a] = Nobody]_vars

\* AllocateIP answers: with an address, or with "no more available IPs".
AllocateReturns ==
  \A c \in Containers : (pc[c] = "probe") ~> (pc[c] # "probe")

=============================================================================
