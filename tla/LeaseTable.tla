----------------------------- MODULE LeaseTable -----------------------------
(***************************************************************************)
(* What the IP allocator of one tenant on one node promises to the         *)
(* container runtime: a table from addresses to the containers that lease  *)
(* them, changed by two atomic operations.  Grant gives a free address to  *)
(* a container that has none; Release takes back the address of a          *)
(* container.  The table may be lost as a whole (Lose), after which nothing *)
(* is promised any more: the files that hold it are rewritten in place.     *)
(*                                                                         *)
(* TenantIPAM implements this module under the refinement mapping given     *)
(* there; nothing here is translated from a particular function.            *)
(***************************************************************************)
CONSTANTS
  Containers,  \* container (sandbox) identifiers
  Pool,        \* every address of the tenant's subnet
  Hosts,       \* the addresses a container may be given
  Nobody       \* the owner of a free address

VARIABLES
  lease,       \* lease[a] = the container that leases address a, or Nobody
  intact       \* FALSE once the table has been lost

Free == [a \in Pool |-> Nobody]

Init ==
  /\ lease = Free
  /\ intact = TRUE

\* A container that leases nothing is given an address nobody leases.
Grant(c, a) ==
  /\ intact
  /\ lease[a] = Nobody
  /\ \A b \in Pool : lease[b] # c
  /\ lease' = [lease EXCEPT ![a] = c]
  /\ UNCHANGED intact

\* The address a container leases becomes free.
Release(c, a) ==
  /\ intact
  /\ lease[a] = c
  /\ lease' = [lease EXCEPT ![a] = Nobody]
  /\ UNCHANGED intact

\* The table is gone, with every lease in it.
Lose ==
  /\ intact
  /\ intact' = FALSE
  /\ lease' = Free

Next ==
  \/ \E c \in Containers, a \in Hosts : Grant(c, a)
  \/ \E c \in Containers, a \in Pool : Release(c, a)
  \/ Lose

Spec == Init /\ [][Next]_<<lease, intact>>

=============================================================================
