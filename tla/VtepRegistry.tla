---------------------------- MODULE VtepRegistry ----------------------------
(***************************************************************************)
(* What Spec.Nodes of a Tenant object promises to the nodes that read it:   *)
(* every listed node has one register for its VTEP, which that node alone   *)
(* writes, each time with a MAC address it has never published before.      *)
(* Users list nodes and take them off; nothing else changes a register.     *)
(***************************************************************************)
EXTENDS Naturals, SequencesExt

CONSTANTS
  Nodes,
  Unset   \* the register of a node that has published nothing

VARIABLE list   \* Spec.Nodes: a sequence of [name, vtep], no name twice

\* How often its node had published when it wrote register v.
Age(v) == IF v = Unset THEN 0 ELSE v.mac[2]

Names(l) == {l[i].name : i \in DOMAIN l}

Empty == list = <<>>

\* The object comes into being, with some nodes in it.
Create ==
  /\ Empty
  /\ \A i \in DOMAIN list' : list'[i].name \in Nodes /\ list'[i].vtep = Unset
  /\ \A i, j \in DOMAIN list' : list'[i].name = list'[j].name => i = j

Join(n) ==
  /\ n \notin Names(list)
  /\ list' = Append(list, [name |-> n, vtep |-> Unset])

Leave(n) ==
  \E i \in DOMAIN list : list[i].name = n /\ list' = RemoveAt(list, i)

Write(n) ==
  \E i \in DOMAIN list :
    /\ list[i].name = n
    /\ DOMAIN list' = DOMAIN list
    /\ \A j \in DOMAIN list \ {i} : list'[j] = list[j]
    /\ list'[i].name = n /\ list'[i].vtep # Unset
    /\ list'[i].vtep.mac[1] = n /\ list'[i].vtep.node = n
    /\ Age(list'[i].vtep) > Age(list[i].vtep)

Init == Empty
Next == Create \/ \E n \in Nodes : Join(n) \/ Leave(n) \/ Write(n)

Spec == Init /\ [][Next]_list

=============================================================================
