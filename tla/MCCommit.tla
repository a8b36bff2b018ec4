------------------------------ MODULE MCCommit ------------------------------
(***************************************************************************)
(* Small switches for Commit: two ports, one LAG, VLANs 1, 10 and 20, two  *)
(* static addresses.  The configurations below differ in everything a plan *)
(* can change, so that between them every phase of build_plan occurs.      *)
(***************************************************************************)
EXTENDS Commit, TLC

CONSTANTS p1, p2, g1, auto, off, a1, a2, nowhere

MCVids == {1, 10, 20}
MCPorts == {p1, p2}
MCGroups == {g1}
MCLagMembers == [g \in MCGroups |-> MCPorts]
MCSupported == [p \in MCPorts |-> {auto, off}]
MCAddresses == {a1, a2, nowhere}

Static(vid, a, gw) == [vlan |-> vid, dhcp |-> FALSE, address |-> a, gateway |-> gw]
ByDhcp(vid, a, gw) == [vlan |-> vid, dhcp |-> TRUE, address |-> a, gateway |-> gw]
Access(ports) == [name |-> "", tagged |-> {}, untagged |-> ports]
VlanTable(table) == [v \in MCVids |-> IF v \in DOMAIN table THEN table[v] ELSE None]

(* Both ports in VLAN 1. *)
Flat == [mgmt |-> Static(1, a1, None), fallback |-> FALSE,
         port |-> [p \in MCPorts |-> auto], pvid |-> [p \in MCPorts |-> 1],
         vlans |-> VlanTable(1 :> Access(MCPorts)),
         lags |-> [g \in MCGroups |-> None], dot1q |-> TRUE]

(* The same switch before 802.1Q was enabled. *)
Untagged == [Flat EXCEPT !.dot1q = FALSE]

(* Port p1 moved to VLAN 10, and everything but the address changed. *)
Split == [mgmt |-> Static(10, a1, None), fallback |-> TRUE,
          port |-> [p \in MCPorts |-> IF p = p1 THEN off ELSE auto],
          pvid |-> [p \in MCPorts |-> IF p = p1 THEN 10 ELSE 1],
          vlans |-> VlanTable(1 :> Access({p2}) @@ 10 :> Access({p1})),
          lags |-> [g \in MCGroups |-> None], dot1q |-> TRUE]

(* Everything on VLAN 20, at another address, the ports in one LAG. *)
Moved == [mgmt |-> Static(20, a2, None), fallback |-> FALSE,
          port |-> [p \in MCPorts |-> auto], pvid |-> [p \in MCPorts |-> 20],
          vlans |-> VlanTable(1 :> Access({}) @@ 20 :> Access(MCPorts)),
          lags |-> [g \in MCGroups |-> MCPorts], dot1q |-> TRUE]

(* The same at the first address. *)
Aside == [Moved EXCEPT !.mgmt.address = a1]

(* A candidate that names VLANs it does not define. *)
Dangling == [Flat EXCEPT !.mgmt.vlan = 10, !.pvid[p1] = 20]

(* Split with its address from DHCP. *)
AskDhcp == [Split EXCEPT !.mgmt = ByDhcp(10, None, None)]

OrderCandidates == {Split, Moved, Dangling}
OrderDevices == {Untagged, Split, Aside}
FlatAndAside == {Flat, Aside}
FlatOnly == {Flat}
SplitOnly == {Split}
DhcpCandidates == {AskDhcp}
AllCandidates == OrderCandidates \cup DhcpCandidates
=============================================================================
