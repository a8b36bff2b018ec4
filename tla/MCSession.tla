----------------------------- MODULE MCSession -----------------------------
(***************************************************************************)
(* Small sessions: two ports, one LAG, VLANs 1 and 10, one address.  The   *)
(* texts are rendered configurations, whole and with one line missing.     *)
(***************************************************************************)
EXTENDS Session

CONSTANTS p1, p2, g1, auto, off, odd, a1

MCVids == {1, 10}
BothPorts == {p1, p2}
MCGroups == {g1}
MCLagMembers == [g \in MCGroups |-> PortIds]
MCSupported == [p \in PortIds |-> {auto}]
MCNames == {"", "users", "users "}
MCStripped == [n \in MCNames |-> IF n = "users " THEN "users" ELSE n]

NoLags == [g \in MCGroups |-> None]
VlanTable(table) == [v \in MCVids |-> IF v \in DOMAIN table THEN table[v] ELSE None]
Members(tagged, untagged) == [name |-> "", tagged |-> tagged, untagged |-> untagged]

(* Both ports in VLAN 1. *)
Flat == [mgmt |-> FreshManagement(1), fallback |-> FALSE,
         port |-> [p \in PortIds |-> auto], pvid |-> [p \in PortIds |-> 1],
         vlans |-> VlanTable(1 :> Members({}, PortIds)), lags |-> NoLags, dot1q |-> TRUE]
Home == [Flat EXCEPT !.mgmt.address = a1]

(* A trunk and a hybrid port, and a LAG. *)
Mixed == [Home EXCEPT !.vlans = VlanTable(1 :> Members({}, PortIds) @@ 10 :> Members({p1}, PortIds \ {p1})),
                      !.lags = [g \in MCGroups |-> PortIds]]
Named == [Mixed EXCEPT !.vlans[10].name = "users"]

WithoutOneLine(text) == {RemoveAt(text, i) : i \in 1..Len(text)}

Away == [Named EXCEPT !.mgmt = [vlan |-> 10, dhcp |-> TRUE, address |-> None, gateway |-> a1],
                      !.fallback = TRUE]

MCRunning == {Home, Away}
MCTexts == {Render(Named)} \cup WithoutOneLine(Render(Named))

SwitchportWords ==
  {"vlan", "no vlan", "interface ethernet", "switchport mode", "switchport access vlan",
   "switchport trunk native vlan", "switchport trunk allowed vlan", "switchport hybrid pvid vlan",
   "switchport hybrid tagged vlan", "switchport hybrid untagged vlan", "!"}

ManagementWords ==
  {"interface vlan", "ip address dhcp", "ip address", "ip default-gateway",
   "no ip default-gateway", "management fallback-ip", "vlan", "no vlan", "!"}

EntryWords ==
  {"vlan", "no vlan", "name", "no name", "interface ethernet", "port settings",
   "interface port-channel", "no interface port-channel", "members ports"}

MCWordGroups == {SwitchportWords, ManagementWords, EntryWords}
=============================================================================
