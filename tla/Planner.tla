------------------------------ MODULE Planner ------------------------------
(***************************************************************************)
(* The pure part of a configuration commit: which candidates are valid     *)
(* (config.py, validate_candidate), which ordered changes turn the current *)
(* state of the switch into a candidate (planner.py, build_plan), what the *)
(* switch does with the request for one change (adapters/rpm_cgi.py,       *)
(* apply_change), what one configuration page of its web interface shows   *)
(* (read_state), and when a change counts as seen on those pages           *)
(* (client.py, _change_observed).                                          *)
(*                                                                         *)
(* A configuration is the managed part of a SwitchState, the fields that   *)
(* managed_hash covers: two configurations are equal exactly when their    *)
(* hashes are.  Link state, the fallback address and the identity of the   *)
(* switch are outside it.                                                  *)
(***************************************************************************)
EXTENDS Integers, FiniteSets

CONSTANTS
  Vids,             \* VLAN ids that may occur, the ones out of range included
  PortIds,          \* port numbers that may occur
  HwPorts,          \* the ports the capability pages list
  Groups,           \* LAG groups that may occur
  LagMembers,       \* supported group -> the ports eligible for it
  LagMin, LagMax,   \* members a LAG needs and may have
  MaxVlans,         \* size of the VLAN table of the switch
  Names, LongNames, \* VLAN names; those over 12 UTF-8 bytes
  Settings,         \* (enabled, speed, flow control) of a port
  Supported,        \* port -> the settings its hardware supports
  DefaultSettings,  \* what read_state assumes of a port missing from a page
  Addresses,        \* address and netmask, or gateway; malformed ones too
  WellFormed,       \* the addresses IPv4Address accepts
  None              \* no VLAN, no LAG, no port, empty address

ASSUME PlannerConstants ==
  /\ Vids \subseteq Int /\ 1 \in Vids
  /\ HwPorts \subseteq PortIds
  /\ DOMAIN LagMembers \subseteq Groups
  /\ LagMin \in Nat /\ LagMax \in Nat /\ MaxVlans \in Nat
  /\ LongNames \subseteq Names
  /\ DOMAIN Supported = HwPorts
  /\ DefaultSettings \in Settings
  /\ WellFormed \subseteq Addresses
  /\ None \notin Addresses \cup Settings

(* The configuration records of models.py. *)
Management == [vlan : Vids, dhcp : BOOLEAN,
               address : Addresses \cup {None}, gateway : Addresses \cup {None}]
Vlan == [name : Names, tagged : SUBSET PortIds, untagged : SUBSET PortIds]
Config == [mgmt : Management, fallback : BOOLEAN,
           port : [PortIds -> Settings \cup {None}],
           pvid : [PortIds -> Vids],
           vlans : [Vids -> Vlan \cup {None}],
           lags : [Groups -> (SUBSET PortIds) \cup {None}],
           dot1q : BOOLEAN]

VlanIds(c) == {v \in Vids : c.vlans[v] # None}
LagIds(c) == {g \in Groups : c.lags[g] # None}
PortsOf(c) == {p \in PortIds : c.port[p] # None}

(* The VLANs a configuration cannot do without, and that it has them. *)
Refs(c) == {c.mgmt.vlan} \cup {c.pvid[p] : p \in HwPorts}
Consistent(c) == Refs(c) \subseteq VlanIds(c)

----------------------------------------------------------------------------
(* validate_candidate, one conjunct per group of its checks. *)

ValidManagement(c) ==
  /\ c.mgmt.vlan \in 1..4094
  /\ c.mgmt.vlan \in VlanIds(c)
  /\ c.mgmt.dhcp \/ c.mgmt.address \in WellFormed
  /\ c.mgmt.gateway \in WellFormed \cup {None}

ValidVlans(c) ==
  /\ c.dot1q
  /\ 1 \in VlanIds(c)
  /\ Cardinality(VlanIds(c)) <= MaxVlans
  /\ \A v \in VlanIds(c) :
        /\ v \in 1..4094
        /\ c.vlans[v].name \notin LongNames
        /\ c.vlans[v].tagged \cap c.vlans[v].untagged = {}
        /\ c.vlans[v].tagged \cup c.vlans[v].untagged \subseteq HwPorts

ValidPorts(c) ==
  /\ PortsOf(c) = HwPorts
  /\ \A p \in HwPorts : /\ c.port[p] \in Supported[p]
                        /\ c.pvid[p] \in VlanIds(c)
                        /\ p \in c.vlans[c.pvid[p]].untagged

ValidLags(c) ==
  /\ LagIds(c) \subseteq DOMAIN LagMembers
  /\ \A g \in LagIds(c) : /\ Cardinality(c.lags[g]) \in LagMin..LagMax
                          /\ c.lags[g] \subseteq LagMembers[g]
  /\ \A g, h \in LagIds(c) : g # h => c.lags[g] \cap c.lags[h] = {}

Valid(c) == ValidManagement(c) /\ ValidVlans(c) /\ ValidPorts(c) /\ ValidLags(c)

----------------------------------------------------------------------------
(* build_plan.  A change names its phase, its action and the VLAN, port or *)
(* group it is for; the value it sets is the candidate's.                  *)

Change(n, a, k) == [phase |-> n, action |-> a, key |-> k]

EnableDot1q(cur, t) == IF t.dot1q /\ ~cur.dot1q
                       THEN {Change(5, "enable_dot1q", None)} ELSE {}

UpsertVlans(cur, t) == {Change(10, "upsert_vlan", v) :
                          v \in {w \in VlanIds(t) : cur.vlans[w] # t.vlans[w]}}

LagChanges(cur, t) == {Change(20, IF t.lags[g] = None THEN "delete_lag" ELSE "set_lag", g) :
                         g \in {h \in Groups : cur.lags[h] # t.lags[h]}}

SetPorts(cur, t) == {Change(30, "set_port", p) :
                       p \in {q \in PortsOf(t) : cur.port[q] # t.port[q]}}

SetPvids(cur, t) == {Change(40, "set_pvid", p) :
                       p \in {q \in PortsOf(t) : cur.pvid[q] # t.pvid[q]}}

SetFallback(cur, t) == IF cur.fallback = t.fallback THEN {}
                       ELSE {Change(45, "set_fallback_ip", None)}

ManagementChange(cur, t) == cur.mgmt # t.mgmt

SetManagement(cur, t) == IF ManagementChange(cur, t)
                         THEN {Change(50, "set_management", None)} ELSE {}

(* Mutant: old VLANs go before the management interface has left them. *)
DeleteVlansEarly(cur, t) == {Change(45, "delete_vlan", v) :
                               v \in (VlanIds(cur) \ VlanIds(t)) \ {1}}

DeleteVlans(cur, t) == {Change(60, "delete_vlan", v) :
                          v \in (VlanIds(cur) \ VlanIds(t)) \ {1}}

Plan(cur, t) ==
  UNION {EnableDot1q(cur, t), UpsertVlans(cur, t), LagChanges(cur, t), SetPorts(cur, t),
         SetPvids(cur, t), SetFallback(cur, t), SetManagement(cur, t), DeleteVlans(cur, t)}

PhasesOf(plan) == {ch.phase : ch \in plan}
(* Mutant: the changes of the phases after n are sent along. *)
StageAndLater(plan, n) == {ch \in plan : ch.phase >= n}
Stage(plan, n) == {ch \in plan : ch.phase = n}

----------------------------------------------------------------------------
(* What the switch makes of the request for change ch toward candidate t   *)
(* when its configuration is d: the configurations it may end up with.     *)
(* The requests are those of apply_change; their effect is the firmware's. *)
(* A DHCP lease may bring any address.  A VLAN table that is full takes    *)
(* no new entry.                                                           *)

NoRoomFor(v, d) == d.vlans[v] = None /\ Cardinality(VlanIds(d)) >= MaxVlans

SwitchedManagement(m) ==
  IF m.dhcp
  THEN [vlan : {m.vlan}, dhcp : {TRUE}, address : WellFormed, gateway : WellFormed \cup {None}]
  ELSE {m}

Effects(ch, t, d) ==
  CASE ch.action = "enable_dot1q" -> {[d EXCEPT !.dot1q = TRUE]}
    [] ch.action = "upsert_vlan" ->
         {IF NoRoomFor(ch.key, d) THEN d ELSE [d EXCEPT !.vlans[ch.key] = t.vlans[ch.key]]}
    [] ch.action = "set_lag" -> {[d EXCEPT !.lags[ch.key] = t.lags[ch.key]]}
    [] ch.action = "delete_lag" -> {[d EXCEPT !.lags[ch.key] = None]}
    [] ch.action = "set_port" -> {[d EXCEPT !.port[ch.key] = t.port[ch.key]]}
    [] ch.action = "set_pvid" -> {[d EXCEPT !.pvid[ch.key] = t.pvid[ch.key]]}
    [] ch.action = "set_fallback_ip" -> {[d EXCEPT !.fallback = t.fallback]}
    [] ch.action = "set_management" -> {[d EXCEPT !.mgmt = m] : m \in SwitchedManagement(t.mgmt)}
    [] ch.action = "delete_vlan" -> {[d EXCEPT !.vlans[ch.key] = None]}

----------------------------------------------------------------------------
(* read_state fetches six pages one after the other; page n of a switch    *)
(* whose configuration is d completes what the pages before it showed.     *)

Pages == 1..6

ReadPageInto(n, s, d) ==
  [mgmt     |-> IF n = 1 THEN d.mgmt ELSE s.mgmt,
   fallback |-> IF n = 2 THEN d.fallback ELSE s.fallback,
   port     |-> IF n = 3 THEN d.port ELSE s.port,
   lags     |-> IF n = 4 THEN d.lags ELSE s.lags,
   vlans    |-> IF n = 5 THEN d.vlans ELSE s.vlans,
   dot1q    |-> IF n = 5 THEN d.dot1q ELSE s.dot1q,
   pvid     |-> IF n = 6 THEN d.pvid ELSE s.pvid]

(* What read_state makes of a page that holds none of the variables it     *)
(* looks for, such as the login page.                                      *)
Defaults ==
  [mgmt     |-> [vlan |-> 1, dhcp |-> FALSE, address |-> None, gateway |-> None],
   fallback |-> FALSE,
   port     |-> [p \in PortIds |-> IF p \in HwPorts THEN DefaultSettings ELSE None],
   lags     |-> [g \in Groups |-> None],
   vlans    |-> [v \in Vids |-> None],
   dot1q    |-> FALSE,
   pvid     |-> [p \in PortIds |-> 1]]

(* _change_observed *)
Lease(m) == IF m.dhcp THEN None ELSE m.address

Observed(ch, t, s) ==
  \/ ch.action = "enable_dot1q" /\ s.dot1q
  \/ ch.action = "upsert_vlan" /\ s.vlans[ch.key] = t.vlans[ch.key]
  \/ ch.action = "delete_vlan" /\ s.vlans[ch.key] = None
  \/ ch.action = "set_lag" /\ s.lags[ch.key] = t.lags[ch.key]
  \/ ch.action = "delete_lag" /\ s.lags[ch.key] = None
  \/ ch.action = "set_port" /\ s.port[ch.key] = t.port[ch.key]
  \/ ch.action = "set_pvid" /\ s.pvid[ch.key] = t.pvid[ch.key]
  \/ ch.action = "set_fallback_ip" /\ s.fallback = t.fallback
  \/ /\ ch.action = "set_management"
     /\ s.mgmt.vlan = t.mgmt.vlan
     /\ s.mgmt.dhcp = t.mgmt.dhcp
     /\ Lease(s.mgmt) = Lease(t.mgmt)
     /\ s.mgmt.gateway = t.mgmt.gateway
=============================================================================
