------------------------------ MODULE Language ------------------------------
(***************************************************************************)
(* The configuration language: how a configuration is rendered as lines    *)
(* (config.py, render_config), how a text is parsed (parse_config), and    *)
(* what one line does to a candidate in the configuration mode of a        *)
(* session (command_engine.py, _configure).                                *)
(*                                                                         *)
(* A line is its words and their argument: a number, the set of numbers    *)
(* that parse_ports reads, or a name.  The three lines for the settings of *)
(* a port (shutdown, speed, flow-control) are one, as are the address and  *)
(* the netmask; blank lines and the comments before the first section are  *)
(* left out, the header is a line.                                         *)
(***************************************************************************)
EXTENDS Planner, SequencesExt

CONSTANTS
  Stripped,     \* name -> what is left of it at the end of a stripped line
  OddSettings   \* settings with a speed that parse_config does not know

ASSUME LanguageConstants ==
  /\ Stripped \in [Names -> Names] /\ Stripped[""] = ""
  /\ OddSettings \subseteq Settings \ {DefaultSettings}
  /\ "" \in Names

Line(words, arg) == [words |-> words, arg |-> arg]
(* The lines that open a section of a text or a context of a session, and  *)
(* the lines that remove an entry, which only a session has.               *)
Heads == {"interface vlan", "vlan", "interface ethernet", "interface port-channel"}
Removals == {"no vlan", "no interface port-channel"}
Header == Line("! mercswitch-config v2", None)
Bang == Line("!", None)

(* What a line may open, and the commands inside it. *)
Context(kind, id) == [kind |-> kind, id |-> id]

(* The state of a reader of lines: the configuration so far, the section   *)
(* it is in, and whether the last line was accepted.                       *)
Reader(c, ctx) == [cand |-> c, ctx |-> ctx, ok |-> TRUE]
Reject(s) == [s EXCEPT !.ok = FALSE]
Accept(s, c) == [s EXCEPT !.cand = c, !.ok = TRUE]
Enter(s, c, kind, id) == [s EXCEPT !.cand = c, !.ctx = Context(kind, id), !.ok = TRUE]

EmptyVlan == [name |-> "", tagged |-> {}, untagged |-> {}]

----------------------------------------------------------------------------
(* port_vlan_memberships and set_port_vlan_memberships *)

Tagged(c, p) == {v \in VlanIds(c) : p \in c.vlans[v].tagged}
Untagged(c, p) == {v \in VlanIds(c) : p \in c.vlans[v].untagged}

Joined(members, p, joins) == IF joins THEN members \cup {p} ELSE members \ {p}

WithMemberships(c, p, tagged, untagged) ==
  [c EXCEPT !.vlans = [v \in Vids |->
     IF c.vlans[v] = None THEN None
     ELSE [c.vlans[v] EXCEPT !.tagged = Joined(@, p, v \in tagged),
                             !.untagged = Joined(@, p, v \in untagged)]]]

(* Mutant: undefined VLANs are noticed after the others have been set. *)
MembershipsThenCheck(s, c, p, tagged, untagged) ==
  LET done == WithMemberships(c, p, tagged, untagged)
  IN IF tagged \cup untagged \subseteq VlanIds(c) THEN Accept(s, done)
                                                  ELSE Reject([s EXCEPT !.cand = done])

(* Mutant: the VLANs of the port lose their other members. *)
MembershipsAlone(s, c, p, tagged, untagged) ==
  LET Only(joins) == IF joins THEN {p} ELSE {}
  IN IF tagged \cup untagged \subseteq VlanIds(c)
     THEN Accept(s, [c EXCEPT !.vlans = [v \in Vids |->
            IF c.vlans[v] = None THEN None
            ELSE [c.vlans[v] EXCEPT !.tagged = Only(v \in tagged),
                                    !.untagged = Only(v \in untagged)]]])
     ELSE Reject([s EXCEPT !.cand = c])

(* The candidate c a command has already changed is kept when the VLANs    *)
(* are found undefined.                                                    *)
SetMemberships(s, c, p, tagged, untagged) ==
  IF tagged \cup untagged \subseteq VlanIds(c)
  THEN Accept(s, WithMemberships(c, p, tagged, untagged))
  ELSE Reject([s EXCEPT !.cand = c])

----------------------------------------------------------------------------
(* render_config *)

VidOrder ==
  CHOOSE order \in [1..Cardinality(Vids) -> Vids] :
    \A i, j \in DOMAIN order : i < j => order[i] < order[j]
PortOrder == SetToSeq(PortIds)
GroupOrder == SetToSeq(Groups)

RenderManagement(c) ==
  <<Line("interface vlan", c.mgmt.vlan),
    IF c.mgmt.dhcp THEN Line("ip address dhcp", None) ELSE Line("ip address", c.mgmt.address),
    IF c.mgmt.gateway = None THEN Line("no ip default-gateway", None)
                             ELSE Line("ip default-gateway", c.mgmt.gateway),
    Line("management fallback-ip", c.fallback), Bang>>

RenderVlan(c, v) ==
  <<Line("vlan", v),
    IF c.vlans[v].name = "" THEN Line("no name", None) ELSE Line("name", c.vlans[v].name), Bang>>

(* Mutant: a port with one untagged VLAN is a hybrid when it is tagged too. *)
ModeWithoutTrunk(c, p) ==
  IF Untagged(c, p) = {c.pvid[p]} /\ Tagged(c, p) = {} THEN "access" ELSE "hybrid"

ModeOf(c, p) ==
  CASE Untagged(c, p) # {c.pvid[p]} -> "hybrid"
    [] Untagged(c, p) = {c.pvid[p]} /\ Tagged(c, p) # {} -> "trunk"
    [] OTHER -> "access"

(* Mutant: the native VLAN is left out of the allowed ones. *)
RenderWithoutNative(c, p) ==
  LET mode == ModeOf(c, p)
  IN CASE mode = "access" -> <<Line("switchport access vlan", c.pvid[p])>>
       [] mode = "trunk" -> <<Line("switchport trunk native vlan", c.pvid[p]),
                              Line("switchport trunk allowed vlan", Tagged(c, p))>>
       [] mode = "hybrid" -> <<Line("switchport hybrid pvid vlan", c.pvid[p]),
                               Line("switchport hybrid tagged vlan", Tagged(c, p)),
                               Line("switchport hybrid untagged vlan", Untagged(c, p))>>

RenderVlansOf(c, p) ==
  LET mode == ModeOf(c, p)
  IN CASE mode = "access" -> <<Line("switchport access vlan", c.pvid[p])>>
       [] mode = "trunk" -> <<Line("switchport trunk native vlan", c.pvid[p]),
                              Line("switchport trunk allowed vlan", Tagged(c, p) \cup {c.pvid[p]})>>
       [] mode = "hybrid" -> <<Line("switchport hybrid pvid vlan", c.pvid[p]),
                               Line("switchport hybrid tagged vlan", Tagged(c, p)),
                               Line("switchport hybrid untagged vlan", Untagged(c, p))>>

RenderPort(c, p) ==
  <<Line("interface ethernet", p), Line("port settings", c.port[p]),
    Line("switchport mode", ModeOf(c, p))>> \o RenderVlansOf(c, p) \o <<Bang>>

RenderLag(c, g) == <<Line("interface port-channel", g), Line("members ports", c.lags[g]), Bang>>

(* One section for each entry of a table, in the code's order. *)
RenderVlans(c) ==
  FlattenSeq([i \in DOMAIN VidOrder |->
                IF VidOrder[i] \in VlanIds(c) THEN RenderVlan(c, VidOrder[i]) ELSE <<>>])

RenderPorts(c) ==
  FlattenSeq([i \in DOMAIN PortOrder |->
                IF PortOrder[i] \in PortsOf(c) THEN RenderPort(c, PortOrder[i]) ELSE <<>>])

RenderLags(c) ==
  FlattenSeq([i \in DOMAIN GroupOrder |->
                IF GroupOrder[i] \in LagIds(c) THEN RenderLag(c, GroupOrder[i]) ELSE <<>>])

(* Mutant: the ports come before the VLANs they are in. *)
RenderPortsFirst(c) ==
  <<Header>> \o RenderManagement(c) \o RenderPorts(c) \o RenderVlans(c) \o RenderLags(c)

Render(c) ==
  <<Header>> \o RenderManagement(c) \o RenderVlans(c) \o RenderPorts(c) \o RenderLags(c)

----------------------------------------------------------------------------
(* The lines that a text and a session treat alike. *)

ManagementLine(s, l) ==
  LET c == s.cand
  IN CASE l.words = "ip address dhcp" ->
            Accept(s, [c EXCEPT !.mgmt.dhcp = TRUE, !.mgmt.address = None])
       [] l.words = "ip address" /\ l.arg # None ->
            Accept(s, [c EXCEPT !.mgmt.dhcp = FALSE, !.mgmt.address = l.arg])
       [] l.words = "ip default-gateway" -> Accept(s, [c EXCEPT !.mgmt.gateway = l.arg])
       [] l.words = "no ip default-gateway" -> Accept(s, [c EXCEPT !.mgmt.gateway = None])
       [] l.words = "management fallback-ip" -> Accept(s, [c EXCEPT !.fallback = l.arg])
       [] OTHER -> Reject(s)

(* The VLAN of the section may have been removed since it was entered. *)
VlanLine(s, l) ==
  LET c == s.cand
      v == s.ctx.id
  IN CASE l.words = "name" /\ c.vlans[v] # None /\ Stripped[l.arg] # "" ->
            Accept(s, [c EXCEPT !.vlans[v].name = Stripped[l.arg]])
       [] l.words = "no name" /\ c.vlans[v] # None -> Accept(s, [c EXCEPT !.vlans[v].name = ""])
       [] OTHER -> Reject(s)

LagLine(s, l) ==
  IF l.words = "members ports" /\ s.cand.lags[s.ctx.id] # None
  THEN Accept(s, [s.cand EXCEPT !.lags[s.ctx.id] = l.arg])
  ELSE Reject(s)

(* A line in a section or context that is not of a port. *)
OtherLine(s, l) ==
  CASE s.ctx.kind = "management" -> ManagementLine(s, l)
    [] s.ctx.kind = "vlan" -> VlanLine(s, l)
    [] s.ctx.kind = "lag" -> LagLine(s, l)

----------------------------------------------------------------------------
(* parse_config.  The switchport lines of a port are collected and carried *)
(* out after the last line; a part that is missing gets its default.       *)

NoSwitchport == [mode |-> None, access |-> None, native |-> None, allowed |-> None,
                 pvid |-> None, tagged |-> None, untagged |-> None]

(* Mutant: a text says nothing about 802.1Q, and nothing is assumed. *)
BlankWithoutDot1q ==
  [mgmt |-> None, fallback |-> FALSE, port |-> [p \in PortIds |-> None],
   pvid |-> [p \in PortIds |-> 1], vlans |-> [v \in Vids |-> None],
   lags |-> [g \in Groups |-> None], dot1q |-> None]

BlankConfig ==
  [mgmt |-> None, fallback |-> FALSE, port |-> [p \in PortIds |-> None],
   pvid |-> [p \in PortIds |-> 1], vlans |-> [v \in Vids |-> None],
   lags |-> [g \in Groups |-> None], dot1q |-> TRUE]

FreshManagement(v) == [vlan |-> v, dhcp |-> FALSE, address |-> None, gateway |-> None]

PartNamed(words) ==
  CASE words = "switchport mode" -> "mode"
    [] words = "switchport access vlan" -> "access"
    [] words = "switchport trunk native vlan" -> "native"
    [] words = "switchport trunk allowed vlan" -> "allowed"
    [] words = "switchport hybrid pvid vlan" -> "pvid"
    [] words = "switchport hybrid tagged vlan" -> "tagged"
    [] words = "switchport hybrid untagged vlan" -> "untagged"
    [] OTHER -> "none of them"

PortLineOfText(s, l) ==
  LET p == s.ctx.id
      part == PartNamed(l.words)
  IN CASE l.words = "port settings" /\ l.arg \notin OddSettings ->
            Accept(s, [s.cand EXCEPT !.port[p] = l.arg])
       [] part \in DOMAIN NoSwitchport -> [s EXCEPT !.parts[p][part] = l.arg]
       [] OTHER -> Reject(s)

NewSection(s, l) ==
  LET c == s.cand
      k == l.arg
  IN CASE l.words = "interface vlan" ->
            Enter(s, [c EXCEPT !.mgmt = FreshManagement(k), !.fallback = FALSE], "management", k)
       [] l.words = "vlan" -> Enter(s, [c EXCEPT !.vlans[k] = EmptyVlan], "vlan", k)
       [] l.words = "interface ethernet" ->
            Enter([s EXCEPT !.parts[k] = NoSwitchport],
                  [c EXCEPT !.port[k] = DefaultSettings], "port", k)
       [] l.words = "interface port-channel" -> Enter(s, [c EXCEPT !.lags[k] = {}], "lag", k)

ParseLine(s, l) ==
  CASE ~s.ok \/ l = Header -> s
    [] s.ok /\ l = Bang -> [s EXCEPT !.ctx = None]
    [] s.ok /\ l.words \in Heads -> NewSection(s, l)
    [] s.ok /\ l \notin {Header, Bang} /\ l.words \notin Heads ->
         IF s.ctx = None THEN Reject(s)
         ELSE IF s.ctx.kind = "port" THEN PortLineOfText(s, l) ELSE OtherLine(s, l)

Or(part, default) == IF part = None THEN default ELSE part

Switchport(s, p) ==
  LET parts == s.parts[p]
      WithPvid(v) == [s.cand EXCEPT !.pvid[p] = v]
      access == Or(parts.access, 1)
      native == Or(parts.native, 1)
      allowed == Or(parts.allowed, VlanIds(s.cand))
      pvid == Or(parts.pvid, 1)
  IN IF ~s.ok \/ s.cand.port[p] = None THEN s
     ELSE CASE parts.mode = "access" -> SetMemberships(s, WithPvid(access), p, {}, {access})
            [] parts.mode = "trunk" /\ native \in allowed ->
                 SetMemberships(s, WithPvid(native), p, allowed \ {native}, {native})
            [] parts.mode = "hybrid" ->
                 SetMemberships(s, WithPvid(pvid), p, Or(parts.tagged, {}),
                                Or(parts.untagged, {pvid}))
            [] OTHER -> Reject(s)

(* The candidate a text stands for, and whether it could be read. *)
Parse(text) ==
  LET start == [cand |-> BlankConfig, ctx |-> None, ok |-> text # <<>> /\ text[1] = Header,
                parts |-> [p \in PortIds |-> NoSwitchport]]
      read == FoldLeft(ParseLine, start, Tail(text))
      done == FoldLeft(Switchport, read, PortOrder)
  IN [cand |-> done.cand, ok |-> done.ok /\ done.cand.mgmt # None]

----------------------------------------------------------------------------
(* _configure, the lines of a session in configuration mode but "end",     *)
(* "exit" and "abort".                                                     *)

OrNew(entry, new) == IF entry = None THEN new ELSE entry

EnterLine(s, l) ==
  LET c == s.cand
      k == l.arg
  IN CASE l.words = "interface vlan" -> Enter(s, [c EXCEPT !.mgmt.vlan = k], "management", k)
       [] l.words = "vlan" -> Enter(s, [c EXCEPT !.vlans[k] = OrNew(@, EmptyVlan)], "vlan", k)
       [] l.words = "interface ethernet" ->
            Enter(s, [c EXCEPT !.port[k] = OrNew(@, DefaultSettings)], "port", k)
       [] l.words = "interface port-channel" -> Enter(s, [c EXCEPT !.lags[k] = OrNew(@, {})], "lag", k)

RemoveLine(s, l) ==
  CASE l.words = "no vlan" -> Accept(s, [s.cand EXCEPT !.vlans[l.arg] = None])
    [] l.words = "no interface port-channel" -> Accept(s, [s.cand EXCEPT !.lags[l.arg] = None])

(* Mutant: the native VLAN stays tagged on the port. *)
NativeStaysTagged(c, p, native) == (Tagged(c, p) \cup Untagged(c, p)) \cup {native}
TaggedBesides(c, p, native) == (Tagged(c, p) \cup Untagged(c, p)) \ {native}

PortLine(s, l) ==
  LET c == s.cand
      p == s.ctx.id
      a == l.arg
      WithPvid(v) == [c EXCEPT !.pvid[p] = v]
  IN IF c.port[p] = None THEN Reject(s)
     ELSE CASE l.words = "port settings" -> Accept(s, [c EXCEPT !.port[p] = a])
            [] l.words = "switchport mode" ->
                 IF a = "access" THEN SetMemberships(s, c, p, {}, {c.pvid[p]}) ELSE Accept(s, c)
            [] l.words = "switchport access vlan" -> SetMemberships(s, WithPvid(a), p, {}, {a})
            [] l.words = "switchport trunk native vlan" ->
                 SetMemberships(s, WithPvid(a), p, TaggedBesides(c, p, a), {a})
            [] l.words = "switchport trunk allowed vlan" /\ c.pvid[p] \in a ->
                 SetMemberships(s, c, p, a \ {c.pvid[p]}, {c.pvid[p]})
            [] l.words = "switchport hybrid pvid vlan" ->
                 SetMemberships(s, WithPvid(a), p, Tagged(c, p) \ {a}, Untagged(c, p) \cup {a})
            [] l.words = "switchport hybrid tagged vlan" ->
                 SetMemberships(s, c, p, a, Untagged(c, p))
            [] l.words = "switchport hybrid untagged vlan" ->
                 SetMemberships(s, c, p, Tagged(c, p), a)
            [] OTHER -> Reject(s)

Configure(s, l) ==
  CASE l.words \in Heads -> EnterLine(s, l)
    [] l.words \in Removals -> RemoveLine(s, l)
    [] l.words \notin Heads \cup Removals ->
         IF s.ctx = None THEN Reject(s)
         ELSE IF s.ctx.kind = "port" THEN PortLine(s, l) ELSE OtherLine(s, l)

(* The candidate after all the lines of a text have been typed; a line     *)
(* that is rejected is passed over.                                        *)
Typed(c, text) == FoldLeft(Configure, Reader(c, None), text).cand
=============================================================================
