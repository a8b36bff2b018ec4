------------------------------ MODULE Session ------------------------------
(***************************************************************************)
(* One session of the command engine (command_engine.py, CommandSession),  *)
(* opened over SSH (ssh_server.py) or by mercswitchctl shell (cli.py): its *)
(* role, its two modes, the context of the configuration mode and the      *)
(* candidate that the lines typed there edit.  What a commit does to the   *)
(* switch is in Commit, what sessions do to each other in Daemon; here a   *)
(* commit only hands its outcome back.  Lines that are rejected raise an   *)
(* exception that the session prints, unless said otherwise.               *)
(***************************************************************************)
EXTENDS Language

CONSTANTS
  Running,    \* configurations the switch may have when the session opens
  WordGroups, \* bound: a session types only words of one of these sets
  Texts,      \* bound: the texts loaded in place of the candidate
  Commits     \* bound: the candidates whose commits are considered

VARIABLES
  role,       \* "admin" or "viewer"
  remote,     \* over SSH, where only pasted text is loaded, not a local file
  running,    \* session.running
  candidate,  \* session.candidate
  base,       \* the running configuration candidate.base_hash stands for
  configMode, context, closed,
  words       \* the word group of this session

vars == <<role, remote, running, candidate, base, configMode, context, closed, words>>

Words ==
  Heads \cup Removals \cup
  {"name", "no name", "ip address dhcp", "ip address", "ip default-gateway",
   "no ip default-gateway", "management fallback-ip", "port settings", "members ports", "!",
   "switchport mode", "switchport access vlan", "switchport trunk native vlan",
   "switchport trunk allowed vlan", "switchport hybrid pvid vlan",
   "switchport hybrid tagged vlan", "switchport hybrid untagged vlan"}

ASSUME SessionConstants == Running \subseteq Config /\ \A group \in WordGroups : group \subseteq Words
(* The arguments a line with these words may have. *)
Arguments(w) ==
  CASE w \in {"interface vlan", "vlan", "no vlan", "switchport access vlan",
                  "switchport trunk native vlan", "switchport hybrid pvid vlan"} -> Vids
    [] w \in {"switchport trunk allowed vlan", "switchport hybrid tagged vlan",
                  "switchport hybrid untagged vlan"} -> SUBSET Vids
    [] w = "interface ethernet" -> PortIds
    [] w \in {"interface port-channel", "no interface port-channel"} -> Groups
    [] w = "members ports" -> SUBSET PortIds
    [] w \in {"ip address", "ip default-gateway"} -> Addresses
    [] w = "management fallback-ip" -> BOOLEAN
    [] w = "name" -> Names
    [] w = "port settings" -> Settings
    [] w = "switchport mode" -> {"access", "trunk", "hybrid"}
    [] w \in {"ip address dhcp", "no ip default-gateway", "no name", "!"} -> {None}

(* Texts are read line by line; there are finitely many VLANs, ports and   *)
(* LAGs to write one.                                                      *)
IsLine(l) ==
  \/ l = Header
  \/ l = Line(l.words, l.arg) /\ l.words \in Words /\ l.arg \in Arguments(l.words)

ASSUME TextConstants ==
  /\ IsFiniteSet(Vids) /\ IsFiniteSet(PortIds) /\ IsFiniteSet(Groups)
  /\ \A text \in Texts : /\ Len(text) \in Nat \ {0} /\ text = [i \in 1..Len(text) |-> text[i]]
                         /\ \A i \in 1..Len(text) : IsLine(text[i])

Contexts ==
  {Context("management", v) : v \in Vids} \cup {Context("vlan", v) : v \in Vids}
    \cup {Context("port", p) : p \in PortIds} \cup {Context("lag", g) : g \in Groups}

(* None is a value of its own. *)
ASSUME NoneIsApart ==
  /\ None \notin Vlan \cup Management \cup Contexts
  /\ \A v \in Vids : v # None
  /\ \A vids \in SUBSET Vids : vids # None
  /\ \A ports \in SUBSET PortIds : ports # None

TypeOK ==
  /\ role \in {"admin", "viewer"} /\ remote \in BOOLEAN
  /\ running \in Config /\ candidate \in Config /\ base \in Config
  /\ configMode \in BOOLEAN /\ closed \in BOOLEAN /\ words \in WordGroups
  /\ context \in Contexts \cup {None}

(* The control program has no roles: its user is an admin. *)
Init ==
  /\ remote \in BOOLEAN
  /\ role \in (IF remote THEN {"admin", "viewer"} ELSE {"admin"})
  /\ running \in Running
  /\ words \in WordGroups
  /\ candidate = running /\ base = running
  /\ configMode = FALSE /\ context = None /\ closed = FALSE

Same == UNCHANGED <<role, remote, words>>

(* A session that has ended is gone with its candidate. *)
End ==
  /\ closed' = TRUE /\ configMode' = FALSE /\ context' = None
  /\ candidate' = running /\ base' = running

----------------------------------------------------------------------------
(* Outside the configuration mode. *)

ConfigureTerminal ==
  /\ ~closed /\ ~configMode /\ role = "admin"
  /\ configMode' = TRUE
  /\ UNCHANGED <<running, candidate, base, context, closed>> /\ Same

AbortCandidate ==
  /\ ~closed /\ ~configMode /\ role = "admin"
  /\ candidate' = running /\ base' = running
  /\ UNCHANGED <<running, configMode, context, closed>> /\ Same

(* Mutant: the candidate keeps the hash it was made for. *)
CommitKeepsBase ==
  /\ ~closed /\ ~configMode /\ role = "admin"
  /\ candidate \in Commits /\ Valid(candidate)
  /\ running' = candidate
  /\ UNCHANGED <<candidate, base, configMode, context, closed>> /\ Same

(* A commit that fails leaves the session as it is; one that succeeds      *)
(* returns a state equal to the candidate (client.py, commit).             *)
CommitSucceeds ==
  /\ ~closed /\ ~configMode /\ role = "admin"
  /\ candidate \in Commits /\ Valid(candidate)
  /\ running' = candidate /\ base' = candidate
  /\ UNCHANGED <<candidate, configMode, context, closed>> /\ Same

Quit ==
  /\ ~closed /\ ~configMode
  /\ End
  /\ UNCHANGED running /\ Same

(* The other end of an SSH session may hang up at any time. *)
HangUp ==
  /\ ~closed
  /\ End
  /\ UNCHANGED running /\ Same

----------------------------------------------------------------------------
(* A text in place of the candidate.  The control program reads it from a  *)
(* file, outside the configuration mode.  The SSH server reads it in       *)
(* either mode and outside the handler that keeps a session alive: a       *)
(* viewer, or a text that cannot be read, ends the session.                *)

Readings == {Parse(text) : text \in Texts}

Load(read) ==
  /\ ~closed /\ (remote \/ ~configMode)
  /\ role = "admin" /\ read.ok
  /\ candidate' = read.cand /\ base' = running
  /\ UNCHANGED <<running, configMode, context, closed>> /\ Same

CannotLoad(read) ==
  /\ ~closed /\ remote
  /\ role = "viewer" \/ ~read.ok
  /\ End
  /\ UNCHANGED running /\ Same

----------------------------------------------------------------------------
(* The configuration mode. *)

TypeLine(l) ==
  /\ ~closed /\ configMode
  /\ LET s == Configure(Reader(candidate, context), l)
     IN candidate' = s.cand /\ context' = s.ctx
  /\ UNCHANGED <<running, base, configMode, closed>> /\ Same

(* "end" and "exit" alike leave the context first, then the mode. *)
Leave ==
  /\ ~closed /\ configMode
  /\ context' = None
  /\ configMode' = (context # None)
  /\ UNCHANGED <<running, candidate, base, closed>> /\ Same

(* Mutant: the context outlives the configuration mode. *)
AbortKeepsContext ==
  /\ ~closed /\ configMode
  /\ candidate' = running /\ base' = running
  /\ configMode' = FALSE
  /\ UNCHANGED <<running, context, closed>> /\ Same

AbortConfigure ==
  /\ ~closed /\ configMode
  /\ candidate' = running /\ base' = running
  /\ context' = None /\ configMode' = FALSE
  /\ UNCHANGED <<running, closed>> /\ Same

Next ==
  \/ ConfigureTerminal \/ AbortCandidate \/ CommitSucceeds \/ Quit \/ HangUp
  \/ \E read \in Readings : Load(read) \/ CannotLoad(read)
  \/ \E w \in words : \E a \in Arguments(w) : TypeLine(Line(w, a))
  \/ Leave \/ AbortConfigure

Spec == Init /\ [][Next]_vars

----------------------------------------------------------------------------
(* Properties. *)

(* The configurations that a text can carry over: the address is given     *)
(* exactly when it is not from DHCP, names have no blanks at their end, no *)
(* speed is outside the language, 802.1Q is on, ports are those of the     *)
(* switch, and no port is tagged in the VLAN of its PVID alone.            *)
Printable(c) ==
  /\ c.mgmt.dhcp <=> c.mgmt.address = None
  /\ \A v \in VlanIds(c) : Stripped[c.vlans[v].name] = c.vlans[v].name
  /\ \A v \in VlanIds(c) : c.vlans[v].tagged \cup c.vlans[v].untagged \subseteq PortsOf(c)
  /\ \A p \in PortsOf(c) : c.port[p] \notin OddSettings
  /\ \A p \in PortsOf(c) : ModeOf(c, p) = "trunk" => c.pvid[p] \notin Tagged(c, p)
  /\ \A p \in PortIds \ PortsOf(c) : c.pvid[p] = 1
  /\ c.dot1q

(* What is shown can be loaded again and means the same, for every         *)
(* candidate a session can reach by any sequence of commands: parse_config *)
(* after render_config loses nothing (tests/test_config.py:12).            *)
RoundTrip == Printable(candidate) => Parse(Render(candidate)) = [cand |-> candidate, ok |-> TRUE]

(* A session that types the running configuration over whatever candidate  *)
(* it has made, line by line, gets the running configuration back, save    *)
(* for VLANs and LAGs that it has added, and no port of the running        *)
(* configuration is left in an added VLAN.  The order of the sections of   *)
(* render_config and of the switchport lines of a port matters here.       *)
TypingRestores ==
  Printable(running) =>
    LET c == Typed(candidate, Render(running))
        Ports == PortsOf(running)
    IN /\ c.mgmt = running.mgmt /\ c.fallback = running.fallback
       /\ \A p \in Ports : c.port[p] = running.port[p] /\ c.pvid[p] = running.pvid[p]
       /\ \A v \in VlanIds(running) : c.vlans[v] # None /\ c.vlans[v].name = running.vlans[v].name
       /\ \A p \in Ports : /\ Tagged(c, p) = Tagged(running, p)
                           /\ Untagged(c, p) = Untagged(running, p)
       /\ \A g \in LagIds(running) : c.lags[g] = running.lags[g]

(* "MercSwitch renders `switchport mode hybrid` only for firmware states   *)
(* which cannot be represented as access or trunk" (README.md:171-172): no *)
(* access or trunk lines would put such a port into its VLANs and PVID.    *)
HybridOnlyIfNeeded ==
  \A p \in PortsOf(candidate) :
    ModeOf(candidate, p) = "hybrid" =>
      \A pvid \in VlanIds(candidate) : \A allowed \in SUBSET VlanIds(candidate) :
        WithMemberships([candidate EXCEPT !.pvid[p] = pvid], p, allowed \ {pvid}, {pvid}) # candidate

PortLines == {w \in words : PartNamed(w) \in DOMAIN NoSwitchport \/ w = "port settings"}

(* A line typed for one port changes no other port's settings, PVID or     *)
(* VLANs, defines or removes no VLAN, and touches nothing else.            *)
PortLineIsLocal ==
  (configMode /\ context # None /\ context.kind = "port") =>
    \A w \in PortLines : \A a \in Arguments(w) :
      LET p == context.id
          c == Configure(Reader(candidate, context), Line(w, a)).cand
          Others == PortIds \ {p}
      IN /\ VlanIds(c) = VlanIds(candidate)
         /\ \A q \in Others : /\ Tagged(c, q) = Tagged(candidate, q)
                              /\ Untagged(c, q) = Untagged(candidate, q)
         /\ [c EXCEPT !.port[p] = candidate.port[p], !.pvid[p] = candidate.pvid[p],
                      !.vlans = candidate.vlans] = candidate

(* A switchport line that is rejected leaves the VLANs of every port as    *)
(* they were.  It may have replaced the PVID: the code does so before the  *)
(* VLANs are found undefined (command_engine.py:450, 456, 476).            *)
RejectedKeepsVlans ==
  (configMode /\ context # None) =>
    \A w \in words : \A a \in Arguments(w) :
      LET s == Configure(Reader(candidate, context), Line(w, a))
      IN ~s.ok => [s.cand EXCEPT !.pvid = candidate.pvid] = candidate

(* An access or trunk line that is accepted leaves the port as             *)
(* validate_candidate wants it, however its VLANs were mixed up before:    *)
(* untagged in its PVID, and in no VLAN both tagged and untagged.          *)
AccessAndTrunkAreValid ==
  (configMode /\ context # None /\ context.kind = "port") =>
    \A w \in words \cap {"switchport access vlan", "switchport trunk native vlan",
                         "switchport trunk allowed vlan"} :
      \A a \in Arguments(w) :
        LET p == context.id
            s == Configure(Reader(candidate, context), Line(w, a))
        IN s.ok => /\ Untagged(s.cand, p) = {s.cand.pvid[p]}
                   /\ Tagged(s.cand, p) \cap Untagged(s.cand, p) = {}

(* A context never outlives the configuration mode: the next visit starts  *)
(* outside every section, not in the middle of an old one.                 *)
NoStaleContext == ~configMode => context = None

(* The drift check of a commit compares the switch with what the session   *)
(* shows as the running configuration, whatever was loaded, aborted or     *)
(* committed since; and a viewer's candidate is the running configuration. *)
BaseIsRunning == base = running /\ (role = "viewer" => candidate = running /\ ~configMode)
=============================================================================
