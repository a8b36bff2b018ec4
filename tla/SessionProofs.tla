---------------------------- MODULE SessionProofs ----------------------------
(***************************************************************************)
(* Proofs about Session and the lines of Language, for any VLANs, ports,   *)
(* LAGs, names, settings and addresses, and sessions of any length.        *)
(***************************************************************************)
EXTENDS Session, SetInduction

(* A context never outlives the configuration mode, however a session goes *)
(* in and out of sections, aborts, loads and ends.                         *)
THEOREM ContextIsFresh == Spec => []NoStaleContext
<1>1. Init => NoStaleContext
  BY DEF Init, NoStaleContext
<1>2. NoStaleContext /\ [Next]_vars => NoStaleContext'
  BY DEF NoStaleContext, Next, vars, ConfigureTerminal, AbortCandidate, CommitSucceeds, Quit, HangUp,
     End, Load, CannotLoad, TypeLine, Leave, AbortConfigure
<1> QED
  BY <1>1, <1>2, PTL DEF Spec

(* The base of a candidate is the running configuration of the session,    *)
(* whatever was loaded, aborted or committed since, so the drift check of  *)
(* a commit compares the switch with what the session shows; and a viewer  *)
(* never has another candidate than that.                                  *)
THEOREM BaseFollowsRunning == Spec => []BaseIsRunning
<1>1. Init => BaseIsRunning
  BY DEF Init, BaseIsRunning
<1>2. BaseIsRunning /\ [Next]_vars => BaseIsRunning'
  BY DEF BaseIsRunning, Next, vars, Same, ConfigureTerminal, AbortCandidate, CommitSucceeds, Quit,
     HangUp, End, Load, CannotLoad, TypeLine, Leave, AbortConfigure
<1> QED
  BY <1>1, <1>2, PTL DEF Spec

----------------------------------------------------------------------------
(* The lines of the configuration mode.  Each lemma says what one kind of  *)
(* line makes of a reader whose configuration and context have their type. *)

Readers == [cand : Config, ctx : Contexts \cup {None}, ok : BOOLEAN]

LEMMA ContextIs ==
  ASSUME NEW ctx \in Contexts
  PROVE  /\ ctx.kind \in {"management", "vlan", "port", "lag"}
         /\ ctx.kind = "vlan" => ctx.id \in Vids
         /\ ctx.kind = "port" => ctx.id \in PortIds
         /\ ctx.kind = "lag" => ctx.id \in Groups
BY DEF Contexts, Context

LEMMA ReaderIs ==
  ASSUME NEW s \in Readers
  PROVE  /\ s.cand \in Config /\ s.ctx \in Contexts \cup {None}
         /\ Reject(s) = [cand |-> s.cand, ctx |-> s.ctx, ok |-> FALSE]
         /\ Reject(s) \in Readers
         /\ \A c \in Config : /\ Accept(s, c) = [cand |-> c, ctx |-> s.ctx, ok |-> TRUE]
                              /\ Accept(s, c) \in Readers /\ Accept(s, c).ok = TRUE
         /\ \A c \in Config : \A kind, id :
              Enter(s, c, kind, id) = [cand |-> c, ctx |-> Context(kind, id), ok |-> TRUE]
<1>1. s.cand \in Config /\ s.ctx \in Contexts \cup {None}
  BY DEF Readers
<1>2. Reject(s) = [cand |-> s.cand, ctx |-> s.ctx, ok |-> FALSE]
  <2>1. Reject(s) = [s EXCEPT !.ok = FALSE]
    BY DEF Reject
  <2> QED
    BY <2>1 DEF Readers
<1>3. ASSUME NEW c \in Config
      PROVE  Accept(s, c) = [cand |-> c, ctx |-> s.ctx, ok |-> TRUE]
  <2> DEFINE t == [s EXCEPT !.cand = c]
  <2>1. t \in Readers /\ t.cand = c /\ t.ctx = s.ctx
    BY <1>3 DEF Readers
  <2>2. Accept(s, c) = [t EXCEPT !.ok = TRUE]
    BY DEF Accept
  <2> HIDE DEF t
  <2> QED
    BY <2>1, <2>2 DEF Readers
<1>4. ASSUME NEW c \in Config, NEW kind, NEW id
      PROVE  Enter(s, c, kind, id) = [cand |-> c, ctx |-> Context(kind, id), ok |-> TRUE]
  <2> DEFINE t == [s EXCEPT !.cand = c]
             u == [t EXCEPT !.ctx = Context(kind, id)]
  <2>1. t \in Readers /\ t.cand = c
    BY <1>4 DEF Readers
  <2>2. Enter(s, c, kind, id) = [u EXCEPT !.ok = TRUE]
    BY DEF Enter
  <2> HIDE DEF t
  <2>3. u = [cand |-> c, ctx |-> Context(kind, id), ok |-> t.ok]
    BY <2>1 DEF Readers
  <2> HIDE DEF u
  <2> QED
    BY <2>2, <2>3
<1>5. Reject(s) \in Readers
  BY <1>1, <1>2 DEF Readers
<1>6. ASSUME NEW c \in Config
      PROVE  Accept(s, c) \in Readers
  <2>1. [cand |-> c, ctx |-> s.ctx, ok |-> TRUE] \in Readers
    BY <1>1, <1>6 DEF Readers
  <2> QED
    BY <1>3, <1>6, <2>1
<1>7. \A c \in Config : /\ Accept(s, c) = [cand |-> c, ctx |-> s.ctx, ok |-> TRUE]
                         /\ Accept(s, c) \in Readers /\ Accept(s, c).ok = TRUE
  BY <1>3, <1>6
<1>8. \A c \in Config : \A kind, id :
        Enter(s, c, kind, id) = [cand |-> c, ctx |-> Context(kind, id), ok |-> TRUE]
  BY <1>4
<1> QED
  BY <1>1, <1>2, <1>5, <1>7, <1>8, Zenon

(* The configurations of a text that is half read may lack the management. *)
Draft == [mgmt : Management \cup {None}, fallback : BOOLEAN,
          port : [PortIds -> Settings \cup {None}],
          pvid : [PortIds -> Vids],
          vlans : [Vids -> Vlan \cup {None}],
          lags : [Groups -> (SUBSET PortIds) \cup {None}],
          dot1q : BOOLEAN]

LEMMA DraftIs ==
  /\ Config \subseteq Draft
  /\ \A c \in Draft : c \in Config <=> c.mgmt \in Management
BY DEF Config, Draft

(* The VLANs of a port are set one by one, and nothing else is. *)
LEMMA MembershipsAre ==
  ASSUME NEW c \in Draft, NEW p \in PortIds, NEW tagged, NEW untagged
  PROVE  LET d == WithMemberships(c, p, tagged, untagged)
         IN /\ d \in Draft /\ d.mgmt = c.mgmt
            /\ d = [c EXCEPT !.vlans = d.vlans]
            /\ VlanIds(d) = VlanIds(c)
            /\ \A v \in VlanIds(c) :
                 /\ d.vlans[v].tagged = Joined(c.vlans[v].tagged, p, v \in tagged)
                 /\ d.vlans[v].untagged = Joined(c.vlans[v].untagged, p, v \in untagged)
<1> DEFINE Entry(v) == IF c.vlans[v] = None THEN None
                       ELSE [c.vlans[v] EXCEPT !.tagged = Joined(@, p, v \in tagged),
                                               !.untagged = Joined(@, p, v \in untagged)]
<1> DEFINE d == WithMemberships(c, p, tagged, untagged)
<1>1. c.vlans \in [Vids -> Vlan \cup {None}]
  BY DEF Draft
<1>2. ASSUME NEW v \in Vids, c.vlans[v] # None
      PROVE  /\ Entry(v) \in Vlan /\ Entry(v) # None
             /\ Entry(v).tagged = Joined(c.vlans[v].tagged, p, v \in tagged)
             /\ Entry(v).untagged = Joined(c.vlans[v].untagged, p, v \in untagged)
  <2> DEFINE m == c.vlans[v]
             t == Joined(m.tagged, p, v \in tagged)
             u == Joined(m.untagged, p, v \in untagged)
  <2>1. m \in Vlan
    BY <1>1, <1>2
  <2>2. Entry(v) = [[m EXCEPT !.tagged = t] EXCEPT !.untagged = u]
    BY <1>2
  <2>3. t \in SUBSET PortIds /\ u \in SUBSET PortIds
    BY <2>1 DEF Vlan, Joined
  <2> HIDE DEF m, t, u, Entry
  <2>4. Entry(v) = [name |-> m.name, tagged |-> t, untagged |-> u]
    BY <2>1, <2>2 DEF Vlan
  <2>5. Entry(v) \in Vlan /\ Entry(v).tagged = t /\ Entry(v).untagged = u
    BY <2>1, <2>3, <2>4 DEF Vlan
  <2> QED
    BY <2>5, NoneIsApart DEF m, t, u
<1>3. \A v \in Vids : Entry(v) \in Vlan \cup {None} /\ (Entry(v) = None) = (c.vlans[v] = None)
  <2> SUFFICES ASSUME NEW v \in Vids
               PROVE  Entry(v) \in Vlan \cup {None} /\ (Entry(v) = None) = (c.vlans[v] = None)
    OBVIOUS
  <2>1. CASE c.vlans[v] = None
    BY <2>1
  <2>2. CASE c.vlans[v] # None
    <3> HIDE DEF Entry
    <3> QED
      BY <1>2, <2>2
  <2> QED
    BY <2>1, <2>2
<1>4. d = [c EXCEPT !.vlans = [v \in Vids |-> Entry(v)]]
  BY DEF WithMemberships
<1> HIDE DEF Entry, d
<1>5. /\ d.vlans = [v \in Vids |-> Entry(v)]
      /\ d = [c EXCEPT !.vlans = d.vlans]
      /\ d \in Draft /\ d.mgmt = c.mgmt
  BY <1>3, <1>4 DEF Draft
<1>6. VlanIds(d) = VlanIds(c)
  BY <1>3, <1>5 DEF VlanIds
<1>7. \A v \in VlanIds(c) :
        /\ d.vlans[v].tagged = Joined(c.vlans[v].tagged, p, v \in tagged)
        /\ d.vlans[v].untagged = Joined(c.vlans[v].untagged, p, v \in untagged)
  BY <1>2, <1>5 DEF VlanIds
<1> QED
  BY <1>5, <1>6, <1>7 DEF d

LEMMA SetMembershipsIs ==
  ASSUME NEW s \in Readers, NEW c \in Config, NEW p \in PortIds, NEW tagged, NEW untagged
  PROVE  LET r == SetMemberships(s, c, p, tagged, untagged)
             d == WithMemberships(c, p, tagged, untagged)
         IN /\ r \in Readers
            /\ tagged \cup untagged \subseteq VlanIds(c) =>
                 r = [cand |-> d, ctx |-> s.ctx, ok |-> TRUE]
            /\ ~(tagged \cup untagged \subseteq VlanIds(c)) =>
                 r = [cand |-> c, ctx |-> s.ctx, ok |-> FALSE]
<1> DEFINE d == WithMemberships(c, p, tagged, untagged)
           r == SetMemberships(s, c, p, tagged, untagged)
           t == [s EXCEPT !.cand = c]
<1>1. d \in Config
  <2>1. c \in Draft /\ c.mgmt \in Management
    BY DraftIs DEF Config
  <2>2. d \in Draft /\ d.mgmt = c.mgmt
    BY <2>1, MembershipsAre
  <2> HIDE DEF d
  <2> QED
    BY <2>1, <2>2, DraftIs
<1>2. CASE tagged \cup untagged \subseteq VlanIds(c)
  <2>1. r = Accept(s, d)
    BY <1>2 DEF SetMemberships
  <2> HIDE DEF r, d
  <2>2. r = [cand |-> d, ctx |-> s.ctx, ok |-> TRUE] /\ r \in Readers
    BY <1>1, <2>1, ReaderIs
  <2> QED
    BY <1>2, <2>2 DEF r, d
<1>3. CASE ~(tagged \cup untagged \subseteq VlanIds(c))
  <2>1. r = Reject(t)
    BY <1>3 DEF SetMemberships
  <2>2. t \in Readers /\ t.cand = c /\ t.ctx = s.ctx
    BY DEF Readers
  <2> HIDE DEF r, t
  <2>3. r = [cand |-> c, ctx |-> s.ctx, ok |-> FALSE] /\ r \in Readers
    BY <2>1, <2>2, ReaderIs
  <2> QED
    BY <1>3, <2>3 DEF r
<1> QED
  BY <1>2, <1>3

LEMMA ArgumentsAre ==
  ASSUME NEW w, NEW a \in Arguments(w)
  PROVE  /\ w \in {"interface vlan", "vlan", "no vlan", "switchport access vlan",
                   "switchport trunk native vlan", "switchport hybrid pvid vlan"} => a \in Vids
         /\ w \in {"switchport trunk allowed vlan", "switchport hybrid tagged vlan",
                   "switchport hybrid untagged vlan"} => a \in SUBSET Vids
         /\ w = "interface ethernet" => a \in PortIds
         /\ w \in {"interface port-channel", "no interface port-channel"} => a \in Groups
         /\ w = "members ports" => a \in SUBSET PortIds
         /\ w \in {"ip address", "ip default-gateway"} => a \in Addresses
         /\ w = "management fallback-ip" => a \in BOOLEAN
         /\ w = "name" => a \in Names
         /\ w = "port settings" => a \in Settings
BY DEF Arguments

(* The candidates a line for port p may leave before the VLANs of the port *)
(* are set: the same one, or one with another PVID for the port.           *)
Sent(c, p) == {c} \cup {[c EXCEPT !.pvid[p] = v] : v \in Vids}

LEMMA SentAre ==
  ASSUME NEW c \in Config, NEW p \in PortIds, NEW d \in Sent(c, p)
  PROVE  /\ d \in Config
         /\ d = [c EXCEPT !.pvid = d.pvid]
         /\ \A q \in PortIds \ {p} : d.pvid[q] = c.pvid[q]
         /\ d.vlans = c.vlans
<1>1. CASE d = c
  BY <1>1 DEF Config
<1>2. CASE \E v \in Vids : d = [c EXCEPT !.pvid[p] = v]
  <2>1. PICK v \in Vids : d = [c EXCEPT !.pvid[p] = v]
    BY <1>2
  <2> DEFINE pvid == [c.pvid EXCEPT ![p] = v]
  <2>2. pvid \in [PortIds -> Vids] /\ \A q \in PortIds \ {p} : pvid[q] = c.pvid[q]
    BY DEF Config
  <2>3. d = [c EXCEPT !.pvid = pvid]
    BY <2>1
  <2> HIDE DEF pvid
  <2>4. d \in Config /\ d.pvid = pvid /\ d.vlans = c.vlans
    BY <2>2, <2>3 DEF Config
  <2> QED
    BY <2>2, <2>3, <2>4
<1> QED
  BY <1>1, <1>2 DEF Sent

(* What a line of a port's context may do. *)
Does(s, p, r) ==
  \/ r = Reject(s)
  \/ r = Accept(s, s.cand)
  \/ \E x \in Settings : r = Accept(s, [s.cand EXCEPT !.port[p] = x])
  \/ \E c \in Sent(s.cand, p) : \E tagged, untagged : r = SetMemberships(s, c, p, tagged, untagged)

LEMMA PortLineIs ==
  ASSUME NEW s \in Readers, NEW p \in PortIds, s.ctx.id = p,
         NEW w, NEW a \in Arguments(w)
  PROVE  Does(s, p, PortLine(s, Line(w, a)))
<1>0. w \in {"switchport access vlan", "switchport trunk native vlan",
             "switchport hybrid pvid vlan"} => a \in Vids
  BY ArgumentsAre, Zenon
<1> DEFINE c == s.cand
           l == Line(w, a)
           r == PortLine(s, l)
           At(v) == [c EXCEPT !.pvid[p] = v]
<1>1. l.words = w /\ l.arg = a
  BY DEF Line
<1>2. \A v \in Vids : At(v) \in Sent(c, p)
  BY DEF Sent
<1>3. c \in Sent(c, p)
  BY DEF Sent
<1>4. ASSUME NEW d \in Sent(c, p), NEW tagged, NEW untagged,
             r = SetMemberships(s, d, p, tagged, untagged)
      PROVE  Does(s, p, r)
  BY <1>4 DEF Does
<1>5. CASE c.port[p] = None
  BY <1>5 DEF PortLine, Does
<1>6. CASE c.port[p] # None /\ w = "port settings"
  <2>1. r = Accept(s, [c EXCEPT !.port[p] = a])
    BY <1>1, <1>6 DEF PortLine
  <2>2. a \in Settings
    BY <1>6, ArgumentsAre
  <2> QED
    BY <2>1, <2>2 DEF Does
<1>7. CASE c.port[p] # None /\ w = "switchport mode"
  <2>1. r = IF a = "access" THEN SetMemberships(s, c, p, {}, {c.pvid[p]}) ELSE Accept(s, c)
    BY <1>1, <1>7 DEF PortLine
  <2>2. CASE a = "access"
    BY <1>3, <1>4, <2>1, <2>2
  <2>3. CASE a # "access"
    BY <2>1, <2>3 DEF Does
  <2> QED
    BY <2>2, <2>3
<1>8. CASE c.port[p] # None /\ w = "switchport trunk allowed vlan"
  <2>1. CASE c.pvid[p] \in a
    <3>1. r = SetMemberships(s, c, p, a \ {c.pvid[p]}, {c.pvid[p]})
      BY <1>1, <1>8, <2>1 DEF PortLine
    <3> QED
      BY <1>3, <1>4, <3>1
  <2>2. CASE c.pvid[p] \notin a
    <3>1. r = Reject(s)
      BY <1>1, <1>8, <2>2 DEF PortLine
    <3> QED
      BY <3>1 DEF Does
  <2> QED
    BY <2>1, <2>2
<1>9. CASE c.port[p] # None /\ w = "switchport access vlan"
  <2>1. r = SetMemberships(s, At(a), p, {}, {a})
    BY <1>1, <1>9 DEF PortLine
  <2>2. a \in Vids
    BY <1>0, <1>9
  <2>3. At(a) \in Sent(c, p)
    BY <1>2, <2>2
  <2> QED
    BY <1>4, <2>1, <2>3
<1>10. CASE c.port[p] # None /\ w = "switchport trunk native vlan"
  <2>1. r = SetMemberships(s, At(a), p, TaggedBesides(c, p, a), {a})
    BY <1>1, <1>10 DEF PortLine
  <2>2. a \in Vids
    BY <1>0, <1>10
  <2>3. At(a) \in Sent(c, p)
    BY <1>2, <2>2
  <2> QED
    BY <1>4, <2>1, <2>3
<1>11. CASE c.port[p] # None /\ w = "switchport hybrid pvid vlan"
  <2>1. r = SetMemberships(s, At(a), p, Tagged(c, p) \ {a}, Untagged(c, p) \cup {a})
    BY <1>1, <1>11 DEF PortLine
  <2>2. a \in Vids
    BY <1>0, <1>11
  <2>3. At(a) \in Sent(c, p)
    BY <1>2, <2>2
  <2> QED
    BY <1>4, <2>1, <2>3
<1>12. CASE c.port[p] # None /\ w = "switchport hybrid tagged vlan"
  <2>1. r = SetMemberships(s, c, p, a, Untagged(c, p))
    BY <1>1, <1>12 DEF PortLine
  <2> QED
    BY <1>3, <1>4, <2>1
<1>13. CASE c.port[p] # None /\ w = "switchport hybrid untagged vlan"
  <2>1. r = SetMemberships(s, c, p, Tagged(c, p), a)
    BY <1>1, <1>13 DEF PortLine
  <2> QED
    BY <1>3, <1>4, <2>1
<1>14. CASE /\ c.port[p] # None
            /\ w \notin {"port settings", "switchport mode", "switchport access vlan",
                         "switchport trunk native vlan", "switchport trunk allowed vlan",
                         "switchport hybrid pvid vlan", "switchport hybrid tagged vlan",
                         "switchport hybrid untagged vlan"}
  <2>1. r = Reject(s)
    BY <1>1, <1>14 DEF PortLine
  <2> QED
    BY <2>1 DEF Does
<1> QED
  BY <1>5, <1>6, <1>7, <1>8, <1>9, <1>10, <1>11, <1>12, <1>13, <1>14

LEMMA DoesType ==
  ASSUME NEW s \in Readers, NEW p \in PortIds, NEW r, Does(s, p, r)
  PROVE  r \in Readers
<1>1. CASE r = Reject(s)
  BY <1>1, ReaderIs
<1>2. CASE r = Accept(s, s.cand)
  BY <1>2, ReaderIs
<1>3. CASE \E x \in Settings : r = Accept(s, [s.cand EXCEPT !.port[p] = x])
  <2>1. PICK x \in Settings : r = Accept(s, [s.cand EXCEPT !.port[p] = x])
    BY <1>3
  <2> DEFINE c == s.cand
             d == [c EXCEPT !.port[p] = x]
  <2>2. c \in Config
    BY ReaderIs
  <2> HIDE DEF c
  <2>3. d \in Config
    BY <2>2 DEF Config
  <2>4. r = Accept(s, d)
    BY <2>1 DEF c
  <2> HIDE DEF d
  <2> QED
    BY <2>3, <2>4, ReaderIs
<1>4. CASE \E c \in Sent(s.cand, p) : \E tagged, untagged :
             r = SetMemberships(s, c, p, tagged, untagged)
  <2>1. PICK c \in Sent(s.cand, p) : \E tagged, untagged :
               r = SetMemberships(s, c, p, tagged, untagged)
    BY <1>4
  <2>2. c \in Config
    BY ReaderIs, SentAre
  <2> QED
    BY <2>1, <2>2, SetMembershipsIs
<1> QED
  BY <1>1, <1>2, <1>3, <1>4 DEF Does

LEMMA EnterLineIs ==
  ASSUME NEW s \in Readers, NEW w \in Heads, NEW a \in Arguments(w)
  PROVE  EnterLine(s, Line(w, a)) \in Readers /\ EnterLine(s, Line(w, a)).ok = TRUE
<1>1. /\ w \in {"interface vlan", "vlan"} => a \in Vids
      /\ w = "interface ethernet" => a \in PortIds
      /\ w = "interface port-channel" => a \in Groups
  BY ArgumentsAre, Zenon
<1>2. \A d \in Config : \A kind, id :
        Enter(s, d, kind, id) = [cand |-> d, ctx |-> Context(kind, id), ok |-> TRUE]
  BY ReaderIs, Zenon
<1> DEFINE c == s.cand
           l == Line(w, a)
<1>3. l.words = w /\ l.arg = a
  BY DEF Line
<1>4. c \in Config
  BY ReaderIs
<1>5. ASSUME NEW d \in Config, NEW kind, NEW id, Context(kind, id) \in Contexts
      PROVE  Enter(s, d, kind, id) \in Readers /\ Enter(s, d, kind, id).ok = TRUE
  <2>1. Enter(s, d, kind, id) = [cand |-> d, ctx |-> Context(kind, id), ok |-> TRUE]
    BY <1>2, <1>5
  <2> QED
    BY <1>5, <2>1 DEF Readers
<1>6. CASE w = "interface vlan"
  <2> DEFINE d == [c EXCEPT !.mgmt.vlan = a]
  <2>1. EnterLine(s, l) = Enter(s, d, "management", a)
    BY <1>3, <1>6 DEF EnterLine
  <2>2. a \in Vids
    BY <1>1, <1>6
  <2>3. Context("management", a) \in Contexts
    BY <2>2 DEF Contexts
  <2>4. d \in Config
    <3> DEFINE m == [c.mgmt EXCEPT !.vlan = a]
    <3>1. m \in Management
      BY <1>4, <2>2 DEF Config, Management
    <3>2. d = [c EXCEPT !.mgmt = m]
      OBVIOUS
    <3> HIDE DEF m, c, d
    <3> QED
      BY <1>4, <3>1, <3>2 DEF Config
  <2> HIDE DEF d, l
  <2> QED
    BY <1>5, <2>1, <2>3, <2>4 DEF l
<1>7. CASE w = "vlan"
  <2> DEFINE e == OrNew(c.vlans[a], EmptyVlan)
             d == [c EXCEPT !.vlans[a] = e]
  <2>1. EnterLine(s, l) = Enter(s, d, "vlan", a)
    BY <1>3, <1>7 DEF EnterLine
  <2>2. a \in Vids
    BY <1>1, <1>7
  <2>3. Context("vlan", a) \in Contexts
    BY <2>2 DEF Contexts
  <2>4. e \in Vlan \cup {None}
    BY <1>4, <2>2, LanguageConstants DEF Config, OrNew, EmptyVlan, Vlan
  <2>5. d \in Config
    <3> HIDE DEF e, c
    <3> QED
      BY <1>4, <2>2, <2>4 DEF Config
  <2> HIDE DEF d, l
  <2> QED
    BY <1>5, <2>1, <2>3, <2>5 DEF l
<1>8. CASE w = "interface ethernet"
  <2> DEFINE e == OrNew(c.port[a], DefaultSettings)
             d == [c EXCEPT !.port[a] = e]
  <2>1. EnterLine(s, l) = Enter(s, d, "port", a)
    BY <1>3, <1>8 DEF EnterLine
  <2>2. a \in PortIds
    BY <1>1, <1>8
  <2>3. Context("port", a) \in Contexts
    BY <2>2 DEF Contexts
  <2>4. e \in Settings \cup {None}
    BY <1>4, <2>2, PlannerConstants DEF Config, OrNew, PlannerConstants
  <2>5. d \in Config
    <3> HIDE DEF e, c
    <3> QED
      BY <1>4, <2>2, <2>4 DEF Config
  <2> HIDE DEF d, l
  <2> QED
    BY <1>5, <2>1, <2>3, <2>5 DEF l
<1>9. CASE w = "interface port-channel"
  <2> DEFINE e == OrNew(c.lags[a], {})
             d == [c EXCEPT !.lags[a] = e]
  <2>1. EnterLine(s, l) = Enter(s, d, "lag", a)
    BY <1>3, <1>9 DEF EnterLine
  <2>2. a \in Groups
    BY <1>1, <1>9
  <2>3. Context("lag", a) \in Contexts
    BY <2>2 DEF Contexts
  <2>4. e \in (SUBSET PortIds) \cup {None}
    BY <1>4, <2>2 DEF Config, OrNew
  <2>5. d \in Config
    <3> HIDE DEF e, c
    <3> QED
      BY <1>4, <2>2, <2>4 DEF Config
  <2> HIDE DEF d, l
  <2> QED
    BY <1>5, <2>1, <2>3, <2>5 DEF l
<1> QED
  BY <1>6, <1>7, <1>8, <1>9 DEF Heads

LEMMA RemoveLineIs ==
  ASSUME NEW s \in Readers, NEW w \in Removals, NEW a \in Arguments(w)
  PROVE  RemoveLine(s, Line(w, a)) \in Readers /\ RemoveLine(s, Line(w, a)).ok = TRUE
<1> DEFINE c == s.cand
           l == Line(w, a)
<1>1. l.words = w /\ l.arg = a
  BY DEF Line
<1>2. c \in Config
  BY ReaderIs
<1>3. CASE w = "no vlan"
  <2> DEFINE d == [c EXCEPT !.vlans[a] = None]
  <2>1. RemoveLine(s, l) = Accept(s, d)
    BY <1>1, <1>3 DEF RemoveLine
  <2>2. d \in Config
    BY <1>2 DEF Config
  <2> HIDE DEF d, l
  <2> QED
    BY <2>1, <2>2, ReaderIs DEF l
<1>4. CASE w = "no interface port-channel"
  <2> DEFINE d == [c EXCEPT !.lags[a] = None]
  <2>1. RemoveLine(s, l) = Accept(s, d)
    BY <1>1, <1>4 DEF RemoveLine
  <2>2. d \in Config
    BY <1>2 DEF Config
  <2> HIDE DEF d, l
  <2> QED
    BY <2>1, <2>2, ReaderIs DEF l
<1> QED
  BY <1>3, <1>4 DEF Removals

LEMMA ManagementLineIs ==
  ASSUME NEW s, s.cand \in Config, NEW w, NEW a \in Arguments(w)
  PROVE  LET r == ManagementLine(s, Line(w, a))
         IN r = Reject(s) \/ \E d \in Config : r = Accept(s, d)
<1>1. /\ w \in {"ip address", "ip default-gateway"} => a \in Addresses
      /\ w = "management fallback-ip" => a \in BOOLEAN
  BY ArgumentsAre, Zenon
<1> DEFINE c == s.cand
           l == Line(w, a)
           With(m) == [c EXCEPT !.mgmt = m]
<1>3. l.words = w /\ l.arg = a
  BY DEF Line
<1>4. c \in Config /\ c.mgmt \in Management
  BY DEF Config
<1>5. ASSUME NEW m \in Management
      PROVE  With(m) \in Config
  <2> HIDE DEF c
  <2> QED
    BY <1>4, <1>5 DEF Config
<1>6. CASE w = "ip address dhcp"
  <2> DEFINE m == [c.mgmt EXCEPT !.dhcp = TRUE]
             n == [m EXCEPT !.address = None]
  <2>1. ManagementLine(s, l) = Accept(s, With(n))
    BY <1>3, <1>6 DEF ManagementLine
  <2>2. m \in Management
    BY <1>4 DEF Management
  <2> HIDE DEF m
  <2>3. n \in Management
    BY <2>2 DEF Management
  <2> HIDE DEF n, l
  <2> QED
    BY <1>5, <2>1, <2>3 DEF l
<1>7. CASE w = "ip address" /\ a # None
  <2> DEFINE m == [c.mgmt EXCEPT !.dhcp = FALSE]
             n == [m EXCEPT !.address = a]
  <2>1. ManagementLine(s, l) = Accept(s, With(n))
    BY <1>3, <1>7 DEF ManagementLine
  <2>2. m \in Management
    BY <1>4 DEF Management
  <2> HIDE DEF m
  <2>3. n \in Management
    BY <1>1, <1>7, <2>2 DEF Management
  <2> HIDE DEF n, l
  <2> QED
    BY <1>5, <2>1, <2>3 DEF l
<1>8. CASE w = "ip default-gateway"
  <2> DEFINE n == [c.mgmt EXCEPT !.gateway = a]
  <2>1. ManagementLine(s, l) = Accept(s, With(n))
    BY <1>3, <1>8 DEF ManagementLine
  <2>2. n \in Management
    BY <1>1, <1>4, <1>8 DEF Management
  <2> HIDE DEF n, l
  <2> QED
    BY <1>5, <2>1, <2>2 DEF l
<1>9. CASE w = "no ip default-gateway"
  <2> DEFINE n == [c.mgmt EXCEPT !.gateway = None]
  <2>1. ManagementLine(s, l) = Accept(s, With(n))
    BY <1>3, <1>9 DEF ManagementLine
  <2>2. n \in Management
    BY <1>4 DEF Management
  <2> HIDE DEF n, l
  <2> QED
    BY <1>5, <2>1, <2>2 DEF l
<1>10. CASE w = "management fallback-ip"
  <2> DEFINE d == [c EXCEPT !.fallback = a]
  <2>1. ManagementLine(s, l) = Accept(s, d)
    BY <1>3, <1>10 DEF ManagementLine
  <2>2. a \in BOOLEAN
    BY <1>1, <1>10
  <2> HIDE DEF c
  <2>3. d \in Config
    BY <1>4, <2>2 DEF Config
  <2> HIDE DEF d, l
  <2> QED
    BY <2>1, <2>3 DEF l
<1>11. CASE /\ w \notin {"ip address dhcp", "ip default-gateway", "no ip default-gateway",
                         "management fallback-ip"}
            /\ w = "ip address" => a = None
  <2>1. ManagementLine(s, l) = Reject(s)
    BY <1>3, <1>11 DEF ManagementLine
  <2> QED
    BY <2>1
<1> QED
  BY <1>6, <1>7, <1>8, <1>9, <1>10, <1>11

(* A line in the context of a VLAN or a LAG, that may have been removed.   *)
Edits(s, r) == r = Reject(s) \/ \E d \in Draft : d.mgmt = s.cand.mgmt /\ r = Accept(s, d)

LEMMA EntryLineIs ==
  ASSUME NEW s, s.cand \in Draft, NEW w, NEW a \in Arguments(w)
  PROVE  /\ s.ctx.id \in Vids => Edits(s, VlanLine(s, Line(w, a)))
         /\ s.ctx.id \in Groups => Edits(s, LagLine(s, Line(w, a)))
<1>1. /\ w = "name" => a \in Names
      /\ w = "members ports" => a \in SUBSET PortIds
  BY ArgumentsAre, Zenon
<1>2. /\ Edits(s, Reject(s))
      /\ \A d \in Draft : d.mgmt = s.cand.mgmt => Edits(s, Accept(s, d))
  BY DEF Edits
<1> DEFINE c == s.cand
           l == Line(w, a)
           k == s.ctx.id
           Named(name) == [c EXCEPT !.vlans[k].name = name]
<1>3. l.words = w /\ l.arg = a
  BY DEF Line
<1>4. c \in Draft
  OBVIOUS
<1>5. ASSUME NEW name \in Names, k \in Vids, c.vlans[k] # None
      PROVE  Named(name) \in Draft /\ Named(name).mgmt = c.mgmt
  <2> DEFINE entry == [c.vlans[k] EXCEPT !.name = name]
             table == [c.vlans EXCEPT ![k] = entry]
  <2>1. entry \in Vlan
    <3>1. c.vlans[k] \in Vlan
      BY <1>4, <1>5 DEF Draft
    <3> QED
      BY <1>5, <3>1 DEF Vlan
  <2>2. Named(name) = [c EXCEPT !.vlans = table]
    OBVIOUS
  <2> HIDE DEF entry, c
  <2>3. table \in [Vids -> Vlan \cup {None}]
    BY <1>4, <1>5, <2>1 DEF Draft
  <2> HIDE DEF table, Named
  <2> QED
    BY <1>4, <2>2, <2>3 DEF Draft
<1>6. ASSUME k \in Vids
      PROVE  Edits(s, VlanLine(s, l))
  <2>1. CASE w = "name" /\ c.vlans[k] # None /\ Stripped[a] # ""
    <3>1. VlanLine(s, l) = Accept(s, Named(Stripped[a]))
      BY <1>3, <2>1 DEF VlanLine
    <3>2. Stripped[a] \in Names
      BY <1>1, <2>1, LanguageConstants DEF LanguageConstants
    <3> HIDE DEF Named, l
    <3> QED
      BY <1>2, <1>5, <1>6, <2>1, <3>1, <3>2
  <2>2. CASE w = "no name" /\ c.vlans[k] # None
    <3>1. VlanLine(s, l) = Accept(s, Named(""))
      BY <1>3, <2>2 DEF VlanLine
    <3>2. "" \in Names
      BY LanguageConstants DEF LanguageConstants
    <3> HIDE DEF Named, l
    <3> QED
      BY <1>2, <1>5, <1>6, <2>2, <3>1, <3>2
  <2>3. CASE /\ ~(w = "name" /\ c.vlans[k] # None /\ Stripped[a] # "")
             /\ ~(w = "no name" /\ c.vlans[k] # None)
    <3>1. VlanLine(s, l) = Reject(s)
      BY <1>3, <2>3 DEF VlanLine
    <3> QED
      BY <1>2, <3>1
  <2> QED
    BY <2>1, <2>2, <2>3
<1>7. ASSUME k \in Groups
      PROVE  Edits(s, LagLine(s, l))
  <2>1. CASE w = "members ports" /\ c.lags[k] # None
    <3> DEFINE d == [c EXCEPT !.lags[k] = a]
    <3>1. LagLine(s, l) = Accept(s, d)
      BY <1>3, <2>1 DEF LagLine
    <3> HIDE DEF c
    <3>2. d \in Draft /\ d.mgmt = c.mgmt
      BY <1>1, <1>4, <1>7, <2>1 DEF Draft
    <3> HIDE DEF d, l
    <3> QED
      BY <1>2, <3>1, <3>2 DEF c
  <2>2. CASE ~(w = "members ports" /\ c.lags[k] # None)
    <3>1. LagLine(s, l) = Reject(s)
      BY <1>3, <2>2 DEF LagLine
    <3> QED
      BY <1>2, <3>1
  <2> QED
    BY <2>1, <2>2
<1> QED
  BY <1>6, <1>7

(* Every line of the configuration mode, accepted or not, leaves a         *)
(* configuration and a context of their type.                              *)
LEMMA ConfigureType ==
  ASSUME NEW s \in Readers, NEW w, NEW a \in Arguments(w)
  PROVE  Configure(s, Line(w, a)) \in Readers
<1> DEFINE l == Line(w, a)
<1>1. l.words = w
  BY DEF Line
<1>2. CASE w \in Heads
  <2>1. Configure(s, l) = EnterLine(s, l)
    BY <1>1, <1>2 DEF Configure, Heads, Removals
  <2> QED
    BY <1>2, <2>1, EnterLineIs
<1>3. CASE w \in Removals
  <2>1. Configure(s, l) = RemoveLine(s, l)
    BY <1>1, <1>3 DEF Configure, Heads, Removals
  <2> QED
    BY <1>3, <2>1, RemoveLineIs
<1>4. CASE w \notin Heads \cup Removals
  <2>1. Configure(s, l) = IF s.ctx = None THEN Reject(s)
                          ELSE IF s.ctx.kind = "port" THEN PortLine(s, l) ELSE OtherLine(s, l)
    BY <1>1, <1>4 DEF Configure
  <2>2. s.cand \in Config /\ s.cand \in Draft
    BY ReaderIs, DraftIs
  <2>3. \A r : Edits(s, r) => r \in Readers
    <3>1. \A d \in Draft : d.mgmt = s.cand.mgmt => d \in Config
      BY <2>2, DraftIs
    <3>2. Reject(s) \in Readers /\ \A d \in Config : Accept(s, d) \in Readers
      BY ReaderIs, Zenon
    <3> QED
      BY <3>1, <3>2 DEF Edits
  <2>4. CASE s.ctx = None
    BY <2>1, <2>4, ReaderIs
  <2>5. CASE s.ctx # None
    <3>1. s.ctx \in Contexts
      BY <2>5 DEF Readers
    <3>2. CASE s.ctx.kind = "port"
      <4>1. s.ctx.id \in PortIds
        BY <3>1, <3>2, ContextIs
      <4>2. Does(s, s.ctx.id, PortLine(s, l))
        BY <4>1, PortLineIs
      <4> QED
        BY <2>1, <2>5, <3>2, <4>1, <4>2, DoesType
    <3>3. CASE s.ctx.kind = "management"
      <4>1. Configure(s, l) = ManagementLine(s, l)
        BY <2>1, <2>5, <3>3 DEF OtherLine
      <4>2. Configure(s, l) = Reject(s) \/ \E d \in Config : Configure(s, l) = Accept(s, d)
        BY <2>2, <4>1, ManagementLineIs
      <4> QED
        BY <4>2, ReaderIs
    <3>4. CASE s.ctx.kind = "vlan"
      <4>1. Configure(s, l) = VlanLine(s, l)
        BY <2>1, <2>5, <3>4 DEF OtherLine
      <4>2. s.ctx.id \in Vids
        BY <3>1, <3>4, ContextIs
      <4>3. Edits(s, Configure(s, l))
        BY <2>2, <4>1, <4>2, EntryLineIs
      <4> QED
        BY <2>3, <4>3
    <3>5. CASE s.ctx.kind = "lag"
      <4>1. Configure(s, l) = LagLine(s, l)
        BY <2>1, <2>5, <3>5 DEF OtherLine
      <4>2. s.ctx.id \in Groups
        BY <3>1, <3>5, ContextIs
      <4>3. Edits(s, Configure(s, l))
        BY <2>2, <4>1, <4>2, EntryLineIs
      <4> QED
        BY <2>3, <4>3
    <3> QED
      BY <3>1, <3>2, <3>3, <3>4, <3>5, ContextIs
  <2> QED
    BY <2>4, <2>5
<1> QED
  BY <1>2, <1>3, <1>4

----------------------------------------------------------------------------
(* A text is read line by line, then its switchport lines are carried out. *)
(* Each step keeps the type of what has been read, so the two folds do.    *)

Parts == [mode : {"access", "trunk", "hybrid", None},
          access : Vids \cup {None}, native : Vids \cup {None},
          allowed : (SUBSET Vids) \cup {None}, pvid : Vids \cup {None},
          tagged : (SUBSET Vids) \cup {None}, untagged : (SUBSET Vids) \cup {None}]

Records == [cand : Draft, ctx : Contexts \cup {None}, ok : BOOLEAN, parts : [PortIds -> Parts]]

(* The management section begins with a whole management.                  *)
Managed(s) == (s.ctx # None /\ s.ctx.kind = "management") => s.cand \in Config

TextReaders == {s \in Records : Managed(s)}

LEMMA TextReaderIs ==
  ASSUME NEW s \in TextReaders
  PROVE  /\ s.cand \in Draft /\ s.ctx \in Contexts \cup {None}
         /\ Reject(s) \in TextReaders
         /\ \A c \in Draft : (c \in Config \/ c.mgmt = s.cand.mgmt) =>
              [s EXCEPT !.cand = c] \in TextReaders /\ Accept(s, c) \in TextReaders
<1>1. s \in Records /\ s.cand \in Draft /\ s.ctx \in Contexts \cup {None} /\ Managed(s)
  BY DEF TextReaders, Records
<1>2. ASSUME NEW t \in TextReaders, NEW b \in BOOLEAN
      PROVE  [t EXCEPT !.ok = b] \in TextReaders
  <2> DEFINE u == [t EXCEPT !.ok = b]
  <2>1. t \in Records /\ Managed(t)
    BY DEF TextReaders
  <2>2. u \in Records /\ u.ctx = t.ctx /\ u.cand = t.cand
    BY <2>1 DEF Records
  <2> HIDE DEF u
  <2>3. Managed(u)
    BY <2>1, <2>2 DEF Managed
  <2>4. u \in TextReaders
    BY <2>2, <2>3 DEF TextReaders
  <2> QED
    BY <2>4 DEF u
<1>3. Reject(s) \in TextReaders
  <2>1. Reject(s) = [s EXCEPT !.ok = FALSE]
    BY DEF Reject
  <2>2. FALSE \in BOOLEAN
    OBVIOUS
  <2> QED
    BY <1>2, <2>1, <2>2, Zenon
<1>4. ASSUME NEW c \in Draft, c \in Config \/ c.mgmt = s.cand.mgmt
      PROVE  [s EXCEPT !.cand = c] \in TextReaders /\ Accept(s, c) \in TextReaders
  <2> DEFINE t == [s EXCEPT !.cand = c]
  <2>1. t \in Records /\ t.ctx = s.ctx /\ t.cand = c
    BY <1>1, <1>4 DEF Records
  <2>2. s.cand \in Config => c \in Config
    BY <1>4, DraftIs
  <2>3. Accept(s, c) = [t EXCEPT !.ok = TRUE]
    BY DEF Accept
  <2> HIDE DEF t
  <2>4. Managed(t)
    BY <1>1, <2>1, <2>2 DEF Managed
  <2>5. t \in TextReaders
    BY <2>1, <2>4 DEF TextReaders
  <2>6. TRUE \in BOOLEAN
    OBVIOUS
  <2>7. Accept(s, c) \in TextReaders
    BY <1>2, <2>3, <2>5, <2>6, Zenon
  <2> QED
    BY <2>5, <2>7 DEF t
<1> QED
  BY <1>1, <1>3, <1>4

LEMMA TextMemberships ==
  ASSUME NEW s \in TextReaders, NEW p \in PortIds, NEW v \in Vids, NEW tagged, NEW untagged
  PROVE  SetMemberships(s, [s.cand EXCEPT !.pvid[p] = v], p, tagged, untagged) \in TextReaders
<1> DEFINE c == [s.cand EXCEPT !.pvid[p] = v]
           d == WithMemberships(c, p, tagged, untagged)
           r == SetMemberships(s, c, p, tagged, untagged)
           t == [s EXCEPT !.cand = c]
<1>1. s.cand \in Draft
  BY TextReaderIs
<1>2. c \in Draft /\ c.mgmt = s.cand.mgmt
  <2> DEFINE cand == s.cand
  <2>1. cand \in Draft
    BY <1>1
  <2> HIDE DEF cand
  <2>2. [cand EXCEPT !.pvid[p] = v] \in Draft /\ [cand EXCEPT !.pvid[p] = v].mgmt = cand.mgmt
    BY <2>1 DEF Draft
  <2> QED
    BY <2>2 DEF cand
<1>3. r = IF tagged \cup untagged \subseteq VlanIds(c) THEN Accept(s, d) ELSE Reject(t)
  BY DEF SetMemberships
<1> HIDE DEF c, r
<1>4. d \in Draft /\ d.mgmt = s.cand.mgmt
  BY <1>2, MembershipsAre
<1> HIDE DEF d
<1>5. Accept(s, d) \in TextReaders
  BY <1>4, TextReaderIs
<1>6. t \in TextReaders
  BY <1>2, TextReaderIs
<1> HIDE DEF t
<1>7. Reject(t) \in TextReaders
  BY <1>6, TextReaderIs
<1>8. r \in TextReaders
  BY <1>3, <1>5, <1>7
<1> QED
  BY <1>8 DEF r, c

LEMMA SwitchportType ==
  ASSUME NEW s \in TextReaders, NEW p \in PortIds
  PROVE  Switchport(s, p) \in TextReaders
<1> DEFINE parts == s.parts[p]
           access == Or(parts.access, 1)
           native == Or(parts.native, 1)
           allowed == Or(parts.allowed, VlanIds(s.cand))
           pvid == Or(parts.pvid, 1)
           With(v) == [s.cand EXCEPT !.pvid[p] = v]
           r == Switchport(s, p)
<1>1. access \in Vids /\ native \in Vids /\ pvid \in Vids
  <2>1. parts \in Parts
    BY DEF TextReaders, Records
  <2> HIDE DEF parts
  <2> QED
    BY <2>1, PlannerConstants DEF Parts, Or, PlannerConstants
<1>2. \/ r = s
      \/ r = SetMemberships(s, With(access), p, {}, {access})
      \/ r = SetMemberships(s, With(native), p, allowed \ {native}, {native})
      \/ r = SetMemberships(s, With(pvid), p, Or(parts.tagged, {}), Or(parts.untagged, {pvid}))
      \/ r = Reject(s)
  BY DEF Switchport
<1>3. Reject(s) \in TextReaders
  BY TextReaderIs
<1> HIDE DEF r, access, native, pvid, allowed, parts
<1> QED
  BY <1>1, <1>2, <1>3, TextMemberships DEF r

LEMMA PortLineOfTextType ==
  ASSUME NEW s \in TextReaders, s.ctx.id \in PortIds, NEW w, NEW a \in Arguments(w)
  PROVE  PortLineOfText(s, Line(w, a)) \in TextReaders
<1>1. /\ w = "port settings" => a \in Settings
      /\ w = "switchport mode" => a \in {"access", "trunk", "hybrid"}
      /\ w \in {"switchport access vlan", "switchport trunk native vlan",
                "switchport hybrid pvid vlan"} => a \in Vids
      /\ w \in {"switchport trunk allowed vlan", "switchport hybrid tagged vlan",
                "switchport hybrid untagged vlan"} => a \in SUBSET Vids
  <2>1. w = "switchport mode" => a \in {"access", "trunk", "hybrid"}
    BY DEF Arguments
  <2> QED
    BY <2>1, ArgumentsAre, Zenon
<1> DEFINE l == Line(w, a)
           p == s.ctx.id
           r == PortLineOfText(s, l)
           With(entry) == [s EXCEPT !.parts[p] = entry]
<1> SUFFICES r \in TextReaders
  OBVIOUS
<1>2. l.words = w /\ l.arg = a
  BY DEF Line
<1>3. s \in Records /\ s.parts \in [PortIds -> Parts] /\ s.parts[p] \in Parts /\ Managed(s)
  BY DEF TextReaders, Records
<1>4. ASSUME NEW entry \in Parts
      PROVE  With(entry) \in TextReaders
  <2> DEFINE table == [s.parts EXCEPT ![p] = entry]
             t == [s EXCEPT !.parts = table]
  <2>1. table \in [PortIds -> Parts]
    BY <1>3
  <2> HIDE DEF table
  <2>2. t \in Records /\ t.ctx = s.ctx /\ t.cand = s.cand
    BY <1>3, <2>1 DEF Records
  <2>3. With(entry) = t
    BY DEF table
  <2> HIDE DEF t, With
  <2>4. Managed(t)
    BY <1>3, <2>2 DEF Managed
  <2> QED
    BY <2>2, <2>3, <2>4 DEF TextReaders
<1>5. CASE w = "port settings"
  <2> DEFINE d == [s.cand EXCEPT !.port[p] = a]
  <2>1. r = Accept(s, d) \/ r = Reject(s)
    BY <1>2, <1>5, LanguageConstants DEF PortLineOfText, PartNamed, NoSwitchport
  <2>2. s.cand \in Draft
    BY TextReaderIs
  <2>3. d \in Draft /\ d.mgmt = s.cand.mgmt
    <3> DEFINE c == s.cand
    <3>1. c \in Draft /\ a \in Settings
      BY <1>1, <1>5, <2>2
    <3> HIDE DEF c
    <3>2. [c EXCEPT !.port[p] = a] \in Draft /\ [c EXCEPT !.port[p] = a].mgmt = c.mgmt
      BY <3>1 DEF Draft
    <3> QED
      BY <3>2 DEF c
  <2> HIDE DEF d, r
  <2> QED
    BY <2>1, <2>3, TextReaderIs
<1>6. ASSUME NEW part \in DOMAIN NoSwitchport, PartNamed(w) = part, w # "port settings",
             [s.parts[p] EXCEPT ![part] = a] \in Parts
      PROVE  r \in TextReaders
  <2>1. r = With([s.parts[p] EXCEPT ![part] = a])
    BY <1>2, <1>6 DEF PortLineOfText
  <2> HIDE DEF With
  <2> QED
    BY <1>4, <1>6, <2>1
<1> DEFINE entry == s.parts[p]
<1>7. entry \in Parts
  BY <1>3
<1>8. ASSUME NEW part, PartNamed(w) = part, w # "port settings",
             part \in {"mode", "access", "native", "allowed", "pvid", "tagged", "untagged"},
             [entry EXCEPT ![part] = a] \in Parts
      PROVE  r \in TextReaders
  <2>1. part \in DOMAIN NoSwitchport
    BY <1>8 DEF NoSwitchport
  <2> QED
    BY <1>6, <1>8, <2>1
<1> HIDE DEF entry, r, l
<1>9. CASE w = "switchport mode"
  <2>1. PartNamed(w) = "mode"
    BY <1>9 DEF PartNamed
  <2>2. [entry EXCEPT !.mode = a] \in Parts
    BY <1>1, <1>7, <1>9 DEF Parts
  <2> QED
    BY <1>8, <1>9, <2>1, <2>2
<1>10. CASE w = "switchport access vlan"
  <2>1. PartNamed(w) = "access"
    BY <1>10 DEF PartNamed
  <2>2. [entry EXCEPT !.access = a] \in Parts
    BY <1>1, <1>7, <1>10 DEF Parts
  <2> QED
    BY <1>8, <1>10, <2>1, <2>2
<1>11. CASE w = "switchport trunk native vlan"
  <2>1. PartNamed(w) = "native"
    BY <1>11 DEF PartNamed
  <2>2. [entry EXCEPT !.native = a] \in Parts
    BY <1>1, <1>7, <1>11 DEF Parts
  <2> QED
    BY <1>8, <1>11, <2>1, <2>2
<1>12. CASE w = "switchport trunk allowed vlan"
  <2>1. PartNamed(w) = "allowed"
    BY <1>12 DEF PartNamed
  <2>2. [entry EXCEPT !.allowed = a] \in Parts
    BY <1>1, <1>7, <1>12 DEF Parts
  <2> QED
    BY <1>8, <1>12, <2>1, <2>2
<1>13. CASE w = "switchport hybrid pvid vlan"
  <2>1. PartNamed(w) = "pvid"
    BY <1>13 DEF PartNamed
  <2>2. [entry EXCEPT !.pvid = a] \in Parts
    BY <1>1, <1>7, <1>13 DEF Parts
  <2> QED
    BY <1>8, <1>13, <2>1, <2>2
<1>14. CASE w = "switchport hybrid tagged vlan"
  <2>1. PartNamed(w) = "tagged"
    BY <1>14 DEF PartNamed
  <2>2. [entry EXCEPT !.tagged = a] \in Parts
    BY <1>1, <1>7, <1>14 DEF Parts
  <2> QED
    BY <1>8, <1>14, <2>1, <2>2
<1>15. CASE w = "switchport hybrid untagged vlan"
  <2>1. PartNamed(w) = "untagged"
    BY <1>15 DEF PartNamed
  <2>2. [entry EXCEPT !.untagged = a] \in Parts
    BY <1>1, <1>7, <1>15 DEF Parts
  <2> QED
    BY <1>8, <1>15, <2>1, <2>2
<1>16. CASE w \notin {"port settings", "switchport mode", "switchport access vlan",
                   "switchport trunk native vlan", "switchport trunk allowed vlan",
                   "switchport hybrid pvid vlan", "switchport hybrid tagged vlan",
                   "switchport hybrid untagged vlan"}
  <2>1. r = Reject(s)
    <3>1. PartNamed(w) \notin DOMAIN NoSwitchport
      BY <1>16 DEF PartNamed, NoSwitchport
    <3> QED
      BY <1>2, <1>16, <3>1 DEF PortLineOfText, r
  <2> QED
    BY <2>1, TextReaderIs
<1> QED
  BY <1>5, <1>9, <1>10, <1>11, <1>12, <1>13, <1>14, <1>15, <1>16

LEMMA SectionType ==
  ASSUME NEW s \in TextReaders, NEW c \in Draft, NEW kind, NEW id, Context(kind, id) \in Contexts,
         c \in Config \/ kind \in {"vlan", "port", "lag"}
  PROVE  Enter(s, c, kind, id) \in TextReaders
<1> DEFINE r == Enter(s, c, kind, id)
           x == Context(kind, id)
           t == [s EXCEPT !.cand = c]
           u == [t EXCEPT !.ctx = x]
<1>1. s \in Records
  BY DEF TextReaders
<1>2. r = [u EXCEPT !.ok = TRUE]
  BY DEF Enter
<1>3. x \in Contexts /\ x.kind = kind
  BY DEF Context
<1> HIDE DEF x
<1>4. t \in Records /\ t.cand = c
  BY <1>1 DEF Records
<1> HIDE DEF t
<1>5. u \in Records /\ u.cand = c /\ u.ctx = x
  BY <1>3, <1>4 DEF Records
<1> HIDE DEF u, r
<1>6. r \in Records /\ r.cand = c /\ r.ctx = x
  BY <1>2, <1>5 DEF Records
<1>7. Managed(r)
  BY <1>3, <1>6 DEF Managed
<1> QED
  BY <1>6, <1>7 DEF TextReaders, r

LEMMA NewSectionType ==
  ASSUME NEW s \in TextReaders, NEW w \in Heads, NEW a \in Arguments(w)
  PROVE  NewSection(s, Line(w, a)) \in TextReaders
<1>1. /\ w \in {"interface vlan", "vlan"} => a \in Vids
      /\ w = "interface ethernet" => a \in PortIds
      /\ w = "interface port-channel" => a \in Groups
  BY ArgumentsAre, Zenon
<1> DEFINE c == s.cand
           l == Line(w, a)
           r == NewSection(s, l)
<1> SUFFICES r \in TextReaders
  OBVIOUS
<1>2. l.words = w /\ l.arg = a
  BY DEF Line
<1>3. c \in Draft
  BY TextReaderIs
<1>4. CASE w = "interface vlan"
  <2> DEFINE m == FreshManagement(a)
             d == [c EXCEPT !.mgmt = m]
             e == [d EXCEPT !.fallback = FALSE]
  <2>1. r = Enter(s, e, "management", a)
    BY <1>2, <1>4 DEF NewSection
  <2>2. a \in Vids
    BY <1>1, <1>4
  <2>3. Context("management", a) \in Contexts
    BY <2>2 DEF Contexts
  <2>4. m \in Management
    BY <2>2 DEF FreshManagement, Management
  <2> HIDE DEF c, m, r
  <2>5. d \in Draft /\ d.mgmt = m
    BY <1>3, <2>4 DEF Draft
  <2> HIDE DEF d
  <2>6. e \in Draft /\ e.mgmt = m
    BY <2>5 DEF Draft
  <2> HIDE DEF e
  <2>7. e \in Config
    BY <2>4, <2>6, DraftIs
  <2> QED
    BY <2>1, <2>3, <2>6, <2>7, SectionType
<1>5. CASE w = "vlan"
  <2> DEFINE d == [c EXCEPT !.vlans[a] = EmptyVlan]
  <2>1. r = Enter(s, d, "vlan", a)
    BY <1>2, <1>5 DEF NewSection
  <2>2. Context("vlan", a) \in Contexts
    BY <1>1, <1>5 DEF Contexts
  <2>3. EmptyVlan \in Vlan
    BY LanguageConstants DEF EmptyVlan, Vlan
  <2> HIDE DEF c, r
  <2>4. d \in Draft
    BY <1>3, <2>3 DEF Draft
  <2> HIDE DEF d
  <2> QED
    BY <2>1, <2>2, <2>4, SectionType
<1>6. CASE w = "interface ethernet"
  <2> DEFINE d == [c EXCEPT !.port[a] = DefaultSettings]
             table == [s.parts EXCEPT ![a] = NoSwitchport]
             t == [s EXCEPT !.parts = table]
  <2>1. r = Enter(t, d, "port", a)
    BY <1>2, <1>6 DEF NewSection
  <2>2. Context("port", a) \in Contexts
    BY <1>1, <1>6 DEF Contexts
  <2> HIDE DEF c, r
  <2>3. d \in Draft
    BY <1>3, PlannerConstants DEF Draft, PlannerConstants
  <2> HIDE DEF d
  <2>4. t \in TextReaders
    <3>1. s \in Records /\ s.parts \in [PortIds -> Parts] /\ Managed(s)
      BY DEF TextReaders, Records
    <3>2. NoSwitchport \in Parts
      BY DEF NoSwitchport, Parts
    <3>3. table \in [PortIds -> Parts]
      BY <3>1, <3>2
    <3> HIDE DEF table
    <3>4. t \in Records /\ t.ctx = s.ctx /\ t.cand = s.cand
      BY <3>1, <3>3 DEF Records
    <3> HIDE DEF t
    <3>5. Managed(t)
      BY <3>1, <3>4 DEF Managed
    <3> QED
      BY <3>4, <3>5 DEF TextReaders
  <2> HIDE DEF t
  <2> QED
    BY <2>1, <2>2, <2>3, <2>4, SectionType
<1>7. CASE w = "interface port-channel"
  <2> DEFINE d == [c EXCEPT !.lags[a] = {}]
  <2>1. r = Enter(s, d, "lag", a)
    BY <1>2, <1>7 DEF NewSection
  <2>2. Context("lag", a) \in Contexts
    BY <1>1, <1>7 DEF Contexts
  <2> HIDE DEF c, r
  <2>3. d \in Draft
    BY <1>3 DEF Draft
  <2> HIDE DEF d
  <2> QED
    BY <2>1, <2>2, <2>3, SectionType
<1> QED
  BY <1>4, <1>5, <1>6, <1>7 DEF Heads

LEMMA OtherLineOfTextType ==
  ASSUME NEW s \in TextReaders, NEW w, NEW a \in Arguments(w),
         s.ctx \in Contexts, s.ctx # None, s.ctx.kind # "port"
  PROVE  OtherLine(s, Line(w, a)) \in TextReaders
<1> DEFINE r == OtherLine(s, Line(w, a))
<1> SUFFICES r \in TextReaders
  OBVIOUS
<1>1. s.cand \in Draft /\ Reject(s) \in TextReaders
  BY TextReaderIs
<1>2. Edits(s, r) => r \in TextReaders
  BY <1>1, TextReaderIs DEF Edits
<1>3. CASE s.ctx.kind = "management"
  <2>1. r = ManagementLine(s, Line(w, a))
    BY <1>3 DEF OtherLine
  <2>2. s.cand \in Config
    BY <1>3 DEF TextReaders, Managed
  <2> HIDE DEF r
  <2>3. r = Reject(s) \/ \E d \in Config : r = Accept(s, d)
    BY <2>1, <2>2, ManagementLineIs
  <2>4. \A d \in Config : Accept(s, d) \in TextReaders
    BY DraftIs, TextReaderIs
  <2> QED
    BY <1>1, <2>3, <2>4
<1>4. CASE s.ctx.kind = "vlan"
  <2>1. r = VlanLine(s, Line(w, a))
    BY <1>4 DEF OtherLine
  <2>2. s.ctx.id \in Vids
    BY <1>4, ContextIs
  <2> HIDE DEF r
  <2>3. Edits(s, r)
    BY <1>1, <2>1, <2>2, EntryLineIs
  <2> QED
    BY <1>2, <2>3
<1>5. CASE s.ctx.kind = "lag"
  <2>1. r = LagLine(s, Line(w, a))
    BY <1>5 DEF OtherLine
  <2>2. s.ctx.id \in Groups
    BY <1>5, ContextIs
  <2> HIDE DEF r
  <2>3. Edits(s, r)
    BY <1>1, <2>1, <2>2, EntryLineIs
  <2> QED
    BY <1>2, <2>3
<1> QED
  BY <1>3, <1>4, <1>5, ContextIs

LEMMA ParseLineType ==
  ASSUME NEW s \in TextReaders, NEW l, IsLine(l)
  PROVE  ParseLine(s, l) \in TextReaders
<1> DEFINE r == ParseLine(s, l)
<1> SUFFICES r \in TextReaders
  OBVIOUS
<1>1. CASE ~s.ok \/ l = Header
  <2>1. CASE ~s.ok
    BY <2>1 DEF ParseLine
  <2>2. CASE l = Header
    <3>1. l.words = "! mercswitch-config v2" /\ Bang.words = "!"
      BY <2>2 DEF Header, Bang, Line
    <3> QED
      BY <2>2, <3>1 DEF ParseLine, Heads
  <2> QED
    BY <1>1, <2>1, <2>2
<1>2. CASE s.ok /\ l = Bang
  <2>1. r = [s EXCEPT !.ctx = None]
    BY <1>2 DEF ParseLine, Header, Bang, Line, Heads
  <2> HIDE DEF r
  <2>2. s \in Records
    BY DEF TextReaders
  <2>3. r \in Records /\ r.ctx = None /\ r.cand = s.cand
    BY <2>1, <2>2 DEF Records
  <2>4. Managed(r)
    BY <2>3 DEF Managed
  <2> QED
    BY <2>3, <2>4 DEF TextReaders
<1>3. CASE s.ok /\ l \notin {Header, Bang}
  <2> DEFINE w == l.words
             a == l.arg
  <2>1. l = Line(w, a) /\ a \in Arguments(w)
    BY <1>3 DEF IsLine
  <2>2. CASE w \in Heads
    <3>1. r = NewSection(s, l)
      BY <1>3, <2>2 DEF ParseLine
    <3> HIDE DEF r, w, a
    <3> QED
      BY <2>1, <2>2, <3>1, NewSectionType
  <2>3. CASE w \notin Heads
    <3>1. r = IF s.ctx = None THEN Reject(s)
              ELSE IF s.ctx.kind = "port" THEN PortLineOfText(s, l) ELSE OtherLine(s, l)
      BY <1>3, <2>3 DEF ParseLine
    <3> HIDE DEF r, w, a
    <3>2. Reject(s) \in TextReaders /\ s.ctx \in Contexts \cup {None}
      BY TextReaderIs
    <3>3. CASE s.ctx = None
      BY <3>1, <3>2, <3>3
    <3>4. CASE s.ctx # None /\ s.ctx.kind = "port"
      <4>1. s.ctx.id \in PortIds
        BY <3>2, <3>4, ContextIs
      <4> QED
        BY <2>1, <3>1, <3>4, <4>1, PortLineOfTextType
    <3>5. CASE s.ctx # None /\ s.ctx.kind # "port"
      BY <2>1, <3>1, <3>2, <3>5, OtherLineOfTextType
    <3> QED
      BY <3>3, <3>4, <3>5
  <2> QED
    BY <2>2, <2>3
<1> QED
  BY <1>1, <1>2, <1>3

(* The lines of texts, and the steps of the two folds as functions.        *)
Lines == {Header} \cup UNION {{Line(w, a) : a \in Arguments(w)} : w \in Words}
Reads == [s \in TextReaders |-> [l \in Lines |-> ParseLine(s, l)]]
CarriesOut == [s \in TextReaders |-> [p \in PortIds |-> Switchport(s, p)]]

LEMMA LinesAre == \A l : IsLine(l) <=> l \in Lines
BY DEF Lines, IsLine, Line

LEMMA ReadsIs ==
  /\ Reads \in [TextReaders -> [Lines -> TextReaders]]
  /\ \A s \in TextReaders, l \in Lines : Reads[s][l] = ParseLine(s, l)
<1>1. \A s \in TextReaders, l \in Lines : ParseLine(s, l) \in TextReaders
  BY LinesAre, ParseLineType
<1> QED
  BY <1>1 DEF Reads

LEMMA CarriesOutIs ==
  /\ CarriesOut \in [TextReaders -> [PortIds -> TextReaders]]
  /\ \A s \in TextReaders, p \in PortIds : CarriesOut[s][p] = Switchport(s, p)
BY SwitchportType DEF CarriesOut

LEMMA LinesFold ==
  ASSUME NEW A, NEW B, NEW s \in A, NEW text \in Seq(Lines), Leads(Reads, TextReaders, A, text, B)
  PROVE  FoldLeft(ParseLine, s, text) \in B
<1> DEFINE n == Len(text)
           Fold(g) == [t \in SUBSET DOMAIN text |->
                         IF t = {} THEN s ELSE ParseLine(g[t \ {Max(t)}], text[Max(t)])]
           h == CHOOSE g : g = Fold(g)
<1>1. FoldLeft(ParseLine, s, text) = h[DOMAIN text]
  BY DEF FoldLeft, MapThenFoldSet
<1>2. n \in Nat /\ DOMAIN text = 1..n /\ text \in [1..n -> Lines]
  OBVIOUS
<1>3. s \in TextReaders
  BY DEF Leads
<1>4. \A t \in SUBSET (1..n) : t # {} => Max(t) \in t
  BY <1>2, MaxIs
<1>5. /\ Reads \in [TextReaders -> [Lines -> TextReaders]]
      /\ \A t \in TextReaders, e \in Lines : Reads[t][e] = ParseLine(t, e)
  BY ReadsIs
<1> HIDE DEF n
<1>6. \E g : g = Fold(g)
  <2>1. PICK g \in [SUBSET (1..n) -> TextReaders] : Folds(g, n, Reads, s, text)
    BY <1>2, <1>3, <1>5, FoldExists
  <2>2. ASSUME NEW t \in SUBSET (1..n)
        PROVE  g[t] = IF t = {} THEN s ELSE ParseLine(g[t \ {Max(t)}], text[Max(t)])
    <3>1. t # {} => g[t \ {Max(t)}] \in TextReaders /\ text[Max(t)] \in Lines
      BY <1>2, <1>4
    <3> QED
      BY <1>5, <2>1, <3>1 DEF Folds
  <2>3. g = [t \in SUBSET (1..n) |-> g[t]]
    OBVIOUS
  <2> QED
    BY <1>2, <2>2, <2>3
<1>7. h = Fold(h)
  BY <1>6
<1> HIDE DEF h
<1>8. \A t \in SUBSET (1..n) :
        h[t] = IF t = {} THEN s ELSE ParseLine(h[t \ {Max(t)}], text[Max(t)])
  BY <1>2, <1>7
<1>9. FoldsIn(h, n, Reads, TextReaders, s, text)
  <2>1. h[{}] = s
    BY <1>8
  <2>2. ASSUME NEW t \in SUBSET (1..n), t # {}, h[t \ {Max(t)}] \in TextReaders
        PROVE  h[t] = Reads[h[t \ {Max(t)}]][text[Max(t)]]
    <3>1. text[Max(t)] \in Lines
      BY <1>2, <1>4, <2>2
    <3> QED
      BY <1>5, <1>8, <2>2, <3>1
  <2> QED
    BY <2>1, <2>2 DEF FoldsIn
<1>10. h[1..n] \in B
  BY <1>2, <1>9, FoldLeads DEF n
<1> QED
  BY <1>1, <1>2, <1>10

LEMMA PortsFold ==
  ASSUME NEW A, NEW B, NEW s \in A, NEW text \in Seq(PortIds), Leads(CarriesOut, TextReaders, A, text, B)
  PROVE  FoldLeft(Switchport, s, text) \in B
<1> DEFINE n == Len(text)
           Fold(g) == [t \in SUBSET DOMAIN text |->
                         IF t = {} THEN s ELSE Switchport(g[t \ {Max(t)}], text[Max(t)])]
           h == CHOOSE g : g = Fold(g)
<1>1. FoldLeft(Switchport, s, text) = h[DOMAIN text]
  BY DEF FoldLeft, MapThenFoldSet
<1>2. n \in Nat /\ DOMAIN text = 1..n /\ text \in [1..n -> PortIds]
  OBVIOUS
<1>3. s \in TextReaders
  BY DEF Leads
<1>4. \A t \in SUBSET (1..n) : t # {} => Max(t) \in t
  BY <1>2, MaxIs
<1>5. /\ CarriesOut \in [TextReaders -> [PortIds -> TextReaders]]
      /\ \A t \in TextReaders, e \in PortIds : CarriesOut[t][e] = Switchport(t, e)
  BY CarriesOutIs
<1> HIDE DEF n
<1>6. \E g : g = Fold(g)
  <2>1. PICK g \in [SUBSET (1..n) -> TextReaders] : Folds(g, n, CarriesOut, s, text)
    BY <1>2, <1>3, <1>5, FoldExists
  <2>2. ASSUME NEW t \in SUBSET (1..n)
        PROVE  g[t] = IF t = {} THEN s ELSE Switchport(g[t \ {Max(t)}], text[Max(t)])
    <3>1. t # {} => g[t \ {Max(t)}] \in TextReaders /\ text[Max(t)] \in PortIds
      BY <1>2, <1>4
    <3> QED
      BY <1>5, <2>1, <3>1 DEF Folds
  <2>3. g = [t \in SUBSET (1..n) |-> g[t]]
    OBVIOUS
  <2> QED
    BY <1>2, <2>2, <2>3
<1>7. h = Fold(h)
  BY <1>6
<1> HIDE DEF h
<1>8. \A t \in SUBSET (1..n) :
        h[t] = IF t = {} THEN s ELSE Switchport(h[t \ {Max(t)}], text[Max(t)])
  BY <1>2, <1>7
<1>9. FoldsIn(h, n, CarriesOut, TextReaders, s, text)
  <2>1. h[{}] = s
    BY <1>8
  <2>2. ASSUME NEW t \in SUBSET (1..n), t # {}, h[t \ {Max(t)}] \in TextReaders
        PROVE  h[t] = CarriesOut[h[t \ {Max(t)}]][text[Max(t)]]
    <3>1. text[Max(t)] \in PortIds
      BY <1>2, <1>4, <2>2
    <3> QED
      BY <1>5, <1>8, <2>2, <3>1
  <2> QED
    BY <2>1, <2>2 DEF FoldsIn
<1>10. h[1..n] \in B
  BY <1>2, <1>9, FoldLeads DEF n
<1> QED
  BY <1>1, <1>2, <1>10

LEMMA PortOrderIs == Enumerates(PortOrder, PortIds) /\ PortOrder \in Seq(PortIds)
<1>1. Enumerates(PortOrder, PortIds)
  BY TextConstants, SetToSeqEnumerates DEF TextConstants, PortOrder
<1> QED
  BY <1>1 DEF Enumerates

(* A text that can be read gives a whole configuration.                    *)
LEMMA ParseType ==
  ASSUME NEW text \in Texts, Parse(text).ok
  PROVE  Parse(text).cand \in Config
<1> DEFINE begun == (text # <<>> /\ text[1] = Header)
           start == [cand |-> BlankConfig, ctx |-> None, ok |-> begun,
                     parts |-> [p \in PortIds |-> NoSwitchport]]
           read == FoldLeft(ParseLine, start, Tail(text))
           done == FoldLeft(Switchport, read, PortOrder)
<1>1. /\ Len(text) \in Nat \ {0} /\ text = [i \in 1..Len(text) |-> text[i]]
      /\ \A i \in 1..Len(text) : IsLine(text[i])
  BY TextConstants DEF TextConstants
<1>2. start \in TextReaders
  <2>1. BlankConfig \in Draft
    BY PlannerConstants DEF BlankConfig, Draft, PlannerConstants
  <2>2. NoSwitchport \in Parts
    BY DEF NoSwitchport, Parts
  <2>3. begun \in BOOLEAN
    BY Zenon
  <2> HIDE DEF begun
  <2>4. start \in Records /\ start.ctx = None
    BY <2>1, <2>2, <2>3 DEF Records
  <2> HIDE DEF start
  <2> QED
    BY <2>4 DEF TextReaders, Managed
<1>3. Tail(text) \in Seq(Lines)
  <2>1. text \in Seq(Lines) /\ text # <<>>
    BY <1>1, LinesAre
  <2> QED
    BY <2>1, HeadTailProperties
<1>4. read \in TextReaders
  <2>1. \A s \in TextReaders : \A l \in Lines : Reads[s][l] \in TextReaders
    BY ReadsIs
  <2>2. Leads(Reads, TextReaders, TextReaders, Tail(text), TextReaders)
    BY <1>3, <2>1, LeadsInside
  <2> HIDE DEF start
  <2> QED
    BY <1>2, <1>3, <2>2, LinesFold
<1> HIDE DEF read
<1>5. done \in TextReaders
  <2>1. \A s \in TextReaders : \A p \in PortIds : CarriesOut[s][p] \in TextReaders
    BY CarriesOutIs
  <2>2. Leads(CarriesOut, TextReaders, TextReaders, PortOrder, TextReaders)
    BY <2>1, PortOrderIs, LeadsInside
  <2> QED
    BY <1>4, <2>2, PortOrderIs, PortsFold
<1>6. Parse(text).cand = done.cand /\ (Parse(text).ok => done.cand.mgmt # None)
  BY DEF Parse, read
<1> HIDE DEF done
<1>7. done.cand \in Draft
  BY <1>5, TextReaderIs
<1>8. done.cand.mgmt \in Management
  BY <1>6, <1>7 DEF Draft
<1> QED
  BY <1>6, <1>7, <1>8, DraftIs

----------------------------------------------------------------------------
(* Every candidate of a session is a configuration, whatever lines were    *)
(* typed, in whatever context, and whatever texts were loaded.             *)

LEMMA TypedLine ==
  ASSUME TypeOK, NEW w, NEW a \in Arguments(w)
  PROVE  /\ Reader(candidate, context) \in Readers
         /\ Configure(Reader(candidate, context), Line(w, a)) \in Readers
<1>1. Reader(candidate, context) \in Readers
  BY DEF Reader, Readers, TypeOK
<1> QED
  BY <1>1, ConfigureType

THEOREM SessionTypeCorrect == Spec => []TypeOK
<1>1. Init => TypeOK
  BY SessionConstants DEF Init, TypeOK, SessionConstants
<1>2. ASSUME TypeOK, [Next]_vars
      PROVE  TypeOK'
  <2>1. ASSUME NEW read \in Readings, Load(read)
        PROVE  TypeOK'
    <3>1. read.cand \in Config
      BY <2>1, ParseType DEF Readings, Load
    <3> QED
      BY <1>2, <2>1, <3>1 DEF TypeOK, Load, Same
  <2>2. ASSUME NEW w \in words, NEW a \in Arguments(w), TypeLine(Line(w, a))
        PROVE  TypeOK'
    <3> DEFINE s == Configure(Reader(candidate, context), Line(w, a))
    <3>1. s \in Readers
      BY <1>2, TypedLine
    <3>2. candidate' = s.cand /\ context' = s.ctx
          /\ UNCHANGED <<running, base, configMode, closed, role, remote, words>>
      BY <2>2 DEF TypeLine, Same
    <3> HIDE DEF s
    <3>3. s.cand \in Config /\ s.ctx \in Contexts \cup {None}
      BY <3>1, ReaderIs
    <3> QED
      BY <1>2, <3>2, <3>3 DEF TypeOK
  <2>3. CASE ConfigureTerminal
    BY <1>2, <2>3 DEF TypeOK, ConfigureTerminal, Same
  <2>4. CASE AbortCandidate
    BY <1>2, <2>4 DEF TypeOK, AbortCandidate, Same
  <2>5. CASE CommitSucceeds
    BY <1>2, <2>5 DEF TypeOK, CommitSucceeds, Same
  <2>6. CASE Quit \/ HangUp \/ \E read \in Readings : CannotLoad(read)
    BY <1>2, <2>6 DEF TypeOK, Quit, HangUp, CannotLoad, End, Same
  <2>7. CASE Leave
    <3>1. configMode' \in BOOLEAN
      BY <2>7, Zenon DEF Leave
    <3> QED
      BY <1>2, <2>7, <3>1 DEF TypeOK, Leave, Same
  <2>8. CASE AbortConfigure
    BY <1>2, <2>8 DEF TypeOK, AbortConfigure, Same
  <2>9. CASE UNCHANGED vars
    BY <1>2, <2>9 DEF TypeOK, vars
  <2> QED
    BY <1>2, <2>1, <2>2, <2>3, <2>4, <2>5, <2>6, <2>7, <2>8, <2>9 DEF Next
<1> QED
  BY <1>1, <1>2, PTL DEF Spec

----------------------------------------------------------------------------
(* What a line does to the VLANs.                                          *)

(* Setting the VLANs of a port leaves it in those of them that are         *)
(* defined, and every other port where it was.                             *)
LEMMA PortIsIn ==
  ASSUME NEW c \in Draft, NEW p \in PortIds, NEW tagged, NEW untagged
  PROVE  LET d == WithMemberships(c, p, tagged, untagged)
         IN /\ Tagged(d, p) = VlanIds(c) \cap tagged
            /\ Untagged(d, p) = VlanIds(c) \cap untagged
            /\ \A q \in PortIds \ {p} : /\ Tagged(d, q) = Tagged(c, q)
                                        /\ Untagged(d, q) = Untagged(c, q)
<1> DEFINE d == WithMemberships(c, p, tagged, untagged)
<1> SUFFICES /\ Tagged(d, p) = VlanIds(c) \cap tagged
             /\ Untagged(d, p) = VlanIds(c) \cap untagged
             /\ \A q \in PortIds \ {p} : /\ Tagged(d, q) = Tagged(c, q)
                                         /\ Untagged(d, q) = Untagged(c, q)
  OBVIOUS
<1>1. /\ VlanIds(d) = VlanIds(c)
      /\ \A v \in VlanIds(c) :
           /\ d.vlans[v].tagged = Joined(c.vlans[v].tagged, p, v \in tagged)
           /\ d.vlans[v].untagged = Joined(c.vlans[v].untagged, p, v \in untagged)
  BY MembershipsAre
<1> HIDE DEF d
<1>2. \A v \in VlanIds(c) :
        /\ p \in d.vlans[v].tagged <=> v \in tagged
        /\ p \in d.vlans[v].untagged <=> v \in untagged
  BY <1>1 DEF Joined
<1>3. \A v \in VlanIds(c) : \A q \in PortIds \ {p} :
        /\ q \in d.vlans[v].tagged <=> q \in c.vlans[v].tagged
        /\ q \in d.vlans[v].untagged <=> q \in c.vlans[v].untagged
  BY <1>1 DEF Joined
<1>4. Tagged(d, p) = VlanIds(c) \cap tagged /\ Untagged(d, p) = VlanIds(c) \cap untagged
  BY <1>1, <1>2 DEF Tagged, Untagged
<1>5. \A q \in PortIds \ {p} : Tagged(d, q) = Tagged(c, q) /\ Untagged(d, q) = Untagged(c, q)
  BY <1>1, <1>3 DEF Tagged, Untagged
<1> QED
  BY <1>4, <1>5

(* No access or trunk lines put a port that is shown as a hybrid into its  *)
(* VLANs: a port with exactly its PVID untagged is never shown as one.     *)
LEMMA HybridIsNeeded == TypeOK => HybridOnlyIfNeeded
<1> SUFFICES ASSUME TypeOK, NEW p \in PortsOf(candidate),
                    ModeOf(candidate, p) = "hybrid",
                    NEW pvid \in VlanIds(candidate), NEW allowed \in SUBSET VlanIds(candidate),
                    WithMemberships([candidate EXCEPT !.pvid[p] = pvid], p,
                                    allowed \ {pvid}, {pvid}) = candidate
             PROVE  FALSE
  BY DEF HybridOnlyIfNeeded
<1> DEFINE c == [candidate EXCEPT !.pvid[p] = pvid]
           tagged == allowed \ {pvid}
           untagged == {pvid}
           d == WithMemberships(c, p, tagged, untagged)
<1>1. candidate \in Config /\ p \in PortIds /\ pvid \in Vids
  BY DEF TypeOK, PortsOf, VlanIds
<1>2. c \in Draft /\ c.pvid[p] = pvid
  BY <1>1 DEF Config, Draft
<1> HIDE DEF c, tagged, untagged
<1>3. /\ d = [c EXCEPT !.vlans = d.vlans] /\ VlanIds(d) = VlanIds(c)
      /\ Untagged(d, p) = VlanIds(c) \cap untagged
  BY <1>1, <1>2, MembershipsAre, PortIsIn
<1> HIDE DEF d
<1>4. d = candidate
  BY DEF d, c, tagged, untagged
<1>5. d.pvid[p] = pvid
  BY <1>2, <1>3 DEF Draft
<1>6. Untagged(d, p) = {pvid}
  BY <1>3, <1>4 DEF untagged
<1>7. ModeOf(d, p) # "hybrid"
  BY <1>5, <1>6 DEF ModeOf
<1> QED
  BY <1>4, <1>7

(* A line that is rejected has changed at most the PVIDs. *)
LEMMA RejectedIs ==
  ASSUME NEW s \in Readers, NEW w, NEW a \in Arguments(w), ~Configure(s, Line(w, a)).ok
  PROVE  [Configure(s, Line(w, a)).cand EXCEPT !.pvid = s.cand.pvid] = s.cand
<1> DEFINE l == Line(w, a)
           r == Configure(s, l)
           c == s.cand
<1> SUFFICES [r.cand EXCEPT !.pvid = c.pvid] = c
  OBVIOUS
<1>1. l.words = w
  BY DEF Line
<1>2. c \in Config /\ c \in Draft /\ [c EXCEPT !.pvid = c.pvid] = c
  <2>1. c \in Config
    BY ReaderIs
  <2> HIDE DEF c
  <2> QED
    BY <2>1, DraftIs DEF Config
<1>3. w \notin Heads
  <2> SUFFICES ASSUME w \in Heads PROVE FALSE
    OBVIOUS
  <2>1. r = EnterLine(s, l)
    BY <1>1 DEF Configure, Heads, Removals
  <2> QED
    BY <2>1, EnterLineIs
<1>4. w \notin Removals
  <2> SUFFICES ASSUME w \in Removals PROVE FALSE
    OBVIOUS
  <2>1. r = RemoveLine(s, l)
    BY <1>1 DEF Configure, Heads, Removals
  <2> QED
    BY <2>1, RemoveLineIs
<1>5. r = IF s.ctx = None THEN Reject(s)
          ELSE IF s.ctx.kind = "port" THEN PortLine(s, l) ELSE OtherLine(s, l)
  BY <1>1, <1>3, <1>4 DEF Configure
<1>6. CASE r = Reject(s)
  <2>1. Reject(s) = [cand |-> c, ctx |-> s.ctx, ok |-> FALSE]
    BY ReaderIs, Zenon
  <2> HIDE DEF r, c
  <2>2. r.cand = c
    BY <1>6, <2>1
  <2> QED
    BY <1>2, <2>2
<1>7. \A d \in Config : r # Accept(s, d)
  <2>1. ~r.ok
    OBVIOUS
  <2> HIDE DEF r
  <2>2. \A d \in Config : Accept(s, d).ok = TRUE
    BY ReaderIs
  <2> QED
    BY <2>1, <2>2
<1>8. CASE s.ctx = None
  BY <1>5, <1>6, <1>8
<1>9. CASE s.ctx # None /\ s.ctx.kind = "port"
  <2> DEFINE p == s.ctx.id
  <2>1. p \in PortIds
    BY <1>9, ContextIs DEF Readers
  <2>2. Does(s, p, r)
    BY <1>5, <1>9, <2>1, PortLineIs
  <2>3. CASE r = Accept(s, c)
    BY <1>2, <1>7, <2>3
  <2>4. CASE \E x \in Settings : r = Accept(s, [c EXCEPT !.port[p] = x])
    <3>1. PICK x \in Settings : r = Accept(s, [c EXCEPT !.port[p] = x])
      BY <2>4
    <3> DEFINE d == [c EXCEPT !.port[p] = x]
    <3> HIDE DEF c, r
    <3>2. d \in Config
      BY <1>2 DEF Config
    <3> QED
      BY <1>7, <3>1, <3>2
  <2>5. CASE \E d \in Sent(c, p) : \E tagged, untagged :
               r = SetMemberships(s, d, p, tagged, untagged)
    <3>1. PICK d \in Sent(c, p) : \E tagged, untagged :
                 r = SetMemberships(s, d, p, tagged, untagged)
      BY <2>5
    <3>2. d \in Config /\ d = [c EXCEPT !.pvid = d.pvid]
      BY <1>2, <2>1, SentAre
    <3>3. r.cand = d
      <4>1. ~r.ok
        OBVIOUS
      <4> HIDE DEF r, c, p
      <4> QED
        BY <2>1, <3>1, <3>2, <4>1, SetMembershipsIs
    <3> HIDE DEF c, r
    <3>4. [d EXCEPT !.pvid = c.pvid] = c
      BY <1>2, <3>2 DEF Config
    <3> QED
      BY <3>3, <3>4
  <2> QED
    BY <1>6, <2>2, <2>3, <2>4, <2>5 DEF Does
<1>10. CASE s.ctx # None /\ s.ctx.kind # "port"
  <2>1. s.ctx \in Contexts /\ r = OtherLine(s, l)
    BY <1>5, <1>10 DEF Readers
  <2>2. CASE s.ctx.kind = "management"
    <3>1. r = ManagementLine(s, l)
      BY <2>1, <2>2 DEF OtherLine
    <3> HIDE DEF r
    <3>2. r = Reject(s) \/ \E d \in Config : r = Accept(s, d)
      BY <1>2, <3>1, ManagementLineIs
    <3> QED
      BY <1>6, <1>7, <3>2
  <2>3. CASE s.ctx.kind \in {"vlan", "lag"}
    <3>1. s.ctx.kind = "vlan" => r = VlanLine(s, l) /\ s.ctx.id \in Vids
      BY <2>1, <2>3, ContextIs DEF OtherLine
    <3>2. s.ctx.kind = "lag" => r = LagLine(s, l) /\ s.ctx.id \in Groups
      BY <2>1, <2>3, ContextIs DEF OtherLine
    <3> HIDE DEF r
    <3>3. Edits(s, r)
      BY <1>2, <2>3, <3>1, <3>2, EntryLineIs
    <3>4. \A d \in Draft : d.mgmt = c.mgmt => d \in Config
      BY <1>2, DraftIs
    <3> QED
      BY <1>6, <1>7, <3>3, <3>4 DEF Edits
  <2> QED
    BY <1>10, <2>1, <2>2, <2>3, ContextIs
<1> QED
  BY <1>8, <1>9, <1>10

(* d differs from c at most in port p and the VLANs of p. *)
OnlyPort(c, d, p) ==
  /\ d.mgmt = c.mgmt /\ d.fallback = c.fallback /\ d.lags = c.lags /\ d.dot1q = c.dot1q
  /\ VlanIds(d) = VlanIds(c)
  /\ \A q \in PortIds \ {p} : /\ d.port[q] = c.port[q] /\ d.pvid[q] = c.pvid[q]
                              /\ Tagged(d, q) = Tagged(c, q) /\ Untagged(d, q) = Untagged(c, q)

LEMMA OnlyPortIs ==
  ASSUME NEW c \in Config, NEW d \in Config, NEW p \in PortIds, OnlyPort(c, d, p)
  PROVE  [d EXCEPT !.port[p] = c.port[p], !.pvid[p] = c.pvid[p], !.vlans = c.vlans] = c
<1> DEFINE port == [d.port EXCEPT ![p] = c.port[p]]
           pvid == [d.pvid EXCEPT ![p] = c.pvid[p]]
           e == [d EXCEPT !.port = port]
           f == [e EXCEPT !.pvid = pvid]
           g == [f EXCEPT !.vlans = c.vlans]
<1>1. port = c.port
  BY DEF OnlyPort, Config
<1>2. pvid = c.pvid
  BY DEF OnlyPort, Config
<1>3. [d EXCEPT !.port[p] = c.port[p], !.pvid[p] = c.pvid[p], !.vlans = c.vlans] = g
  <2>1. e.pvid = d.pvid
    BY DEF Config
  <2> HIDE DEF e
  <2>2. [e EXCEPT !.pvid[p] = c.pvid[p]] = f
    BY <2>1
  <2> QED
    BY <2>2 DEF e
<1> HIDE DEF port, pvid
<1>4. e \in Config /\ e = [d EXCEPT !.port = c.port]
  BY <1>1 DEF Config
<1> HIDE DEF e
<1>5. f \in Config /\ f = [e EXCEPT !.pvid = c.pvid]
  BY <1>2, <1>4 DEF Config
<1> HIDE DEF f
<1>6. g = [f EXCEPT !.vlans = c.vlans]
  OBVIOUS
<1> HIDE DEF g
<1>7. g = c
  BY <1>4, <1>5, <1>6 DEF OnlyPort, Config
<1> QED
  BY <1>3, <1>7

LEMMA DoesLocally ==
  ASSUME NEW s \in Readers, NEW p \in PortIds, NEW r, Does(s, p, r)
  PROVE  r.cand \in Config /\ OnlyPort(s.cand, r.cand, p)
<1> DEFINE c == s.cand
<1> SUFFICES r.cand \in Config /\ OnlyPort(c, r.cand, p)
  OBVIOUS
<1>1. c \in Config /\ c \in Draft
  BY ReaderIs, DraftIs
<1>2. /\ Reject(s) = [cand |-> c, ctx |-> s.ctx, ok |-> FALSE]
      /\ \A d \in Config : Accept(s, d) = [cand |-> d, ctx |-> s.ctx, ok |-> TRUE]
  BY ReaderIs, Zenon
<1>3. OnlyPort(c, c, p)
  BY DEF OnlyPort
<1>4. CASE r = Reject(s) \/ r = Accept(s, c)
  <2> HIDE DEF c
  <2>1. r.cand = c
    BY <1>1, <1>2, <1>4 DEF c
  <2> QED
    BY <1>1, <1>3, <2>1
<1>5. CASE \E x \in Settings : r = Accept(s, [c EXCEPT !.port[p] = x])
  <2>1. PICK x \in Settings : r = Accept(s, [c EXCEPT !.port[p] = x])
    BY <1>5
  <2> DEFINE d == [c EXCEPT !.port[p] = x]
  <2> HIDE DEF c
  <2>2. /\ d \in Config /\ d.mgmt = c.mgmt /\ d.fallback = c.fallback /\ d.lags = c.lags
        /\ d.dot1q = c.dot1q /\ d.vlans = c.vlans /\ d.pvid = c.pvid
        /\ \A q \in PortIds \ {p} : d.port[q] = c.port[q]
    BY <1>1 DEF Config
  <2>3. r = Accept(s, d)
    BY <2>1
  <2> HIDE DEF d
  <2>4. r.cand = d
    BY <1>2, <2>2, <2>3
  <2>5. OnlyPort(c, d, p)
    BY <2>2 DEF OnlyPort, VlanIds, Tagged, Untagged
  <2> QED
    BY <2>2, <2>4, <2>5
<1>6. CASE \E d \in Sent(c, p) : \E tagged, untagged :
             r = SetMemberships(s, d, p, tagged, untagged)
  <2>1. PICK d \in Sent(c, p) : \E tagged, untagged : r = SetMemberships(s, d, p, tagged, untagged)
    BY <1>6
  <2>2. PICK tagged, untagged : r = SetMemberships(s, d, p, tagged, untagged)
    BY <2>1
  <2> HIDE DEF c
  <2>3. /\ d \in Config /\ d = [c EXCEPT !.pvid = d.pvid] /\ d.vlans = c.vlans
        /\ \A q \in PortIds \ {p} : d.pvid[q] = c.pvid[q]
    BY <1>1, SentAre
  <2>4. d \in Draft
    BY <2>3, DraftIs
  <2> DEFINE e == WithMemberships(d, p, tagged, untagged)
  <2>5. /\ e \in Draft /\ e.mgmt = d.mgmt /\ e = [d EXCEPT !.vlans = e.vlans]
        /\ VlanIds(e) = VlanIds(d)
        /\ \A q \in PortIds \ {p} : Tagged(e, q) = Tagged(d, q) /\ Untagged(e, q) = Untagged(d, q)
    BY <2>4, MembershipsAre, PortIsIn
  <2>6. r.cand = e \/ r.cand = d
    <3> HIDE DEF e
    <3> QED
      BY <2>2, <2>3, SetMembershipsIs DEF e
  <2> HIDE DEF e
  <2>7. /\ d.mgmt = c.mgmt /\ d.fallback = c.fallback /\ d.lags = c.lags /\ d.dot1q = c.dot1q
        /\ d.port = c.port
    BY <1>1, <2>3 DEF Config
  <2>8. /\ e.mgmt = d.mgmt /\ e.fallback = d.fallback /\ e.lags = d.lags /\ e.dot1q = d.dot1q
        /\ e.port = d.port /\ e.pvid = d.pvid
    BY <2>3, <2>5 DEF Config
  <2>9. OnlyPort(c, d, p)
    BY <2>3, <2>7 DEF OnlyPort, VlanIds, Tagged, Untagged
  <2>10. e \in Config
    BY <2>3, <2>5, DraftIs DEF Config
  <2>11. OnlyPort(c, e, p)
    BY <2>5, <2>8, <2>9 DEF OnlyPort
  <2> QED
    BY <2>3, <2>6, <2>9, <2>10, <2>11
<1> QED
  BY <1>4, <1>5, <1>6 DEF Does

(* In the context of a port, the lines for ports are PortLine's.           *)
LEMMA PortContext ==
  ASSUME TypeOK, configMode, context # None, context.kind = "port",
         NEW w, w \notin Heads \cup Removals, NEW a \in Arguments(w)
  PROVE  LET s == Reader(candidate, context)
         IN /\ s \in Readers /\ s.cand = candidate /\ s.ctx = context
            /\ context.id \in PortIds
            /\ Configure(s, Line(w, a)) = PortLine(s, Line(w, a))
<1> DEFINE s == Reader(candidate, context)
<1>1. s \in Readers
  BY TypedLine
<1>2. s.cand = candidate /\ s.ctx = context
  BY DEF Reader
<1>3. context.id \in PortIds
  BY ContextIs DEF TypeOK
<1>4. Line(w, a).words = w
  BY DEF Line
<1> HIDE DEF s
<1>5. Configure(s, Line(w, a)) = PortLine(s, Line(w, a))
  BY <1>2, <1>4 DEF Configure
<1> QED
  BY <1>1, <1>2, <1>3, <1>5 DEF s

LEMMA LinesOfPortsAreLocal == TypeOK => PortLineIsLocal
<1> SUFFICES ASSUME TypeOK, configMode, context # None, context.kind = "port",
                    NEW w \in PortLines, NEW a \in Arguments(w)
             PROVE  LET p == context.id
                        c == Configure(Reader(candidate, context), Line(w, a)).cand
                        Others == PortIds \ {p}
                    IN /\ VlanIds(c) = VlanIds(candidate)
                       /\ \A q \in Others : /\ Tagged(c, q) = Tagged(candidate, q)
                                            /\ Untagged(c, q) = Untagged(candidate, q)
                       /\ [c EXCEPT !.port[p] = candidate.port[p], !.pvid[p] = candidate.pvid[p],
                                    !.vlans = candidate.vlans] = candidate
  BY DEF PortLineIsLocal
<1> DEFINE p == context.id
           s == Reader(candidate, context)
           r == Configure(s, Line(w, a))
<1>1. w \notin Heads \cup Removals
  BY DEF PortLines, PartNamed, NoSwitchport, Heads, Removals
<1>2. s \in Readers /\ s.cand = candidate /\ s.ctx = context /\ p \in PortIds
      /\ r = PortLine(s, Line(w, a))
  BY <1>1, PortContext
<1> HIDE DEF s, r
<1>3. Does(s, p, r)
  BY <1>2, PortLineIs
<1> HIDE DEF p
<1>4. r.cand \in Config /\ OnlyPort(candidate, r.cand, p)
  BY <1>2, <1>3, DoesLocally
<1>5. [r.cand EXCEPT !.port[p] = candidate.port[p], !.pvid[p] = candidate.pvid[p],
                     !.vlans = candidate.vlans] = candidate
  BY <1>2, <1>4, OnlyPortIs DEF TypeOK
<1> QED
  BY <1>4, <1>5 DEF OnlyPort, p, r, s

LEMMA RejectionsKeepVlans == TypeOK => RejectedKeepsVlans
<1> SUFFICES ASSUME TypeOK, NEW w \in words, NEW a \in Arguments(w),
                    ~Configure(Reader(candidate, context), Line(w, a)).ok
             PROVE  [Configure(Reader(candidate, context), Line(w, a)).cand
                       EXCEPT !.pvid = candidate.pvid] = candidate
  BY DEF RejectedKeepsVlans
<1> DEFINE s == Reader(candidate, context)
<1>1. s \in Readers /\ s.cand = candidate
  BY TypedLine DEF Reader
<1>2. ~Configure(s, Line(w, a)).ok
  OBVIOUS
<1> HIDE DEF s
<1>3. [Configure(s, Line(w, a)).cand EXCEPT !.pvid = s.cand.pvid] = s.cand
  BY <1>1, <1>2, RejectedIs
<1> QED
  BY <1>1, <1>3 DEF s

(* What is accepted is no rejection. *)
LEMMA AcceptedIs ==
  ASSUME NEW t, t.ok, NEW d, NEW ctx
  PROVE  t # [cand |-> d, ctx |-> ctx, ok |-> FALSE]
<1> SUFFICES ASSUME t = [cand |-> d, ctx |-> ctx, ok |-> FALSE] PROVE FALSE
  OBVIOUS
<1>1. ~t.ok
  OBVIOUS
<1> QED
  BY <1>1

(* The port is untagged in its PVID alone when its VLANs are set so.       *)
LEMMA SentFits ==
  ASSUME NEW s \in Readers, NEW d \in Config, NEW p \in PortIds, NEW tagged, NEW untagged
  PROVE  LET t == SetMemberships(s, d, p, tagged, untagged)
         IN (/\ untagged = {d.pvid[p]} /\ d.pvid[p] \notin tagged
             /\ t # [cand |-> d, ctx |-> s.ctx, ok |-> FALSE])
            => /\ Untagged(t.cand, p) = {t.cand.pvid[p]}
               /\ Tagged(t.cand, p) \cap Untagged(t.cand, p) = {}
<1> DEFINE e == WithMemberships(d, p, tagged, untagged)
           t == SetMemberships(s, d, p, tagged, untagged)
<1>1. /\ tagged \cup untagged \subseteq VlanIds(d) => t = [cand |-> e, ctx |-> s.ctx, ok |-> TRUE]
      /\ ~(tagged \cup untagged \subseteq VlanIds(d)) => t = [cand |-> d, ctx |-> s.ctx, ok |-> FALSE]
  BY SetMembershipsIs
<1>2. d \in Draft
  BY DraftIs
<1>3. e = [d EXCEPT !.vlans = e.vlans]
  BY <1>2, MembershipsAre
<1>4. Tagged(e, p) = VlanIds(d) \cap tagged /\ Untagged(e, p) = VlanIds(d) \cap untagged
  BY <1>2, PortIsIn
<1> HIDE DEF e
<1>5. e.pvid[p] = d.pvid[p]
  BY <1>2, <1>3 DEF Draft
<1> SUFFICES ASSUME untagged = {d.pvid[p]}, d.pvid[p] \notin tagged,
                    t # [cand |-> d, ctx |-> s.ctx, ok |-> FALSE]
             PROVE  /\ Untagged(t.cand, p) = {t.cand.pvid[p]}
                    /\ Tagged(t.cand, p) \cap Untagged(t.cand, p) = {}
  OBVIOUS
<1> HIDE DEF t
<1>6. tagged \cup untagged \subseteq VlanIds(d) /\ t.cand = e
  BY <1>1
<1> QED
  BY <1>4, <1>5, <1>6

(* So it is by the lines for access and trunk ports. *)
LEMMA AccessAndTrunkFit ==
  ASSUME NEW s \in Readers, s.ctx.id \in PortIds,
         NEW w \in {"switchport access vlan", "switchport trunk native vlan",
                    "switchport trunk allowed vlan"},
         NEW a \in Arguments(w)
  PROVE  LET t == PortLine(s, Line(w, a))
             p == s.ctx.id
         IN t.ok => /\ Untagged(t.cand, p) = {t.cand.pvid[p]}
                    /\ Tagged(t.cand, p) \cap Untagged(t.cand, p) = {}
<1> DEFINE p == s.ctx.id
           l == Line(w, a)
           t == PortLine(s, l)
           c == s.cand
           At(v) == [c EXCEPT !.pvid[p] = v]
           Fit(u) == /\ Untagged(u.cand, p) = {u.cand.pvid[p]}
                     /\ Tagged(u.cand, p) \cap Untagged(u.cand, p) = {}
<1> SUFFICES ASSUME t.ok PROVE Fit(t)
  OBVIOUS
<1>1. l.words = w /\ l.arg = a
  BY DEF Line
<1>2. w \in {"switchport access vlan", "switchport trunk native vlan"} => a \in Vids
  BY ArgumentsAre, Zenon
<1>3. c \in Config /\ Reject(s) = [cand |-> c, ctx |-> s.ctx, ok |-> FALSE]
  BY ReaderIs, Zenon
<1>4. \A d, ctx : t # [cand |-> d, ctx |-> ctx, ok |-> FALSE]
  BY AcceptedIs, Zenon
<1>5. ASSUME NEW v \in Vids
      PROVE  At(v) \in Config /\ At(v).pvid[p] = v
  <2> HIDE DEF c, p
  <2> QED
    BY <1>3 DEF Config, p
<1>6. ASSUME NEW d \in Config, NEW tagged, NEW untagged,
             untagged = {d.pvid[p]} /\ d.pvid[p] \notin tagged
             /\ SetMemberships(s, d, p, tagged, untagged) = t
      PROVE  Fit(t)
  <2> DEFINE u == SetMemberships(s, d, p, tagged, untagged)
  <2> HIDE DEF t, Fit, p
  <2>1. p \in PortIds
    BY DEF p
  <2>2. (/\ untagged = {d.pvid[p]} /\ d.pvid[p] \notin tagged
         /\ u # [cand |-> d, ctx |-> s.ctx, ok |-> FALSE]) => Fit(u)
    BY <2>1, SentFits DEF Fit
  <2> HIDE DEF u
  <2> QED
    BY <1>4, <1>6, <2>2 DEF u
<1> HIDE DEF c, l, Fit, p
<1>7. t = PortLine(s, l)
  OBVIOUS
<1> HIDE DEF t
<1>8. c.port[p] # None
  <2> SUFFICES ASSUME c.port[p] = None PROVE FALSE
    OBVIOUS
  <2>1. t = Reject(s)
    BY <1>7 DEF PortLine, c, p
  <2> QED
    BY <1>3, <1>4, <2>1
<1>9. CASE w = "switchport access vlan"
  <2>1. t = SetMemberships(s, At(a), p, {}, {a})
    BY <1>1, <1>7, <1>8, <1>9 DEF PortLine, c, p
  <2>2. At(a) \in Config /\ At(a).pvid[p] = a
    BY <1>2, <1>5, <1>9
  <2> HIDE DEF At
  <2> QED
    BY <1>6, <2>1, <2>2
<1>10. CASE w = "switchport trunk native vlan"
  <2>1. t = SetMemberships(s, At(a), p, TaggedBesides(c, p, a), {a})
    BY <1>1, <1>7, <1>8, <1>10 DEF PortLine, c, p
  <2>2. At(a) \in Config /\ At(a).pvid[p] = a
    BY <1>2, <1>5, <1>10
  <2>3. a \notin TaggedBesides(c, p, a)
    BY DEF TaggedBesides
  <2> HIDE DEF At
  <2> QED
    BY <1>6, <2>1, <2>2, <2>3
<1>11. CASE w = "switchport trunk allowed vlan"
  <2>1. c.pvid[p] \in a
    <3> SUFFICES ASSUME c.pvid[p] \notin a PROVE FALSE
      OBVIOUS
    <3>1. t = Reject(s)
      BY <1>1, <1>7, <1>8, <1>11 DEF PortLine, c, p
    <3> QED
      BY <1>3, <1>4, <3>1
  <2>2. t = SetMemberships(s, c, p, a \ {c.pvid[p]}, {c.pvid[p]})
    BY <1>1, <1>7, <1>8, <1>11, <2>1 DEF PortLine, c, p
  <2> QED
    BY <1>3, <1>6, <2>2
<1> QED
  BY <1>9, <1>10, <1>11

LEMMA AccessAndTrunkLines == TypeOK => AccessAndTrunkAreValid
<1> SUFFICES ASSUME TypeOK, configMode, context # None, context.kind = "port",
                    NEW w \in {"switchport access vlan", "switchport trunk native vlan",
                               "switchport trunk allowed vlan"},
                    NEW a \in Arguments(w)
             PROVE  LET t == Configure(Reader(candidate, context), Line(w, a))
                    IN t.ok => /\ Untagged(t.cand, context.id) = {t.cand.pvid[context.id]}
                               /\ Tagged(t.cand, context.id) \cap Untagged(t.cand, context.id) = {}
  BY DEF AccessAndTrunkAreValid
<1> DEFINE s == Reader(candidate, context)
<1>1. w \notin Heads \cup Removals
  BY DEF Heads, Removals
<1>2. s \in Readers /\ s.ctx = context /\ context.id \in PortIds
      /\ Configure(s, Line(w, a)) = PortLine(s, Line(w, a))
  BY <1>1, PortContext
<1> HIDE DEF s
<1>3. LET t == PortLine(s, Line(w, a))
          p == s.ctx.id
      IN t.ok => /\ Untagged(t.cand, p) = {t.cand.pvid[p]}
                 /\ Tagged(t.cand, p) \cap Untagged(t.cand, p) = {}
  BY <1>2, AccessAndTrunkFit
<1> QED
  BY <1>2, <1>3 DEF s

(* What a session shows as a hybrid port cannot be written otherwise.      *)
THEOREM HybridPortsAreNeeded == Spec => []HybridOnlyIfNeeded
BY SessionTypeCorrect, HybridIsNeeded, PTL

(* A line typed for one port, whatever the line and the configuration,     *)
(* leaves all other ports and the set of VLANs alone.                      *)
THEOREM PortLinesAreLocal == Spec => []PortLineIsLocal
BY SessionTypeCorrect, LinesOfPortsAreLocal, PTL

(* A line that is rejected, in any context, has changed nothing but        *)
(* perhaps a PVID.                                                         *)
THEOREM RejectedLinesKeepVlans == Spec => []RejectedKeepsVlans
BY SessionTypeCorrect, RejectionsKeepVlans, PTL

(* An access or trunk line that is accepted makes the VLANs of the port    *)
(* agree with its PVID, however they were mixed up before.                 *)
THEOREM AccessAndTrunkPortsAreValid == Spec => []AccessAndTrunkAreValid
BY SessionTypeCorrect, AccessAndTrunkLines, PTL
=============================================================================
