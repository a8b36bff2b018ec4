------------------------------ MODULE TextProofs ------------------------------
(***************************************************************************)
(* Proofs about whole texts: what parse_config makes of what render_config *)
(* writes, and what a session that types it makes of any candidate, for    *)
(* configurations of any size.  A section of a text leads from one set of  *)
(* states of its reader to another (Leads); the sections of a table are    *)
(* put together in the order of the table (LeadsInOrder).                  *)
(***************************************************************************)
EXTENDS SessionProofs

----------------------------------------------------------------------------
(* The states between the sections of a text, as records.                  *)

Cand(m, f, port, pvid, vlans, lags) ==
  [mgmt |-> m, fallback |-> f, port |-> port, pvid |-> pvid, vlans |-> vlans, lags |-> lags,
   dot1q |-> TRUE]

ReadAs(c, ctx, parts) == [cand |-> c, ctx |-> ctx, ok |-> TRUE, parts |-> parts]

(* One field of a configuration or of a reader set. *)
WithMgmt(c, x) == [c EXCEPT !.mgmt = x]
WithFallback(c, x) == [c EXCEPT !.fallback = x]
WithPort(c, x) == [c EXCEPT !.port = x]
WithPvids(c, x) == [c EXCEPT !.pvid = x]
WithVlans(c, x) == [c EXCEPT !.vlans = x]
WithLags(c, x) == [c EXCEPT !.lags = x]
InCtx(s, x) == [s EXCEPT !.ctx = x]
WithParts(s, x) == [s EXCEPT !.parts = x]

LEMMA CandIs ==
  ASSUME NEW m, NEW f, NEW port, NEW pvid, NEW vlans, NEW lags
  PROVE  /\ Cand(m, f, port, pvid, vlans, lags).mgmt = m
         /\ Cand(m, f, port, pvid, vlans, lags).fallback = f
         /\ Cand(m, f, port, pvid, vlans, lags).port = port
         /\ Cand(m, f, port, pvid, vlans, lags).pvid = pvid
         /\ Cand(m, f, port, pvid, vlans, lags).vlans = vlans
         /\ Cand(m, f, port, pvid, vlans, lags).lags = lags
BY DEF Cand

LEMMA CandSet ==
  ASSUME NEW m, NEW f, NEW port, NEW pvid, NEW vlans, NEW lags, NEW x
  PROVE  /\ WithMgmt(Cand(m, f, port, pvid, vlans, lags), x) = Cand(x, f, port, pvid, vlans, lags)
         /\ WithFallback(Cand(m, f, port, pvid, vlans, lags), x) = Cand(m, x, port, pvid, vlans, lags)
         /\ WithPort(Cand(m, f, port, pvid, vlans, lags), x) = Cand(m, f, x, pvid, vlans, lags)
         /\ WithPvids(Cand(m, f, port, pvid, vlans, lags), x) = Cand(m, f, port, x, vlans, lags)
         /\ WithVlans(Cand(m, f, port, pvid, vlans, lags), x) = Cand(m, f, port, pvid, x, lags)
         /\ WithLags(Cand(m, f, port, pvid, vlans, lags), x) = Cand(m, f, port, pvid, vlans, x)
<1> DEFINE c == Cand(m, f, port, pvid, vlans, lags)
<1>1. c \in [mgmt : {m}, fallback : {f}, port : {port}, pvid : {pvid}, vlans : {vlans}, lags : {lags},
            dot1q : {TRUE}]
  BY DEF Cand
<1> HIDE DEF c
<1>2. WithMgmt(c, x) = Cand(x, f, port, pvid, vlans, lags)
  <2> DEFINE d == [c EXCEPT !.mgmt = x]
  <2>1. d \in [mgmt : {x}, fallback : {f}, port : {port}, pvid : {pvid}, vlans : {vlans}, lags : {lags},
            dot1q : {TRUE}]
    BY <1>1
  <2> HIDE DEF d
  <2>2. d = Cand(x, f, port, pvid, vlans, lags)
    BY <2>1 DEF Cand
  <2> QED
    BY <2>2 DEF d, WithMgmt
<1>3. WithFallback(c, x) = Cand(m, x, port, pvid, vlans, lags)
  <2> DEFINE d == [c EXCEPT !.fallback = x]
  <2>1. d \in [mgmt : {m}, fallback : {x}, port : {port}, pvid : {pvid}, vlans : {vlans}, lags : {lags},
            dot1q : {TRUE}]
    BY <1>1
  <2> HIDE DEF d
  <2>2. d = Cand(m, x, port, pvid, vlans, lags)
    BY <2>1 DEF Cand
  <2> QED
    BY <2>2 DEF d, WithFallback
<1>4. WithPort(c, x) = Cand(m, f, x, pvid, vlans, lags)
  <2> DEFINE d == [c EXCEPT !.port = x]
  <2>1. d \in [mgmt : {m}, fallback : {f}, port : {x}, pvid : {pvid}, vlans : {vlans}, lags : {lags},
            dot1q : {TRUE}]
    BY <1>1
  <2> HIDE DEF d
  <2>2. d = Cand(m, f, x, pvid, vlans, lags)
    BY <2>1 DEF Cand
  <2> QED
    BY <2>2 DEF d, WithPort
<1>5. WithPvids(c, x) = Cand(m, f, port, x, vlans, lags)
  <2> DEFINE d == [c EXCEPT !.pvid = x]
  <2>1. d \in [mgmt : {m}, fallback : {f}, port : {port}, pvid : {x}, vlans : {vlans}, lags : {lags},
            dot1q : {TRUE}]
    BY <1>1
  <2> HIDE DEF d
  <2>2. d = Cand(m, f, port, x, vlans, lags)
    BY <2>1 DEF Cand
  <2> QED
    BY <2>2 DEF d, WithPvids
<1>6. WithVlans(c, x) = Cand(m, f, port, pvid, x, lags)
  <2> DEFINE d == [c EXCEPT !.vlans = x]
  <2>1. d \in [mgmt : {m}, fallback : {f}, port : {port}, pvid : {pvid}, vlans : {x}, lags : {lags},
            dot1q : {TRUE}]
    BY <1>1
  <2> HIDE DEF d
  <2>2. d = Cand(m, f, port, pvid, x, lags)
    BY <2>1 DEF Cand
  <2> QED
    BY <2>2 DEF d, WithVlans
<1>7. WithLags(c, x) = Cand(m, f, port, pvid, vlans, x)
  <2> DEFINE d == [c EXCEPT !.lags = x]
  <2>1. d \in [mgmt : {m}, fallback : {f}, port : {port}, pvid : {pvid}, vlans : {vlans}, lags : {x},
            dot1q : {TRUE}]
    BY <1>1
  <2> HIDE DEF d
  <2>2. d = Cand(m, f, port, pvid, vlans, x)
    BY <2>1 DEF Cand
  <2> QED
    BY <2>2 DEF d, WithLags
<1> QED
  BY <1>2, <1>3, <1>4, <1>5, <1>6, <1>7 DEF c

LEMMA ReadSet ==
  ASSUME NEW c, NEW ctx, NEW parts, NEW x
  PROVE  /\ Accept(ReadAs(c, ctx, parts), x) = ReadAs(x, ctx, parts)
         /\ InCtx(ReadAs(c, ctx, parts), x) = ReadAs(c, x, parts)
         /\ WithParts(ReadAs(c, ctx, parts), x) = ReadAs(c, ctx, x)
<1> DEFINE s == ReadAs(c, ctx, parts)
           t == ReadAs(x, ctx, parts)
<1>1. s \in [cand : {c}, ctx : {ctx}, ok : {TRUE}, parts : {parts}]
  BY DEF ReadAs
<1>2. t \in [cand : {x}, ctx : {ctx}, ok : {TRUE}, parts : {parts}]
  BY DEF ReadAs
<1>3. Accept(s, x) = [[s EXCEPT !.cand = x] EXCEPT !.ok = TRUE]
  BY DEF Accept
<1> HIDE DEF s, t
<1>4. [s EXCEPT !.cand = x] = t
  <2> DEFINE d == [s EXCEPT !.cand = x]
  <2>1. d \in [cand : {x}, ctx : {ctx}, ok : {TRUE}, parts : {parts}]
    BY <1>1
  <2> HIDE DEF d
  <2>2. d = t
    BY <2>1 DEF ReadAs, s, t
  <2> QED
    BY <2>2 DEF d
<1>5. [t EXCEPT !.ok = TRUE] = t
  <2> DEFINE d == [t EXCEPT !.ok = TRUE]
  <2>1. d \in [cand : {x}, ctx : {ctx}, ok : {TRUE}, parts : {parts}]
    BY <1>2
  <2> HIDE DEF d
  <2>2. d = t
    BY <2>1 DEF ReadAs, s, t
  <2> QED
    BY <2>2 DEF d
<1>6. Accept(s, x) = t
  BY <1>3, <1>4, <1>5
<1>7. InCtx(s, x) = ReadAs(c, x, parts)
  <2> DEFINE d == [s EXCEPT !.ctx = x]
  <2>1. d \in [cand : {c}, ctx : {x}, ok : {TRUE}, parts : {parts}]
    BY <1>1
  <2> HIDE DEF d
  <2>2. d = ReadAs(c, x, parts)
    BY <2>1 DEF ReadAs, s, t
  <2> QED
    BY <2>2 DEF d, InCtx
<1>8. WithParts(s, x) = ReadAs(c, ctx, x)
  <2> DEFINE d == [s EXCEPT !.parts = x]
  <2>1. d \in [cand : {c}, ctx : {ctx}, ok : {TRUE}, parts : {x}]
    BY <1>1
  <2> HIDE DEF d
  <2>2. d = ReadAs(c, ctx, x)
    BY <2>1 DEF ReadAs, s, t
  <2> QED
    BY <2>2 DEF d, WithParts
<1> QED
  BY <1>6, <1>7, <1>8 DEF s, t

LEMMA ReadEnters ==
  ASSUME NEW c, NEW ctx, NEW parts, NEW d, NEW kind, NEW id
  PROVE  Enter(ReadAs(c, ctx, parts), d, kind, id) = ReadAs(d, Context(kind, id), parts)
<1> DEFINE s == ReadAs(c, ctx, parts)
           x == Context(kind, id)
           u == Enter(s, d, kind, id)
<1>1. s \in [cand : {c}, ctx : {ctx}, ok : {TRUE}, parts : {parts}]
  BY DEF ReadAs
<1> HIDE DEF x, s
<1>2. u \in [cand : {d}, ctx : {x}, ok : {TRUE}, parts : {parts}]
  <2> DEFINE t == [s EXCEPT !.cand = d]
  <2>1. t \in [cand : {d}, ctx : {ctx}, ok : {TRUE}, parts : {parts}]
    BY <1>1
  <2>2. u = [[t EXCEPT !.ctx = x] EXCEPT !.ok = TRUE]
    BY DEF Enter, x
  <2> HIDE DEF t, u
  <2> QED
    BY <2>1, <2>2
<1> HIDE DEF u
<1>3. u = ReadAs(d, x, parts)
  BY <1>2 DEF ReadAs
<1> QED
  BY <1>3 DEF s, x, u

(* Which part of parse_config a line goes to.                              *)
LEMMA HeadIsRead ==
  ASSUME NEW c, NEW ctx, NEW parts, NEW w \in Heads, NEW a
  PROVE  ParseLine(ReadAs(c, ctx, parts), Line(w, a))
           = NewSection(ReadAs(c, ctx, parts), Line(w, a))
<1> DEFINE s == ReadAs(c, ctx, parts)
           l == Line(w, a)
<1>1. s.ok = TRUE
  BY DEF ReadAs
<1>2. l.words = w /\ l # Header /\ l # Bang
  BY DEF Line, Header, Bang, Heads
<1> HIDE DEF s, l
<1>3. ParseLine(s, l) = NewSection(s, l)
  BY <1>1, <1>2 DEF ParseLine
<1> QED
  BY <1>3 DEF s, l

LEMMA PortLineIsRead ==
  ASSUME NEW c, NEW ctx, ctx # None, ctx.kind = "port", NEW parts,
         NEW w \in Words, w \notin Heads, w # "!", NEW a
  PROVE  ParseLine(ReadAs(c, ctx, parts), Line(w, a))
           = PortLineOfText(ReadAs(c, ctx, parts), Line(w, a))
<1> DEFINE s == ReadAs(c, ctx, parts)
           l == Line(w, a)
<1>1. s.ok = TRUE /\ s.ctx = ctx
  BY DEF ReadAs
<1>2. l.words = w /\ l # Header /\ l # Bang
  BY DEF Line, Header, Bang, Heads, Removals, Words
<1> HIDE DEF s, l
<1>3. ParseLine(s, l) = PortLineOfText(s, l)
  BY <1>1, <1>2 DEF ParseLine
<1> QED
  BY <1>3 DEF s, l

LEMMA OtherLineIsRead ==
  ASSUME NEW c, NEW ctx, ctx # None, ctx.kind # "port", NEW parts,
         NEW w \in Words, w \notin Heads, w # "!", NEW a
  PROVE  ParseLine(ReadAs(c, ctx, parts), Line(w, a))
           = OtherLine(ReadAs(c, ctx, parts), Line(w, a))
<1> DEFINE s == ReadAs(c, ctx, parts)
           l == Line(w, a)
<1>1. s.ok = TRUE /\ s.ctx = ctx
  BY DEF ReadAs
<1>2. l.words = w /\ l # Header /\ l # Bang
  BY DEF Line, Header, Bang, Heads, Removals, Words
<1> HIDE DEF s, l
<1>3. ParseLine(s, l) = OtherLine(s, l)
  BY <1>1, <1>2 DEF ParseLine
<1> QED
  BY <1>3 DEF s, l

LEMMA BangIs ==
  ASSUME NEW c, NEW ctx, NEW parts
  PROVE  ParseLine(ReadAs(c, ctx, parts), Bang) = ReadAs(c, None, parts)
<1> DEFINE s == ReadAs(c, ctx, parts)
<1>1. s.ok = TRUE
  BY DEF ReadAs
<1>2. Bang # Header /\ Bang.words \notin Heads
  BY DEF Bang, Header, Line, Heads
<1> HIDE DEF s
<1>3. ParseLine(s, Bang) = InCtx(s, None)
  BY <1>1, <1>2 DEF ParseLine, InCtx
<1>4. ParseLine(ReadAs(c, ctx, parts), Bang) = InCtx(ReadAs(c, ctx, parts), None)
  BY <1>3 DEF s
<1> QED
  BY <1>4, ReadSet

LEMMA LineIsIn ==
  /\ \A w \in Words : \A a \in Arguments(w) : Line(w, a) \in Lines
  /\ Bang \in Lines /\ Header \in Lines
<1>1. \A w \in Words : \A a \in Arguments(w) : Line(w, a) \in Lines
  BY DEF Lines
<1>2. "!" \in Words /\ None \in Arguments("!") /\ Bang = Line("!", None)
  BY DEF Words, Arguments, Bang
<1> QED
  BY <1>1, <1>2 DEF Lines

(* A state that is one of parse_config's.                                  *)
Only(s) == {s} \cap TextReaders

LEMMA OnlyReads ==
  ASSUME NEW s, NEW l \in Lines, NEW r, s \in TextReaders => ParseLine(s, l) = r
  PROVE  Leads(Reads, TextReaders, Only(s), <<l>>, Only(r))
<1>1. Only(s) \in SUBSET TextReaders /\ Only(r) \in SUBSET TextReaders
  BY DEF Only
<1>2. ASSUME NEW t \in Only(s)
      PROVE  Reads[t][l] \in Only(r)
  <2>1. t = s /\ s \in TextReaders
    BY DEF Only
  <2>2. Reads[s][l] = r /\ r \in TextReaders
    BY <2>1, ReadsIs
  <2> QED
    BY <2>1, <2>2 DEF Only
<1> QED
  BY <1>1, <1>2, LeadsLine

(* The tables of a state that is one of parse_config's.                    *)
LEMMA OnlyIs ==
  ASSUME NEW m, NEW f, NEW port, NEW pvid, NEW vlans, NEW lags, NEW ctx, NEW parts,
         ReadAs(Cand(m, f, port, pvid, vlans, lags), ctx, parts) \in TextReaders
  PROVE  /\ m \in Management \cup {None} /\ f \in BOOLEAN
         /\ port \in [PortIds -> Settings \cup {None}] /\ pvid \in [PortIds -> Vids]
         /\ vlans \in [Vids -> Vlan \cup {None}] /\ lags \in [Groups -> (SUBSET PortIds) \cup {None}]
         /\ parts \in [PortIds -> Parts]
<1> DEFINE c == Cand(m, f, port, pvid, vlans, lags)
<1>1. ReadAs(c, ctx, parts) \in Records
  BY DEF TextReaders
<1>2. c \in Draft /\ parts \in [PortIds -> Parts]
  <2> HIDE DEF c
  <2> QED
    BY <1>1 DEF Records, ReadAs
<1>3. /\ c.mgmt \in Management \cup {None} /\ c.fallback \in BOOLEAN
      /\ c.port \in [PortIds -> Settings \cup {None}] /\ c.pvid \in [PortIds -> Vids]
      /\ c.vlans \in [Vids -> Vlan \cup {None}] /\ c.lags \in [Groups -> (SUBSET PortIds) \cup {None}]
  <2> HIDE DEF c
  <2> QED
    BY <1>2 DEF Draft
<1> QED
  BY <1>2, <1>3, CandIs

(* The section of a VLAN: its entry begins empty and gets its name.        *)
LEMMA VlanSection ==
  ASSUME NEW c \in Config, NEW v \in VlanIds(c), Stripped[c.vlans[v].name] = c.vlans[v].name,
         NEW m, NEW f, NEW port, NEW pvid, NEW vlans, NEW lags, NEW parts
  PROVE  LET entry == [name |-> c.vlans[v].name, tagged |-> {}, untagged |-> {}]
             s == ReadAs(Cand(m, f, port, pvid, vlans, lags), None, parts)
             r == ReadAs(Cand(m, f, port, pvid, [vlans EXCEPT ![v] = entry], lags), None, parts)
         IN /\ RenderVlan(c, v) \in Seq(Lines)
            /\ Leads(Reads, TextReaders, Only(s), RenderVlan(c, v), Only(r))
<1> DEFINE name == c.vlans[v].name
           entry == [name |-> name, tagged |-> {}, untagged |-> {}]
           C(x) == Cand(m, f, port, pvid, x, lags)
           new == [vlans EXCEPT ![v] = EmptyVlan]
           named == [vlans EXCEPT ![v] = entry]
           ctx == Context("vlan", v)
           s == ReadAs(C(vlans), None, parts)
           inside == ReadAs(C(new), ctx, parts)
           after == ReadAs(C(named), ctx, parts)
           r == ReadAs(C(named), None, parts)
           head == Line("vlan", v)
           line == IF name = "" THEN Line("no name", None) ELSE Line("name", name)
<1>1. v \in Vids /\ c.vlans[v] \in Vlan /\ name \in Names
  BY DEF Config, Vlan, VlanIds
<1>2. head \in Lines /\ line \in Lines /\ Bang \in Lines
  <2>1. "vlan" \in Words /\ v \in Arguments("vlan")
    BY <1>1 DEF Words, Heads, Arguments
  <2>2. "name" \in Words /\ name \in Arguments("name")
    BY <1>1 DEF Words, Arguments
  <2>3. "no name" \in Words /\ None \in Arguments("no name")
    BY DEF Words, Arguments
  <2> QED
    BY <2>1, <2>2, <2>3, LineIsIn
<1>3. \A d : d.vlans = vlans => [d EXCEPT !.vlans[v] = EmptyVlan] = WithVlans(d, new)
  BY DEF WithVlans
<1>4. new \in [Vids -> Vlan \cup {None}] => new[v] = EmptyVlan /\ new[v] # None
  <2>1. DOMAIN new = DOMAIN vlans
    OBVIOUS
  <2>2. EmptyVlan \in Vlan
    BY LanguageConstants DEF EmptyVlan, Vlan
  <2> QED
    BY <1>1, <2>1, <2>2, NoneIsApart
<1>5. new[v] = EmptyVlan => [new EXCEPT ![v] = [new[v] EXCEPT !.name = name]] = named
  <2>1. [EmptyVlan EXCEPT !.name = name] = entry
    <3> DEFINE e == EmptyVlan
               d == [e EXCEPT !.name = name]
    <3> HIDE DEF name
    <3>1. e \in [name : {""}, tagged : {{}}, untagged : {{}}]
      BY DEF EmptyVlan
    <3> HIDE DEF e
    <3>2. d \in [name : {name}, tagged : {{}}, untagged : {{}}]
      BY <3>1
    <3> HIDE DEF d
    <3>3. d = entry
      BY <3>2
    <3> QED
      BY <3>3 DEF d, e
  <2>2. [new EXCEPT ![v] = entry] = named
    <3> HIDE DEF entry
    <3> QED
      OBVIOUS
  <2> HIDE DEF entry, named, new, name
  <2> QED
    BY <2>1, <2>2
<1>6. /\ ctx # None /\ ctx.kind = "vlan" /\ ctx.id = v
  <2>1. ctx \in Contexts
    BY <1>1 DEF Contexts
  <2> QED
    BY <2>1, NoneIsApart DEF Context
<1>7. RenderVlan(c, v) = <<head, line, Bang>>
  BY DEF RenderVlan
<1>8. Stripped[name] = name
  OBVIOUS
<1> HIDE DEF new, named, ctx, entry, name
<1>9. ParseLine(s, head) = inside
  <2>1. ParseLine(s, head) = NewSection(s, head)
    <3>1. "vlan" \in Heads
      BY DEF Heads
    <3> QED
      BY <3>1, HeadIsRead
  <2>2. head.words = "vlan" /\ head.arg = v
    BY DEF Line
  <2>3. s.cand = C(vlans) /\ C(vlans).vlans = vlans
    <3>1. C(vlans).vlans = vlans
      BY CandIs
    <3> HIDE DEF C
    <3> QED
      BY <3>1 DEF ReadAs
  <2>4. WithVlans(C(vlans), new) = C(new)
    BY CandSet
  <2>5. Enter(s, C(new), "vlan", v) = inside
    BY ReadEnters DEF ctx
  <2> HIDE DEF s, head, C, inside
  <2>6. NewSection(s, head) = Enter(s, [s.cand EXCEPT !.vlans[v] = EmptyVlan], "vlan", v)
    BY <2>2 DEF NewSection
  <2> QED
    BY <1>3, <2>1, <2>3, <2>4, <2>5, <2>6
<1>10. ASSUME inside \in TextReaders
       PROVE  ParseLine(inside, line) = after
  <2>1. new \in [Vids -> Vlan \cup {None}]
    BY <1>10, OnlyIs
  <2>2. new[v] = EmptyVlan /\ new[v] # None
    BY <1>4, <2>1
  <2>3. ParseLine(inside, line) = OtherLine(inside, line)
    <3>1. "no name" \in Words \ Heads /\ "name" \in Words \ Heads
      BY DEF Words, Heads
    <3>2. "no name" # "!" /\ "name" # "!" /\ ctx.kind # "port"
      BY <1>6
    <3>3. \A w \in Words \ Heads : \A a : w # "!" =>
            ParseLine(inside, Line(w, a)) = OtherLine(inside, Line(w, a))
      BY <1>6, <3>2, OtherLineIsRead
    <3> QED
      BY <3>1, <3>2, <3>3
  <2>4. inside.ctx = ctx /\ inside.cand = C(new) /\ C(new).vlans = new
    <3>1. C(new).vlans = new
      BY CandIs
    <3> HIDE DEF C
    <3> QED
      BY <3>1 DEF ReadAs
  <2>5. name = "" => line.words = "no name"
    BY DEF Line
  <2>6. name # "" => line.words = "name" /\ Stripped[line.arg] # "" /\ Stripped[line.arg] = name
    BY <1>8 DEF Line
  <2>7. WithVlans(C(new), named) = C(named)
    BY CandSet
  <2>8. Accept(inside, C(named)) = after
    BY ReadSet
  <2> DEFINE full == C(new)
  <2> HIDE DEF inside, line, full, C, after
  <2>9. OtherLine(inside, line) = VlanLine(inside, line)
    BY <1>6, <2>4 DEF OtherLine
  <2>10. VlanLine(inside, line) = Accept(inside, [full EXCEPT !.vlans[v].name = name])
    BY <1>6, <2>2, <2>4, <2>5, <2>6 DEF VlanLine, full
  <2>11. [full EXCEPT !.vlans[v].name = name] = WithVlans(full, named)
    <3>1. [full EXCEPT !.vlans[v].name = name]
            = [full EXCEPT !.vlans = [new EXCEPT ![v] = [new[v] EXCEPT !.name = name]]]
      BY <2>4 DEF full
    <3> QED
      BY <1>5, <2>2, <3>1 DEF WithVlans
  <2> QED
    BY <2>3, <2>7, <2>8, <2>9, <2>10, <2>11 DEF full
<1>11. ParseLine(after, Bang) = r
  BY BangIs
<1> HIDE DEF s, inside, after, r, head, line
<1>12. /\ Leads(Reads, TextReaders, Only(s), <<head>>, Only(inside))
       /\ Leads(Reads, TextReaders, Only(inside), <<line>>, Only(after))
       /\ Leads(Reads, TextReaders, Only(after), <<Bang>>, Only(r))
  BY <1>2, <1>9, <1>10, <1>11, OnlyReads
<1>13. /\ RenderVlan(c, v) \in Seq(Lines)
       /\ Leads(Reads, TextReaders, Only(s), RenderVlan(c, v), Only(r))
  BY <1>2, <1>7, <1>12, LeadsThree
<1> QED
  BY <1>13 DEF s, r, named, entry, name

(* The section of a LAG: its entry begins empty and gets its members.      *)
LEMMA LagSection ==
  ASSUME NEW c \in Config, NEW g \in LagIds(c),
         NEW m, NEW f, NEW port, NEW pvid, NEW vlans, NEW lags, NEW parts
  PROVE  LET s == ReadAs(Cand(m, f, port, pvid, vlans, lags), None, parts)
             r == ReadAs(Cand(m, f, port, pvid, vlans, [lags EXCEPT ![g] = c.lags[g]]), None, parts)
         IN /\ RenderLag(c, g) \in Seq(Lines)
            /\ Leads(Reads, TextReaders, Only(s), RenderLag(c, g), Only(r))
<1> DEFINE members == c.lags[g]
           C(x) == Cand(m, f, port, pvid, vlans, x)
           new == [lags EXCEPT ![g] = {}]
           full == [lags EXCEPT ![g] = members]
           ctx == Context("lag", g)
           s == ReadAs(C(lags), None, parts)
           inside == ReadAs(C(new), ctx, parts)
           after == ReadAs(C(full), ctx, parts)
           r == ReadAs(C(full), None, parts)
           head == Line("interface port-channel", g)
           line == Line("members ports", members)
<1>1. g \in Groups /\ members \in SUBSET PortIds
  BY DEF Config, LagIds
<1>2. head \in Lines /\ line \in Lines /\ Bang \in Lines
  <2>1. "interface port-channel" \in Words /\ g \in Arguments("interface port-channel")
    BY <1>1 DEF Words, Heads, Arguments
  <2>2. "members ports" \in Words /\ members \in Arguments("members ports")
    BY <1>1 DEF Words, Arguments
  <2> QED
    BY <2>1, <2>2, LineIsIn
<1>3. \A d : d.lags = lags => [d EXCEPT !.lags[g] = {}] = WithLags(d, new)
  BY DEF WithLags
<1>4. new \in [Groups -> (SUBSET PortIds) \cup {None}] => new[g] = {} /\ new[g] # None
  <2>1. DOMAIN new = DOMAIN lags
    OBVIOUS
  <2> QED
    BY <1>1, <2>1, NoneIsApart
<1>5. \A d : d.lags = new => [d EXCEPT !.lags[g] = members] = WithLags(d, full)
  <2>1. [new EXCEPT ![g] = members] = full
    OBVIOUS
  <2> HIDE DEF new, full, members
  <2> QED
    BY <2>1 DEF WithLags
<1>6. /\ ctx # None /\ ctx.kind = "lag" /\ ctx.id = g
  <2>1. ctx \in Contexts
    BY <1>1 DEF Contexts
  <2> QED
    BY <2>1, NoneIsApart DEF Context
<1>7. RenderLag(c, g) = <<head, line, Bang>>
  BY DEF RenderLag
<1> HIDE DEF new, full, ctx, members
<1>8. ParseLine(s, head) = inside
  <2>1. ParseLine(s, head) = NewSection(s, head)
    <3> DEFINE w == "interface port-channel"
    <3>1. w \in Heads
      BY DEF Heads
    <3> HIDE DEF w
    <3>2. ParseLine(s, Line(w, g)) = NewSection(s, Line(w, g))
      BY <3>1, HeadIsRead
    <3> QED
      BY <3>2 DEF w
  <2>2. head.words = "interface port-channel" /\ head.arg = g
    BY DEF Line
  <2>3. s.cand = C(lags) /\ C(lags).lags = lags
    <3>1. C(lags).lags = lags
      BY CandIs
    <3> HIDE DEF C
    <3> QED
      BY <3>1 DEF ReadAs
  <2>4. WithLags(C(lags), new) = C(new)
    BY CandSet
  <2>5. Enter(s, C(new), "lag", g) = inside
    BY ReadEnters DEF ctx
  <2> HIDE DEF s, head, C, inside
  <2>6. NewSection(s, head) = Enter(s, [s.cand EXCEPT !.lags[g] = {}], "lag", g)
    BY <2>2 DEF NewSection
  <2> QED
    BY <1>3, <2>1, <2>3, <2>4, <2>5, <2>6
<1>9. ASSUME inside \in TextReaders
      PROVE  ParseLine(inside, line) = after
  <2>1. new \in [Groups -> (SUBSET PortIds) \cup {None}]
    BY <1>9, OnlyIs
  <2>2. new[g] = {} /\ new[g] # None
    BY <1>4, <2>1
  <2>3. ParseLine(inside, line) = OtherLine(inside, line)
    <3> DEFINE w == "members ports"
    <3>1. w \in Words /\ w \notin Heads /\ w # "!" /\ ctx.kind # "port"
      BY <1>6 DEF Words, Heads
    <3> HIDE DEF w
    <3>2. ParseLine(inside, Line(w, members)) = OtherLine(inside, Line(w, members))
      BY <1>6, <3>1, OtherLineIsRead
    <3> QED
      BY <3>2 DEF w
  <2>4. inside.ctx = ctx /\ inside.cand = C(new) /\ C(new).lags = new
    <3>1. C(new).lags = new
      BY CandIs
    <3> HIDE DEF C
    <3> QED
      BY <3>1 DEF ReadAs
  <2>5. line.words = "members ports" /\ line.arg = members
    BY DEF Line
  <2>6. WithLags(C(new), full) = C(full)
    BY CandSet
  <2>7. Accept(inside, C(full)) = after
    BY ReadSet
  <2> HIDE DEF inside, line, C, after
  <2>8. OtherLine(inside, line) = LagLine(inside, line)
    BY <1>6, <2>4 DEF OtherLine
  <2>9. LagLine(inside, line) = Accept(inside, [inside.cand EXCEPT !.lags[g] = members])
    BY <1>6, <2>2, <2>4, <2>5 DEF LagLine
  <2> QED
    BY <1>5, <2>3, <2>4, <2>6, <2>7, <2>8, <2>9
<1>10. ParseLine(after, Bang) = r
  BY BangIs
<1> HIDE DEF s, inside, after, r, head, line
<1>11. /\ Leads(Reads, TextReaders, Only(s), <<head>>, Only(inside))
       /\ Leads(Reads, TextReaders, Only(inside), <<line>>, Only(after))
       /\ Leads(Reads, TextReaders, Only(after), <<Bang>>, Only(r))
  BY <1>2, <1>8, <1>9, <1>10, OnlyReads
<1>12. /\ RenderLag(c, g) \in Seq(Lines)
       /\ Leads(Reads, TextReaders, Only(s), RenderLag(c, g), Only(r))
  BY <1>2, <1>7, <1>11, LeadsThree
<1> QED
  BY <1>12 DEF s, r, full, members

(* What parse_config collects of the switchport lines of a port.           *)
Part(mode, access, native, allowed, pvid, tagged, untagged) ==
  [mode |-> mode, access |-> access, native |-> native, allowed |-> allowed,
   pvid |-> pvid, tagged |-> tagged, untagged |-> untagged]

SetPart(q, part, x) == [q EXCEPT ![part] = x]

LEMMA PartSet ==
  ASSUME NEW mode, NEW access, NEW native, NEW allowed, NEW pvid, NEW tagged, NEW untagged, NEW x
  PROVE  LET q == Part(mode, access, native, allowed, pvid, tagged, untagged)
         IN /\ SetPart(q, "mode", x) = Part(x, access, native, allowed, pvid, tagged, untagged)
            /\ SetPart(q, "access", x) = Part(mode, x, native, allowed, pvid, tagged, untagged)
            /\ SetPart(q, "native", x) = Part(mode, access, x, allowed, pvid, tagged, untagged)
            /\ SetPart(q, "allowed", x) = Part(mode, access, native, x, pvid, tagged, untagged)
            /\ SetPart(q, "pvid", x) = Part(mode, access, native, allowed, x, tagged, untagged)
            /\ SetPart(q, "tagged", x) = Part(mode, access, native, allowed, pvid, x, untagged)
            /\ SetPart(q, "untagged", x) = Part(mode, access, native, allowed, pvid, tagged, x)
<1> DEFINE q == Part(mode, access, native, allowed, pvid, tagged, untagged)
<1>1. q \in [mode : {mode}, access : {access}, native : {native}, allowed : {allowed}, pvid : {pvid},
            tagged : {tagged}, untagged : {untagged}]
  BY DEF Part
<1> HIDE DEF q
<1>2. SetPart(q, "mode", x) = Part(x, access, native, allowed, pvid, tagged, untagged)
  <2> DEFINE d == [q EXCEPT !.mode = x]
  <2>1. d \in [mode : {x}, access : {access}, native : {native}, allowed : {allowed},
              pvid : {pvid}, tagged : {tagged}, untagged : {untagged}]
    BY <1>1
  <2> HIDE DEF d
  <2>2. d = Part(x, access, native, allowed, pvid, tagged, untagged)
    BY <2>1 DEF Part
  <2> QED
    BY <2>2 DEF d, SetPart
<1>3. SetPart(q, "access", x) = Part(mode, x, native, allowed, pvid, tagged, untagged)
  <2> DEFINE d == [q EXCEPT !.access = x]
  <2>1. d \in [mode : {mode}, access : {x}, native : {native}, allowed : {allowed},
              pvid : {pvid}, tagged : {tagged}, untagged : {untagged}]
    BY <1>1
  <2> HIDE DEF d
  <2>2. d = Part(mode, x, native, allowed, pvid, tagged, untagged)
    BY <2>1 DEF Part
  <2> QED
    BY <2>2 DEF d, SetPart
<1>4. SetPart(q, "native", x) = Part(mode, access, x, allowed, pvid, tagged, untagged)
  <2> DEFINE d == [q EXCEPT !.native = x]
  <2>1. d \in [mode : {mode}, access : {access}, native : {x}, allowed : {allowed},
              pvid : {pvid}, tagged : {tagged}, untagged : {untagged}]
    BY <1>1
  <2> HIDE DEF d
  <2>2. d = Part(mode, access, x, allowed, pvid, tagged, untagged)
    BY <2>1 DEF Part
  <2> QED
    BY <2>2 DEF d, SetPart
<1>5. SetPart(q, "allowed", x) = Part(mode, access, native, x, pvid, tagged, untagged)
  <2> DEFINE d == [q EXCEPT !.allowed = x]
  <2>1. d \in [mode : {mode}, access : {access}, native : {native}, allowed : {x},
              pvid : {pvid}, tagged : {tagged}, untagged : {untagged}]
    BY <1>1
  <2> HIDE DEF d
  <2>2. d = Part(mode, access, native, x, pvid, tagged, untagged)
    BY <2>1 DEF Part
  <2> QED
    BY <2>2 DEF d, SetPart
<1>6. SetPart(q, "pvid", x) = Part(mode, access, native, allowed, x, tagged, untagged)
  <2> DEFINE d == [q EXCEPT !.pvid = x]
  <2>1. d \in [mode : {mode}, access : {access}, native : {native}, allowed : {allowed},
              pvid : {x}, tagged : {tagged}, untagged : {untagged}]
    BY <1>1
  <2> HIDE DEF d
  <2>2. d = Part(mode, access, native, allowed, x, tagged, untagged)
    BY <2>1 DEF Part
  <2> QED
    BY <2>2 DEF d, SetPart
<1>7. SetPart(q, "tagged", x) = Part(mode, access, native, allowed, pvid, x, untagged)
  <2> DEFINE d == [q EXCEPT !.tagged = x]
  <2>1. d \in [mode : {mode}, access : {access}, native : {native}, allowed : {allowed},
              pvid : {pvid}, tagged : {x}, untagged : {untagged}]
    BY <1>1
  <2> HIDE DEF d
  <2>2. d = Part(mode, access, native, allowed, pvid, x, untagged)
    BY <2>1 DEF Part
  <2> QED
    BY <2>2 DEF d, SetPart
<1>8. SetPart(q, "untagged", x) = Part(mode, access, native, allowed, pvid, tagged, x)
  <2> DEFINE d == [q EXCEPT !.untagged = x]
  <2>1. d \in [mode : {mode}, access : {access}, native : {native}, allowed : {allowed},
              pvid : {pvid}, tagged : {tagged}, untagged : {x}]
    BY <1>1
  <2> HIDE DEF d
  <2>2. d = Part(mode, access, native, allowed, pvid, tagged, x)
    BY <2>1 DEF Part
  <2> QED
    BY <2>2 DEF d, SetPart
<1> QED
  BY <1>2, <1>3, <1>4, <1>5, <1>6, <1>7, <1>8 DEF q

(* A switchport line of a text in the section of a port. *)
Put(f, x, y) == [f EXCEPT ![x] = y]
AtPort(c, p, parts, q) == Only(ReadAs(c, Context("port", p), Put(parts, p, q)))

LEMMA PortContextIs ==
  ASSUME NEW p \in PortIds
  PROVE  Context("port", p) # None /\ Context("port", p).kind = "port" /\ Context("port", p).id = p
<1>1. Context("port", p) \in Contexts
  BY DEF Contexts
<1> QED
  BY <1>1, NoneIsApart DEF Context

LEMMA SwitchportLine ==
  ASSUME NEW p \in PortIds, NEW c, NEW parts, NEW q, NEW w, NEW part, NEW a \in Arguments(w),
         PartNamed(w) = part, w \in Words,
         part \in DOMAIN NoSwitchport
  PROVE  /\ Line(w, a) \in Lines
         /\ Leads(Reads, TextReaders, AtPort(c, p, parts, q), <<Line(w, a)>>,
                  AtPort(c, p, parts, SetPart(q, part, a)))
<1> DEFINE ctx == Context("port", p)
           before == Put(parts, p, q)
           after == Put(parts, p, SetPart(q, part, a))
           s == ReadAs(c, ctx, before)
           r == ReadAs(c, ctx, after)
           l == Line(w, a)
<1>1. l \in Lines
  BY LineIsIn
<1>2. ctx # None /\ ctx.kind = "port" /\ ctx.id = p
  BY PortContextIs
<1>3. before \in [PortIds -> Parts] => before[p] = q
  BY DEF Put
<1>4. Put(before, p, SetPart(q, part, a)) = after
  <2> DEFINE x == SetPart(q, part, a)
  <2> HIDE DEF x
  <2>1. Put(before, p, x) = Put(parts, p, x)
    BY DEF Put
  <2> QED
    BY <2>1 DEF x
<1> HIDE DEF ctx, before, after
<1>5. ParseLine(s, l) = PortLineOfText(s, l)
  <2>1. w \notin Heads /\ w # "!"
    BY DEF PartNamed, NoSwitchport, Heads
  <2> QED
    BY <1>2, <2>1, PortLineIsRead
<1>6. WithParts(s, after) = r
  <2>1. \A x : WithParts(s, x) = ReadAs(c, ctx, x)
    BY ReadSet
  <2> QED
    BY <2>1
<1>7. ASSUME s \in TextReaders
      PROVE  ParseLine(s, l) = r
  <2>1. s.ctx = ctx /\ s.parts = before
    BY DEF ReadAs
  <2>2. l.words = w /\ l.arg = a
    BY DEF Line
  <2>3. s.parts \in [PortIds -> Parts]
    <3> HIDE DEF s
    <3>1. s \in Records
      BY <1>7 DEF TextReaders
    <3> QED
      BY <3>1 DEF Records
  <2> HIDE DEF s, r, l
  <2>4. PortLineOfText(s, l) = [s EXCEPT !.parts[p][part] = a]
    <3>1. w # "port settings"
      BY DEF PartNamed, NoSwitchport
    <3> QED
      BY <1>2, <2>1, <2>2, <3>1 DEF PortLineOfText
  <2>5. before[p] = q
    BY <1>3, <2>1, <2>3
  <2>6. [s EXCEPT !.parts[p][part] = a] = WithParts(s, Put(before, p, SetPart(q, part, a)))
    BY <2>1, <2>5 DEF WithParts, Put, SetPart
  <2> QED
    BY <1>4, <1>5, <1>6, <2>4, <2>6
<1> HIDE DEF s, r, l
<1>8. Leads(Reads, TextReaders, Only(s), <<l>>, Only(r))
  BY <1>1, <1>7, OnlyReads
<1> QED
  BY <1>1, <1>8 DEF s, r, l, ctx, before, after, AtPort

(* The section of a port up to its switchport lines.                       *)
LEMMA PortHead ==
  ASSUME NEW p \in PortIds, NEW x \in Settings, x \notin OddSettings,
         NEW m, NEW f, NEW port, NEW pvid, NEW vlans, NEW lags, NEW parts
  PROVE  LET C(y) == Cand(m, f, y, pvid, vlans, lags)
             first == Line("interface ethernet", p)
             second == Line("port settings", x)
         IN /\ first \in Lines /\ second \in Lines
            /\ Leads(Reads, TextReaders, Only(ReadAs(C(port), None, parts)), <<first>>,
                     AtPort(C([port EXCEPT ![p] = DefaultSettings]), p, parts, NoSwitchport))
            /\ Leads(Reads, TextReaders,
                     AtPort(C([port EXCEPT ![p] = DefaultSettings]), p, parts, NoSwitchport),
                     <<second>>, AtPort(C([port EXCEPT ![p] = x]), p, parts, NoSwitchport))
<1> DEFINE C(y) == Cand(m, f, y, pvid, vlans, lags)
           new == [port EXCEPT ![p] = DefaultSettings]
           full == [port EXCEPT ![p] = x]
           ctx == Context("port", p)
           clean == Put(parts, p, NoSwitchport)
           s == ReadAs(C(port), None, parts)
           inside == ReadAs(C(new), ctx, clean)
           after == ReadAs(C(full), ctx, clean)
           first == Line("interface ethernet", p)
           second == Line("port settings", x)
<1>1. first \in Lines /\ second \in Lines
  <2>1. "interface ethernet" \in Words /\ p \in Arguments("interface ethernet")
    BY DEF Words, Heads, Arguments
  <2>2. "port settings" \in Words /\ x \in Arguments("port settings")
    BY DEF Words, Arguments
  <2> QED
    BY <2>1, <2>2, LineIsIn
<1>2. \A d : d.port = port => [d EXCEPT !.port[p] = DefaultSettings] = WithPort(d, new)
  BY DEF WithPort
<1>3. \A d : d.port = new => [d EXCEPT !.port[p] = x] = WithPort(d, full)
  <2>1. [new EXCEPT ![p] = x] = full
    OBVIOUS
  <2> HIDE DEF new, full
  <2> QED
    BY <2>1 DEF WithPort
<1>4. ctx # None /\ ctx.kind = "port" /\ ctx.id = p
  BY PortContextIs
<1> HIDE DEF new, full
<1>5. ParseLine(s, first) = inside
  <2>1. ParseLine(s, first) = NewSection(s, first)
    <3> DEFINE w == "interface ethernet"
    <3>1. w \in Heads
      BY DEF Heads
    <3> HIDE DEF w
    <3>2. ParseLine(s, Line(w, p)) = NewSection(s, Line(w, p))
      BY <3>1, HeadIsRead
    <3> QED
      BY <3>2 DEF w
  <2>2. first.words = "interface ethernet" /\ first.arg = p
    BY DEF Line
  <2>3. s.cand = C(port) /\ s.parts = parts /\ C(port).port = port
    <3>1. C(port).port = port
      BY CandIs
    <3> HIDE DEF C
    <3> QED
      BY <3>1 DEF ReadAs
  <2>4. WithPort(C(port), new) = C(new)
    BY CandSet
  <2> DEFINE t == ReadAs(C(port), None, clean)
  <2>5. WithParts(s, clean) = t
    BY ReadSet
  <2>6. Enter(t, C(new), "port", p) = inside
    BY ReadEnters
  <2>7. [s EXCEPT !.parts[p] = NoSwitchport] = WithParts(s, clean)
    <3> HIDE DEF s
    <3> QED
      BY <2>3 DEF WithParts, Put
  <2> HIDE DEF s, first, C, inside, t
  <2>8. NewSection(s, first) = Enter([s EXCEPT !.parts[p] = NoSwitchport],
                                     [s.cand EXCEPT !.port[p] = DefaultSettings], "port", p)
    BY <2>2 DEF NewSection
  <2> QED
    BY <1>2, <2>1, <2>3, <2>4, <2>5, <2>6, <2>7, <2>8
<1> HIDE DEF ctx, clean
<1>6. ParseLine(inside, second) = after
  <2>1. ParseLine(inside, second) = PortLineOfText(inside, second)
    <3> DEFINE w == "port settings"
    <3>1. w \in Words /\ w \notin Heads /\ w # "!"
      BY DEF Words, Heads
    <3> HIDE DEF w
    <3>2. ParseLine(inside, Line(w, x)) = PortLineOfText(inside, Line(w, x))
      BY <1>4, <3>1, PortLineIsRead
    <3> QED
      BY <3>2 DEF w
  <2>2. inside.ctx = ctx /\ inside.cand = C(new) /\ C(new).port = new
    <3>1. C(new).port = new
      BY CandIs
    <3> HIDE DEF C
    <3> QED
      BY <3>1 DEF ReadAs
  <2>3. second.words = "port settings" /\ second.arg = x
    BY DEF Line
  <2>4. WithPort(C(new), full) = C(full)
    BY CandSet
  <2>5. Accept(inside, C(full)) = after
    BY ReadSet
  <2>6. PartNamed("port settings") \notin DOMAIN NoSwitchport
    BY DEF PartNamed, NoSwitchport
  <2> HIDE DEF inside, second, C, after
  <2>7. PortLineOfText(inside, second) = Accept(inside, [inside.cand EXCEPT !.port[p] = x])
    BY <1>4, <2>2, <2>3, <2>6 DEF PortLineOfText
  <2> QED
    BY <1>3, <2>1, <2>2, <2>4, <2>5, <2>7
<1> HIDE DEF s, inside, after, first, second
<1>7. /\ Leads(Reads, TextReaders, Only(s), <<first>>, Only(inside))
      /\ Leads(Reads, TextReaders, Only(inside), <<second>>, Only(after))
  BY <1>1, <1>5, <1>6, OnlyReads
<1> QED
  BY <1>1, <1>7 DEF s, inside, after, first, second, ctx, clean, new, full, AtPort

(* The switchport lines, one by one.                                       *)
Puts(c, p, parts, q, w, a, part) ==
  /\ Line(w, a) \in Lines
  /\ Leads(Reads, TextReaders, AtPort(c, p, parts, q), <<Line(w, a)>>,
           AtPort(c, p, parts, SetPart(q, part, a)))

LEMMA SwitchportLines ==
  ASSUME NEW p \in PortIds, NEW c, NEW parts, NEW q
  PROVE  /\ \A a \in {"access", "trunk", "hybrid"} : Puts(c, p, parts, q, "switchport mode", a, "mode")
         /\ \A v \in Vids :
              /\ Puts(c, p, parts, q, "switchport access vlan", v, "access")
              /\ Puts(c, p, parts, q, "switchport trunk native vlan", v, "native")
              /\ Puts(c, p, parts, q, "switchport hybrid pvid vlan", v, "pvid")
         /\ \A vs \in SUBSET Vids :
              /\ Puts(c, p, parts, q, "switchport trunk allowed vlan", vs, "allowed")
              /\ Puts(c, p, parts, q, "switchport hybrid tagged vlan", vs, "tagged")
              /\ Puts(c, p, parts, q, "switchport hybrid untagged vlan", vs, "untagged")
<1>1. ASSUME NEW w \in Words, PartNamed(w) \in DOMAIN NoSwitchport, NEW a \in Arguments(w)
      PROVE  Puts(c, p, parts, q, w, a, PartNamed(w))
  BY <1>1, SwitchportLine DEF Puts
<1>2. ASSUME NEW w, NEW part, w \in Words, PartNamed(w) = part, part \in DOMAIN NoSwitchport,
             NEW A, Arguments(w) = A
      PROVE  \A a \in A : Puts(c, p, parts, q, w, a, part)
  BY <1>1, <1>2
<1>3. \A a \in {"access", "trunk", "hybrid"} : Puts(c, p, parts, q, "switchport mode", a, "mode")
  <2> DEFINE w == "switchport mode"
             A == {"access", "trunk", "hybrid"}
             part == "mode"
  <2>1. w \in Words /\ PartNamed(w) = part /\ part \in DOMAIN NoSwitchport /\ Arguments(w) = A
    BY DEF Words, PartNamed, NoSwitchport, Arguments
  <2> HIDE DEF w, A, part
  <2>2. \A a \in A : Puts(c, p, parts, q, w, a, part)
    BY <1>2, <2>1
  <2> QED
    BY <2>2 DEF w, A, part
<1>4. \A v \in Vids : Puts(c, p, parts, q, "switchport access vlan", v, "access")
  <2> DEFINE w == "switchport access vlan"
             part == "access"
  <2>1. w \in Words /\ PartNamed(w) = part /\ part \in DOMAIN NoSwitchport /\ Arguments(w) = Vids
    BY DEF Words, PartNamed, NoSwitchport, Arguments
  <2> HIDE DEF w, part
  <2>2. \A a \in Vids : Puts(c, p, parts, q, w, a, part)
    BY <1>2, <2>1
  <2> QED
    BY <2>2 DEF w, part
<1>5. \A v \in Vids : Puts(c, p, parts, q, "switchport trunk native vlan", v, "native")
  <2> DEFINE w == "switchport trunk native vlan"
             part == "native"
  <2>1. w \in Words /\ PartNamed(w) = part /\ part \in DOMAIN NoSwitchport /\ Arguments(w) = Vids
    BY DEF Words, PartNamed, NoSwitchport, Arguments
  <2> HIDE DEF w, part
  <2>2. \A a \in Vids : Puts(c, p, parts, q, w, a, part)
    BY <1>2, <2>1
  <2> QED
    BY <2>2 DEF w, part
<1>6. \A v \in Vids : Puts(c, p, parts, q, "switchport hybrid pvid vlan", v, "pvid")
  <2> DEFINE w == "switchport hybrid pvid vlan"
             part == "pvid"
  <2>1. w \in Words /\ PartNamed(w) = part /\ part \in DOMAIN NoSwitchport /\ Arguments(w) = Vids
    BY DEF Words, PartNamed, NoSwitchport, Arguments
  <2> HIDE DEF w, part
  <2>2. \A a \in Vids : Puts(c, p, parts, q, w, a, part)
    BY <1>2, <2>1
  <2> QED
    BY <2>2 DEF w, part
<1>7. \A vs \in SUBSET Vids : Puts(c, p, parts, q, "switchport trunk allowed vlan", vs, "allowed")
  <2> DEFINE w == "switchport trunk allowed vlan"
             part == "allowed"
  <2>1. w \in Words /\ PartNamed(w) = part /\ part \in DOMAIN NoSwitchport /\ Arguments(w) = SUBSET Vids
    BY DEF Words, PartNamed, NoSwitchport, Arguments
  <2> HIDE DEF w, part
  <2>2. \A a \in SUBSET Vids : Puts(c, p, parts, q, w, a, part)
    BY <1>2, <2>1
  <2> QED
    BY <2>2 DEF w, part
<1>8. \A vs \in SUBSET Vids : Puts(c, p, parts, q, "switchport hybrid tagged vlan", vs, "tagged")
  <2> DEFINE w == "switchport hybrid tagged vlan"
             part == "tagged"
  <2>1. w \in Words /\ PartNamed(w) = part /\ part \in DOMAIN NoSwitchport /\ Arguments(w) = SUBSET Vids
    BY DEF Words, PartNamed, NoSwitchport, Arguments
  <2> HIDE DEF w, part
  <2>2. \A a \in SUBSET Vids : Puts(c, p, parts, q, w, a, part)
    BY <1>2, <2>1
  <2> QED
    BY <2>2 DEF w, part
<1>9. \A vs \in SUBSET Vids : Puts(c, p, parts, q, "switchport hybrid untagged vlan", vs, "untagged")
  <2> DEFINE w == "switchport hybrid untagged vlan"
             part == "untagged"
  <2>1. w \in Words /\ PartNamed(w) = part /\ part \in DOMAIN NoSwitchport /\ Arguments(w) = SUBSET Vids
    BY DEF Words, PartNamed, NoSwitchport, Arguments
  <2> HIDE DEF w, part
  <2>2. \A a \in SUBSET Vids : Puts(c, p, parts, q, w, a, part)
    BY <1>2, <2>1
  <2> QED
    BY <2>2 DEF w, part
<1> QED
  BY <1>3, <1>4, <1>5, <1>6, <1>7, <1>8, <1>9

(* The modes, and what is collected of a port that is in one.              *)
LEMMA ModesAre ==
  ASSUME NEW c \in Config, NEW p \in PortIds
  PROVE  /\ ModeOf(c, p) \in {"access", "trunk", "hybrid"}
         /\ c.pvid[p] \in Vids /\ Tagged(c, p) \in SUBSET Vids /\ Untagged(c, p) \in SUBSET Vids
         /\ ModeOf(c, p) \in {"access", "trunk"} => Untagged(c, p) = {c.pvid[p]}
         /\ ModeOf(c, p) = "access" => Tagged(c, p) = {}
<1>1. c.pvid[p] \in Vids /\ Tagged(c, p) \in SUBSET Vids /\ Untagged(c, p) \in SUBSET Vids
  BY DEF Config, Tagged, Untagged, VlanIds
<1>2. CASE Untagged(c, p) # {c.pvid[p]}
  BY <1>1, <1>2 DEF ModeOf
<1>3. CASE Untagged(c, p) = {c.pvid[p]} /\ Tagged(c, p) # {}
  BY <1>1, <1>3 DEF ModeOf
<1>4. CASE Untagged(c, p) = {c.pvid[p]} /\ Tagged(c, p) = {}
  BY <1>1, <1>4 DEF ModeOf
<1> QED
  BY <1>2, <1>3, <1>4

PartsOf(c, p) ==
  CASE ModeOf(c, p) = "access" -> Part("access", c.pvid[p], None, None, None, None, None)
    [] ModeOf(c, p) = "trunk" ->
         Part("trunk", None, c.pvid[p], Tagged(c, p) \cup {c.pvid[p]}, None, None, None)
    [] ModeOf(c, p) = "hybrid" ->
         Part("hybrid", None, None, None, c.pvid[p], Tagged(c, p), Untagged(c, p))

LEMMA SwitchportText ==
  ASSUME NEW c \in Config, NEW p \in PortIds, NEW d, NEW parts
  PROVE  /\ RenderVlansOf(c, p) \in Seq(Lines)
         /\ Leads(Reads, TextReaders, AtPort(d, p, parts, SetPart(NoSwitchport, "mode", ModeOf(c, p))),
                  RenderVlansOf(c, p), AtPort(d, p, parts, PartsOf(c, p)))
<1> DEFINE mode == ModeOf(c, p)
           pvid == c.pvid[p]
           q0 == SetPart(NoSwitchport, "mode", mode)
           text == RenderVlansOf(c, p)
           P(q) == AtPort(d, p, parts, q)
<1>1. pvid \in Vids /\ Tagged(c, p) \in SUBSET Vids /\ Untagged(c, p) \in SUBSET Vids
  BY ModesAre
<1>2. q0 = Part(mode, None, None, None, None, None, None)
  <2>1. NoSwitchport = Part(None, None, None, None, None, None, None)
    BY DEF NoSwitchport, Part
  <2> HIDE DEF mode
  <2> QED
    BY <2>1, PartSet
<1> HIDE DEF q0
<1>3. CASE mode = "access"
  <2> DEFINE q1 == Part("access", pvid, None, None, None, None, None)
             a == Line("switchport access vlan", pvid)
  <2>1. text = <<a>> /\ PartsOf(c, p) = q1
    BY <1>3 DEF RenderVlansOf, PartsOf
  <2>2. SetPart(q0, "access", pvid) = q1
    BY <1>2, <1>3, PartSet
  <2>3. Puts(d, p, parts, q0, "switchport access vlan", pvid, "access")
    BY <1>1, SwitchportLines
  <2>4. a \in Lines /\ Leads(Reads, TextReaders, P(q0), <<a>>, P(q1))
    BY <2>2, <2>3 DEF Puts
  <2> HIDE DEF a, q1, text
  <2> QED
    BY <2>1, <2>4 DEF text, q0
<1>4. CASE mode = "trunk"
  <2> DEFINE allowed == Tagged(c, p) \cup {pvid}
             q1 == Part("trunk", None, pvid, None, None, None, None)
             q2 == Part("trunk", None, pvid, allowed, None, None, None)
             a == Line("switchport trunk native vlan", pvid)
             b == Line("switchport trunk allowed vlan", allowed)
  <2>1. text = <<a, b>> /\ PartsOf(c, p) = q2
    BY <1>4 DEF RenderVlansOf, PartsOf
  <2>2. allowed \in SUBSET Vids
    BY <1>1
  <2> HIDE DEF allowed
  <2>3. SetPart(q0, "native", pvid) = q1 /\ SetPart(q1, "allowed", allowed) = q2
    BY <1>2, <1>4, PartSet
  <2>4. /\ Puts(d, p, parts, q0, "switchport trunk native vlan", pvid, "native")
        /\ Puts(d, p, parts, q1, "switchport trunk allowed vlan", allowed, "allowed")
    BY <1>1, <2>2, SwitchportLines
  <2>5. /\ a \in Lines /\ Leads(Reads, TextReaders, P(q0), <<a>>, P(q1))
        /\ b \in Lines /\ Leads(Reads, TextReaders, P(q1), <<b>>, P(q2))
    BY <2>3, <2>4 DEF Puts
  <2> HIDE DEF a, b, q1, q2, text
  <2>6. <<a, b>> \in Seq(Lines) /\ Leads(Reads, TextReaders, P(q0), <<a, b>>, P(q2))
    BY <2>5, LeadsTwo
  <2> QED
    BY <2>1, <2>6 DEF text, q0
<1>5. CASE mode = "hybrid"
  <2> DEFINE ts == Tagged(c, p)
             us == Untagged(c, p)
             q1 == Part("hybrid", None, None, None, pvid, None, None)
             q2 == Part("hybrid", None, None, None, pvid, ts, None)
             q3 == Part("hybrid", None, None, None, pvid, ts, us)
             a == Line("switchport hybrid pvid vlan", pvid)
             b == Line("switchport hybrid tagged vlan", ts)
             e == Line("switchport hybrid untagged vlan", us)
  <2>1. text = <<a, b, e>> /\ PartsOf(c, p) = q3
    BY <1>5 DEF RenderVlansOf, PartsOf
  <2>2. ts \in SUBSET Vids /\ us \in SUBSET Vids
    BY <1>1
  <2> HIDE DEF ts, us
  <2>3. /\ SetPart(q0, "pvid", pvid) = q1 /\ SetPart(q1, "tagged", ts) = q2
        /\ SetPart(q2, "untagged", us) = q3
    BY <1>2, <1>5, PartSet
  <2>4. /\ Puts(d, p, parts, q0, "switchport hybrid pvid vlan", pvid, "pvid")
        /\ Puts(d, p, parts, q1, "switchport hybrid tagged vlan", ts, "tagged")
        /\ Puts(d, p, parts, q2, "switchport hybrid untagged vlan", us, "untagged")
    BY <1>1, <2>2, SwitchportLines
  <2>5. /\ a \in Lines /\ Leads(Reads, TextReaders, P(q0), <<a>>, P(q1))
        /\ b \in Lines /\ Leads(Reads, TextReaders, P(q1), <<b>>, P(q2))
        /\ e \in Lines /\ Leads(Reads, TextReaders, P(q2), <<e>>, P(q3))
    BY <2>3, <2>4 DEF Puts
  <2> HIDE DEF a, b, e, q1, q2, q3, text
  <2>6. <<a, b, e>> \in Seq(Lines) /\ Leads(Reads, TextReaders, P(q0), <<a, b, e>>, P(q3))
    BY <2>5, LeadsThree
  <2> QED
    BY <2>1, <2>6 DEF text, q0
<1> QED
  BY <1>3, <1>4, <1>5, ModesAre

(* The section of a port: its settings, and what is collected of it.       *)
LEMMA PortSection ==
  ASSUME NEW c \in Config, NEW p \in PortsOf(c), c.port[p] \notin OddSettings,
         NEW m, NEW f, NEW port, NEW pvid, NEW vlans, NEW lags, NEW parts
  PROVE  LET s == ReadAs(Cand(m, f, port, pvid, vlans, lags), None, parts)
             r == ReadAs(Cand(m, f, [port EXCEPT ![p] = c.port[p]], pvid, vlans, lags), None,
                         [parts EXCEPT ![p] = PartsOf(c, p)])
         IN /\ RenderPort(c, p) \in Seq(Lines)
            /\ Leads(Reads, TextReaders, Only(s), RenderPort(c, p), Only(r))
<1> DEFINE x == c.port[p]
           C(y) == Cand(m, f, y, pvid, vlans, lags)
           new == [port EXCEPT ![p] = DefaultSettings]
           full == [port EXCEPT ![p] = x]
           mode == ModeOf(c, p)
           q0 == SetPart(NoSwitchport, "mode", mode)
           q == PartsOf(c, p)
           s == ReadAs(C(port), None, parts)
           r == ReadAs(C(full), None, Put(parts, p, q))
           first == Line("interface ethernet", p)
           second == Line("port settings", x)
           third == Line("switchport mode", mode)
           opening == <<first, second, third>>
           body == RenderVlansOf(c, p)
<1>1. p \in PortIds /\ x \in Settings
  BY DEF Config, PortsOf
<1>2. /\ first \in Lines /\ second \in Lines
      /\ Leads(Reads, TextReaders, Only(s), <<first>>, AtPort(C(new), p, parts, NoSwitchport))
      /\ Leads(Reads, TextReaders, AtPort(C(new), p, parts, NoSwitchport), <<second>>,
               AtPort(C(full), p, parts, NoSwitchport))
  <2> HIDE DEF x
  <2> QED
    BY <1>1, PortHead DEF x
<1> HIDE DEF new, full
<1>3. /\ third \in Lines
      /\ Leads(Reads, TextReaders, AtPort(C(full), p, parts, NoSwitchport), <<third>>,
               AtPort(C(full), p, parts, q0))
  <2>1. mode \in {"access", "trunk", "hybrid"}
    BY <1>1, ModesAre
  <2> HIDE DEF mode
  <2>2. Puts(C(full), p, parts, NoSwitchport, "switchport mode", mode, "mode")
    BY <1>1, <2>1, SwitchportLines
  <2> QED
    BY <2>2 DEF Puts
<1>4. body \in Seq(Lines) /\ Leads(Reads, TextReaders, AtPort(C(full), p, parts, q0), body,
                                   AtPort(C(full), p, parts, q))
  BY <1>1, SwitchportText
<1>5. Leads(Reads, TextReaders, AtPort(C(full), p, parts, q), <<Bang>>, Only(r))
  <2> DEFINE t == ReadAs(C(full), Context("port", p), Put(parts, p, q))
  <2>1. ParseLine(t, Bang) = r
    BY BangIs
  <2> HIDE DEF t, r
  <2>2. Leads(Reads, TextReaders, Only(t), <<Bang>>, Only(r))
    BY <2>1, LineIsIn, OnlyReads
  <2> QED
    BY <2>2 DEF t, AtPort
<1>6. RenderPort(c, p) = opening \o body \o <<Bang>>
  BY DEF RenderPort
<1> HIDE DEF first, second, third, body, s, r, q0, q, C
<1>7. opening \in Seq(Lines)
      /\ Leads(Reads, TextReaders, Only(s), opening, AtPort(C(full), p, parts, q0))
  BY <1>2, <1>3, LeadsThree
<1> HIDE DEF opening
<1>8. opening \o body \in Seq(Lines)
      /\ Leads(Reads, TextReaders, Only(s), opening \o body, AtPort(C(full), p, parts, q))
  BY <1>4, <1>7, LeadsThen
<1>9. <<Bang>> \in Seq(Lines)
  BY LineIsIn
<1>10. opening \o body \o <<Bang>> \in Seq(Lines)
       /\ Leads(Reads, TextReaders, Only(s), opening \o body \o <<Bang>>, Only(r))
  BY <1>5, <1>8, <1>9, LeadsThen
<1> QED
  BY <1>6, <1>10 DEF s, r, C, full, q, Put

(* Truth values that the provers take as values.                           *)
On == TRUE
Off == FALSE

LEMMA OnOrOff == On \in BOOLEAN /\ Off \in BOOLEAN /\ On # Off /\ \A b \in BOOLEAN : b = On \/ b = Off
BY DEF On, Off

(* A management as a record, and one field of it. *)
Mgmt(v, dhcp, address, gateway) ==
  [vlan |-> v, dhcp |-> dhcp, address |-> address, gateway |-> gateway]
WithDhcp(g, x) == [g EXCEPT !.dhcp = x]
WithAddress(g, x) == [g EXCEPT !.address = x]
WithGateway(g, x) == [g EXCEPT !.gateway = x]

LEMMA MgmtOf ==
  ASSUME NEW g \in Management
  PROVE  g = Mgmt(g.vlan, g.dhcp, g.address, g.gateway)
<1>1. g.dhcp \in BOOLEAN
  BY DEF Management
<1>2. CASE g.dhcp = TRUE
  <2>1. g \in [vlan : {g.vlan}, dhcp : {TRUE}, address : {g.address}, gateway : {g.gateway}]
    BY <1>2 DEF Management
  <2>2. g = Mgmt(g.vlan, TRUE, g.address, g.gateway)
    BY <2>1 DEF Mgmt
  <2> QED
    BY <1>2, <2>2
<1>3. CASE g.dhcp = FALSE
  <2>1. g \in [vlan : {g.vlan}, dhcp : {FALSE}, address : {g.address}, gateway : {g.gateway}]
    BY <1>3 DEF Management
  <2>2. g = Mgmt(g.vlan, FALSE, g.address, g.gateway)
    BY <2>1 DEF Mgmt
  <2> QED
    BY <1>3, <2>2
<1> QED
  BY <1>1, <1>2, <1>3, Zenon

LEMMA MgmtSet ==
  ASSUME NEW v, NEW dhcp \in BOOLEAN, NEW address, NEW gateway, NEW x
  PROVE  /\ WithDhcp(Mgmt(v, dhcp, address, gateway), On) = Mgmt(v, On, address, gateway)
         /\ WithDhcp(Mgmt(v, dhcp, address, gateway), Off) = Mgmt(v, Off, address, gateway)
         /\ WithAddress(Mgmt(v, dhcp, address, gateway), x) = Mgmt(v, dhcp, x, gateway)
         /\ WithGateway(Mgmt(v, dhcp, address, gateway), x) = Mgmt(v, dhcp, address, x)
<1> DEFINE g == Mgmt(v, dhcp, address, gateway)
<1>1. g \in [vlan : {v}, dhcp : BOOLEAN, address : {address}, gateway : {gateway}]
  BY DEF Mgmt
<1> HIDE DEF g
<1>2. WithDhcp(g, TRUE) = Mgmt(v, TRUE, address, gateway)
  <2> DEFINE d == [g EXCEPT !.dhcp = TRUE]
  <2>1. d \in [vlan : {v}, dhcp : {TRUE}, address : {address}, gateway : {gateway}]
    BY <1>1
  <2> HIDE DEF d
  <2>2. d = Mgmt(v, TRUE, address, gateway)
    BY <2>1 DEF Mgmt
  <2> QED
    BY <2>2 DEF d, WithDhcp
<1>3. WithDhcp(g, FALSE) = Mgmt(v, FALSE, address, gateway)
  <2> DEFINE d == [g EXCEPT !.dhcp = FALSE]
  <2>1. d \in [vlan : {v}, dhcp : {FALSE}, address : {address}, gateway : {gateway}]
    BY <1>1
  <2> HIDE DEF d
  <2>2. d = Mgmt(v, FALSE, address, gateway)
    BY <2>1 DEF Mgmt
  <2> QED
    BY <2>2 DEF d, WithDhcp
<1>4. ASSUME NEW b \in {TRUE, FALSE}, g \in [vlan : {v}, dhcp : {b}, address : {address}, gateway : {gateway}]
      PROVE  WithAddress(g, x) = Mgmt(v, b, x, gateway) /\ WithGateway(g, x) = Mgmt(v, b, address, x)
  <2>1. WithAddress(g, x) = Mgmt(v, b, x, gateway)
    <3> DEFINE d == [g EXCEPT !.address = x]
    <3>1. d \in [vlan : {v}, dhcp : {b}, address : {x}, gateway : {gateway}]
      BY <1>4
    <3> HIDE DEF d
    <3>2. d = Mgmt(v, b, x, gateway)
      BY <3>1 DEF Mgmt
    <3> QED
      BY <3>2 DEF d, WithAddress
  <2>2. WithGateway(g, x) = Mgmt(v, b, address, x)
    <3> DEFINE d == [g EXCEPT !.gateway = x]
    <3>1. d \in [vlan : {v}, dhcp : {b}, address : {address}, gateway : {x}]
      BY <1>4
    <3> HIDE DEF d
    <3>2. d = Mgmt(v, b, address, x)
      BY <3>1 DEF Mgmt
    <3> QED
      BY <3>2 DEF d, WithGateway
  <2> QED
    BY <2>1, <2>2
<1>5. dhcp \in {TRUE, FALSE} /\ g \in [vlan : {v}, dhcp : {dhcp}, address : {address}, gateway : {gateway}]
  BY DEF g, Mgmt
<1>6. WithAddress(g, x) = Mgmt(v, dhcp, x, gateway) /\ WithGateway(g, x) = Mgmt(v, dhcp, address, x)
  BY <1>4, <1>5
<1> QED
  BY <1>2, <1>3, <1>6 DEF g, On, Off

(* The lines of the management section.                                    *)
ManagementHead(v) == Line("interface vlan", v)
DhcpLine == Line("ip address dhcp", None)
AddressLine(a) == Line("ip address", a)
GatewayLine(a) == Line("ip default-gateway", a)
NoGatewayLine == Line("no ip default-gateway", None)
FallbackLine(b) == Line("management fallback-ip", b)

LEMMA ManagementDoes ==
  ASSUME NEW s, NEW d, s.cand = d
  PROVE  /\ ManagementLine(s, DhcpLine) = Accept(s, WithMgmt(d, WithAddress(WithDhcp(d.mgmt, On), None)))
         /\ \A a : a # None => ManagementLine(s, AddressLine(a))
                                 = Accept(s, WithMgmt(d, WithAddress(WithDhcp(d.mgmt, Off), a)))
         /\ \A a : ManagementLine(s, GatewayLine(a)) = Accept(s, WithMgmt(d, WithGateway(d.mgmt, a)))
         /\ ManagementLine(s, NoGatewayLine) = Accept(s, WithMgmt(d, WithGateway(d.mgmt, None)))
         /\ \A a : ManagementLine(s, FallbackLine(a)) = Accept(s, WithFallback(d, a))
<1>1. ManagementLine(s, DhcpLine) = Accept(s, WithMgmt(d, WithAddress(WithDhcp(d.mgmt, On), None)))
  BY DEF ManagementLine, DhcpLine, Line, WithMgmt, WithDhcp, WithAddress, WithGateway, WithFallback, On, Off
<1>2. ASSUME NEW a, a # None
      PROVE  ManagementLine(s, AddressLine(a)) = Accept(s, WithMgmt(d, WithAddress(WithDhcp(d.mgmt, Off), a)))
  BY <1>2 DEF ManagementLine, AddressLine, Line, WithMgmt, WithDhcp, WithAddress, WithGateway, WithFallback, On, Off
<1>3. ASSUME NEW a
      PROVE  ManagementLine(s, GatewayLine(a)) = Accept(s, WithMgmt(d, WithGateway(d.mgmt, a)))
  BY <1>3 DEF ManagementLine, GatewayLine, Line, WithMgmt, WithDhcp, WithAddress, WithGateway, WithFallback, On, Off
<1>4. ManagementLine(s, NoGatewayLine) = Accept(s, WithMgmt(d, WithGateway(d.mgmt, None)))
  BY DEF ManagementLine, NoGatewayLine, Line, WithMgmt, WithDhcp, WithAddress, WithGateway, WithFallback, On, Off
<1>5. ASSUME NEW a
      PROVE  ManagementLine(s, FallbackLine(a)) = Accept(s, WithFallback(d, a))
  BY <1>5 DEF ManagementLine, FallbackLine, Line, WithMgmt, WithDhcp, WithAddress, WithGateway, WithFallback, On, Off
<1> QED
  BY <1>1, <1>2, <1>3, <1>4, <1>5

LEMMA ManagementWords ==
  ASSUME NEW a, NEW l \in {DhcpLine, AddressLine(a), GatewayLine(a), NoGatewayLine, FallbackLine(a)}
  PROVE  /\ l.words \in Words /\ l.words \notin Heads /\ l.words \notin Removals /\ l.words # "!"
         /\ l = Line(l.words, l.arg)
<1>1. \A w \in {"ip address dhcp", "ip address", "ip default-gateway", "no ip default-gateway",
                "management fallback-ip"} :
        w \in Words /\ w \notin Heads /\ w \notin Removals /\ w # "!"
  BY DEF Words, Heads, Removals
<1>2. CASE l = DhcpLine
  <2>1. l.words = "ip address dhcp" /\ l = Line(l.words, l.arg)
    BY <1>2 DEF DhcpLine, Line
  <2> QED
    BY <1>1, <2>1
<1>3. CASE l = AddressLine(a)
  <2>1. l.words = "ip address" /\ l = Line(l.words, l.arg)
    BY <1>3 DEF AddressLine, Line
  <2> QED
    BY <1>1, <2>1
<1>4. CASE l = GatewayLine(a)
  <2>1. l.words = "ip default-gateway" /\ l = Line(l.words, l.arg)
    BY <1>4 DEF GatewayLine, Line
  <2> QED
    BY <1>1, <2>1
<1>5. CASE l = NoGatewayLine
  <2>1. l.words = "no ip default-gateway" /\ l = Line(l.words, l.arg)
    BY <1>5 DEF NoGatewayLine, Line
  <2> QED
    BY <1>1, <2>1
<1>6. CASE l = FallbackLine(a)
  <2>1. l.words = "management fallback-ip" /\ l = Line(l.words, l.arg)
    BY <1>6 DEF FallbackLine, Line
  <2> QED
    BY <1>1, <2>1
<1> QED
  BY <1>2, <1>3, <1>4, <1>5, <1>6

LEMMA ManagementLines ==
  ASSUME NEW v \in Vids, NEW d, NEW parts
  PROVE  LET s == ReadAs(d, Context("management", v), parts)
             To(e) == ReadAs(e, Context("management", v), parts)
         IN /\ ParseLine(s, DhcpLine) = To(WithMgmt(d, WithAddress(WithDhcp(d.mgmt, On), None)))
            /\ \A a : a # None => ParseLine(s, AddressLine(a))
                                    = To(WithMgmt(d, WithAddress(WithDhcp(d.mgmt, Off), a)))
            /\ \A a : ParseLine(s, GatewayLine(a)) = To(WithMgmt(d, WithGateway(d.mgmt, a)))
            /\ ParseLine(s, NoGatewayLine) = To(WithMgmt(d, WithGateway(d.mgmt, None)))
            /\ \A a : ParseLine(s, FallbackLine(a)) = To(WithFallback(d, a))
<1> DEFINE ctx == Context("management", v)
           s == ReadAs(d, ctx, parts)
           To(e) == ReadAs(e, ctx, parts)
<1>1. ASSUME NEW a, NEW l \in {DhcpLine, AddressLine(a), GatewayLine(a), NoGatewayLine, FallbackLine(a)}
      PROVE  ParseLine(s, l) = ManagementLine(s, l)
  <2>1. ctx # None /\ ctx.kind = "management"
    <3>1. ctx \in Contexts
      BY DEF Contexts
    <3> QED
      BY <3>1, NoneIsApart DEF Context
  <2>2. s.ctx = ctx
    BY DEF ReadAs
  <2>3. ctx.kind # "port"
    BY <2>1
  <2>4. PICK w \in Words : w \notin Heads /\ w # "!" /\ l = Line(w, l.arg)
    BY ManagementWords
  <2>5. ParseLine(s, l) = OtherLine(s, l)
    <3> HIDE DEF ctx
    <3> QED
      BY <2>1, <2>3, <2>4, OtherLineIsRead
  <2> HIDE DEF s, ctx
  <2>6. OtherLine(s, l) = ManagementLine(s, l)
    BY <2>1, <2>2 DEF OtherLine
  <2> QED
    BY <2>5, <2>6
<1>2. \A e : Accept(s, e) = To(e)
  BY ReadSet
<1>3. s.cand = d
  BY DEF ReadAs
<1> HIDE DEF s, To
<1>4. ParseLine(s, DhcpLine) = To(WithMgmt(d, WithAddress(WithDhcp(d.mgmt, On), None)))
  BY <1>1, <1>2, <1>3, ManagementDoes
<1>5. ASSUME NEW a, a # None
      PROVE  ParseLine(s, AddressLine(a)) = To(WithMgmt(d, WithAddress(WithDhcp(d.mgmt, Off), a)))
  BY <1>1, <1>2, <1>3, <1>5, ManagementDoes
<1>6. ASSUME NEW a
      PROVE  ParseLine(s, GatewayLine(a)) = To(WithMgmt(d, WithGateway(d.mgmt, a)))
  BY <1>1, <1>2, <1>3, ManagementDoes
<1>7. ParseLine(s, NoGatewayLine) = To(WithMgmt(d, WithGateway(d.mgmt, None)))
  BY <1>1, <1>2, <1>3, ManagementDoes
<1>8. ASSUME NEW a
      PROVE  ParseLine(s, FallbackLine(a)) = To(WithFallback(d, a))
  BY <1>1, <1>2, <1>3, ManagementDoes
<1> QED
  BY <1>4, <1>5, <1>6, <1>7, <1>8 DEF s, To

(* What they make of a management. *)
Inside(v, g, f, port, pvid, vlans, lags, parts) ==
  ReadAs(Cand(g, f, port, pvid, vlans, lags), Context("management", v), parts)

LEMMA ManagementIsRead ==
  ASSUME NEW v \in Vids, NEW dhcp \in BOOLEAN, NEW address, NEW gateway, NEW f,
         NEW port, NEW pvid, NEW vlans, NEW lags, NEW parts, NEW a
  PROVE  LET I(g, y) == Inside(v, g, y, port, pvid, vlans, lags, parts)
             s == I(Mgmt(v, dhcp, address, gateway), f)
         IN /\ ParseLine(s, DhcpLine) = I(Mgmt(v, On, None, gateway), f)
            /\ a # None => ParseLine(s, AddressLine(a)) = I(Mgmt(v, Off, a, gateway), f)
            /\ ParseLine(s, GatewayLine(a)) = I(Mgmt(v, dhcp, address, a), f)
            /\ ParseLine(s, NoGatewayLine) = I(Mgmt(v, dhcp, address, None), f)
            /\ ParseLine(s, FallbackLine(a)) = I(Mgmt(v, dhcp, address, gateway), a)
<1> DEFINE C(g, y) == Cand(g, y, port, pvid, vlans, lags)
           I(g, y) == Inside(v, g, y, port, pvid, vlans, lags, parts)
           To(e) == ReadAs(e, Context("management", v), parts)
           g0 == Mgmt(v, dhcp, address, gateway)
           d == C(g0, f)
           s == To(d)
<1>1. d.mgmt = g0 /\ (\A x : WithMgmt(d, x) = C(x, f)) /\ (\A x : WithFallback(d, x) = C(g0, x))
  <2> HIDE DEF g0
  <2> QED
    BY CandIs, CandSet
<1>2. /\ ParseLine(s, DhcpLine) = To(WithMgmt(d, WithAddress(WithDhcp(d.mgmt, On), None)))
      /\ a # None => ParseLine(s, AddressLine(a))
                       = To(WithMgmt(d, WithAddress(WithDhcp(d.mgmt, Off), a)))
      /\ ParseLine(s, GatewayLine(a)) = To(WithMgmt(d, WithGateway(d.mgmt, a)))
      /\ ParseLine(s, NoGatewayLine) = To(WithMgmt(d, WithGateway(d.mgmt, None)))
      /\ ParseLine(s, FallbackLine(a)) = To(WithFallback(d, a))
  <2> HIDE DEF d
  <2>1. ParseLine(s, DhcpLine) = To(WithMgmt(d, WithAddress(WithDhcp(d.mgmt, On), None)))
    BY ManagementLines
  <2>2. a # None => ParseLine(s, AddressLine(a))
                      = To(WithMgmt(d, WithAddress(WithDhcp(d.mgmt, Off), a)))
    BY ManagementLines
  <2>3. ParseLine(s, GatewayLine(a)) = To(WithMgmt(d, WithGateway(d.mgmt, a)))
    BY ManagementLines
  <2>4. ParseLine(s, NoGatewayLine) = To(WithMgmt(d, WithGateway(d.mgmt, None)))
    BY ManagementLines
  <2>5. ParseLine(s, FallbackLine(a)) = To(WithFallback(d, a))
    BY ManagementLines
  <2> QED
    BY <2>1, <2>2, <2>3, <2>4, <2>5
<1>3. /\ WithAddress(WithDhcp(g0, On), None) = Mgmt(v, On, None, gateway)
      /\ WithAddress(WithDhcp(g0, Off), a) = Mgmt(v, Off, a, gateway)
      /\ WithGateway(g0, a) = Mgmt(v, dhcp, address, a)
      /\ WithGateway(g0, None) = Mgmt(v, dhcp, address, None)
  <2>1. WithDhcp(g0, On) = Mgmt(v, On, address, gateway)
    BY OnOrOff, MgmtSet
  <2>2. WithDhcp(g0, Off) = Mgmt(v, Off, address, gateway)
    BY OnOrOff, MgmtSet
  <2>3. \A b \in BOOLEAN : \A x : WithAddress(Mgmt(v, b, address, gateway), x) = Mgmt(v, b, x, gateway)
    BY MgmtSet
  <2>4. \A x : WithGateway(g0, x) = Mgmt(v, dhcp, address, x)
    BY MgmtSet
  <2> HIDE DEF g0
  <2> QED
    BY <2>1, <2>2, <2>3, <2>4, OnOrOff
<1>4. \A g, y : I(g, y) = To(C(g, y))
  BY DEF Inside
<1> HIDE DEF C, I, To, g0, d
<1>5. I(g0, f) = s
  BY <1>4 DEF d
<1>6. /\ ParseLine(s, DhcpLine) = I(Mgmt(v, On, None, gateway), f)
      /\ a # None => ParseLine(s, AddressLine(a)) = I(Mgmt(v, Off, a, gateway), f)
      /\ ParseLine(s, GatewayLine(a)) = I(Mgmt(v, dhcp, address, a), f)
      /\ ParseLine(s, NoGatewayLine) = I(Mgmt(v, dhcp, address, None), f)
      /\ ParseLine(s, FallbackLine(a)) = I(g0, a)
  BY <1>1, <1>2, <1>3, <1>4, Zenon
<1> HIDE DEF s
<1> QED
  BY <1>5, <1>6 DEF I, g0

LEMMA ManagementBegins ==
  ASSUME NEW v \in Vids, NEW m, NEW f, NEW port, NEW pvid, NEW vlans, NEW lags, NEW parts
  PROVE  ParseLine(ReadAs(Cand(m, f, port, pvid, vlans, lags), None, parts), ManagementHead(v))
           = Inside(v, Mgmt(v, Off, None, None), Off, port, pvid, vlans, lags, parts)
<1> DEFINE w == "interface vlan"
           d == Cand(m, f, port, pvid, vlans, lags)
           g == Mgmt(v, Off, None, None)
           e == Cand(g, Off, port, pvid, vlans, lags)
           s == ReadAs(d, None, parts)
           l == Line(w, v)
<1>1. w \in Heads /\ l = ManagementHead(v)
  BY DEF Heads, ManagementHead
<1>2. l.words = w /\ l.arg = v
  BY DEF Line
<1>3. WithFallback(WithMgmt(d, g), Off) = e
  BY CandSet
<1>4. [d EXCEPT !.mgmt = FreshManagement(v), !.fallback = FALSE] = WithFallback(WithMgmt(d, g), Off)
  <2> HIDE DEF d
  <2> QED
    BY DEF FreshManagement, Mgmt, WithFallback, WithMgmt, Off
<1> HIDE DEF d, e, g, l
<1>5. s.cand = d
  BY DEF ReadAs
<1>6. Enter(s, e, "management", v) = ReadAs(e, Context("management", v), parts)
  BY ReadEnters
<1>7. NewSection(s, l) = Enter(s, [s.cand EXCEPT !.mgmt = FreshManagement(v), !.fallback = FALSE],
                               "management", v)
  <2> HIDE DEF s
  <2> QED
    BY <1>2 DEF NewSection
<1>8. ParseLine(s, l) = NewSection(s, l)
  <2> HIDE DEF w
  <2> QED
    BY <1>1, HeadIsRead DEF l
<1> HIDE DEF s
<1>9. ParseLine(s, l) = ReadAs(e, Context("management", v), parts)
  BY <1>3, <1>4, <1>5, <1>6, <1>7, <1>8
<1> QED
  BY <1>1, <1>9 DEF s, d, e, g, Inside

LEMMA ManagementLinesAre ==
  ASSUME NEW c \in Config, c.mgmt.dhcp <=> c.mgmt.address = None
  PROVE  LET m == c.mgmt
         IN /\ ManagementHead(m.vlan) \in Lines
            /\ (IF m.dhcp THEN DhcpLine ELSE AddressLine(m.address)) \in Lines
            /\ (IF m.gateway = None THEN NoGatewayLine ELSE GatewayLine(m.gateway)) \in Lines
            /\ FallbackLine(c.fallback) \in Lines /\ Bang \in Lines
<1> DEFINE v == c.mgmt.vlan
           dhcp == c.mgmt.dhcp
           address == c.mgmt.address
           gateway == c.mgmt.gateway
           fallback == c.fallback
<1>1. /\ v \in Vids /\ dhcp \in BOOLEAN /\ fallback \in BOOLEAN
      /\ address \in Addresses \cup {None} /\ gateway \in Addresses \cup {None}
      /\ dhcp <=> address = None
  BY DEF Config, Management
<1> HIDE DEF v, dhcp, address, gateway, fallback
<1>2. /\ "interface vlan" \in Words /\ v \in Arguments("interface vlan")
  BY <1>1 DEF Words, Heads, Arguments
<1>3. /\ "ip address dhcp" \in Words /\ None \in Arguments("ip address dhcp")
      /\ "ip address" \in Words /\ Arguments("ip address") = Addresses
  BY DEF Words, Arguments
<1>4. /\ "no ip default-gateway" \in Words /\ None \in Arguments("no ip default-gateway")
      /\ "ip default-gateway" \in Words /\ Arguments("ip default-gateway") = Addresses
  BY DEF Words, Arguments
<1>5. "management fallback-ip" \in Words /\ fallback \in Arguments("management fallback-ip")
  BY <1>1 DEF Words, Arguments
<1>6. ManagementHead(v) \in Lines /\ DhcpLine \in Lines /\ NoGatewayLine \in Lines /\ FallbackLine(fallback) \in Lines /\ Bang \in Lines
  BY <1>2, <1>3, <1>4, <1>5, LineIsIn DEF ManagementHead, DhcpLine, NoGatewayLine, FallbackLine
<1>7. \A a \in Addresses : AddressLine(a) \in Lines /\ GatewayLine(a) \in Lines
  BY <1>3, <1>4, LineIsIn DEF AddressLine, GatewayLine
<1> QED
  BY <1>1, <1>6, <1>7 DEF v, dhcp, address, gateway, fallback

(* The section of the management: it begins with a fresh management.       *)
LEMMA ManagementSection ==
  ASSUME NEW c \in Config, c.mgmt.dhcp <=> c.mgmt.address = None,
         NEW m, NEW f, NEW port, NEW pvid, NEW vlans, NEW lags, NEW parts
  PROVE  LET s == ReadAs(Cand(m, f, port, pvid, vlans, lags), None, parts)
             r == ReadAs(Cand(c.mgmt, c.fallback, port, pvid, vlans, lags), None, parts)
         IN /\ RenderManagement(c) \in Seq(Lines)
            /\ Leads(Reads, TextReaders, Only(s), RenderManagement(c), Only(r))
<1> DEFINE v == c.mgmt.vlan
           dhcp == c.mgmt.dhcp
           address == c.mgmt.address
           gateway == c.mgmt.gateway
           fallback == c.fallback
           I(g, y) == Inside(v, g, y, port, pvid, vlans, lags, parts)
           m0 == Mgmt(v, Off, None, None)
           m1 == Mgmt(v, dhcp, address, None)
           m2 == Mgmt(v, dhcp, address, gateway)
           s == ReadAs(Cand(m, f, port, pvid, vlans, lags), None, parts)
           r == ReadAs(Cand(c.mgmt, fallback, port, pvid, vlans, lags), None, parts)
           l1 == ManagementHead(v)
           l2 == IF dhcp THEN DhcpLine ELSE AddressLine(address)
           l3 == IF gateway = None THEN NoGatewayLine ELSE GatewayLine(gateway)
           l4 == FallbackLine(fallback)
<1>1. /\ v \in Vids /\ dhcp \in BOOLEAN /\ fallback \in BOOLEAN
      /\ address \in Addresses \cup {None} /\ gateway \in Addresses \cup {None}
      /\ dhcp <=> address = None
  BY DEF Config, Management
<1>2. m2 = c.mgmt
  BY MgmtOf DEF Config
<1>3. RenderManagement(c) = <<l1, l2, l3, l4, Bang>>
  BY DEF RenderManagement, ManagementHead, DhcpLine, AddressLine, GatewayLine, NoGatewayLine, FallbackLine
<1> HIDE DEF v, dhcp, address, gateway, fallback
<1>4. l1 \in Lines /\ l2 \in Lines /\ l3 \in Lines /\ l4 \in Lines /\ Bang \in Lines
  BY ManagementLinesAre DEF v, dhcp, address, gateway, fallback
<1>5. ParseLine(s, l1) = I(m0, Off)
  BY <1>1, ManagementBegins
<1>6. ParseLine(I(m0, Off), l2) = I(m1, Off)
  <2>1. Off \in BOOLEAN
    BY OnOrOff
  <2>2. CASE dhcp = On
    <3>1. ParseLine(I(m0, Off), DhcpLine) = I(Mgmt(v, On, None, None), Off)
      BY <1>1, <2>1, ManagementIsRead
    <3>2. address = None /\ l2 = DhcpLine
      BY <1>1, <2>2 DEF On
    <3> QED
      BY <2>2, <3>1, <3>2
  <2>3. CASE dhcp = Off
    <3>1. address # None /\ l2 = AddressLine(address)
      BY <1>1, <2>3 DEF Off
    <3>2. ParseLine(I(m0, Off), AddressLine(address)) = I(Mgmt(v, Off, address, None), Off)
      BY <1>1, <2>1, <3>1, ManagementIsRead
    <3> QED
      BY <2>3, <3>1, <3>2
  <2> QED
    BY <1>1, <2>2, <2>3, OnOrOff
<1>7. ParseLine(I(m1, Off), l3) = I(m2, Off)
  <2>1. CASE gateway = None
    <3>1. ParseLine(I(m1, Off), NoGatewayLine) = I(Mgmt(v, dhcp, address, None), Off)
      BY <1>1, ManagementIsRead
    <3> QED
      BY <2>1, <3>1
  <2>2. CASE gateway # None
    <3>1. ParseLine(I(m1, Off), GatewayLine(gateway)) = I(m2, Off)
      BY <1>1, ManagementIsRead
    <3> QED
      BY <2>2, <3>1
  <2> QED
    BY <2>1, <2>2
<1>8. ParseLine(I(m2, Off), l4) = I(m2, fallback)
  BY <1>1, ManagementIsRead
<1>9. ParseLine(I(m2, fallback), Bang) = r
  BY <1>2, BangIs DEF Inside
<1> HIDE DEF s, I, r, l1, l2, l3, l4, m0, m1, m2
<1>10. /\ Leads(Reads, TextReaders, Only(s), <<l1>>, Only(I(m0, Off)))
       /\ Leads(Reads, TextReaders, Only(I(m0, Off)), <<l2>>, Only(I(m1, Off)))
       /\ Leads(Reads, TextReaders, Only(I(m1, Off)), <<l3>>, Only(I(m2, Off)))
       /\ Leads(Reads, TextReaders, Only(I(m2, Off)), <<l4>>, Only(I(m2, fallback)))
       /\ Leads(Reads, TextReaders, Only(I(m2, fallback)), <<Bang>>, Only(r))
  BY <1>4, <1>5, <1>6, <1>7, <1>8, <1>9, OnlyReads
<1>11. /\ <<l1, l2, l3, l4, Bang>> \in Seq(Lines)
       /\ Leads(Reads, TextReaders, Only(s), <<l1, l2, l3, l4, Bang>>, Only(r))
  BY <1>4, <1>10, LeadsFive
<1> QED
  BY <1>3, <1>11 DEF s, r, fallback

----------------------------------------------------------------------------
(* The whole text: where the sections of c lead once those for the VLANs   *)
(* in V, the ports in P and the LAGs in G have been read.                  *)

PortsAfter(c, P) == [p \in PortIds |-> IF p \in P THEN c.port[p] ELSE None]
PartsAfter(c, P) == [p \in PortIds |-> IF p \in P THEN PartsOf(c, p) ELSE NoSwitchport]
NamedVlan(c, v) == [name |-> c.vlans[v].name, tagged |-> {}, untagged |-> {}]
VlansAfter(c, V) == [v \in Vids |-> IF v \in V THEN NamedVlan(c, v) ELSE None]
LagsAfter(c, G) == [g \in Groups |-> IF g \in G THEN c.lags[g] ELSE None]
FirstPvids == [p \in PortIds |-> 1]

Sections(c, V, P, G) ==
  ReadAs(Cand(c.mgmt, c.fallback, PortsAfter(c, P), FirstPvids, VlansAfter(c, V), LagsAfter(c, G)),
         None, PartsAfter(c, P))

(* One more element of a table. *)
LEMMA VlansGrow ==
  ASSUME NEW c, NEW U, NEW x \in Vids
  PROVE  VlansAfter(c, U \cup {x}) = Put(VlansAfter(c, U), x, NamedVlan(c, x))
BY DEF VlansAfter, Put

LEMMA PortsGrow ==
  ASSUME NEW c, NEW U, NEW x \in PortIds
  PROVE  /\ PortsAfter(c, U \cup {x}) = Put(PortsAfter(c, U), x, c.port[x])
         /\ PartsAfter(c, U \cup {x}) = Put(PartsAfter(c, U), x, PartsOf(c, x))
BY DEF PortsAfter, PartsAfter, Put

LEMMA LagsGrow ==
  ASSUME NEW c, NEW U, NEW x \in Groups
  PROVE  LagsAfter(c, U \cup {x}) = Put(LagsAfter(c, U), x, c.lags[x])
BY DEF LagsAfter, Put

LEMMA VidOrderIs == Enumerates(VidOrder, Vids)
<1>1. IsFiniteSet(Vids) /\ Vids \subseteq Int
  BY TextConstants, PlannerConstants DEF TextConstants, PlannerConstants
<1> DEFINE Ascends(order) == \A i, j \in DOMAIN order : i < j => order[i] < order[j]
           Orders == [1..Cardinality(Vids) -> Vids]
<1>2. \E order \in Orders : Ascends(order)
  <2>1. PICK order \in Orders : Increasing(order, Cardinality(Vids))
    BY <1>1, IncreasingExists
  <2>2. DOMAIN order = 1..Cardinality(Vids)
    OBVIOUS
  <2> QED
    BY <2>1, <2>2 DEF Increasing
<1>3. VidOrder \in Orders /\ Ascends(VidOrder)
  BY <1>2 DEF VidOrder
<1>4. DOMAIN VidOrder = 1..Cardinality(Vids)
  BY <1>3
<1>5. Increasing(VidOrder, Cardinality(Vids))
  BY <1>3, <1>4 DEF Increasing
<1> QED
  BY <1>1, <1>3, <1>5, IncreasingEnumerates

LEMMA GroupOrderIs == Enumerates(GroupOrder, Groups)
BY TextConstants, SetToSeqEnumerates DEF TextConstants, GroupOrder

LEMMA VlansAreRead ==
  ASSUME NEW c \in Config, \A v \in VlanIds(c) : Stripped[c.vlans[v].name] = c.vlans[v].name
  PROVE  /\ RenderVlans(c) \in Seq(Lines)
         /\ Leads(Reads, TextReaders, Only(Sections(c, {}, {}, {})), RenderVlans(c),
                  Only(Sections(c, VlanIds(c), {}, {})))
<1> DEFINE T == VlanIds(c)
           N == [V \in SUBSET T |-> Only(Sections(c, V, {}, {}))]
           block == [v \in T |-> RenderVlan(c, v)]
<1>1. T \in SUBSET Vids
  BY DEF VlanIds
<1>2. ASSUME NEW U \in SUBSET T, NEW v \in T
      PROVE  /\ RenderVlan(c, v) \in Seq(Lines)
             /\ Leads(Reads, TextReaders, N[U], RenderVlan(c, v), N[U \cup {v}])
  <2> DEFINE s == ReadAs(Cand(c.mgmt, c.fallback, PortsAfter(c, {}), FirstPvids, VlansAfter(c, U),
                              LagsAfter(c, {})), None, PartsAfter(c, {}))
             r == ReadAs(Cand(c.mgmt, c.fallback, PortsAfter(c, {}), FirstPvids,
                              [VlansAfter(c, U) EXCEPT ![v] = NamedVlan(c, v)],
                              LagsAfter(c, {})), None, PartsAfter(c, {}))
  <2>1. /\ RenderVlan(c, v) \in Seq(Lines)
        /\ Leads(Reads, TextReaders, Only(s), RenderVlan(c, v), Only(r))
    BY VlanSection DEF NamedVlan
  <2>2. s = Sections(c, U, {}, {})
    BY DEF Sections
  <2>3. r = Sections(c, U \cup {v}, {}, {})
    <3>1. VlansAfter(c, U \cup {v}) = Put(VlansAfter(c, U), v, NamedVlan(c, v))
      BY <1>1, VlansGrow
    <3> QED
      BY <3>1 DEF Sections, Put
  <2>4. N[U] = Only(Sections(c, U, {}, {})) /\ N[U \cup {v}] = Only(Sections(c, U \cup {v}, {}, {}))
    OBVIOUS
  <2> HIDE DEF s, r, N
  <2> QED
    BY <2>1, <2>2, <2>3, <2>4
<1>3. block \in [T -> Seq(Lines)]
  BY <1>2
<1>4. N \in [SUBSET T -> SUBSET TextReaders]
  BY DEF Only
<1>5. N[{}] = Only(Sections(c, {}, {}, {})) /\ N[T] = Only(Sections(c, T, {}, {}))
  OBVIOUS
<1>6. \A U \in SUBSET T : \A v \in T : Leads(Reads, TextReaders, N[U], block[v], N[U \cup {v}])
  <2> HIDE DEF N
  <2> QED
    BY <1>2
<1>7. RenderVlans(c) = InOrder(VidOrder, T, block)
  BY DEF RenderVlans, InOrder
<1> HIDE DEF N, block, T
<1>8. /\ InOrder(VidOrder, T, block) \in Seq(Lines)
      /\ Leads(Reads, TextReaders, N[{}], InOrder(VidOrder, T, block), N[T])
  BY <1>1, <1>3, <1>4, <1>6, VidOrderIs, LeadsInOrder
<1> QED
  BY <1>5, <1>7, <1>8 DEF T

LEMMA PortsAreRead ==
  ASSUME NEW c \in Config, \A p \in PortsOf(c) : c.port[p] \notin OddSettings
  PROVE  /\ RenderPorts(c) \in Seq(Lines)
         /\ Leads(Reads, TextReaders, Only(Sections(c, VlanIds(c), {}, {})), RenderPorts(c),
                  Only(Sections(c, VlanIds(c), PortsOf(c), {})))
<1> DEFINE T == PortsOf(c)
           N == [U \in SUBSET T |-> Only(Sections(c, VlanIds(c), U, {}))]
           block == [x \in T |-> RenderPort(c, x)]
<1>1. T \in SUBSET PortIds
  BY DEF PortsOf
<1>2. ASSUME NEW U \in SUBSET T, NEW x \in T
      PROVE  /\ RenderPort(c, x) \in Seq(Lines)
             /\ Leads(Reads, TextReaders, N[U], RenderPort(c, x), N[U \cup {x}])
  <2> DEFINE s == ReadAs(Cand(c.mgmt, c.fallback, PortsAfter(c, U), FirstPvids, VlansAfter(c, VlanIds(c)),
                              LagsAfter(c, {})), None, PartsAfter(c, U))
             r == ReadAs(Cand(c.mgmt, c.fallback, [PortsAfter(c, U) EXCEPT ![x] = c.port[x]], FirstPvids,
                              VlansAfter(c, VlanIds(c)), LagsAfter(c, {})), None,
                         [PartsAfter(c, U) EXCEPT ![x] = PartsOf(c, x)])
  <2>1. /\ RenderPort(c, x) \in Seq(Lines)
        /\ Leads(Reads, TextReaders, Only(s), RenderPort(c, x), Only(r))
    BY PortSection
  <2>2. s = Sections(c, VlanIds(c), U, {})
    BY DEF Sections
  <2>3. r = Sections(c, VlanIds(c), U \cup {x}, {})
    <3>1. /\ PortsAfter(c, U \cup {x}) = Put(PortsAfter(c, U), x, c.port[x])
          /\ PartsAfter(c, U \cup {x}) = Put(PartsAfter(c, U), x, PartsOf(c, x))
      BY <1>1, PortsGrow
    <3> QED
      BY <3>1 DEF Sections, Put
  <2>4. /\ N[U] = Only(Sections(c, VlanIds(c), U, {}))
        /\ N[U \cup {x}] = Only(Sections(c, VlanIds(c), U \cup {x}, {}))
    OBVIOUS
  <2> HIDE DEF s, r, N
  <2> QED
    BY <2>1, <2>2, <2>3, <2>4
<1>3. block \in [T -> Seq(Lines)]
  BY <1>2
<1>4. N \in [SUBSET T -> SUBSET TextReaders]
  BY DEF Only
<1>5. N[{}] = Only(Sections(c, VlanIds(c), {}, {})) /\ N[T] = Only(Sections(c, VlanIds(c), T, {}))
  OBVIOUS
<1>6. \A U \in SUBSET T : \A x \in T : Leads(Reads, TextReaders, N[U], block[x], N[U \cup {x}])
  <2> HIDE DEF N
  <2> QED
    BY <1>2
<1>7. RenderPorts(c) = InOrder(PortOrder, T, block)
  BY DEF RenderPorts, InOrder
<1> HIDE DEF N, block, T
<1>8. /\ InOrder(PortOrder, T, block) \in Seq(Lines)
      /\ Leads(Reads, TextReaders, N[{}], InOrder(PortOrder, T, block), N[T])
  BY <1>1, <1>3, <1>4, <1>6, PortOrderIs, LeadsInOrder
<1> QED
  BY <1>5, <1>7, <1>8 DEF T

LEMMA LagsAreRead ==
  ASSUME NEW c \in Config
  PROVE  /\ RenderLags(c) \in Seq(Lines)
         /\ Leads(Reads, TextReaders, Only(Sections(c, VlanIds(c), PortsOf(c), {})), RenderLags(c),
                  Only(Sections(c, VlanIds(c), PortsOf(c), LagIds(c))))
<1> DEFINE T == LagIds(c)
           N == [U \in SUBSET T |-> Only(Sections(c, VlanIds(c), PortsOf(c), U))]
           block == [x \in T |-> RenderLag(c, x)]
<1>1. T \in SUBSET Groups
  BY DEF LagIds
<1>2. ASSUME NEW U \in SUBSET T, NEW x \in T
      PROVE  /\ RenderLag(c, x) \in Seq(Lines)
             /\ Leads(Reads, TextReaders, N[U], RenderLag(c, x), N[U \cup {x}])
  <2> DEFINE s == ReadAs(Cand(c.mgmt, c.fallback, PortsAfter(c, PortsOf(c)), FirstPvids,
                              VlansAfter(c, VlanIds(c)), LagsAfter(c, U)), None,
                         PartsAfter(c, PortsOf(c)))
             r == ReadAs(Cand(c.mgmt, c.fallback, PortsAfter(c, PortsOf(c)), FirstPvids,
                              VlansAfter(c, VlanIds(c)), [LagsAfter(c, U) EXCEPT ![x] = c.lags[x]]),
                         None, PartsAfter(c, PortsOf(c)))
  <2>1. /\ RenderLag(c, x) \in Seq(Lines)
        /\ Leads(Reads, TextReaders, Only(s), RenderLag(c, x), Only(r))
    BY LagSection
  <2>2. s = Sections(c, VlanIds(c), PortsOf(c), U)
    BY DEF Sections
  <2>3. r = Sections(c, VlanIds(c), PortsOf(c), U \cup {x})
    <3>1. x \in Groups
      BY <1>1
    <3>2. LagsAfter(c, U \cup {x}) = Put(LagsAfter(c, U), x, c.lags[x])
      BY <3>1, LagsGrow
    <3> QED
      BY <3>2 DEF Sections, Put
  <2>4. /\ N[U] = Only(Sections(c, VlanIds(c), PortsOf(c), U))
        /\ N[U \cup {x}] = Only(Sections(c, VlanIds(c), PortsOf(c), U \cup {x}))
    OBVIOUS
  <2> HIDE DEF s, r, N
  <2> QED
    BY <2>1, <2>2, <2>3, <2>4
<1>3. block \in [T -> Seq(Lines)]
  BY <1>2
<1>4. N \in [SUBSET T -> SUBSET TextReaders]
  BY DEF Only
<1>5. N[{}] = Only(Sections(c, VlanIds(c), PortsOf(c), {})) /\ N[T] = Only(Sections(c, VlanIds(c), PortsOf(c), T))
  OBVIOUS
<1>6. \A U \in SUBSET T : \A x \in T : Leads(Reads, TextReaders, N[U], block[x], N[U \cup {x}])
  <2> HIDE DEF N
  <2> QED
    BY <1>2
<1>7. RenderLags(c) = InOrder(GroupOrder, T, block)
  BY DEF RenderLags, InOrder
<1> HIDE DEF N, block, T
<1>8. /\ InOrder(GroupOrder, T, block) \in Seq(Lines)
      /\ Leads(Reads, TextReaders, N[{}], InOrder(GroupOrder, T, block), N[T])
  BY <1>1, <1>3, <1>4, <1>6, GroupOrderIs, LeadsInOrder
<1> QED
  BY <1>5, <1>7, <1>8 DEF T

----------------------------------------------------------------------------
(* The switchport parts are carried out, port by port: where that leads    *)
(* once it has been done for the ports in Q.                               *)

PvidsAfter(c, Q) == [p \in PortIds |-> IF p \in Q THEN c.pvid[p] ELSE 1]
Among(entry, Q) == [name |-> entry.name, tagged |-> entry.tagged \cap Q,
                    untagged |-> entry.untagged \cap Q]
MembersAfter(c, Q) == [v \in Vids |-> IF v \in VlanIds(c) THEN Among(c.vlans[v], Q) ELSE None]

Carried(c, Q) ==
  ReadAs(Cand(c.mgmt, c.fallback, PortsAfter(c, PortsOf(c)), PvidsAfter(c, Q), MembersAfter(c, Q),
              LagsAfter(c, LagIds(c))), None, PartsAfter(c, PortsOf(c)))

(* Whatever the mode, the PVID and the VLANs are set to those of c.        *)
LEMMA SwitchportIs ==
  ASSUME NEW c \in Config, NEW p \in PortIds, ModeOf(c, p) = "trunk" => c.pvid[p] \notin Tagged(c, p),
         NEW s, s.ok = TRUE, s.cand.port[p] # None, s.parts[p] = PartsOf(c, p)
  PROVE  Switchport(s, p) = SetMemberships(s, WithPvids(s.cand, Put(s.cand.pvid, p, c.pvid[p])), p,
                                           Tagged(c, p), Untagged(c, p))
<1> DEFINE pvid == c.pvid[p]
           ts == Tagged(c, p)
           us == Untagged(c, p)
           d == [s.cand EXCEPT !.pvid[p] = pvid]
           mode == ModeOf(c, p)
           parts == PartsOf(c, p)
<1>1. pvid \in Vids /\ ts \in SUBSET Vids /\ us \in SUBSET Vids
  BY ModesAre
<1>2. pvid # None /\ ts # None /\ us # None /\ ts \cup {pvid} # None
  <2>1. ts \cup {pvid} \in SUBSET Vids
    BY <1>1
  <2> QED
    BY <1>1, <2>1, NoneIsApart
<1>3. d = WithPvids(s.cand, Put(s.cand.pvid, p, pvid))
  BY DEF WithPvids, Put
<1>4. mode \in {"access", "trunk"} => us = {pvid}
  BY ModesAre
<1>5. mode = "access" => ts = {}
  BY ModesAre
<1> HIDE DEF pvid, ts, us, d
<1>6. CASE mode = "access"
  <2>1. parts = Part("access", pvid, None, None, None, None, None)
    BY <1>6 DEF PartsOf, pvid
  <2>2. parts.mode = "access" /\ parts.access = pvid
    BY <2>1 DEF Part
  <2> HIDE DEF parts
  <2>3. Switchport(s, p) = SetMemberships(s, d, p, {}, {pvid})
    BY <1>2, <2>2 DEF Switchport, Or, parts, d
  <2> QED
    BY <1>3, <1>4, <1>5, <1>6, <2>3 DEF pvid, ts, us
<1>7. CASE mode = "trunk"
  <2>1. parts = Part("trunk", None, pvid, ts \cup {pvid}, None, None, None)
    BY <1>7 DEF PartsOf, pvid, ts
  <2>2. parts.mode = "trunk" /\ parts.native = pvid /\ parts.allowed = ts \cup {pvid}
    BY <2>1 DEF Part
  <2>3. pvid \notin ts
    BY <1>7 DEF pvid, ts
  <2> HIDE DEF parts
  <2>4. Switchport(s, p) = SetMemberships(s, d, p, (ts \cup {pvid}) \ {pvid}, {pvid})
    BY <1>2, <2>2 DEF Switchport, Or, parts, d
  <2>5. (ts \cup {pvid}) \ {pvid} = ts
    BY <2>3
  <2> QED
    BY <1>3, <1>4, <1>7, <2>4, <2>5 DEF pvid, ts, us
<1>8. CASE mode = "hybrid"
  <2>1. parts = Part("hybrid", None, None, None, pvid, ts, us)
    BY <1>8 DEF PartsOf, pvid, ts, us
  <2>2. parts.mode = "hybrid" /\ parts.pvid = pvid /\ parts.tagged = ts /\ parts.untagged = us
    BY <2>1 DEF Part
  <2> HIDE DEF parts
  <2>3. Switchport(s, p) = SetMemberships(s, d, p, ts, us)
    BY <1>2, <2>2 DEF Switchport, Or, parts, d
  <2> QED
    BY <1>3, <2>3 DEF pvid, ts, us
<1> QED
  BY <1>6, <1>7, <1>8, ModesAre

(* The VLANs of one more port. *)
LEMMA MembersGrow ==
  ASSUME NEW c \in Config, NEW Q, NEW p \in PortIds, NEW d, d.vlans = MembersAfter(c, Q)
  PROVE  /\ VlanIds(d) = VlanIds(c)
         /\ WithMemberships(d, p, Tagged(c, p), Untagged(c, p)) = WithVlans(d, MembersAfter(c, Q \cup {p}))
<1> DEFINE Entry(v) == IF d.vlans[v] = None THEN None
                       ELSE [d.vlans[v] EXCEPT !.tagged = Joined(@, p, v \in Tagged(c, p)),
                                               !.untagged = Joined(@, p, v \in Untagged(c, p))]
<1>1. ASSUME NEW v \in VlanIds(c)
      PROVE  /\ d.vlans[v] = Among(c.vlans[v], Q) /\ d.vlans[v] # None
             /\ Entry(v) = Among(c.vlans[v], Q \cup {p})
  <2> DEFINE e == c.vlans[v]
             x == d.vlans[v]
  <2>1. v \in Vids /\ e \in Vlan
    BY DEF Config, VlanIds
  <2>2. x = Among(e, Q)
    BY <2>1 DEF MembersAfter
  <2>3. v \in Tagged(c, p) <=> p \in e.tagged
    BY DEF Tagged
  <2>4. v \in Untagged(c, p) <=> p \in e.untagged
    BY DEF Untagged
  <2> HIDE DEF e, x
  <2>5. Among(e, Q) \in Vlan
    BY <2>1 DEF Among, Vlan
  <2>6. x # None
    BY <2>2, <2>5, NoneIsApart
  <2>7. /\ Joined(x.tagged, p, v \in Tagged(c, p)) = e.tagged \cap (Q \cup {p})
        /\ Joined(x.untagged, p, v \in Untagged(c, p)) = e.untagged \cap (Q \cup {p})
    <3>1. x.tagged = e.tagged \cap Q /\ x.untagged = e.untagged \cap Q
      BY <2>2 DEF Among
    <3> QED
      BY <2>3, <2>4, <3>1 DEF Joined
  <2> DEFINE tagged == Joined(x.tagged, p, v \in Tagged(c, p))
             untagged == Joined(x.untagged, p, v \in Untagged(c, p))
             y == [x EXCEPT !.tagged = tagged]
             z == [y EXCEPT !.untagged = untagged]
  <2>8. Entry(v) = z
    BY <2>6 DEF x
  <2> HIDE DEF tagged, untagged
  <2>9. z = [name |-> e.name, tagged |-> tagged, untagged |-> untagged]
    <3>1. x \in [name : {e.name}, tagged : {x.tagged}, untagged : {x.untagged}]
      BY <2>2 DEF Among
    <3>2. y \in [name : {e.name}, tagged : {tagged}, untagged : {x.untagged}]
      BY <3>1
    <3> HIDE DEF y
    <3> QED
      BY <3>2
  <2>10. z = Among(e, Q \cup {p})
    <3>1. tagged = e.tagged \cap (Q \cup {p}) /\ untagged = e.untagged \cap (Q \cup {p})
      BY <2>7 DEF tagged, untagged
    <3> QED
      BY <2>9, <3>1 DEF Among
  <2> QED
    BY <2>2, <2>6, <2>8, <2>10 DEF e, x
<1>2. ASSUME NEW v \in Vids \ VlanIds(c)
      PROVE  d.vlans[v] = None /\ Entry(v) = None
  BY DEF MembersAfter
<1>3. VlanIds(d) = VlanIds(c)
  BY <1>1, <1>2 DEF VlanIds
<1>4. WithMemberships(d, p, Tagged(c, p), Untagged(c, p)) = [d EXCEPT !.vlans = [v \in Vids |-> Entry(v)]]
  BY DEF WithMemberships
<1> HIDE DEF Entry
<1>5. [v \in Vids |-> Entry(v)] = MembersAfter(c, Q \cup {p})
  BY <1>1, <1>2 DEF MembersAfter
<1> QED
  BY <1>3, <1>4, <1>5 DEF WithVlans

LEMMA PvidsGrow ==
  ASSUME NEW c, NEW Q, NEW p \in PortIds
  PROVE  PvidsAfter(c, Q \cup {p}) = Put(PvidsAfter(c, Q), p, c.pvid[p])
BY DEF PvidsAfter, Put

LEMMA PortIsCarriedOut ==
  ASSUME NEW c \in Config, NEW p \in PortsOf(c), NEW Q,
         ModeOf(c, p) = "trunk" => c.pvid[p] \notin Tagged(c, p)
  PROVE  Switchport(Carried(c, Q), p) = Carried(c, Q \cup {p})
<1> DEFINE port == PortsAfter(c, PortsOf(c))
           lags == LagsAfter(c, LagIds(c))
           parts == PartsAfter(c, PortsOf(c))
           C(x, y) == Cand(c.mgmt, c.fallback, port, x, y, lags)
           old == PvidsAfter(c, Q)
           new == PvidsAfter(c, Q \cup {p})
           before == MembersAfter(c, Q)
           after == MembersAfter(c, Q \cup {p})
           d == C(new, before)
           s == ReadAs(C(old, before), None, parts)
<1>1. p \in PortIds /\ c.port[p] # None
  BY DEF PortsOf
<1>2. port[p] = c.port[p] /\ parts[p] = PartsOf(c, p)
  BY <1>1 DEF PortsAfter, PartsAfter
<1>3. new = Put(old, p, c.pvid[p])
  BY <1>1, PvidsGrow
<1> HIDE DEF port, lags, parts, old, new, before, after
<1>4. /\ C(old, before).port = port /\ C(old, before).pvid = old
      /\ WithPvids(C(old, before), new) = d
      /\ d.vlans = before /\ WithVlans(d, after) = C(new, after)
  BY CandIs, CandSet
<1> HIDE DEF C
<1>5. s.ok = TRUE
  BY DEF ReadAs
<1>6. s.cand = C(old, before) /\ s.parts = parts
  BY DEF ReadAs
<1>7. Switchport(s, p) = SetMemberships(s, WithPvids(s.cand, Put(s.cand.pvid, p, c.pvid[p])), p,
                                        Tagged(c, p), Untagged(c, p))
  <2> HIDE DEF s
  <2>1. s.cand.port[p] # None /\ s.parts[p] = PartsOf(c, p)
    BY <1>1, <1>2, <1>4, <1>6
  <2> QED
    BY <1>1, <1>5, <2>1, SwitchportIs
<1>8. WithPvids(s.cand, Put(s.cand.pvid, p, c.pvid[p])) = d
  <2> HIDE DEF s, d
  <2> QED
    BY <1>3, <1>4, <1>6
<1>9. /\ VlanIds(d) = VlanIds(c)
      /\ WithMemberships(d, p, Tagged(c, p), Untagged(c, p)) = WithVlans(d, after)
  <2> HIDE DEF d
  <2> QED
    BY <1>1, <1>4, MembersGrow DEF before, after
<1>10. Tagged(c, p) \cup Untagged(c, p) \subseteq VlanIds(c)
  BY DEF Tagged, Untagged
<1>11. Accept(s, C(new, after)) = ReadAs(C(new, after), None, parts)
  BY ReadSet
<1> HIDE DEF s, d
<1>12. Switchport(s, p) = ReadAs(C(new, after), None, parts)
  BY <1>4, <1>7, <1>8, <1>9, <1>10, <1>11 DEF SetMemberships
<1> QED
  BY <1>12 DEF s, C, port, lags, parts, old, new, before, after, Carried

LEMMA OthersAreSkipped ==
  ASSUME NEW c \in Config, NEW p \in PortIds \ PortsOf(c), NEW Q
  PROVE  Switchport(Carried(c, Q), p) = Carried(c, Q)
<1> DEFINE port == PortsAfter(c, PortsOf(c))
           d == Cand(c.mgmt, c.fallback, port, PvidsAfter(c, Q), MembersAfter(c, Q),
                     LagsAfter(c, LagIds(c)))
           s == ReadAs(d, None, PartsAfter(c, PortsOf(c)))
<1>1. port[p] = None
  BY DEF PortsAfter
<1>2. d.port = port
  <2> HIDE DEF port
  <2> QED
    BY CandIs
<1> HIDE DEF d
<1>3. s.cand = d
  BY DEF ReadAs
<1> HIDE DEF s, port
<1>4. Switchport(s, p) = s
  BY <1>1, <1>2, <1>3 DEF Switchport
<1> QED
  BY <1>4 DEF s, d, port, Carried

LEMMA SwitchportsAreCarriedOut ==
  ASSUME NEW c \in Config,
         \A p \in PortsOf(c) : ModeOf(c, p) = "trunk" => c.pvid[p] \notin Tagged(c, p)
  PROVE  Leads(CarriesOut, TextReaders, Only(Carried(c, {})), PortOrder, Only(Carried(c, PortsOf(c))))
<1> DEFINE N == [U \in SUBSET PortIds |-> Only(Carried(c, U \cap PortsOf(c)))]
<1>1. ASSUME NEW U \in SUBSET PortIds, NEW p \in PortIds, NEW s \in N[U]
      PROVE  CarriesOut[s][p] \in N[U \cup {p}]
  <2> DEFINE Q == U \cap PortsOf(c)
             R == (U \cup {p}) \cap PortsOf(c)
  <2>1. s = Carried(c, Q) /\ s \in TextReaders
    BY DEF Only
  <2>2. CarriesOut[s][p] = Switchport(s, p) /\ CarriesOut[s][p] \in TextReaders
    BY <2>1, CarriesOutIs
  <2>3. CASE p \in PortsOf(c)
    <3>1. R = Q \cup {p}
      BY <2>3
    <3> HIDE DEF Q
    <3>2. Switchport(s, p) = Carried(c, Q \cup {p})
      BY <2>1, <2>3, PortIsCarriedOut
    <3> QED
      BY <2>2, <3>1, <3>2 DEF Only
  <2>4. CASE p \notin PortsOf(c)
    <3>1. R = Q
      BY <2>4
    <3>2. p \in PortIds \ PortsOf(c)
      BY <2>4
    <3> HIDE DEF Q
    <3>3. Switchport(s, p) = Carried(c, Q)
      BY <2>1, <3>2, OthersAreSkipped
    <3> QED
      BY <2>2, <3>1, <3>3 DEF Only
  <2> QED
    BY <2>3, <2>4
<1>2. N \in [SUBSET PortIds -> SUBSET TextReaders]
  BY DEF Only
<1>3. N[{}] = Only(Carried(c, {})) /\ N[PortIds] = Only(Carried(c, PortsOf(c)))
  <2>1. {} \cap PortsOf(c) = {} /\ PortIds \cap PortsOf(c) = PortsOf(c)
    BY DEF PortsOf
  <2>2. N[{}] = Only(Carried(c, {} \cap PortsOf(c)))
        /\ N[PortIds] = Only(Carried(c, PortIds \cap PortsOf(c)))
    OBVIOUS
  <2> HIDE DEF N
  <2> QED
    BY <2>1, <2>2
<1> HIDE DEF N
<1>4. Leads(CarriesOut, TextReaders, N[{}], PortOrder, N[PortIds])
  BY <1>1, <1>2, PortOrderIs, LeadsAlong
<1> QED
  BY <1>3, <1>4

(* Before the first port, and after the last one.                          *)
LEMMA NoneIsCarriedOut ==
  ASSUME NEW c \in Config
  PROVE  Sections(c, VlanIds(c), PortsOf(c), LagIds(c)) = Carried(c, {})
<1>1. FirstPvids = PvidsAfter(c, {})
  BY DEF FirstPvids, PvidsAfter
<1>2. VlansAfter(c, VlanIds(c)) = MembersAfter(c, {})
  <2>1. ASSUME NEW v \in Vids
        PROVE  NamedVlan(c, v) = Among(c.vlans[v], {})
    <3>1. c.vlans[v].tagged \cap {} = {} /\ c.vlans[v].untagged \cap {} = {}
      OBVIOUS
    <3> QED
      BY <3>1 DEF NamedVlan, Among
  <2> QED
    BY <2>1 DEF VlansAfter, MembersAfter
<1> QED
  BY <1>1, <1>2 DEF Sections, Carried

LEMMA AllAreCarriedOut ==
  ASSUME NEW c \in Config, c.dot1q = TRUE, \A p \in PortIds \ PortsOf(c) : c.pvid[p] = 1,
         \A v \in VlanIds(c) : c.vlans[v].tagged \cup c.vlans[v].untagged \subseteq PortsOf(c)
  PROVE  Carried(c, PortsOf(c)) = ReadAs(c, None, PartsAfter(c, PortsOf(c)))
<1>1. PortsAfter(c, PortsOf(c)) = c.port
  <2>1. c.port \in [PortIds -> Settings \cup {None}]
    BY DEF Config
  <2>2. \A p \in PortIds : p \notin PortsOf(c) => c.port[p] = None
    BY DEF PortsOf
  <2> QED
    BY <2>1, <2>2 DEF PortsAfter
<1>2. LagsAfter(c, LagIds(c)) = c.lags
  <2>1. c.lags \in [Groups -> (SUBSET PortIds) \cup {None}]
    BY DEF Config
  <2>2. \A g \in Groups : g \notin LagIds(c) => c.lags[g] = None
    BY DEF LagIds
  <2> QED
    BY <2>1, <2>2 DEF LagsAfter
<1>3. PvidsAfter(c, PortsOf(c)) = c.pvid
  <2>1. c.pvid \in [PortIds -> Vids]
    BY DEF Config
  <2> QED
    BY <2>1 DEF PvidsAfter
<1>4. MembersAfter(c, PortsOf(c)) = c.vlans
  <2>1. c.vlans \in [Vids -> Vlan \cup {None}]
    BY DEF Config
  <2>2. ASSUME NEW v \in VlanIds(c)
        PROVE  Among(c.vlans[v], PortsOf(c)) = c.vlans[v]
    <3> DEFINE e == c.vlans[v]
    <3>1. e \in Vlan
      BY <2>1 DEF VlanIds
    <3>2. e.tagged \cap PortsOf(c) = e.tagged /\ e.untagged \cap PortsOf(c) = e.untagged
      OBVIOUS
    <3> HIDE DEF e
    <3>3. Among(e, PortsOf(c)) = [name |-> e.name, tagged |-> e.tagged, untagged |-> e.untagged]
      BY <3>2 DEF Among
    <3>4. e = [name |-> e.name, tagged |-> e.tagged, untagged |-> e.untagged]
      BY <3>1 DEF Vlan
    <3> QED
      BY <3>3, <3>4 DEF e
  <2>3. \A v \in Vids : v \notin VlanIds(c) => c.vlans[v] = None
    BY DEF VlanIds
  <2> QED
    BY <2>1, <2>2, <2>3 DEF MembersAfter
<1>5. c = Cand(c.mgmt, c.fallback, c.port, c.pvid, c.vlans, c.lags)
  <2> DEFINE m == c.mgmt
             f == c.fallback
             port == c.port
             pvid == c.pvid
             vlans == c.vlans
             lags == c.lags
  <2>1. c \in [mgmt : {m}, fallback : {f}, port : {port}, pvid : {pvid}, vlans : {vlans},
               lags : {lags}, dot1q : {TRUE}]
    BY DEF Config
  <2> HIDE DEF m, f, port, pvid, vlans, lags
  <2>2. c = Cand(m, f, port, pvid, vlans, lags)
    BY <2>1 DEF Cand
  <2> QED
    BY <2>2 DEF m, f, port, pvid, vlans, lags
<1> QED
  BY <1>1, <1>2, <1>3, <1>4, <1>5 DEF Carried

----------------------------------------------------------------------------
(* What is rendered can be read, and is read as what it was rendered from. *)

Body(c) == RenderManagement(c) \o RenderVlans(c) \o RenderPorts(c) \o RenderLags(c)

(* The header is the first line of a text.                                 *)
LEMMA HeaderIsFirst ==
  ASSUME NEW c \in Config, RenderManagement(c) \in Seq(Lines), RenderVlans(c) \in Seq(Lines),
         RenderPorts(c) \in Seq(Lines), RenderLags(c) \in Seq(Lines)
  PROVE  /\ Render(c) = <<Header>> \o Body(c) /\ Body(c) \in Seq(Lines)
         /\ Render(c)[1] = Header /\ Render(c) # <<>> /\ Tail(Render(c)) = Body(c)
<1> DEFINE h == <<Header>>
           m == RenderManagement(c)
           v == RenderVlans(c)
           p == RenderPorts(c)
           g == RenderLags(c)
<1>1. Header \in Lines
  BY LineIsIn
<1>2. h \in Seq(Lines)
  BY <1>1
<1>3. Render(c) = h \o m \o v \o p \o g /\ Body(c) = m \o v \o p \o g
  BY DEF Render, Body
<1> HIDE DEF h, m, v, p, g
<1>4. m \in Seq(Lines) /\ v \in Seq(Lines) /\ p \in Seq(Lines) /\ g \in Seq(Lines)
  BY DEF m, v, p, g
<1>5. m \o v \in Seq(Lines) /\ m \o v \o p \in Seq(Lines) /\ m \o v \o p \o g \in Seq(Lines)
  BY <1>4, ConcatProperties
<1>6. FromLeft(h, m, v, p, g) = FirstThenRest(h, m, v, p, g)
  BY <1>2, <1>4, FiveTexts
<1>7. Render(c) = h \o Body(c)
  BY <1>3, <1>6 DEF FromLeft, FirstThenRest
<1>8. Body(c) \in Seq(Lines)
  BY <1>3, <1>5
<1>9. /\ (<<Header>> \o Body(c))[1] = Header /\ <<Header>> \o Body(c) # <<>>
      /\ Tail(<<Header>> \o Body(c)) = Body(c)
  BY <1>1, <1>8, AfterFirstLine
<1> QED
  BY <1>7, <1>8, <1>9 DEF h

BlankReader == ReadAs(BlankConfig, None, [p \in PortIds |-> NoSwitchport])

LEMMA BlankIs ==
  ASSUME NEW c
  PROVE  /\ BlankReader \in TextReaders
         /\ BlankReader = ReadAs(Cand(None, FALSE, PortsAfter(c, {}), FirstPvids, VlansAfter(c, {}),
                                      LagsAfter(c, {})), None, PartsAfter(c, {}))
<1>1. BlankConfig \in Draft
  BY PlannerConstants DEF BlankConfig, Draft, PlannerConstants
<1>2. NoSwitchport \in Parts
  BY DEF NoSwitchport, Parts
<1>3. BlankReader \in Records /\ BlankReader.ctx = None
  BY <1>1, <1>2 DEF Records, BlankReader, ReadAs
<1>4. BlankReader \in TextReaders
  <2> HIDE DEF BlankReader
  <2> QED
    BY <1>3 DEF TextReaders, Managed
<1>5. /\ PortsAfter(c, {}) = [p \in PortIds |-> None]
      /\ PartsAfter(c, {}) = [p \in PortIds |-> NoSwitchport]
      /\ VlansAfter(c, {}) = [v \in Vids |-> None]
      /\ LagsAfter(c, {}) = [g \in Groups |-> None]
  BY DEF PortsAfter, PartsAfter, VlansAfter, LagsAfter
<1> QED
  BY <1>4, <1>5 DEF BlankReader, BlankConfig, Cand, FirstPvids

(* The text of a configuration leads from the blank one to its sections.   *)
LEMMA BodyIsRead ==
  ASSUME NEW c \in Config, c.mgmt.dhcp <=> c.mgmt.address = None,
         \A v \in VlanIds(c) : Stripped[c.vlans[v].name] = c.vlans[v].name,
         \A p \in PortsOf(c) : c.port[p] \notin OddSettings
  PROVE  /\ Render(c)[1] = Header /\ Render(c) # <<>> /\ Tail(Render(c)) = Body(c)
         /\ RenderManagement(c) \in Seq(Lines) /\ RenderVlans(c) \in Seq(Lines)
         /\ RenderPorts(c) \in Seq(Lines) /\ RenderLags(c) \in Seq(Lines) /\ Body(c) \in Seq(Lines)
         /\ Leads(Reads, TextReaders, Only(BlankReader), Body(c),
                  Only(Sections(c, VlanIds(c), PortsOf(c), LagIds(c))))
<1>1. /\ RenderManagement(c) \in Seq(Lines)
      /\ Leads(Reads, TextReaders, Only(BlankReader), RenderManagement(c), Only(Sections(c, {}, {}, {})))
  <2>1. LET s == ReadAs(Cand(None, FALSE, PortsAfter(c, {}), FirstPvids, VlansAfter(c, {}),
                             LagsAfter(c, {})), None, PartsAfter(c, {}))
            r == ReadAs(Cand(c.mgmt, c.fallback, PortsAfter(c, {}), FirstPvids, VlansAfter(c, {}),
                             LagsAfter(c, {})), None, PartsAfter(c, {}))
        IN /\ RenderManagement(c) \in Seq(Lines)
           /\ Leads(Reads, TextReaders, Only(s), RenderManagement(c), Only(r))
    BY ManagementSection
  <2> QED
    BY <2>1, BlankIs DEF Sections
<1>2. /\ RenderVlans(c) \in Seq(Lines)
      /\ Leads(Reads, TextReaders, Only(Sections(c, {}, {}, {})), RenderVlans(c),
               Only(Sections(c, VlanIds(c), {}, {})))
  BY VlansAreRead
<1>3. /\ RenderPorts(c) \in Seq(Lines)
      /\ Leads(Reads, TextReaders, Only(Sections(c, VlanIds(c), {}, {})), RenderPorts(c),
               Only(Sections(c, VlanIds(c), PortsOf(c), {})))
  BY PortsAreRead
<1>4. /\ RenderLags(c) \in Seq(Lines)
      /\ Leads(Reads, TextReaders, Only(Sections(c, VlanIds(c), PortsOf(c), {})), RenderLags(c),
               Only(Sections(c, VlanIds(c), PortsOf(c), LagIds(c))))
  BY LagsAreRead
<1>5. /\ RenderManagement(c) \o RenderVlans(c) \in Seq(Lines)
      /\ Leads(Reads, TextReaders, Only(BlankReader), RenderManagement(c) \o RenderVlans(c),
               Only(Sections(c, VlanIds(c), {}, {})))
  BY <1>1, <1>2, LeadsThen
<1> DEFINE mv == RenderManagement(c) \o RenderVlans(c)
           mvp == mv \o RenderPorts(c)
<1>6. /\ mvp \in Seq(Lines)
      /\ Leads(Reads, TextReaders, Only(BlankReader), mvp, Only(Sections(c, VlanIds(c), PortsOf(c), {})))
  <2> HIDE DEF mv
  <2>1. mv \in Seq(Lines)
    BY <1>5 DEF mv
  <2>2. Leads(Reads, TextReaders, Only(BlankReader), mv, Only(Sections(c, VlanIds(c), {}, {})))
    BY <1>5 DEF mv
  <2> QED
    BY <1>3, <2>1, <2>2, LeadsThen
<1>7. /\ Body(c) \in Seq(Lines)
      /\ Leads(Reads, TextReaders, Only(BlankReader), Body(c),
               Only(Sections(c, VlanIds(c), PortsOf(c), LagIds(c))))
  <2>1. Body(c) = mvp \o RenderLags(c)
    BY DEF Body
  <2> HIDE DEF mvp
  <2> QED
    BY <1>4, <1>6, <2>1, LeadsThen
<1> QED
  BY <1>1, <1>2, <1>3, <1>4, <1>7, HeaderIsFirst

LEMMA ReadsBack ==
  ASSUME NEW c \in Config, Printable(c)
  PROVE  Parse(Render(c)) = [cand |-> c, ok |-> TRUE]
<1>1. /\ c.mgmt.dhcp <=> c.mgmt.address = None
      /\ \A v \in VlanIds(c) : Stripped[c.vlans[v].name] = c.vlans[v].name
      /\ \A v \in VlanIds(c) : c.vlans[v].tagged \cup c.vlans[v].untagged \subseteq PortsOf(c)
      /\ \A p \in PortsOf(c) : c.port[p] \notin OddSettings
      /\ \A p \in PortsOf(c) : ModeOf(c, p) = "trunk" => c.pvid[p] \notin Tagged(c, p)
      /\ \A p \in PortIds \ PortsOf(c) : c.pvid[p] = 1
  BY DEF Printable
<1>2. c.dot1q = TRUE
  <2>1. c.dot1q /\ c.dot1q \in BOOLEAN
    BY DEF Printable, Config
  <2> QED
    BY <2>1
<1>3. /\ Render(c)[1] = Header /\ Render(c) # <<>> /\ Tail(Render(c)) = Body(c)
      /\ Body(c) \in Seq(Lines)
      /\ Leads(Reads, TextReaders, Only(BlankReader), Body(c),
               Only(Sections(c, VlanIds(c), PortsOf(c), LagIds(c))))
  BY <1>1, BodyIsRead
<1> DEFINE begun == Render(c) # <<>> /\ Render(c)[1] = Header
           start == [cand |-> BlankConfig, ctx |-> None, ok |-> begun,
                     parts |-> [p \in PortIds |-> NoSwitchport]]
           read == FoldLeft(ParseLine, start, Tail(Render(c)))
           done == FoldLeft(Switchport, read, PortOrder)
<1>4. Parse(Render(c)) = [cand |-> done.cand, ok |-> done.ok /\ done.cand.mgmt # None]
  BY DEF Parse
<1>5. start = BlankReader
  <2>1. begun = TRUE
    BY <1>3, Zenon
  <2> HIDE DEF begun
  <2> QED
    BY <2>1 DEF BlankReader, ReadAs
<1> HIDE DEF start
<1>6. read = Carried(c, {}) /\ Carried(c, {}) \in TextReaders
  <2>1. BlankReader \in Only(BlankReader)
    BY BlankIs DEF Only
  <2>2. FoldLeft(ParseLine, BlankReader, Body(c)) \in Only(Sections(c, VlanIds(c), PortsOf(c), LagIds(c)))
    BY <1>3, <2>1, LinesFold
  <2> QED
    BY <1>3, <1>5, <2>2, NoneIsCarriedOut DEF Only
<1> HIDE DEF read
<1>7. done = ReadAs(c, None, PartsAfter(c, PortsOf(c)))
  <2>1. Leads(CarriesOut, TextReaders, Only(Carried(c, {})), PortOrder, Only(Carried(c, PortsOf(c))))
    BY <1>1, SwitchportsAreCarriedOut
  <2>2. read \in Only(Carried(c, {}))
    BY <1>6 DEF Only
  <2>3. done \in Only(Carried(c, PortsOf(c)))
    BY <2>1, <2>2, PortOrderIs, PortsFold
  <2>4. Carried(c, PortsOf(c)) = ReadAs(c, None, PartsAfter(c, PortsOf(c)))
    BY <1>1, <1>2, AllAreCarriedOut
  <2> QED
    BY <2>3, <2>4 DEF Only
<1> HIDE DEF done
<1>8. done.cand = c /\ done.ok = TRUE
  BY <1>7 DEF ReadAs
<1>9. c.mgmt # None
  BY NoneIsApart DEF Config
<1> DEFINE ok == done.ok /\ done.cand.mgmt # None
<1>10. ok = TRUE
  BY <1>8, <1>9, Zenon
<1> HIDE DEF ok
<1> QED
  BY <1>4, <1>8, <1>10 DEF ok

LEMMA CandidateReadsBack == TypeOK => RoundTrip
BY ReadsBack DEF TypeOK, RoundTrip

(* Every candidate a session can reach, shown and loaded again, is the     *)
(* same candidate: parse_config after render_config loses nothing that a   *)
(* text can carry, for switches, VLANs, ports and LAGs of any number.      *)
THEOREM RenderedTextsReadBack == Spec => []RoundTrip
BY SessionTypeCorrect, CandidateReadsBack, PTL

----------------------------------------------------------------------------
(* A text typed into a session, line by line.  The header and the lines    *)
(* between sections mean nothing there.                                    *)

LEMMA ReaderFields ==
  ASSUME NEW s \in Readers, NEW d
  PROVE  /\ Reject(s).cand = s.cand /\ Reject(s).ctx = s.ctx
         /\ Accept(s, d).cand = d /\ Accept(s, d).ctx = s.ctx
BY DEF Readers, Reject, Accept

LEMMA EnterFields ==
  ASSUME NEW s \in Readers, NEW d, NEW kind, NEW id
  PROVE  Enter(s, d, kind, id).cand = d /\ Enter(s, d, kind, id).ctx = Context(kind, id)
BY DEF Readers, Enter

(* Which part of _configure a line goes to.                                *)
LEMMA HeadIsTyped ==
  ASSUME NEW s, NEW w \in Heads, NEW a
  PROVE  Configure(s, Line(w, a)) = EnterLine(s, Line(w, a))
<1> DEFINE l == Line(w, a)
<1>1. l.words = w
  BY DEF Line
<1> HIDE DEF l
<1>2. Configure(s, l) = EnterLine(s, l)
  BY <1>1 DEF Configure, Heads, Removals
<1> QED
  BY <1>2 DEF l

LEMMA PortLineIsTyped ==
  ASSUME NEW s, s.ctx # None, s.ctx.kind = "port", NEW w, w \notin Heads, w \notin Removals, NEW a
  PROVE  Configure(s, Line(w, a)) = PortLine(s, Line(w, a))
<1> DEFINE l == Line(w, a)
<1>1. l.words = w
  BY DEF Line
<1> HIDE DEF l
<1>2. Configure(s, l) = PortLine(s, l)
  BY <1>1 DEF Configure
<1> QED
  BY <1>2 DEF l

LEMMA OtherLineIsTyped ==
  ASSUME NEW s, s.ctx # None, s.ctx.kind # "port", NEW w, w \notin Heads, w \notin Removals, NEW a
  PROVE  Configure(s, Line(w, a)) = OtherLine(s, Line(w, a))
<1> DEFINE l == Line(w, a)
<1>1. l.words = w
  BY DEF Line
<1> HIDE DEF l
<1>2. Configure(s, l) = OtherLine(s, l)
  BY <1>1 DEF Configure
<1> QED
  BY <1>2 DEF l

LEMMA IdleLines ==
  ASSUME NEW s \in Readers, NEW l \in {Header, Bang}
  PROVE  Configure(s, l) = Reject(s)
<1> DEFINE w == l.words
<1>1. w \in {"!", "! mercswitch-config v2"} /\ l = Line(w, None)
  <2>1. /\ Header.words = "! mercswitch-config v2" /\ Header = Line(Header.words, None)
        /\ Bang.words = "!" /\ Bang = Line(Bang.words, None)
    BY DEF Header, Bang, Line
  <2> QED
    BY <2>1
<1>2. w \notin Heads /\ w \notin Removals /\ Line(w, None).words = w
  BY <1>1 DEF Heads, Removals, Line
<1> HIDE DEF w
<1>3. CASE s.ctx = None
  <2>1. Configure(s, l) = Reject(s)
    BY <1>1, <1>2, <1>3 DEF Configure
  <2> QED
    BY <2>1
<1>4. CASE s.ctx # None /\ s.ctx.kind = "port"
  <2>1. Configure(s, l) = PortLine(s, l)
    BY <1>1, <1>2, <1>4, PortLineIsTyped
  <2>2. PortLine(s, l) = Reject(s)
    BY <1>1, <1>2 DEF PortLine
  <2> QED
    BY <2>1, <2>2
<1>5. CASE s.ctx # None /\ s.ctx.kind # "port"
  <2>1. Configure(s, l) = OtherLine(s, l)
    BY <1>1, <1>2, <1>5, OtherLineIsTyped
  <2>2. s.ctx.kind \in {"management", "vlan", "lag"}
    <3>1. s.ctx \in Contexts
      BY <1>5 DEF Readers
    <3> QED
      BY <1>5, <3>1, ContextIs
  <2>3. ManagementLine(s, l) = Reject(s) /\ VlanLine(s, l) = Reject(s) /\ LagLine(s, l) = Reject(s)
    BY <1>1, <1>2 DEF ManagementLine, VlanLine, LagLine
  <2> QED
    BY <2>1, <2>2, <2>3 DEF OtherLine
<1> QED
  BY <1>3, <1>4, <1>5

Types == [s \in Readers |-> [l \in Lines |-> Configure(s, l)]]

LEMMA TypesIs ==
  /\ Types \in [Readers -> [Lines -> Readers]]
  /\ \A s \in Readers, l \in Lines : Types[s][l] = Configure(s, l)
<1>1. ASSUME NEW s \in Readers, NEW l \in Lines
      PROVE  Configure(s, l) \in Readers
  <2>1. CASE l = Header
    BY <2>1, IdleLines, ReaderIs
  <2>2. CASE \E w \in Words : \E a \in Arguments(w) : l = Line(w, a)
    BY <2>2, ConfigureType
  <2> QED
    BY <2>1, <2>2 DEF Lines
<1> QED
  BY <1>1 DEF Types

LEMMA TypedFold ==
  ASSUME NEW A, NEW B, NEW s \in A, NEW text \in Seq(Lines), Leads(Types, Readers, A, text, B)
  PROVE  FoldLeft(Configure, s, text) \in B
<1> DEFINE n == Len(text)
           Fold(g) == [t \in SUBSET DOMAIN text |->
                         IF t = {} THEN s ELSE Configure(g[t \ {Max(t)}], text[Max(t)])]
           h == CHOOSE g : g = Fold(g)
<1>1. FoldLeft(Configure, s, text) = h[DOMAIN text]
  BY DEF FoldLeft, MapThenFoldSet
<1>2. n \in Nat /\ DOMAIN text = 1..n /\ text \in [1..n -> Lines]
  OBVIOUS
<1>3. s \in Readers
  BY DEF Leads
<1>4. \A t \in SUBSET (1..n) : t # {} => Max(t) \in t
  BY <1>2, MaxIs
<1>5. /\ Types \in [Readers -> [Lines -> Readers]]
      /\ \A t \in Readers, e \in Lines : Types[t][e] = Configure(t, e)
  BY TypesIs
<1> HIDE DEF n
<1>6. \E g : g = Fold(g)
  <2>1. PICK g \in [SUBSET (1..n) -> Readers] : Folds(g, n, Types, s, text)
    BY <1>2, <1>3, <1>5, FoldExists
  <2>2. ASSUME NEW t \in SUBSET (1..n)
        PROVE  g[t] = IF t = {} THEN s ELSE Configure(g[t \ {Max(t)}], text[Max(t)])
    <3>1. t # {} => g[t \ {Max(t)}] \in Readers /\ text[Max(t)] \in Lines
      BY <1>2, <1>4
    <3> QED
      BY <1>5, <2>1, <3>1 DEF Folds
  <2>3. g = [t \in SUBSET (1..n) |-> g[t]]
    OBVIOUS
  <2> QED
    BY <1>2, <2>2, <2>3
<1>7. h = Fold(h)
  BY <1>6
<1> HIDE DEF h
<1>8. \A t \in SUBSET (1..n) :
        h[t] = IF t = {} THEN s ELSE Configure(h[t \ {Max(t)}], text[Max(t)])
  BY <1>2, <1>7
<1>9. FoldsIn(h, n, Types, Readers, s, text)
  <2>1. h[{}] = s
    BY <1>8
  <2>2. ASSUME NEW t \in SUBSET (1..n), t # {}, h[t \ {Max(t)}] \in Readers
        PROVE  h[t] = Types[h[t \ {Max(t)}]][text[Max(t)]]
    <3>1. text[Max(t)] \in Lines
      BY <1>2, <1>4, <2>2
    <3> QED
      BY <1>5, <1>8, <2>2, <3>1
  <2> QED
    BY <2>1, <2>2 DEF FoldsIn
<1>10. h[1..n] \in B
  BY <1>2, <1>9, FoldLeads DEF n
<1> QED
  BY <1>1, <1>2, <1>10

(* What a line does to every state of a set.                               *)
LEMMA LineTypes ==
  ASSUME NEW A \in SUBSET Readers, NEW B \in SUBSET Readers, NEW l \in Lines,
         \A s \in A : Configure(s, l) \in B
  PROVE  Leads(Types, Readers, A, <<l>>, B)
<1>1. \A s \in A : Types[s][l] \in B
  BY TypesIs
<1> QED
  BY <1>1, LeadsLine

LEMMA BangTypes ==
  ASSUME NEW A \in SUBSET Readers, NEW B \in SUBSET Readers, \A s \in A : Reject(s) \in B
  PROVE  Leads(Types, Readers, A, <<Bang>>, B)
<1>1. \A s \in A : Configure(s, Bang) \in B
  BY IdleLines
<1> QED
  BY <1>1, LineIsIn, LineTypes

----------------------------------------------------------------------------
(* Where a session is after it has typed the sections of c for the         *)
(* management, the VLANs in V, the ports in P and the LAGs in G.           *)

SameVlan(c, d, v) == d.vlans[v] # None /\ d.vlans[v].name = c.vlans[v].name
SamePort(c, d, p) ==
  /\ d.port[p] = c.port[p] /\ d.pvid[p] = c.pvid[p]
  /\ Tagged(d, p) = Tagged(c, p) /\ Untagged(d, p) = Untagged(c, p)

Restored(c, V, P, G) ==
  {s \in Readers : /\ s.cand.mgmt = c.mgmt /\ s.cand.fallback = c.fallback
                   /\ \A v \in V : SameVlan(c, s.cand, v)
                   /\ \A p \in P : SamePort(c, s.cand, p)
                   /\ \A g \in G : s.cand.lags[g] = c.lags[g]}

(* The section of the management, from wherever the session is.            *)
LEMMA WithFields ==
  ASSUME NEW c \in Config, NEW x
  PROVE  /\ WithMgmt(c, x).mgmt = x /\ WithMgmt(c, x).fallback = c.fallback
         /\ WithFallback(c, x).fallback = x /\ WithFallback(c, x).mgmt = c.mgmt
         /\ \A m \in Management : m = x => WithMgmt(c, x) \in Config
BY DEF Config, WithMgmt, WithFallback

LEMMA ManagementFields ==
  ASSUME NEW m \in Management, NEW b, NEW a
  PROVE  /\ WithAddress(WithDhcp(m, b), a).vlan = m.vlan
         /\ WithAddress(WithDhcp(m, b), a).dhcp = b
         /\ WithAddress(WithDhcp(m, b), a).address = a
         /\ WithAddress(WithDhcp(m, b), a).gateway = m.gateway
         /\ WithGateway(m, a).vlan = m.vlan /\ WithGateway(m, a).dhcp = m.dhcp
         /\ WithGateway(m, a).address = m.address /\ WithGateway(m, a).gateway = a
<1> DEFINE n == WithDhcp(m, b)
<1>1. n.vlan = m.vlan /\ n.dhcp = b /\ n.gateway = m.gateway /\ DOMAIN n = {"vlan", "dhcp", "address", "gateway"}
  BY Zenon DEF WithDhcp, Management
<1> QED
  BY <1>1 DEF WithAddress, WithGateway, Management

InManagement(s) == s.ctx # None /\ s.ctx.kind = "management"

LEMMA ManagementIsTyped ==
  ASSUME NEW s \in Readers, InManagement(s), NEW a,
         NEW l \in {DhcpLine, AddressLine(a), GatewayLine(a), NoGatewayLine, FallbackLine(a)}
  PROVE  Configure(s, l) = ManagementLine(s, l)
<1>1. s.ctx # None /\ s.ctx.kind # "port" /\ s.ctx.kind = "management"
  BY DEF InManagement
<1>2. PICK w : w \notin Heads /\ w \notin Removals /\ l = Line(w, l.arg)
  BY ManagementWords
<1>3. Configure(s, l) = OtherLine(s, l)
  BY <1>1, <1>2, OtherLineIsTyped
<1> QED
  BY <1>1, <1>3 DEF OtherLine

(* A line leaves a session in its context, with this management.           *)
SetsTo(s, l, m, f) ==
  /\ Configure(s, l).ctx = s.ctx
  /\ Configure(s, l).cand.mgmt = m /\ Configure(s, l).cand.fallback = f

LEMMA ManagementTypes ==
  ASSUME NEW s \in Readers, InManagement(s), NEW m, NEW f, m = s.cand.mgmt, f = s.cand.fallback, NEW a
  PROVE  /\ SetsTo(s, DhcpLine, WithAddress(WithDhcp(m, On), None), f)
         /\ a # None => SetsTo(s, AddressLine(a), WithAddress(WithDhcp(m, Off), a), f)
         /\ SetsTo(s, GatewayLine(a), WithGateway(m, a), f)
         /\ SetsTo(s, NoGatewayLine, WithGateway(m, None), f)
         /\ SetsTo(s, FallbackLine(a), m, a)
<1> DEFINE d == s.cand
           r(l) == Configure(s, l)
<1>1. d \in Config /\ m = d.mgmt /\ f = d.fallback
  BY ReaderIs
<1>2. /\ r(DhcpLine) = Accept(s, WithMgmt(d, WithAddress(WithDhcp(m, On), None)))
      /\ a # None => r(AddressLine(a)) = Accept(s, WithMgmt(d, WithAddress(WithDhcp(m, Off), a)))
      /\ r(GatewayLine(a)) = Accept(s, WithMgmt(d, WithGateway(m, a)))
      /\ r(NoGatewayLine) = Accept(s, WithMgmt(d, WithGateway(m, None)))
      /\ r(FallbackLine(a)) = Accept(s, WithFallback(d, a))
  <2>1. \A l \in {DhcpLine, AddressLine(a), GatewayLine(a), NoGatewayLine, FallbackLine(a)} :
          r(l) = ManagementLine(s, l)
    BY ManagementIsTyped
  <2> QED
    BY <1>1, <2>1, ManagementDoes
<1>3. \A e : Accept(s, e).cand = e /\ Accept(s, e).ctx = s.ctx
  BY ReaderFields
<1>4. \A x : /\ WithMgmt(d, x).mgmt = x /\ WithMgmt(d, x).fallback = f
             /\ WithFallback(d, x).fallback = x /\ WithFallback(d, x).mgmt = m
  BY <1>1, WithFields
<1>5. \A l, e : r(l) = Accept(s, e) => SetsTo(s, l, e.mgmt, e.fallback)
  BY <1>3 DEF SetsTo
<1> HIDE DEF r, d
<1> QED
  BY <1>2, <1>4, <1>5

LEMMA ManagementIsEntered ==
  ASSUME NEW s \in Readers, NEW v \in Vids
  PROVE  /\ InManagement(Configure(s, ManagementHead(v)))
         /\ Configure(s, ManagementHead(v)).cand.mgmt.vlan = v
<1> DEFINE w == "interface vlan"
           ctx == Context("management", v)
           m == s.cand.mgmt
           n == [m EXCEPT !.vlan = v]
           d == [s.cand EXCEPT !.mgmt = n]
           r == Configure(s, Line(w, v))
<1>1. w \in Heads
  BY DEF Heads
<1>2. EnterLine(s, Line(w, v)) = Enter(s, d, "management", v)
  BY DEF EnterLine, Line
<1>3. n.vlan = v /\ d.mgmt = n
  <2>1. s.cand \in Config /\ m \in Management
    BY ReaderIs DEF Config
  <2>2. n.vlan = v
    BY <2>1 DEF Management
  <2> HIDE DEF n
  <2> QED
    BY <2>1, <2>2 DEF Config
<1>4. r = EnterLine(s, Line(w, v))
  <2> HIDE DEF w
  <2> QED
    BY <1>1, HeadIsTyped
<1> HIDE DEF w, d, n, r
<1>5. r.cand = d /\ r.ctx = ctx
  BY <1>2, <1>4, EnterFields
<1>6. ctx # None /\ ctx.kind = "management"
  <2>1. ctx \in Contexts
    BY DEF Contexts
  <2> QED
    BY <2>1, NoneIsApart DEF Context
<1> QED
  BY <1>3, <1>5, <1>6 DEF r, w, InManagement, ManagementHead

LEMMA ManagementIsRestored ==
  ASSUME NEW c \in Config, c.mgmt.dhcp <=> c.mgmt.address = None
  PROVE  Leads(Types, Readers, Readers, RenderManagement(c), Restored(c, {}, {}, {}))
<1> DEFINE v == c.mgmt.vlan
           dhcp == c.mgmt.dhcp
           address == c.mgmt.address
           gateway == c.mgmt.gateway
           fallback == c.fallback
           l1 == ManagementHead(v)
           l2 == IF dhcp THEN DhcpLine ELSE AddressLine(address)
           l3 == IF gateway = None THEN NoGatewayLine ELSE GatewayLine(gateway)
           l4 == FallbackLine(fallback)
           A1 == {s \in Readers : InManagement(s) /\ s.cand.mgmt.vlan = v}
           A2 == {s \in A1 : s.cand.mgmt.dhcp = dhcp /\ s.cand.mgmt.address = address}
           A3 == {s \in A2 : s.cand.mgmt.gateway = gateway}
           A4 == {s \in A3 : s.cand.fallback = fallback}
           A5 == Restored(c, {}, {}, {})
<1>1. /\ v \in Vids /\ dhcp \in BOOLEAN /\ fallback \in BOOLEAN
      /\ address \in Addresses \cup {None} /\ gateway \in Addresses \cup {None}
      /\ dhcp <=> address = None
  BY DEF Config, Management
<1>2. RenderManagement(c) = <<l1, l2, l3, l4, Bang>>
  BY DEF RenderManagement, ManagementHead, DhcpLine, AddressLine, GatewayLine, NoGatewayLine, FallbackLine
<1>3. l1 \in Lines /\ l2 \in Lines /\ l3 \in Lines /\ l4 \in Lines /\ Bang \in Lines
  BY ManagementLinesAre
<1> HIDE DEF l1, l2, l3, l4
<1>4. ASSUME NEW s \in Readers
      PROVE  /\ Configure(s, l1) \in Readers /\ Configure(s, l2) \in Readers
             /\ Configure(s, l3) \in Readers /\ Configure(s, l4) \in Readers
  BY <1>3, TypesIs
<1>5. ASSUME NEW s \in A1
      PROVE  s \in Readers /\ InManagement(s) /\ s.cand.mgmt \in Management /\ s.cand.mgmt.vlan = v
  <2>1. s.cand \in Config
    BY ReaderIs
  <2> QED
    BY <2>1 DEF Config
<1>6. \A s \in Readers : Configure(s, l1) \in A1
  BY <1>1, <1>4, ManagementIsEntered DEF l1
<1>7. ASSUME NEW s \in A1
      PROVE  Configure(s, l2) \in A2
  <2> DEFINE m == s.cand.mgmt
             r == Configure(s, l2)
             n == WithAddress(WithDhcp(m, dhcp), address)
  <2>1. m \in Management /\ m.vlan = v /\ InManagement(s)
    BY <1>5
  <2>2. SetsTo(s, l2, n, s.cand.fallback)
    <3>1. CASE dhcp = On
      <4>1. address = None /\ l2 = DhcpLine
        BY <1>1, <3>1 DEF On, l2
      <4> QED
        BY <1>5, <3>1, <4>1, ManagementTypes
    <3>2. CASE dhcp = Off
      <4>1. address # None /\ l2 = AddressLine(address)
        BY <1>1, <3>2 DEF Off, l2
      <4> QED
        BY <1>5, <3>2, <4>1, ManagementTypes
    <3> QED
      BY <1>1, <3>1, <3>2, OnOrOff
  <2>3. n.vlan = v /\ n.dhcp = dhcp /\ n.address = address
    BY <2>1, ManagementFields
  <2> HIDE DEF m, n
  <2>4. r.ctx = s.ctx /\ r.cand.mgmt = n
    BY <2>2 DEF SetsTo
  <2> QED
    BY <1>4, <2>1, <2>3, <2>4 DEF InManagement
<1>8. ASSUME NEW s \in A2
      PROVE  Configure(s, l3) \in A3
  <2> DEFINE m == s.cand.mgmt
             r == Configure(s, l3)
             n == WithGateway(m, gateway)
  <2>1. m \in Management /\ m.vlan = v /\ m.dhcp = dhcp /\ m.address = address /\ InManagement(s)
    BY <1>5
  <2>2. SetsTo(s, l3, n, s.cand.fallback)
    <3>1. (l3 = NoGatewayLine /\ gateway = None) \/ l3 = GatewayLine(gateway)
      BY DEF l3
    <3> QED
      BY <1>5, <3>1, ManagementTypes
  <2>3. n.vlan = v /\ n.dhcp = dhcp /\ n.address = address /\ n.gateway = gateway
    BY <2>1, ManagementFields
  <2> HIDE DEF m, n
  <2>4. r.ctx = s.ctx /\ r.cand.mgmt = n
    BY <2>2 DEF SetsTo
  <2> QED
    BY <1>4, <2>1, <2>3, <2>4 DEF InManagement
<1>9. ASSUME NEW s \in A3
      PROVE  Configure(s, l4) \in A4
  <2> DEFINE m == s.cand.mgmt
             r == Configure(s, l4)
  <2>1. /\ m \in Management /\ m.vlan = v /\ m.dhcp = dhcp /\ m.address = address /\ InManagement(s)
        /\ m.gateway = gateway
    BY <1>5
  <2>2. SetsTo(s, l4, m, fallback)
    BY <1>5, ManagementTypes DEF l4
  <2> HIDE DEF m
  <2>3. r.ctx = s.ctx /\ r.cand.mgmt = m /\ r.cand.fallback = fallback
    BY <2>2 DEF SetsTo
  <2> QED
    BY <1>4, <2>1, <2>3 DEF InManagement
<1>10. ASSUME NEW s \in A4
       PROVE  Reject(s) \in A5
  <2> DEFINE m == s.cand.mgmt
  <2>1. /\ m \in Management /\ m.vlan = v /\ m.dhcp = dhcp /\ m.address = address
        /\ m.gateway = gateway /\ s.cand.fallback = fallback
    BY <1>5
  <2>2. m = c.mgmt
    <3> HIDE DEF m
    <3>1. m = Mgmt(m.vlan, m.dhcp, m.address, m.gateway)
      BY <2>1, MgmtOf
    <3>2. c.mgmt = Mgmt(v, dhcp, address, gateway)
      BY MgmtOf DEF Config
    <3> HIDE DEF v, dhcp, address, gateway
    <3> QED
      BY <2>1, <3>1, <3>2
  <2>3. Reject(s) \in Readers /\ Reject(s).cand = s.cand
    BY ReaderIs, ReaderFields
  <2> QED
    BY <2>1, <2>2, <2>3 DEF Restored
<1> HIDE DEF v, dhcp, address, gateway, fallback
<1>11. A1 \in SUBSET Readers /\ A2 \in SUBSET Readers /\ A3 \in SUBSET Readers /\ A4 \in SUBSET Readers
  OBVIOUS
<1>12. A5 \in SUBSET Readers
  BY DEF Restored
<1> HIDE DEF A1, A2, A3, A4, A5
<1>13. /\ Leads(Types, Readers, Readers, <<l1>>, A1) /\ Leads(Types, Readers, A1, <<l2>>, A2)
       /\ Leads(Types, Readers, A2, <<l3>>, A3) /\ Leads(Types, Readers, A3, <<l4>>, A4)
       /\ Leads(Types, Readers, A4, <<Bang>>, A5)
  BY <1>3, <1>6, <1>7, <1>8, <1>9, <1>10, <1>11, <1>12, LineTypes, BangTypes
<1>14. Leads(Types, Readers, Readers, <<l1, l2, l3, l4, Bang>>, A5)
  BY <1>3, <1>13, LeadsFive
<1> QED
  BY <1>2, <1>14 DEF A5

----------------------------------------------------------------------------
(* The sections of the VLANs: one that is not defined yet is added.        *)

OnlyVlan(c, d, v) ==
  /\ d.mgmt = c.mgmt /\ d.fallback = c.fallback
  /\ \A u \in Vids \ {v} : d.vlans[u] = c.vlans[u]

LEMMA VlanIsSet ==
  ASSUME NEW c \in Config, NEW v \in Vids, NEW x, NEW d, d = WithVlans(c, Put(c.vlans, v, x))
  PROVE  OnlyVlan(c, d, v) /\ d.vlans[v] = x
<1> DEFINE vlans == Put(c.vlans, v, x)
<1>1. c.vlans \in [Vids -> Vlan \cup {None}]
  BY DEF Config
<1>2. vlans[v] = x /\ \A u \in Vids \ {v} : vlans[u] = c.vlans[u]
  BY <1>1 DEF Put
<1> HIDE DEF vlans
<1>3. d.mgmt = c.mgmt /\ d.fallback = c.fallback /\ d.vlans = vlans
  BY DEF Config, WithVlans, vlans
<1> QED
  BY <1>2, <1>3 DEF OnlyVlan

LEMMA VlanContext ==
  ASSUME NEW v \in Vids
  PROVE  Context("vlan", v) # None /\ Context("vlan", v).kind = "vlan" /\ Context("vlan", v).id = v
<1>1. Context("vlan", v) \in Contexts
  BY DEF Contexts
<1> QED
  BY <1>1, NoneIsApart DEF Context

LEMMA VlanIsEntered ==
  ASSUME NEW s \in Readers, NEW v \in Vids
  PROVE  LET r == Configure(s, Line("vlan", v))
         IN /\ r.ctx = Context("vlan", v)
            /\ OnlyVlan(s.cand, r.cand, v) /\ r.cand.vlans[v] # None
<1> DEFINE c == s.cand
           w == "vlan"
           x == OrNew(c.vlans[v], EmptyVlan)
           d == WithVlans(c, Put(c.vlans, v, x))
           r == Configure(s, Line(w, v))
<1>1. w \in Heads
  BY DEF Heads
<1>2. EnterLine(s, Line(w, v)) = Enter(s, d, "vlan", v)
  BY DEF EnterLine, Line, WithVlans, Put
<1>3. x # None
  <2>1. EmptyVlan \in Vlan
    BY LanguageConstants DEF EmptyVlan, Vlan, LanguageConstants
  <2> QED
    BY <2>1, NoneIsApart DEF OrNew
<1>4. r = EnterLine(s, Line(w, v))
  <2> HIDE DEF w
  <2> QED
    BY <1>1, HeadIsTyped
<1>5. c \in Config
  BY ReaderIs
<1> HIDE DEF c, d, x, r
<1>6. r.cand = d /\ r.ctx = Context("vlan", v)
  BY <1>2, <1>4, EnterFields
<1>7. OnlyVlan(c, d, v) /\ d.vlans[v] = x
  BY <1>5, VlanIsSet DEF d
<1> QED
  BY <1>3, <1>6, <1>7 DEF r, c

NameLine(name) == IF name = "" THEN Line("no name", None) ELSE Line("name", name)

LEMMA VlanIsNamed ==
  ASSUME NEW s \in Readers, NEW v \in Vids, s.ctx = Context("vlan", v), s.cand.vlans[v] # None,
         NEW name \in Names, Stripped[name] = name
  PROVE  LET r == Configure(s, NameLine(name))
         IN /\ OnlyVlan(s.cand, r.cand, v)
            /\ r.cand.vlans[v] # None /\ r.cand.vlans[v].name = name
<1> DEFINE c == s.cand
           e == c.vlans[v]
           x == [e EXCEPT !.name = name]
           d == WithVlans(c, Put(c.vlans, v, x))
           l == NameLine(name)
           r == Configure(s, l)
<1>1. c \in Config
  BY ReaderIs
<1>2. x.name = name /\ x # None
  <2>1. e \in Vlan
    BY <1>1 DEF Config
  <2>2. x \in Vlan /\ x.name = name
    BY <2>1 DEF Vlan
  <2> QED
    BY <2>2, NoneIsApart
<1>3. s.ctx # None /\ s.ctx.kind = "vlan" /\ s.ctx.id = v /\ s.ctx.kind # "port"
  BY VlanContext
<1>4. PICK w : w \notin Heads /\ w \notin Removals /\ l = Line(w, l.arg)
  <2>1. CASE name = ""
    BY <2>1 DEF NameLine, Line, Heads, Removals
  <2>2. CASE name # ""
    BY <2>2 DEF NameLine, Line, Heads, Removals
  <2> QED
    BY <2>1, <2>2
<1>5. r = OtherLine(s, l)
  <2> HIDE DEF l
  <2> QED
    BY <1>3, <1>4, OtherLineIsTyped
<1>6. OtherLine(s, l) = VlanLine(s, l)
  BY <1>3 DEF OtherLine
<1>7. VlanLine(s, l) = Accept(s, d)
  <2>1. CASE name = ""
    <3>1. l.words = "no name"
      BY <2>1 DEF NameLine, Line
    <3> HIDE DEF l
    <3>2. VlanLine(s, l) = Accept(s, [c EXCEPT !.vlans[v].name = ""])
      BY <1>3, <3>1 DEF VlanLine
    <3> QED
      BY <2>1, <3>2 DEF WithVlans, Put
  <2>2. CASE name # ""
    <3>1. l.words = "name" /\ l.arg = name
      BY <2>2 DEF NameLine, Line
    <3> HIDE DEF l
    <3>2. VlanLine(s, l) = Accept(s, [c EXCEPT !.vlans[v].name = name])
      BY <1>3, <2>2, <3>1 DEF VlanLine
    <3> QED
      BY <3>2 DEF WithVlans, Put
  <2> QED
    BY <2>1, <2>2
<1> HIDE DEF r, l, d
<1>8. r.cand = d
  BY <1>5, <1>6, <1>7, ReaderFields
<1> HIDE DEF c, x
<1>9. OnlyVlan(c, d, v) /\ d.vlans[v] = x
  BY <1>1, VlanIsSet DEF d
<1> QED
  BY <1>2, <1>8, <1>9 DEF r, l, c

LEMMA VlanLinesAre ==
  ASSUME NEW c \in Config, NEW v \in VlanIds(c), Stripped[c.vlans[v].name] = c.vlans[v].name
  PROVE  RenderVlan(c, v) \in Seq(Lines)
<1> DEFINE none == None
<1> HIDE DEF none
<1>1. LET entry == [name |-> c.vlans[v].name, tagged |-> {}, untagged |-> {}]
          s == ReadAs(Cand(none, none, none, none, none, none), None, none)
          r == ReadAs(Cand(none, none, none, none, [none EXCEPT ![v] = entry], none), None, none)
      IN /\ RenderVlan(c, v) \in Seq(Lines)
         /\ Leads(Reads, TextReaders, Only(s), RenderVlan(c, v), Only(r))
  BY VlanSection
<1> QED
  BY <1>1

LEMMA VlanIsRestored ==
  ASSUME NEW c \in Config, NEW U \in SUBSET Vids, NEW v \in Vids, NEW name \in Names, name = c.vlans[v].name,
         Stripped[name] = name, RenderVlan(c, v) \in Seq(Lines)
  PROVE  Leads(Types, Readers, Restored(c, U, {}, {}), RenderVlan(c, v), Restored(c, U \cup {v}, {}, {}))
<1> DEFINE ctx == Context("vlan", v)
           A == {s \in Readers : /\ s.ctx = ctx /\ s.cand.vlans[v] # None
                                 /\ s.cand.mgmt = c.mgmt /\ s.cand.fallback = c.fallback
                                 /\ \A u \in U \ {v} : SameVlan(c, s.cand, u)}
           B == Restored(c, U \cup {v}, {}, {})
           l1 == Line("vlan", v)
           l2 == NameLine(name)
<1>1. RenderVlan(c, v) = <<l1, l2, Bang>>
  BY DEF RenderVlan, NameLine
<1>2. l1 \in Lines /\ l2 \in Lines /\ Bang \in Lines
  <2> HIDE DEF l1, l2
  <2>1. \A i \in 1..3 : RenderVlan(c, v)[i] \in Lines
    BY <1>1
  <2> QED
    BY <1>1, <2>1
<1>3. ASSUME NEW d, NEW e, OnlyVlan(d, e, v), \A u \in U \ {v} : SameVlan(c, d, u)
      PROVE  \A u \in U \ {v} : SameVlan(c, e, u)
  BY <1>3 DEF OnlyVlan, SameVlan
<1>4. ASSUME NEW s \in Restored(c, U, {}, {})
      PROVE  Configure(s, l1) \in A
  <2> DEFINE r == Configure(s, l1)
  <2>1. /\ s \in Readers /\ s.cand.mgmt = c.mgmt /\ s.cand.fallback = c.fallback
        /\ \A u \in U : SameVlan(c, s.cand, u)
    BY DEF Restored
  <2>2. r.ctx = ctx /\ OnlyVlan(s.cand, r.cand, v) /\ r.cand.vlans[v] # None
    BY <2>1, VlanIsEntered
  <2>3. r \in Readers
    BY <1>2, <2>1, TypesIs
  <2> HIDE DEF r
  <2>4. \A u \in U \ {v} : SameVlan(c, r.cand, u)
    BY <1>3, <2>1, <2>2
  <2>5. r.cand.mgmt = c.mgmt /\ r.cand.fallback = c.fallback
    BY <2>1, <2>2 DEF OnlyVlan
  <2>6. r \in A
    BY <2>2, <2>3, <2>4, <2>5
  <2> QED
    BY <2>6 DEF r
<1>5. ASSUME NEW s \in A
      PROVE  Configure(s, l2) \in B
  <2> DEFINE r == Configure(s, l2)
  <2>1. r \in Readers
    BY <1>2, TypesIs
  <2>2. OnlyVlan(s.cand, r.cand, v) /\ SameVlan(c, r.cand, v)
    BY VlanIsNamed DEF SameVlan
  <2> HIDE DEF r
  <2>3. \A u \in U \cup {v} : SameVlan(c, r.cand, u)
    BY <1>3, <2>2
  <2>4. r.cand.mgmt = c.mgmt /\ r.cand.fallback = c.fallback
    BY <2>2 DEF OnlyVlan
  <2>5. r \in B
    BY <2>1, <2>3, <2>4 DEF Restored
  <2> QED
    BY <2>5 DEF r
<1>6. ASSUME NEW s \in B
      PROVE  Reject(s) \in B
  BY ReaderIs, ReaderFields DEF Restored
<1>7. Restored(c, U, {}, {}) \in SUBSET Readers /\ A \in SUBSET Readers /\ B \in SUBSET Readers
  BY DEF Restored
<1> HIDE DEF A, B, l1, l2
<1>8. /\ Leads(Types, Readers, Restored(c, U, {}, {}), <<l1>>, A)
      /\ Leads(Types, Readers, A, <<l2>>, B) /\ Leads(Types, Readers, B, <<Bang>>, B)
  BY <1>2, <1>4, <1>5, <1>6, <1>7, LineTypes, BangTypes
<1>9. Leads(Types, Readers, Restored(c, U, {}, {}), <<l1, l2, Bang>>, B)
  BY <1>2, <1>8, LeadsThree
<1> QED
  BY <1>1, <1>9 DEF B

LEMMA VlansAreRestored ==
  ASSUME NEW c \in Config, \A v \in VlanIds(c) : Stripped[c.vlans[v].name] = c.vlans[v].name
  PROVE  Leads(Types, Readers, Restored(c, {}, {}, {}), RenderVlans(c), Restored(c, VlanIds(c), {}, {}))
<1> DEFINE T == VlanIds(c)
           N == [U \in SUBSET T |-> Restored(c, U, {}, {})]
           block == [v \in T |-> RenderVlan(c, v)]
<1>1. T \in SUBSET Vids
  BY DEF VlanIds
<1>2. ASSUME NEW U \in SUBSET T, NEW v \in T
      PROVE  /\ RenderVlan(c, v) \in Seq(Lines)
             /\ Leads(Types, Readers, N[U], RenderVlan(c, v), N[U \cup {v}])
  <2>1. RenderVlan(c, v) \in Seq(Lines)
    BY VlanLinesAre
  <2>2. U \in SUBSET Vids /\ v \in Vids
    BY <1>1
  <2>3. c.vlans[v].name \in Names
    <3>1. c.vlans[v] \in Vlan
      BY DEF VlanIds, Config
    <3> QED
      BY <3>1 DEF Vlan
  <2>4. Leads(Types, Readers, Restored(c, U, {}, {}), RenderVlan(c, v), Restored(c, U \cup {v}, {}, {}))
    BY <2>1, <2>2, <2>3, VlanIsRestored
  <2> QED
    BY <2>1, <2>4
<1>3. block \in [T -> Seq(Lines)]
  BY <1>2
<1>4. N \in [SUBSET T -> SUBSET Readers]
  BY DEF Restored
<1>5. N[{}] = Restored(c, {}, {}, {}) /\ N[T] = Restored(c, T, {}, {})
  OBVIOUS
<1>6. \A U \in SUBSET T : \A x \in T : Leads(Types, Readers, N[U], block[x], N[U \cup {x}])
  <2> HIDE DEF N
  <2> QED
    BY <1>2
<1>7. RenderVlans(c) = InOrder(VidOrder, T, block)
  BY DEF RenderVlans, InOrder
<1> HIDE DEF N, block, T
<1>8. Leads(Types, Readers, N[{}], InOrder(VidOrder, T, block), N[T])
  BY <1>1, <1>3, <1>4, <1>6, VidOrderIs, LeadsInOrder
<1> QED
  BY <1>5, <1>7, <1>8 DEF T

----------------------------------------------------------------------------
(* The sections of the LAGs.                                               *)

OnlyLag(c, d, g) ==
  /\ d.mgmt = c.mgmt /\ d.fallback = c.fallback
  /\ d.port = c.port /\ d.pvid = c.pvid /\ d.vlans = c.vlans
  /\ \A k \in Groups \ {g} : d.lags[k] = c.lags[k]

LEMMA LagIsSet ==
  ASSUME NEW c \in Config, NEW g \in Groups, NEW x, NEW d, d = WithLags(c, Put(c.lags, g, x))
  PROVE  OnlyLag(c, d, g) /\ d.lags[g] = x
<1> DEFINE lags == Put(c.lags, g, x)
<1>1. c.lags \in [Groups -> (SUBSET PortIds) \cup {None}]
  BY DEF Config
<1>2. lags[g] = x /\ \A k \in Groups \ {g} : lags[k] = c.lags[k]
  BY <1>1 DEF Put
<1> HIDE DEF lags
<1>3. /\ d.mgmt = c.mgmt /\ d.fallback = c.fallback /\ d.lags = lags
      /\ d.port = c.port /\ d.pvid = c.pvid /\ d.vlans = c.vlans
  BY DEF Config, WithLags, lags
<1> QED
  BY <1>2, <1>3 DEF OnlyLag

LEMMA LagContext ==
  ASSUME NEW g \in Groups
  PROVE  Context("lag", g) # None /\ Context("lag", g).kind = "lag" /\ Context("lag", g).id = g
<1>1. Context("lag", g) \in Contexts
  BY DEF Contexts
<1> QED
  BY <1>1, NoneIsApart DEF Context

LEMMA LagIsEntered ==
  ASSUME NEW s \in Readers, NEW g \in Groups
  PROVE  LET r == Configure(s, Line("interface port-channel", g))
         IN /\ r.ctx = Context("lag", g)
            /\ OnlyLag(s.cand, r.cand, g) /\ r.cand.lags[g] # None
<1> DEFINE c == s.cand
           w == "interface port-channel"
           x == OrNew(c.lags[g], {})
           d == WithLags(c, Put(c.lags, g, x))
           r == Configure(s, Line(w, g))
<1>1. w \in Heads
  BY DEF Heads
<1>2. EnterLine(s, Line(w, g)) = Enter(s, d, "lag", g)
  BY DEF EnterLine, Line, WithLags, Put
<1>3. x # None
  BY NoneIsApart DEF OrNew
<1>4. r = EnterLine(s, Line(w, g))
  <2> HIDE DEF w
  <2> QED
    BY <1>1, HeadIsTyped
<1>5. c \in Config
  BY ReaderIs
<1> HIDE DEF w, c, d, x, r
<1>6. r.cand = d /\ r.ctx = Context("lag", g)
  BY <1>2, <1>4, EnterFields
<1>7. OnlyLag(c, d, g) /\ d.lags[g] = x
  BY <1>5, LagIsSet DEF d
<1> QED
  BY <1>3, <1>6, <1>7 DEF r, c, w

LEMMA LagIsFilled ==
  ASSUME NEW s \in Readers, NEW g \in Groups, s.ctx = Context("lag", g), s.cand.lags[g] # None,
         NEW members
  PROVE  LET r == Configure(s, Line("members ports", members))
         IN OnlyLag(s.cand, r.cand, g) /\ r.cand.lags[g] = members
<1> DEFINE c == s.cand
           w == "members ports"
           d == WithLags(c, Put(c.lags, g, members))
           l == Line(w, members)
           r == Configure(s, l)
<1>1. c \in Config
  BY ReaderIs
<1>2. s.ctx # None /\ s.ctx.kind = "lag" /\ s.ctx.id = g /\ s.ctx.kind # "port"
  BY LagContext
<1>3. w \notin Heads /\ w \notin Removals
  BY DEF Heads, Removals
<1>4. r = OtherLine(s, l)
  <2> HIDE DEF w
  <2> QED
    BY <1>2, <1>3, OtherLineIsTyped
<1>5. OtherLine(s, l) = LagLine(s, l)
  BY <1>2 DEF OtherLine
<1>6. LagLine(s, l) = Accept(s, d)
  BY <1>2 DEF LagLine, Line, WithLags, Put
<1> HIDE DEF w, r, l, d
<1>7. r.cand = d
  BY <1>4, <1>5, <1>6, ReaderFields
<1> HIDE DEF c
<1>8. OnlyLag(c, d, g) /\ d.lags[g] = members
  BY <1>1, LagIsSet DEF d
<1> QED
  BY <1>7, <1>8 DEF r, l, c, w

LEMMA LagLinesAre ==
  ASSUME NEW c \in Config, NEW g \in LagIds(c)
  PROVE  RenderLag(c, g) \in Seq(Lines)
<1> DEFINE none == None
<1> HIDE DEF none
<1>1. LET s == ReadAs(Cand(none, none, none, none, none, none), None, none)
          r == ReadAs(Cand(none, none, none, none, none, [none EXCEPT ![g] = c.lags[g]]), None, none)
      IN /\ RenderLag(c, g) \in Seq(Lines)
         /\ Leads(Reads, TextReaders, Only(s), RenderLag(c, g), Only(r))
  BY LagSection
<1> QED
  BY <1>1

(* A line for a LAG keeps the rest.                                        *)
LEMMA LagsApart ==
  ASSUME NEW c, NEW V, NEW P, NEW U \in SUBSET Groups, NEW g \in Groups,
         NEW s \in Restored(c, V, P, U \ {g}), NEW r \in Readers, OnlyLag(s.cand, r.cand, g)
  PROVE  r \in Restored(c, V, P, U \ {g})
<1> DEFINE d == s.cand
           e == r.cand
<1>1. /\ d.mgmt = c.mgmt /\ d.fallback = c.fallback
      /\ \A v \in V : SameVlan(c, d, v)
      /\ \A p \in P : SamePort(c, d, p)
      /\ \A k \in U \ {g} : d.lags[k] = c.lags[k]
  BY DEF Restored
<1> HIDE DEF d, e
<1>2. /\ e.mgmt = d.mgmt /\ e.fallback = d.fallback
      /\ e.port = d.port /\ e.pvid = d.pvid /\ e.vlans = d.vlans
      /\ \A k \in Groups \ {g} : e.lags[k] = d.lags[k]
  BY DEF OnlyLag, d, e
<1>3. \A v \in V : SameVlan(c, e, v)
  BY <1>1, <1>2 DEF SameVlan
<1>4. \A p : Tagged(e, p) = Tagged(d, p) /\ Untagged(e, p) = Untagged(d, p)
  BY <1>2 DEF Tagged, Untagged, VlanIds
<1>5. \A p \in P : SamePort(c, e, p)
  BY <1>1, <1>2, <1>4 DEF SamePort
<1>6. \A k \in U \ {g} : e.lags[k] = c.lags[k]
  BY <1>1, <1>2
<1> QED
  BY <1>1, <1>2, <1>3, <1>5, <1>6 DEF Restored, e

LEMMA LagIsRestored ==
  ASSUME NEW c \in Config, NEW V, NEW P, NEW U \in SUBSET Groups, NEW g \in Groups,
         RenderLag(c, g) \in Seq(Lines)
  PROVE  Leads(Types, Readers, Restored(c, V, P, U), RenderLag(c, g), Restored(c, V, P, U \cup {g}))
<1> DEFINE ctx == Context("lag", g)
           members == c.lags[g]
           old == Restored(c, V, P, U)
           others == Restored(c, V, P, U \ {g})
           A == {s \in others : s.ctx = ctx /\ s.cand.lags[g] # None}
           B == Restored(c, V, P, U \cup {g})
           l1 == Line("interface port-channel", g)
           l2 == Line("members ports", members)
<1>1. RenderLag(c, g) = <<l1, l2, Bang>>
  BY DEF RenderLag
<1>2. l1 \in Lines /\ l2 \in Lines /\ Bang \in Lines
  <2> HIDE DEF l1, l2
  <2>1. \A i \in 1..3 : RenderLag(c, g)[i] \in Lines
    BY <1>1
  <2> QED
    BY <1>1, <2>1
<1>3. old \in SUBSET others /\ others \in SUBSET Readers
  BY DEF Restored
<1>4. \A s \in others : s.cand.lags[g] = members => s \in B
  BY DEF Restored
<1>5. ASSUME NEW s \in Readers
      PROVE  /\ Configure(s, l1).ctx = ctx
             /\ OnlyLag(s.cand, Configure(s, l1).cand, g) /\ Configure(s, l1).cand.lags[g] # None
  BY LagIsEntered
<1>6. ASSUME NEW s \in Readers, s.ctx = ctx, s.cand.lags[g] # None
      PROVE  OnlyLag(s.cand, Configure(s, l2).cand, g) /\ Configure(s, l2).cand.lags[g] = members
  BY <1>6, LagIsFilled
<1> HIDE DEF ctx, members, l1, l2, old, others, B
<1>7. ASSUME NEW s \in others, NEW r \in Readers, OnlyLag(s.cand, r.cand, g)
      PROVE  r \in others
  BY <1>7, LagsApart DEF others
<1>8. \A s \in old : Configure(s, l1) \in A
  BY <1>2, <1>3, <1>5, <1>7, TypesIs
<1>9. \A s \in A : Configure(s, l2) \in B
  BY <1>2, <1>3, <1>4, <1>6, <1>7, TypesIs
<1>10. ASSUME NEW s \in B
       PROVE  Reject(s) \in B
  BY ReaderIs, ReaderFields DEF Restored, B
<1>11. old \in SUBSET Readers /\ A \in SUBSET Readers /\ B \in SUBSET Readers
  BY <1>3 DEF Restored, B
<1> HIDE DEF A
<1>12. /\ Leads(Types, Readers, old, <<l1>>, A)
       /\ Leads(Types, Readers, A, <<l2>>, B) /\ Leads(Types, Readers, B, <<Bang>>, B)
  BY <1>2, <1>8, <1>9, <1>10, <1>11, LineTypes, BangTypes
<1>13. Leads(Types, Readers, old, <<l1, l2, Bang>>, B)
  BY <1>2, <1>12, LeadsThree
<1> QED
  BY <1>1, <1>13 DEF B, old

LEMMA LagsAreRestored ==
  ASSUME NEW c \in Config, NEW V, NEW P
  PROVE  Leads(Types, Readers, Restored(c, V, P, {}), RenderLags(c), Restored(c, V, P, LagIds(c)))
<1> DEFINE T == LagIds(c)
           N == [U \in SUBSET T |-> Restored(c, V, P, U)]
           block == [x \in T |-> RenderLag(c, x)]
<1>1. T \in SUBSET Groups
  BY DEF LagIds
<1>2. ASSUME NEW U \in SUBSET T, NEW g \in T
      PROVE  /\ RenderLag(c, g) \in Seq(Lines)
             /\ Leads(Types, Readers, N[U], RenderLag(c, g), N[U \cup {g}])
  <2>1. RenderLag(c, g) \in Seq(Lines)
    BY LagLinesAre
  <2>2. U \in SUBSET Groups /\ g \in Groups
    BY <1>1
  <2>3. Leads(Types, Readers, Restored(c, V, P, U), RenderLag(c, g), Restored(c, V, P, U \cup {g}))
    BY <2>1, <2>2, LagIsRestored
  <2> QED
    BY <2>1, <2>3
<1>3. block \in [T -> Seq(Lines)]
  BY <1>2
<1>4. N \in [SUBSET T -> SUBSET Readers]
  BY DEF Restored
<1>5. N[{}] = Restored(c, V, P, {}) /\ N[T] = Restored(c, V, P, T)
  OBVIOUS
<1>6. \A U \in SUBSET T : \A x \in T : Leads(Types, Readers, N[U], block[x], N[U \cup {x}])
  <2> HIDE DEF N
  <2> QED
    BY <1>2
<1>7. RenderLags(c) = InOrder(GroupOrder, T, block)
  BY DEF RenderLags, InOrder
<1> HIDE DEF N, block, T
<1>8. Leads(Types, Readers, N[{}], InOrder(GroupOrder, T, block), N[T])
  BY <1>1, <1>3, <1>4, <1>6, GroupOrderIs, LeadsInOrder
<1> QED
  BY <1>5, <1>7, <1>8 DEF T

----------------------------------------------------------------------------
(* The sections of the ports.  What is left of the candidate's own VLANs   *)
(* of a port is overwritten by its switchport lines, whatever it was.      *)

(* d differs from c at most in port p and its VLANs; VLANs keep names.     *)
ApartFrom(c, d, p) ==
  OnlyPort(c, d, p) /\ \A v \in VlanIds(c) : d.vlans[v].name = c.vlans[v].name

LEMMA ApartTwice ==
  ASSUME NEW c, NEW d, NEW e, NEW p, ApartFrom(c, d, p), ApartFrom(d, e, p)
  PROVE  ApartFrom(c, e, p)
BY DEF ApartFrom, OnlyPort

LEMMA MembershipsKeepNames ==
  ASSUME NEW c \in Config, NEW p \in PortIds, NEW tagged, NEW untagged, NEW v \in VlanIds(c)
  PROVE  WithMemberships(c, p, tagged, untagged).vlans[v].name = c.vlans[v].name
<1> DEFINE e == c.vlans[v]
           t == Joined(e.tagged, p, v \in tagged)
           u == Joined(e.untagged, p, v \in untagged)
           Entry(k) == IF c.vlans[k] = None THEN None
                       ELSE [c.vlans[k] EXCEPT !.tagged = Joined(@, p, k \in tagged),
                                               !.untagged = Joined(@, p, k \in untagged)]
           d == WithMemberships(c, p, tagged, untagged)
<1>1. v \in Vids /\ e # None /\ e \in Vlan
  BY DEF VlanIds, Config
<1>2. Entry(v) = [[e EXCEPT !.tagged = t] EXCEPT !.untagged = u]
  BY <1>1
<1>3. d = [c EXCEPT !.vlans = [k \in Vids |-> Entry(k)]]
  BY DEF WithMemberships
<1> HIDE DEF Entry, t, u, d, e
<1>4. Entry(v).name = e.name
  BY <1>1, <1>2 DEF Vlan
<1>5. d.vlans = [k \in Vids |-> Entry(k)]
  BY <1>3 DEF Config
<1> QED
  BY <1>1, <1>4, <1>5 DEF e, d

LEMMA MembershipsApart ==
  ASSUME NEW c \in Config, NEW p \in PortIds, NEW tagged, NEW untagged, NEW d,
         d = WithMemberships(c, p, tagged, untagged)
  PROVE  /\ d \in Config /\ ApartFrom(c, d, p) /\ d.port = c.port /\ d.pvid = c.pvid
         /\ Tagged(d, p) = VlanIds(c) \cap tagged /\ Untagged(d, p) = VlanIds(c) \cap untagged
<1>1. c \in Draft /\ c.mgmt \in Management
  BY DraftIs DEF Config
<1>2. /\ d \in Draft /\ d.mgmt = c.mgmt /\ d = [c EXCEPT !.vlans = d.vlans]
      /\ VlanIds(d) = VlanIds(c)
  BY <1>1, MembershipsAre
<1>3. /\ Tagged(d, p) = VlanIds(c) \cap tagged /\ Untagged(d, p) = VlanIds(c) \cap untagged
      /\ \A q \in PortIds \ {p} : Tagged(d, q) = Tagged(c, q) /\ Untagged(d, q) = Untagged(c, q)
  BY <1>1, PortIsIn
<1>4. d \in Config
  BY <1>1, <1>2, DraftIs
<1>5. /\ d.fallback = c.fallback /\ d.lags = c.lags /\ d.dot1q = c.dot1q
      /\ d.port = c.port /\ d.pvid = c.pvid
  BY <1>2 DEF Config
<1>6. \A v \in VlanIds(c) : d.vlans[v].name = c.vlans[v].name
  BY MembershipsKeepNames
<1> QED
  BY <1>2, <1>3, <1>4, <1>5, <1>6 DEF ApartFrom, OnlyPort

LEMMA PvidApart ==
  ASSUME NEW c \in Config, NEW p \in PortIds, NEW v \in Vids, NEW d, d = WithPvids(c, Put(c.pvid, p, v))
  PROVE  /\ d \in Config /\ ApartFrom(c, d, p) /\ d.port = c.port /\ d.vlans = c.vlans
         /\ d.pvid[p] = v
<1> DEFINE pvid == Put(c.pvid, p, v)
<1>1. c.pvid \in [PortIds -> Vids]
  BY DEF Config
<1>2. /\ pvid[p] = v /\ \A q \in PortIds \ {p} : pvid[q] = c.pvid[q]
      /\ pvid \in [PortIds -> Vids]
  BY <1>1 DEF Put
<1> HIDE DEF pvid
<1>3. d = [c EXCEPT !.pvid = pvid]
  BY DEF WithPvids, pvid
<1>4. /\ d \in Config /\ d.pvid = pvid
      /\ d.mgmt = c.mgmt /\ d.fallback = c.fallback /\ d.lags = c.lags /\ d.dot1q = c.dot1q
      /\ d.port = c.port /\ d.vlans = c.vlans
  BY <1>2, <1>3 DEF Config
<1> QED
  BY <1>2, <1>4 DEF ApartFrom, OnlyPort, VlanIds, Tagged, Untagged

LEMMA PortApart ==
  ASSUME NEW c \in Config, NEW p \in PortIds, NEW x, NEW d, d = WithPort(c, Put(c.port, p, x))
  PROVE  /\ ApartFrom(c, d, p) /\ d.port[p] = x /\ d.pvid = c.pvid /\ d.vlans = c.vlans
<1> DEFINE port == Put(c.port, p, x)
<1>1. c.port \in [PortIds -> Settings \cup {None}]
  BY DEF Config
<1>2. port[p] = x /\ \A q \in PortIds \ {p} : port[q] = c.port[q]
  BY <1>1 DEF Put
<1> HIDE DEF port
<1>3. d = [c EXCEPT !.port = port]
  BY DEF WithPort, port
<1>4. /\ d.port = port
      /\ d.mgmt = c.mgmt /\ d.fallback = c.fallback /\ d.lags = c.lags /\ d.dot1q = c.dot1q
      /\ d.pvid = c.pvid /\ d.vlans = c.vlans
  BY <1>3 DEF Config
<1> QED
  BY <1>2, <1>4 DEF ApartFrom, OnlyPort, VlanIds, Tagged, Untagged

(* The VLANs of a port are set, after its PVID perhaps.                    *)
Became(c, r, p, ctx) ==
  r.ctx = ctx /\ ApartFrom(c, r.cand, p) /\ r.cand.port[p] = c.port[p]

LEMMA SettingMemberships ==
  ASSUME NEW s \in Readers, NEW p \in PortIds, NEW d \in Config, NEW ts, NEW us, NEW r,
         ApartFrom(s.cand, d, p), d.port[p] = s.cand.port[p],
         r = SetMemberships(s, d, p, ts, us)
  PROVE  /\ Became(s.cand, r, p, s.ctx) /\ r.cand.pvid = d.pvid
         /\ ts \cup us \subseteq VlanIds(d) => Tagged(r.cand, p) = ts /\ Untagged(r.cand, p) = us
<1> DEFINE e == WithMemberships(d, p, ts, us)
<1>1. /\ e \in Config /\ ApartFrom(d, e, p) /\ e.port = d.port /\ e.pvid = d.pvid
      /\ Tagged(e, p) = VlanIds(d) \cap ts /\ Untagged(e, p) = VlanIds(d) \cap us
  BY MembershipsApart
<1>2. /\ ts \cup us \subseteq VlanIds(d) => r = [cand |-> e, ctx |-> s.ctx, ok |-> TRUE]
      /\ ~(ts \cup us \subseteq VlanIds(d)) => r = [cand |-> d, ctx |-> s.ctx, ok |-> FALSE]
  BY SetMembershipsIs
<1> HIDE DEF e
<1>3. CASE ts \cup us \subseteq VlanIds(d)
  <2>1. r.cand = e /\ r.ctx = s.ctx
    BY <1>2, <1>3
  <2>2. ApartFrom(s.cand, e, p)
    BY <1>1, ApartTwice
  <2> QED
    BY <1>1, <1>3, <2>1, <2>2 DEF Became
<1>4. CASE ~(ts \cup us \subseteq VlanIds(d))
  <2>1. r.cand = d /\ r.ctx = s.ctx
    BY <1>2, <1>4
  <2> QED
    BY <1>4, <2>1 DEF Became
<1> QED
  BY <1>3, <1>4

(* A session in the context of a port that it can change.                  *)
InPort(s, p) == s.ctx = Context("port", p) /\ s.cand.port[p] # None

LEMMA PortIsEntered ==
  ASSUME NEW s \in Readers, NEW p \in PortIds
  PROVE  LET r == Configure(s, Line("interface ethernet", p))
         IN InPort(r, p) /\ ApartFrom(s.cand, r.cand, p)
<1> DEFINE c == s.cand
           w == "interface ethernet"
           x == OrNew(c.port[p], DefaultSettings)
           d == WithPort(c, Put(c.port, p, x))
           r == Configure(s, Line(w, p))
<1>1. w \in Heads
  BY DEF Heads
<1>2. EnterLine(s, Line(w, p)) = Enter(s, d, "port", p)
  BY DEF EnterLine, Line, WithPort, Put
<1>3. x # None
  BY PlannerConstants DEF OrNew
<1>4. r = EnterLine(s, Line(w, p))
  <2> HIDE DEF w
  <2> QED
    BY <1>1, HeadIsTyped
<1>5. c \in Config
  BY ReaderIs
<1> HIDE DEF w, c, d, x, r
<1>6. r.cand = d /\ r.ctx = Context("port", p)
  BY <1>2, <1>4, EnterFields
<1>7. ApartFrom(c, d, p) /\ d.port[p] = x
  BY <1>5, PortApart DEF d
<1> QED
  BY <1>3, <1>6, <1>7 DEF r, c, w, InPort

(* What the lines for a port come to.                                      *)
WithPvid(c, p, v) == WithPvids(c, Put(c.pvid, p, v))
SettingsLine(a) == Line("port settings", a)
ModeLine(a) == Line("switchport mode", a)
AccessLine(a) == Line("switchport access vlan", a)
NativeLine(a) == Line("switchport trunk native vlan", a)
AllowedLine(a) == Line("switchport trunk allowed vlan", a)
HybridPvidLine(a) == Line("switchport hybrid pvid vlan", a)
HybridTaggedLine(a) == Line("switchport hybrid tagged vlan", a)
HybridUntaggedLine(a) == Line("switchport hybrid untagged vlan", a)

(* Sets of VLANs that the provers take as values.                          *)
Nowhere == {}
Just(v) == {v}
Without(vs, v) == vs \ {v}
Besides(vs, v) == vs \cup {v}

LEMMA PortLineDoes ==
  ASSUME NEW s, NEW p \in PortIds, InPort(s, p), NEW a, NEW c, c = s.cand
  PROVE  /\ Configure(s, SettingsLine(a)) = Accept(s, WithPort(c, Put(c.port, p, a)))
         /\ Configure(s, AccessLine(a)) = SetMemberships(s, WithPvid(c, p, a), p, Nowhere, Just(a))
         /\ Configure(s, NativeLine(a)) =
              SetMemberships(s, WithPvid(c, p, a), p, TaggedBesides(c, p, a), Just(a))
         /\ c.pvid[p] \in a => Configure(s, AllowedLine(a)) =
              SetMemberships(s, c, p, Without(a, c.pvid[p]), Just(c.pvid[p]))
         /\ Configure(s, HybridPvidLine(a)) =
              SetMemberships(s, WithPvid(c, p, a), p, Without(Tagged(c, p), a), Besides(Untagged(c, p), a))
         /\ Configure(s, HybridTaggedLine(a)) = SetMemberships(s, c, p, a, Untagged(c, p))
         /\ Configure(s, HybridUntaggedLine(a)) = SetMemberships(s, c, p, Tagged(c, p), a)
         /\ \/ Configure(s, ModeLine(a)) = SetMemberships(s, c, p, Nowhere, Just(c.pvid[p]))
            \/ Configure(s, ModeLine(a)) = Accept(s, c)
<1>1. s.ctx # None /\ s.ctx.kind = "port" /\ s.ctx.id = p /\ s.cand.port[p] # None
  BY PortContextIs DEF InPort
<1>2. ASSUME NEW w, w \notin Heads, w \notin Removals
      PROVE  Configure(s, Line(w, a)) = PortLine(s, Line(w, a))
  BY <1>1, <1>2, PortLineIsTyped
<1>3. \A w \in {"port settings", "switchport mode", "switchport access vlan",
                "switchport trunk native vlan", "switchport trunk allowed vlan",
                "switchport hybrid pvid vlan", "switchport hybrid tagged vlan",
                "switchport hybrid untagged vlan"} : w \notin Heads /\ w \notin Removals
  BY DEF Heads, Removals
<1>4. \A w : Line(w, a).words = w /\ Line(w, a).arg = a
  BY DEF Line
<1>5. WithPvid(c, p, a) = [c EXCEPT !.pvid[p] = a]
  BY DEF WithPvid, WithPvids, Put
<1>6. PortLine(s, Line("port settings", a)) = Accept(s, WithPort(c, Put(c.port, p, a)))
  BY <1>1, <1>4 DEF PortLine, WithPort, Put
<1>7. PortLine(s, Line("switchport mode", a)) =
        IF a = "access" THEN SetMemberships(s, c, p, {}, {c.pvid[p]}) ELSE Accept(s, c)
  BY <1>1, <1>4 DEF PortLine
<1>8. PortLine(s, Line("switchport access vlan", a)) = SetMemberships(s, WithPvid(c, p, a), p, {}, {a})
  BY <1>1, <1>4, <1>5 DEF PortLine
<1>9. PortLine(s, Line("switchport trunk native vlan", a)) =
        SetMemberships(s, WithPvid(c, p, a), p, TaggedBesides(c, p, a), {a})
  BY <1>1, <1>4, <1>5 DEF PortLine
<1>10. c.pvid[p] \in a => PortLine(s, Line("switchport trunk allowed vlan", a)) =
         SetMemberships(s, c, p, a \ {c.pvid[p]}, {c.pvid[p]})
  BY <1>1, <1>4 DEF PortLine
<1>11. PortLine(s, Line("switchport hybrid pvid vlan", a)) =
         SetMemberships(s, WithPvid(c, p, a), p, Tagged(c, p) \ {a}, Untagged(c, p) \cup {a})
  BY <1>1, <1>4, <1>5 DEF PortLine
<1>12. PortLine(s, Line("switchport hybrid tagged vlan", a)) = SetMemberships(s, c, p, a, Untagged(c, p))
  BY <1>1, <1>4 DEF PortLine
<1>13. PortLine(s, Line("switchport hybrid untagged vlan", a)) = SetMemberships(s, c, p, Tagged(c, p), a)
  BY <1>1, <1>4 DEF PortLine
<1> QED
  BY <1>2, <1>3, <1>6, <1>7, <1>8, <1>9, <1>10, <1>11, <1>12, <1>13
  DEF SettingsLine, ModeLine, AccessLine, NativeLine, AllowedLine, HybridPvidLine, HybridTaggedLine, HybridUntaggedLine,
      Nowhere, Just, Without, Besides

(* What they leave of the port, wherever the VLANs are defined.            *)
Defined(c, ts, us) == ts \cup us \subseteq VlanIds(c)

LEMMA ChangesOwnVlans ==
  ASSUME NEW s \in Readers, NEW p \in PortIds, NEW ts, NEW us, NEW r,
         r = SetMemberships(s, s.cand, p, ts, us)
  PROVE  /\ Became(s.cand, r, p, s.ctx) /\ r.cand.pvid[p] = s.cand.pvid[p]
         /\ Defined(s.cand, ts, us) => Tagged(r.cand, p) = ts /\ Untagged(r.cand, p) = us
<1>1. s.cand \in Config /\ ApartFrom(s.cand, s.cand, p)
  BY ReaderIs DEF ApartFrom, OnlyPort
<1> QED
  BY <1>1, SettingMemberships DEF Defined

LEMMA ChangesPvid ==
  ASSUME NEW s \in Readers, NEW p \in PortIds, NEW v \in Vids, NEW ts, NEW us, NEW r,
         r = SetMemberships(s, WithPvid(s.cand, p, v), p, ts, us)
  PROVE  /\ Became(s.cand, r, p, s.ctx) /\ r.cand.pvid[p] = v
         /\ Defined(s.cand, ts, us) => Tagged(r.cand, p) = ts /\ Untagged(r.cand, p) = us
<1> DEFINE d == WithPvid(s.cand, p, v)
<1>1. s.cand \in Config
  BY ReaderIs
<1>2. /\ d \in Config /\ ApartFrom(s.cand, d, p) /\ d.port = s.cand.port /\ d.vlans = s.cand.vlans
      /\ d.pvid[p] = v
  BY <1>1, PvidApart DEF WithPvid
<1>3. r = SetMemberships(s, d, p, ts, us)
  OBVIOUS
<1> HIDE DEF d
<1>4. VlanIds(d) = VlanIds(s.cand)
  BY <1>2 DEF VlanIds
<1> QED
  BY <1>2, <1>3, <1>4, SettingMemberships DEF Defined

LEMMA SettingsAreTyped ==
  ASSUME NEW s \in Readers, NEW p \in PortIds, InPort(s, p), NEW a
  PROVE  LET r == Configure(s, SettingsLine(a))
         IN r.ctx = s.ctx /\ ApartFrom(s.cand, r.cand, p) /\ r.cand.port[p] = a
<1> DEFINE d == WithPort(s.cand, Put(s.cand.port, p, a))
           r == Configure(s, SettingsLine(a))
<1>1. r = Accept(s, d)
  BY PortLineDoes
<1>2. s.cand \in Config
  BY ReaderIs
<1> HIDE DEF r, d
<1>3. r.cand = d /\ r.ctx = s.ctx
  BY <1>1, ReaderFields
<1>4. ApartFrom(s.cand, d, p) /\ d.port[p] = a
  BY <1>2, PortApart DEF d
<1> QED
  BY <1>3, <1>4 DEF r

LEMMA ModeIsTyped ==
  ASSUME NEW s \in Readers, NEW p \in PortIds, InPort(s, p), NEW a
  PROVE  Became(s.cand, Configure(s, ModeLine(a)), p, s.ctx)
<1> DEFINE c == s.cand
           r == Configure(s, ModeLine(a))
<1>1. \/ r = SetMemberships(s, c, p, Nowhere, Just(c.pvid[p]))
      \/ r = Accept(s, c)
  BY PortLineDoes
<1> HIDE DEF r
<1>2. CASE r = SetMemberships(s, c, p, Nowhere, Just(c.pvid[p]))
  BY <1>2, ChangesOwnVlans DEF r
<1>3. CASE r = Accept(s, c)
  <2>1. r.cand = c /\ r.ctx = s.ctx
    BY <1>3, ReaderFields
  <2> QED
    BY <2>1 DEF Became, ApartFrom, OnlyPort, r
<1> QED
  BY <1>1, <1>2, <1>3

LEMMA AccessIsTyped ==
  ASSUME NEW s \in Readers, NEW p \in PortIds, InPort(s, p), NEW a \in VlanIds(s.cand)
  PROVE  LET r == Configure(s, AccessLine(a))
         IN /\ Became(s.cand, r, p, s.ctx) /\ r.cand.pvid[p] = a
            /\ Tagged(r.cand, p) = Nowhere /\ Untagged(r.cand, p) = Just(a)
<1> DEFINE r == Configure(s, AccessLine(a))
<1>1. r = SetMemberships(s, WithPvid(s.cand, p, a), p, Nowhere, Just(a))
  BY PortLineDoes
<1>2. a \in Vids
  BY DEF VlanIds
<1>3. Defined(s.cand, Nowhere, Just(a))
  BY DEF Defined, Nowhere, Just
<1> HIDE DEF r
<1>4. /\ Became(s.cand, r, p, s.ctx) /\ r.cand.pvid[p] = a
      /\ Tagged(r.cand, p) = Nowhere /\ Untagged(r.cand, p) = Just(a)
  BY <1>1, <1>2, <1>3, ChangesPvid
<1> QED
  BY <1>4 DEF r

LEMMA NativeIsTyped ==
  ASSUME NEW s \in Readers, NEW p \in PortIds, InPort(s, p), NEW a \in Vids
  PROVE  LET r == Configure(s, NativeLine(a))
         IN Became(s.cand, r, p, s.ctx) /\ r.cand.pvid[p] = a
<1> DEFINE r == Configure(s, NativeLine(a))
<1>1. r = SetMemberships(s, WithPvid(s.cand, p, a), p, TaggedBesides(s.cand, p, a), Just(a))
  BY PortLineDoes
<1> HIDE DEF r
<1>2. Became(s.cand, r, p, s.ctx) /\ r.cand.pvid[p] = a
  BY <1>1, ChangesPvid
<1> QED
  BY <1>2 DEF r

LEMMA AllowedIsTyped ==
  ASSUME NEW s \in Readers, NEW p \in PortIds, InPort(s, p), NEW a \in SUBSET VlanIds(s.cand),
         NEW v \in a, s.cand.pvid[p] = v
  PROVE  LET r == Configure(s, AllowedLine(a))
         IN /\ Became(s.cand, r, p, s.ctx) /\ r.cand.pvid[p] = v
            /\ Tagged(r.cand, p) = a \ {v} /\ Untagged(r.cand, p) = {v}
<1> DEFINE c == s.cand
           r == Configure(s, AllowedLine(a))
<1>1. r = SetMemberships(s, c, p, Without(a, v), Just(v))
  <2>1. c.pvid[p] \in a => r = SetMemberships(s, c, p, Without(a, c.pvid[p]), Just(c.pvid[p]))
    BY PortLineDoes
  <2> QED
    BY <2>1
<1>2. Defined(c, Without(a, v), Just(v))
  BY DEF Defined, Without, Just
<1> HIDE DEF r
<1>3. /\ Became(c, r, p, s.ctx) /\ r.cand.pvid[p] = v
      /\ Tagged(r.cand, p) = Without(a, v) /\ Untagged(r.cand, p) = Just(v)
  BY <1>1, <1>2, ChangesOwnVlans
<1> QED
  BY <1>3 DEF r, Without, Just

LEMMA HybridPvidIsTyped ==
  ASSUME NEW s \in Readers, NEW p \in PortIds, InPort(s, p), NEW a \in Vids
  PROVE  LET r == Configure(s, HybridPvidLine(a))
         IN Became(s.cand, r, p, s.ctx) /\ r.cand.pvid[p] = a
<1> DEFINE c == s.cand
           r == Configure(s, HybridPvidLine(a))
<1>1. r = SetMemberships(s, WithPvid(c, p, a), p, Without(Tagged(c, p), a), Besides(Untagged(c, p), a))
  BY PortLineDoes
<1> HIDE DEF r
<1>2. Became(c, r, p, s.ctx) /\ r.cand.pvid[p] = a
  BY <1>1, ChangesPvid
<1> QED
  BY <1>2 DEF r

LEMMA HybridTaggedIsTyped ==
  ASSUME NEW s \in Readers, NEW p \in PortIds, InPort(s, p), NEW a \in SUBSET VlanIds(s.cand)
  PROVE  LET r == Configure(s, HybridTaggedLine(a))
         IN /\ Became(s.cand, r, p, s.ctx) /\ r.cand.pvid[p] = s.cand.pvid[p]
            /\ Tagged(r.cand, p) = a
<1> DEFINE r == Configure(s, HybridTaggedLine(a))
<1>1. r = SetMemberships(s, s.cand, p, a, Untagged(s.cand, p))
  BY PortLineDoes
<1>2. Defined(s.cand, a, Untagged(s.cand, p))
  BY DEF Defined, Untagged
<1> HIDE DEF r
<1>3. /\ Became(s.cand, r, p, s.ctx) /\ r.cand.pvid[p] = s.cand.pvid[p]
      /\ Tagged(r.cand, p) = a
  BY <1>1, <1>2, ChangesOwnVlans
<1> QED
  BY <1>3 DEF r

LEMMA HybridUntaggedIsTyped ==
  ASSUME NEW s \in Readers, NEW p \in PortIds, InPort(s, p), NEW a \in SUBSET VlanIds(s.cand)
  PROVE  LET r == Configure(s, HybridUntaggedLine(a))
         IN /\ Became(s.cand, r, p, s.ctx) /\ r.cand.pvid[p] = s.cand.pvid[p]
            /\ Tagged(r.cand, p) = Tagged(s.cand, p) /\ Untagged(r.cand, p) = a
<1> DEFINE r == Configure(s, HybridUntaggedLine(a))
<1>1. r = SetMemberships(s, s.cand, p, Tagged(s.cand, p), a)
  BY PortLineDoes
<1>2. Defined(s.cand, Tagged(s.cand, p), a)
  BY DEF Defined, Tagged
<1> HIDE DEF r
<1>3. /\ Became(s.cand, r, p, s.ctx) /\ r.cand.pvid[p] = s.cand.pvid[p]
      /\ Tagged(r.cand, p) = Tagged(s.cand, p) /\ Untagged(r.cand, p) = a
  BY <1>1, <1>2, ChangesOwnVlans
<1> QED
  BY <1>3 DEF r

(* A line for a port keeps the rest.                                       *)
LEMMA PortsApart ==
  ASSUME NEW c, NEW U \in SUBSET PortIds, NEW p \in PortIds,
         NEW s \in Restored(c, VlanIds(c), U \ {p}, {}), NEW r \in Readers, ApartFrom(s.cand, r.cand, p)
  PROVE  r \in Restored(c, VlanIds(c), U \ {p}, {})
<1> DEFINE d == s.cand
           e == r.cand
           V == VlanIds(c)
<1>1. /\ d.mgmt = c.mgmt /\ d.fallback = c.fallback
      /\ \A v \in V : SameVlan(c, d, v)
      /\ \A q \in U \ {p} : SamePort(c, d, q)
  BY DEF Restored
<1>2. \A v \in V : v \in Vids
  BY DEF VlanIds
<1> HIDE DEF d, e, V
<1>3. /\ e.mgmt = d.mgmt /\ e.fallback = d.fallback /\ VlanIds(e) = VlanIds(d)
      /\ \A q \in PortIds \ {p} : /\ e.port[q] = d.port[q] /\ e.pvid[q] = d.pvid[q]
                                  /\ Tagged(e, q) = Tagged(d, q) /\ Untagged(e, q) = Untagged(d, q)
      /\ \A v \in VlanIds(d) : e.vlans[v].name = d.vlans[v].name
  BY DEF ApartFrom, OnlyPort, d, e
<1>4. \A v \in V : SameVlan(c, e, v)
  BY <1>1, <1>2, <1>3 DEF SameVlan, VlanIds
<1>5. \A q \in U \ {p} : SamePort(c, e, q)
  BY <1>1, <1>3 DEF SamePort
<1> QED
  BY <1>1, <1>3, <1>4, <1>5 DEF Restored, e, V

(* Midway through the section of a port: its settings are restored, and    *)
(* then its VLANs.                                                         *)
Opened(c, U, p) ==
  {s \in Restored(c, VlanIds(c), U \ {p}, {}) : s.ctx = Context("port", p) /\ s.cand.port[p] = c.port[p]}
Switched(c, U, p) == {s \in Opened(c, U, p) : SamePort(c, s.cand, p)}
Knows(d, c) == VlanIds(c) \subseteq VlanIds(d)

LEMMA OpenedIs ==
  ASSUME NEW c, NEW U \in SUBSET PortIds, NEW p \in PortsOf(c), NEW s \in Opened(c, U, p)
  PROVE  /\ s \in Readers /\ InPort(s, p) /\ Knows(s.cand, c)
         /\ p \in PortIds /\ s.cand.port[p] = c.port[p]
         /\ \A r \in Readers : Became(s.cand, r, p, s.ctx) => r \in Opened(c, U, p)
<1>1. /\ s \in Restored(c, VlanIds(c), U \ {p}, {})
      /\ s.ctx = Context("port", p) /\ s.cand.port[p] = c.port[p]
  BY DEF Opened
<1>2. p \in PortIds /\ c.port[p] # None
  BY DEF PortsOf
<1>3. s \in Readers /\ \A v \in VlanIds(c) : SameVlan(c, s.cand, v)
  BY <1>1 DEF Restored
<1>4. Knows(s.cand, c)
  BY <1>3 DEF Knows, SameVlan, VlanIds
<1>5. ASSUME NEW r \in Readers, Became(s.cand, r, p, s.ctx)
      PROVE  r \in Opened(c, U, p)
  <2>1. ApartFrom(s.cand, r.cand, p) /\ r.ctx = s.ctx /\ r.cand.port[p] = s.cand.port[p]
    BY <1>5 DEF Became
  <2>2. r \in Restored(c, VlanIds(c), U \ {p}, {})
    BY <1>1, <1>2, <1>5, <2>1, PortsApart
  <2> QED
    BY <1>1, <2>1, <2>2 DEF Opened
<1> QED
  BY <1>1, <1>2, <1>3, <1>4, <1>5 DEF InPort

LEMMA PortLinesAre ==
  ASSUME NEW c \in Config, NEW p \in PortsOf(c), c.port[p] \notin OddSettings
  PROVE  RenderPort(c, p) \in Seq(Lines) /\ RenderVlansOf(c, p) \in Seq(Lines)
<1> DEFINE none == None
<1> HIDE DEF none
<1>1. LET s == ReadAs(Cand(none, none, none, none, none, none), None, none)
          r == ReadAs(Cand(none, none, [none EXCEPT ![p] = c.port[p]], none, none, none), None,
                      [none EXCEPT ![p] = PartsOf(c, p)])
      IN /\ RenderPort(c, p) \in Seq(Lines)
         /\ Leads(Reads, TextReaders, Only(s), RenderPort(c, p), Only(r))
  BY PortSection
<1>2. p \in PortIds
  BY DEF PortsOf
<1>3. RenderVlansOf(c, p) \in Seq(Lines)
  BY <1>2, SwitchportText
<1> QED
  BY <1>1, <1>3

(* The switchport lines of a port, by its mode.                            *)
LEMMA AccessIsRestored ==
  ASSUME NEW c \in Config, NEW U \in SUBSET PortIds, NEW p \in PortsOf(c), ModeOf(c, p) = "access",
         RenderVlansOf(c, p) \in Seq(Lines)
  PROVE  Leads(Types, Readers, Opened(c, U, p), RenderVlansOf(c, p), Switched(c, U, p))
<1> DEFINE v == c.pvid[p]
           A == Opened(c, U, p)
           B == Switched(c, U, p)
           l == AccessLine(v)
<1>1. RenderVlansOf(c, p) = <<l>>
  BY DEF RenderVlansOf, AccessLine
<1>2. Untagged(c, p) = {v} /\ Tagged(c, p) = {} /\ v \in VlanIds(c)
  <2>1. Untagged(c, p) = {v} /\ Tagged(c, p) = {}
    BY ModesAre DEF PortsOf
  <2> QED
    BY <2>1 DEF Untagged
<1>3. l \in Lines
  <2> HIDE DEF l
  <2> QED
    BY <1>1
<1>4. ASSUME NEW s \in A
      PROVE  Configure(s, l) \in B
  <2> DEFINE r == Configure(s, l)
  <2>1. /\ s \in Readers /\ p \in PortIds /\ InPort(s, p) /\ Knows(s.cand, c)
        /\ s.cand.port[p] = c.port[p]
        /\ \A t \in Readers : Became(s.cand, t, p, s.ctx) => t \in A
    BY OpenedIs
  <2>2. r \in Readers
    BY <1>3, <2>1, TypesIs
  <2>3. /\ Became(s.cand, r, p, s.ctx) /\ r.cand.pvid[p] = v
        /\ Tagged(r.cand, p) = Nowhere /\ Untagged(r.cand, p) = Just(v)
    BY <1>2, <2>1, AccessIsTyped DEF Knows
  <2> HIDE DEF r
  <2>4. r \in A /\ SamePort(c, r.cand, p)
    BY <1>2, <2>1, <2>2, <2>3 DEF SamePort, Became, Nowhere, Just
  <2>5. r \in B
    BY <2>4 DEF Switched
  <2> QED
    BY <2>5 DEF r
<1>5. A \in SUBSET Readers /\ B \in SUBSET Readers
  BY DEF Opened, Switched, Restored
<1> HIDE DEF A, B, l
<1>6. Leads(Types, Readers, A, <<l>>, B)
  BY <1>3, <1>4, <1>5, LineTypes
<1> QED
  BY <1>1, <1>6 DEF A, B

LEMMA TrunkIsRestored ==
  ASSUME NEW c \in Config, NEW U \in SUBSET PortIds, NEW p \in PortsOf(c), ModeOf(c, p) = "trunk",
         c.pvid[p] \notin Tagged(c, p), RenderVlansOf(c, p) \in Seq(Lines)
  PROVE  Leads(Types, Readers, Opened(c, U, p), RenderVlansOf(c, p), Switched(c, U, p))
<1> DEFINE v == c.pvid[p]
           allowed == Tagged(c, p) \cup {v}
           A == Opened(c, U, p)
           A2 == {s \in A : s.cand.pvid[p] = v}
           B == Switched(c, U, p)
           l1 == NativeLine(v)
           l2 == AllowedLine(allowed)
<1>1. RenderVlansOf(c, p) = <<l1, l2>>
  BY DEF RenderVlansOf, NativeLine, AllowedLine
<1>2. /\ Untagged(c, p) = {v} /\ v \in Vids /\ v \in allowed /\ allowed \subseteq VlanIds(c)
      /\ allowed \ {v} = Tagged(c, p)
  <2>1. Untagged(c, p) = {v} /\ v \in Vids
    BY ModesAre DEF PortsOf
  <2> QED
    BY <2>1 DEF Untagged, Tagged
<1> HIDE DEF allowed
<1>3. l1 \in Lines /\ l2 \in Lines
  <2> HIDE DEF l1, l2
  <2>1. \A i \in 1..2 : RenderVlansOf(c, p)[i] \in Lines
    BY <1>1
  <2> QED
    BY <1>1, <2>1
<1> HIDE DEF l1, l2
<1>4. ASSUME NEW s \in A
      PROVE  /\ s \in Readers /\ p \in PortIds /\ InPort(s, p) /\ allowed \in SUBSET VlanIds(s.cand)
             /\ s.cand.port[p] = c.port[p]
             /\ \A t \in Readers : Became(s.cand, t, p, s.ctx) => t \in A
  <2>1. /\ s \in Readers /\ p \in PortIds /\ InPort(s, p) /\ Knows(s.cand, c)
        /\ s.cand.port[p] = c.port[p]
        /\ \A t \in Readers : Became(s.cand, t, p, s.ctx) => t \in A
    BY OpenedIs
  <2> HIDE DEF A
  <2> QED
    BY <1>2, <2>1 DEF Knows
<1>5. ASSUME NEW s \in A
      PROVE  Configure(s, l1) \in A2
  <2> DEFINE r == Configure(s, l1)
  <2>1. r \in Readers
    BY <1>3, <1>4, TypesIs
  <2>2. Became(s.cand, r, p, s.ctx) /\ r.cand.pvid[p] = v
    BY <1>2, <1>4, NativeIsTyped DEF l1
  <2> HIDE DEF r, A
  <2>3. r \in A2
    BY <1>4, <2>1, <2>2
  <2> QED
    BY <2>3 DEF r
<1>6. ASSUME NEW s \in A2
      PROVE  Configure(s, l2) \in B
  <2> DEFINE r == Configure(s, l2)
  <2>1. s \in A /\ s.cand.pvid[p] = v
    OBVIOUS
  <2>2. /\ s \in Readers /\ p \in PortIds /\ InPort(s, p) /\ allowed \in SUBSET VlanIds(s.cand)
        /\ s.cand.port[p] = c.port[p]
        /\ \A t \in Readers : Became(s.cand, t, p, s.ctx) => t \in A
    BY <1>4, <2>1
  <2>3. r \in Readers
    BY <1>3, <2>2, TypesIs
  <2>4. /\ Became(s.cand, r, p, s.ctx) /\ r.cand.pvid[p] = v
        /\ Tagged(r.cand, p) = allowed \ {v} /\ Untagged(r.cand, p) = {v}
    BY <1>2, <2>1, <2>2, AllowedIsTyped DEF l2
  <2> HIDE DEF r
  <2>5. r \in A /\ SamePort(c, r.cand, p)
    BY <1>2, <2>2, <2>3, <2>4 DEF SamePort, Became
  <2>6. r \in B
    BY <2>5 DEF Switched
  <2> QED
    BY <2>6 DEF r
<1>7. A \in SUBSET Readers /\ A2 \in SUBSET Readers /\ B \in SUBSET Readers
  BY DEF Opened, Switched, Restored
<1> HIDE DEF A, A2, B, l1, l2
<1>8. Leads(Types, Readers, A, <<l1>>, A2) /\ Leads(Types, Readers, A2, <<l2>>, B)
  BY <1>3, <1>5, <1>6, <1>7, LineTypes
<1>9. Leads(Types, Readers, A, <<l1, l2>>, B)
  BY <1>3, <1>8, LeadsTwo
<1> QED
  BY <1>1, <1>9 DEF A, B

LEMMA HybridIsRestored ==
  ASSUME NEW c \in Config, NEW U \in SUBSET PortIds, NEW p \in PortsOf(c), ModeOf(c, p) = "hybrid",
         RenderVlansOf(c, p) \in Seq(Lines)
  PROVE  Leads(Types, Readers, Opened(c, U, p), RenderVlansOf(c, p), Switched(c, U, p))
<1> DEFINE v == c.pvid[p]
           ts == Tagged(c, p)
           us == Untagged(c, p)
           A == Opened(c, U, p)
           A2 == {s \in A : s.cand.pvid[p] = v}
           A3 == {s \in A2 : Tagged(s.cand, p) = ts}
           B == Switched(c, U, p)
           l1 == HybridPvidLine(v)
           l2 == HybridTaggedLine(ts)
           l3 == HybridUntaggedLine(us)
<1>1. RenderVlansOf(c, p) = <<l1, l2, l3>>
  BY DEF RenderVlansOf, HybridPvidLine, HybridTaggedLine, HybridUntaggedLine
<1>2. v \in Vids /\ ts \subseteq VlanIds(c) /\ us \subseteq VlanIds(c)
  <2>1. v \in Vids
    BY ModesAre DEF PortsOf
  <2> QED
    BY <2>1 DEF Untagged, Tagged
<1>3. l1 \in Lines /\ l2 \in Lines /\ l3 \in Lines
  <2> HIDE DEF l1, l2, l3
  <2>1. \A i \in 1..3 : RenderVlansOf(c, p)[i] \in Lines
    BY <1>1
  <2> QED
    BY <1>1, <2>1
<1>4. \A s \in A : SamePort(c, s.cand, p) => s \in B
  BY DEF Switched
<1> HIDE DEF l1, l2, l3, B
<1>5. ASSUME NEW s \in A
      PROVE  /\ s \in Readers /\ p \in PortIds /\ InPort(s, p)
             /\ ts \in SUBSET VlanIds(s.cand) /\ us \in SUBSET VlanIds(s.cand)
             /\ s.cand.port[p] = c.port[p]
             /\ \A t \in Readers : Became(s.cand, t, p, s.ctx) => t \in A
  <2>1. /\ s \in Readers /\ p \in PortIds /\ InPort(s, p) /\ Knows(s.cand, c)
        /\ s.cand.port[p] = c.port[p]
        /\ \A t \in Readers : Became(s.cand, t, p, s.ctx) => t \in A
    BY OpenedIs
  <2> HIDE DEF A
  <2> QED
    BY <1>2, <2>1 DEF Knows
<1>6. ASSUME NEW s \in A
      PROVE  Configure(s, l1) \in A2
  <2> DEFINE r == Configure(s, l1)
  <2>1. r \in Readers
    BY <1>3, <1>5, TypesIs
  <2>2. Became(s.cand, r, p, s.ctx) /\ r.cand.pvid[p] = v
    BY <1>2, <1>5, HybridPvidIsTyped DEF l1
  <2> HIDE DEF r, A
  <2>3. r \in A2
    BY <1>5, <2>1, <2>2
  <2> QED
    BY <2>3 DEF r
<1>7. ASSUME NEW s \in A2
      PROVE  Configure(s, l2) \in A3
  <2> DEFINE r == Configure(s, l2)
  <2>1. s \in A /\ s.cand.pvid[p] = v
    OBVIOUS
  <2>2. r \in Readers
    BY <1>3, <1>5, <2>1, TypesIs
  <2>3. /\ Became(s.cand, r, p, s.ctx) /\ r.cand.pvid[p] = s.cand.pvid[p]
        /\ Tagged(r.cand, p) = ts
    <3> HIDE DEF ts
    <3> QED
      BY <1>5, <2>1, HybridTaggedIsTyped DEF l2
  <2> HIDE DEF r, A, ts
  <2>4. r \in A3
    BY <1>5, <2>1, <2>2, <2>3
  <2> QED
    BY <2>4 DEF r
<1>8. ASSUME NEW s \in A3
      PROVE  Configure(s, l3) \in B
  <2> DEFINE r == Configure(s, l3)
  <2>1. s \in A /\ s.cand.pvid[p] = v /\ Tagged(s.cand, p) = ts
    OBVIOUS
  <2>2. r \in Readers
    BY <1>3, <1>5, <2>1, TypesIs
  <2>3. /\ Became(s.cand, r, p, s.ctx) /\ r.cand.pvid[p] = s.cand.pvid[p]
        /\ Tagged(r.cand, p) = Tagged(s.cand, p) /\ Untagged(r.cand, p) = us
    <3> HIDE DEF us
    <3> QED
      BY <1>5, <2>1, HybridUntaggedIsTyped DEF l3
  <2> HIDE DEF r, A
  <2>4. r \in A /\ SamePort(c, r.cand, p)
    BY <1>5, <2>1, <2>2, <2>3 DEF SamePort, Became
  <2>5. r \in B
    BY <1>4, <2>4
  <2> QED
    BY <2>5 DEF r
<1>9. A \in SUBSET Readers /\ A2 \in SUBSET Readers /\ A3 \in SUBSET Readers /\ B \in SUBSET Readers
  BY DEF Opened, Switched, Restored, B
<1> HIDE DEF A, A2, A3
<1>10. /\ Leads(Types, Readers, A, <<l1>>, A2)
       /\ Leads(Types, Readers, A2, <<l2>>, A3) /\ Leads(Types, Readers, A3, <<l3>>, B)
  BY <1>3, <1>6, <1>7, <1>8, <1>9, LineTypes
<1>11. Leads(Types, Readers, A, <<l1, l2, l3>>, B)
  BY <1>3, <1>10, LeadsThree
<1> QED
  BY <1>1, <1>11 DEF A, B

LEMMA PortIsOpened ==
  ASSUME NEW c \in Config, NEW U \in SUBSET PortIds, NEW p \in PortsOf(c),
         NEW s \in Restored(c, VlanIds(c), U, {}), NEW t \in Readers,
         InPort(t, p), ApartFrom(s.cand, t.cand, p)
  PROVE  t \in Restored(c, VlanIds(c), U \ {p}, {})
<1>1. s \in Restored(c, VlanIds(c), U \ {p}, {}) /\ p \in PortIds
  BY DEF Restored, PortsOf
<1> QED
  BY <1>1, PortsApart

LEMMA PortIsRestored ==
  ASSUME NEW c \in Config, NEW U \in SUBSET PortIds, NEW p \in PortsOf(c),
         ModeOf(c, p) = "trunk" => c.pvid[p] \notin Tagged(c, p),
         RenderPort(c, p) \in Seq(Lines), RenderVlansOf(c, p) \in Seq(Lines)
  PROVE  Leads(Types, Readers, Restored(c, VlanIds(c), U, {}), RenderPort(c, p),
               Restored(c, VlanIds(c), U \cup {p}, {}))
<1> DEFINE x == c.port[p]
           old == Restored(c, VlanIds(c), U, {})
           others == Restored(c, VlanIds(c), U \ {p}, {})
           A0 == {s \in others : InPort(s, p)}
           A == Opened(c, U, p)
           B == Switched(c, U, p)
           Z == Restored(c, VlanIds(c), U \cup {p}, {})
           l1 == Line("interface ethernet", p)
           l2 == SettingsLine(x)
           l3 == ModeLine(ModeOf(c, p))
           body == RenderVlansOf(c, p)
<1>1. RenderPort(c, p) = <<l1, l2, l3>> \o body \o <<Bang>>
  BY DEF RenderPort, SettingsLine, ModeLine
<1>2. p \in PortIds /\ x \in Settings /\ ModeOf(c, p) \in {"access", "trunk", "hybrid"}
  BY ModesAre DEF Config, PortsOf
<1>3. l1 \in Lines /\ l2 \in Lines /\ l3 \in Lines /\ Bang \in Lines
  <2>1. "interface ethernet" \in Words /\ p \in Arguments("interface ethernet")
    BY <1>2 DEF Words, Heads, Arguments
  <2>2. "port settings" \in Words /\ x \in Arguments("port settings")
    BY <1>2 DEF Words, Arguments
  <2>3. "switchport mode" \in Words /\ ModeOf(c, p) \in Arguments("switchport mode")
    BY <1>2 DEF Words, Arguments
  <2> QED
    BY <2>1, <2>2, <2>3, LineIsIn DEF SettingsLine, ModeLine
<1>4. ASSUME NEW s \in Readers
      PROVE  InPort(Configure(s, l1), p) /\ ApartFrom(s.cand, Configure(s, l1).cand, p)
  BY <1>2, PortIsEntered
<1> HIDE DEF l1, l2, l3
<1>5. ASSUME NEW s \in old
      PROVE  Configure(s, l1) \in A0
  <2> DEFINE r == Configure(s, l1)
  <2>1. s \in Readers
    BY DEF Restored
  <2>2. r \in Readers /\ InPort(r, p) /\ ApartFrom(s.cand, r.cand, p)
    BY <1>3, <1>4, <2>1, TypesIs
  <2> HIDE DEF r
  <2>3. r \in others
    BY <2>2, PortIsOpened
  <2>4. r \in A0
    BY <2>2, <2>3
  <2> QED
    BY <2>4 DEF r
<1>6. ASSUME NEW s \in A0
      PROVE  Configure(s, l2) \in A
  <2> DEFINE r == Configure(s, l2)
  <2>1. s \in others /\ s \in Readers /\ InPort(s, p)
    BY DEF Restored
  <2>2. r.ctx = s.ctx /\ ApartFrom(s.cand, r.cand, p) /\ r.cand.port[p] = x
    BY <1>2, <2>1, SettingsAreTyped DEF l2
  <2>3. r \in Readers
    BY <1>3, <2>1, TypesIs
  <2> HIDE DEF r
  <2>4. r \in others
    BY <1>2, <2>1, <2>2, <2>3, PortsApart
  <2>5. r \in A
    BY <2>1, <2>2, <2>4 DEF InPort, Opened
  <2> QED
    BY <2>5 DEF r
<1>7. ASSUME NEW s \in A
      PROVE  Configure(s, l3) \in A
  <2> DEFINE r == Configure(s, l3)
  <2>1. s \in Readers /\ InPort(s, p) /\ \A t \in Readers : Became(s.cand, t, p, s.ctx) => t \in A
    BY OpenedIs
  <2>2. Became(s.cand, r, p, s.ctx)
    BY <1>2, <2>1, ModeIsTyped DEF l3
  <2>3. r \in Readers
    BY <1>3, <2>1, TypesIs
  <2> QED
    BY <2>1, <2>2, <2>3
<1>8. Leads(Types, Readers, A, body, B)
  <2>1. CASE ModeOf(c, p) = "access"
    BY <2>1, AccessIsRestored
  <2>2. CASE ModeOf(c, p) = "trunk"
    BY <2>2, TrunkIsRestored
  <2>3. CASE ModeOf(c, p) = "hybrid"
    BY <2>3, HybridIsRestored
  <2> QED
    BY <1>2, <2>1, <2>2, <2>3
<1>9. ASSUME NEW s \in B
      PROVE  Reject(s) \in Z
  <2>1. s \in others /\ SamePort(c, s.cand, p)
    BY DEF Switched, Opened
  <2>2. s \in Z
    BY <2>1 DEF Restored
  <2> QED
    BY <2>2, ReaderIs, ReaderFields DEF Restored
<1>10. /\ old \in SUBSET Readers /\ A0 \in SUBSET Readers /\ A \in SUBSET Readers
       /\ B \in SUBSET Readers /\ Z \in SUBSET Readers
  BY DEF Opened, Switched, Restored
<1> HIDE DEF old, A0, A, B, Z, body
<1>11. /\ Leads(Types, Readers, old, <<l1>>, A0) /\ Leads(Types, Readers, A0, <<l2>>, A)
       /\ Leads(Types, Readers, A, <<l3>>, A) /\ Leads(Types, Readers, B, <<Bang>>, Z)
  BY <1>3, <1>5, <1>6, <1>7, <1>9, <1>10, LineTypes, BangTypes
<1> DEFINE opening == <<l1, l2, l3>>
           closing == <<Bang>>
<1>12. opening \in Seq(Lines) /\ Leads(Types, Readers, old, opening, A)
  BY <1>3, <1>11, LeadsThree
<1>13. closing \in Seq(Lines) /\ body \in Seq(Lines) /\ Leads(Types, Readers, B, closing, Z)
  BY <1>3, <1>11 DEF body
<1> HIDE DEF opening, closing
<1>14. opening \o body \in Seq(Lines) /\ Leads(Types, Readers, old, opening \o body, B)
  BY <1>8, <1>12, <1>13, LeadsThen
<1>15. Leads(Types, Readers, old, opening \o body \o closing, Z)
  BY <1>13, <1>14, LeadsThen
<1> QED
  BY <1>1, <1>15 DEF opening, closing, body, old, Z

LEMMA PortsAreRestored ==
  ASSUME NEW c \in Config,
         \A p \in PortsOf(c) : c.port[p] \notin OddSettings,
         \A p \in PortsOf(c) : ModeOf(c, p) = "trunk" => c.pvid[p] \notin Tagged(c, p)
  PROVE  Leads(Types, Readers, Restored(c, VlanIds(c), {}, {}), RenderPorts(c),
               Restored(c, VlanIds(c), PortsOf(c), {}))
<1> DEFINE T == PortsOf(c)
           N == [U \in SUBSET T |-> Restored(c, VlanIds(c), U, {})]
           block == [x \in T |-> RenderPort(c, x)]
<1>1. T \in SUBSET PortIds
  BY DEF PortsOf
<1>2. ASSUME NEW U \in SUBSET T, NEW p \in T
      PROVE  /\ RenderPort(c, p) \in Seq(Lines)
             /\ Leads(Types, Readers, N[U], RenderPort(c, p), N[U \cup {p}])
  <2>1. RenderPort(c, p) \in Seq(Lines) /\ RenderVlansOf(c, p) \in Seq(Lines)
    BY PortLinesAre
  <2>2. U \in SUBSET PortIds
    BY <1>1
  <2>3. Leads(Types, Readers, Restored(c, VlanIds(c), U, {}), RenderPort(c, p),
              Restored(c, VlanIds(c), U \cup {p}, {}))
    BY <2>1, <2>2, PortIsRestored
  <2> QED
    BY <2>1, <2>3
<1>3. block \in [T -> Seq(Lines)]
  BY <1>2
<1>4. N \in [SUBSET T -> SUBSET Readers]
  BY DEF Restored
<1>5. N[{}] = Restored(c, VlanIds(c), {}, {}) /\ N[T] = Restored(c, VlanIds(c), T, {})
  OBVIOUS
<1>6. \A U \in SUBSET T : \A x \in T : Leads(Types, Readers, N[U], block[x], N[U \cup {x}])
  <2> HIDE DEF N
  <2> QED
    BY <1>2
<1>7. RenderPorts(c) = InOrder(PortOrder, T, block)
  BY DEF RenderPorts, InOrder
<1> HIDE DEF N, block, T
<1>8. Leads(Types, Readers, N[{}], InOrder(PortOrder, T, block), N[T])
  BY <1>1, <1>3, <1>4, <1>6, PortOrderIs, LeadsInOrder
<1> QED
  BY <1>5, <1>7, <1>8 DEF T

----------------------------------------------------------------------------
(* The whole text.                                                         *)

LEMMA HeaderTypes ==
  Leads(Types, Readers, Readers, <<Header>>, Readers)
<1>1. \A s \in Readers : Configure(s, Header) \in Readers
  BY LineIsIn, TypesIs
<1> QED
  BY <1>1, LineIsIn, LineTypes

LEMMA TextIsTyped ==
  ASSUME NEW c \in Config, Printable(c)
  PROVE  /\ Render(c) \in Seq(Lines)
         /\ Leads(Types, Readers, Readers, Render(c), Restored(c, VlanIds(c), PortsOf(c), LagIds(c)))
<1>1. /\ c.mgmt.dhcp <=> c.mgmt.address = None
      /\ \A v \in VlanIds(c) : Stripped[c.vlans[v].name] = c.vlans[v].name
      /\ \A p \in PortsOf(c) : c.port[p] \notin OddSettings
      /\ \A p \in PortsOf(c) : ModeOf(c, p) = "trunk" => c.pvid[p] \notin Tagged(c, p)
  BY DEF Printable
<1> DEFINE t1 == <<Header>>
           t2 == RenderManagement(c)
           t3 == RenderVlans(c)
           t4 == RenderPorts(c)
           t5 == RenderLags(c)
           R2 == Restored(c, {}, {}, {})
           R3 == Restored(c, VlanIds(c), {}, {})
           R4 == Restored(c, VlanIds(c), PortsOf(c), {})
           R5 == Restored(c, VlanIds(c), PortsOf(c), LagIds(c))
<1>2. t1 \in Seq(Lines)
  BY LineIsIn
<1>3. t2 \in Seq(Lines) /\ t3 \in Seq(Lines) /\ t4 \in Seq(Lines) /\ t5 \in Seq(Lines)
  BY <1>1, BodyIsRead
<1>4. Leads(Types, Readers, Readers, t1, Readers)
  BY HeaderTypes
<1>5. Leads(Types, Readers, Readers, t2, R2)
  BY <1>1, ManagementIsRestored
<1>6. Leads(Types, Readers, R2, t3, R3)
  BY <1>1, VlansAreRestored
<1>7. Leads(Types, Readers, R3, t4, R4)
  BY <1>1, PortsAreRestored
<1>8. Leads(Types, Readers, R4, t5, R5)
  BY LagsAreRestored
<1>9. Render(c) = t1 \o t2 \o t3 \o t4 \o t5
  BY DEF Render
<1> HIDE DEF t1, t2, t3, t4, t5, R2, R3, R4, R5
<1>10. t1 \o t2 \in Seq(Lines) /\ Leads(Types, Readers, Readers, t1 \o t2, R2)
  BY <1>2, <1>3, <1>4, <1>5, LeadsThen
<1> DEFINE u2 == t1 \o t2
           u3 == u2 \o t3
           u4 == u3 \o t4
<1>11. u2 \in Seq(Lines) /\ Leads(Types, Readers, Readers, u2, R2)
  BY <1>10
<1> HIDE DEF u2
<1>12. u3 \in Seq(Lines) /\ Leads(Types, Readers, Readers, u3, R3)
  BY <1>3, <1>6, <1>11, LeadsThen
<1> HIDE DEF u3
<1>13. u4 \in Seq(Lines) /\ Leads(Types, Readers, Readers, u4, R4)
  BY <1>3, <1>7, <1>12, LeadsThen
<1> HIDE DEF u4
<1>14. u4 \o t5 \in Seq(Lines) /\ Leads(Types, Readers, Readers, u4 \o t5, R5)
  BY <1>3, <1>8, <1>13, LeadsThen
<1> QED
  BY <1>9, <1>14 DEF u2, u3, u4, R5

LEMMA RunningIsRestored == TypeOK => TypingRestores
<1> SUFFICES ASSUME TypeOK, Printable(running)
             PROVE  TypingRestores
  BY DEF TypingRestores
<1> DEFINE text == Render(running)
           start == Reader(candidate, None)
           s == FoldLeft(Configure, start, text)
           c == Typed(candidate, text)
<1>1. running \in Config /\ candidate \in Config
  BY DEF TypeOK
<1>2. start \in Readers
  <2>1. TRUE \in BOOLEAN
    OBVIOUS
  <2> QED
    BY <1>1, <2>1 DEF Reader, Readers
<1>3. /\ text \in Seq(Lines)
      /\ Leads(Types, Readers, Readers, text,
               Restored(running, VlanIds(running), PortsOf(running), LagIds(running)))
  BY <1>1, TextIsTyped
<1>4. c = s.cand
  BY DEF Typed
<1> HIDE DEF start, text
<1>5. s \in Restored(running, VlanIds(running), PortsOf(running), LagIds(running))
  BY <1>2, <1>3, TypedFold
<1> HIDE DEF s, c
<1>6. /\ c.mgmt = running.mgmt /\ c.fallback = running.fallback
      /\ \A v \in VlanIds(running) : SameVlan(running, c, v)
      /\ \A p \in PortsOf(running) : SamePort(running, c, p)
      /\ \A g \in LagIds(running) : c.lags[g] = running.lags[g]
  BY <1>4, <1>5 DEF Restored
<1> QED
  BY <1>6 DEF TypingRestores, SameVlan, SamePort, c, text

(* Typing the running configuration over whatever candidate the session    *)
(* has made, with the lines that _configure rejects passed over, restores  *)
(* its management, VLANs, ports and LAGs, in the order in which            *)
(* render_config writes them, however many of them there are.              *)
THEOREM TypingTheRunningRestores == Spec => []TypingRestores
BY SessionTypeCorrect, RunningIsRestored, PTL
=============================================================================
