-------------------------------- MODULE Snmp --------------------------------
(***************************************************************************)
(* From the packet counters of the switch to an SNMP walk: read_metrics    *)
(* (adapters/rpm_cgi.py), the pollers of daemon.py that store what it      *)
(* reads, the tree of OIDs (snmp_agent.py) built from it, and a manager    *)
(* that walks the tree with GETNEXT and GETBULK while it is replaced.      *)
(*                                                                         *)
(* Of sent packets only the broken ones are counted here; crc stands for   *)
(* all the details.  No packet is unicast: ifInUcastPkts stays 0, and is   *)
(* there for its place among the OIDs.                                     *)
(* The tree is what it is built from (shown).  The agent keeps nothing     *)
(* between datagrams, so a lost one changes nothing but the time.          *)
(***************************************************************************)
EXTENDS Integers, FiniteSets

CONSTANTS
  PortCount,
  CounterLimit,     \* 2^32: counters and Counter32 hold 0..CounterLimit-1
  MaxRepetitions,   \* what the agent caps the repetitions of a GETBULK at
  None,
  FaultKinds,       \* what may go wrong in this instance (AllFaultKinds)
  BusyPorts,        \* BOUND: the ports that have traffic
  MaxPackets,       \* BOUND: how many packets the switch counts
  MaxFaults         \* BOUND: how many times something goes wrong

AllFaultKinds ==
  {"fail",      \* a request raises
   "blank",     \* a page comes without the variables that are looked for
   "reboot",    \* the switch restarts: it counts from zero again
   "restart"}   \* the daemon dies

ASSUME SnmpConstants ==
  /\ PortCount \in Nat \ {0} /\ CounterLimit \in Nat \ {0}
  /\ MaxRepetitions \in Nat \ {0}
  /\ FaultKinds \subseteq AllFaultKinds
  /\ BusyPorts \subseteq 1..PortCount
  /\ MaxPackets \in Nat /\ MaxFaults \in Nat

VARIABLES
  counters,     \* port -> what the switch has counted
  reading,      \* the summary a detail poll, or start(), has read so far
  metrics,      \* daemon.metrics; None: no daemon is up
  detail_port,
  shown,        \* the metrics the tree was built from
  health,       \* health.json
  walk,         \* the manager, and the rows it has yet to find: those that
                \* have been there since it began
  packets, faults,
  reset         \* history: some counter has gone back, or looked like it

pollVars == <<reading, metrics, detail_port, shown, health>>
switchVars == <<counters, packets>>
vars == <<switchVars, pollVars, walk, faults, reset>>

Ports == 1..PortCount
Counter == 0..(CounterLimit - 1)
Summary == [good : Counter, bad : Counter]
DetailPage == [rx_crc : Counter, tx_crc : Counter]
Details == [crc : 0..(2 * CounterLimit - 2)]
PortMetrics == [summary : Summary, details : Details \cup {None}]

Silent == [good |-> 0, bad |-> 0]
NoneSeen == [rx_crc |-> 0, tx_crc |-> 0]

(* What read_metrics makes of the page: both directions together. *)
ReadDetails(page) == [crc |-> page.rx_crc + page.tx_crc]

----------------------------------------------------------------------------
(* The tree.  An OID is <<column, port>>; columns are numbered in the      *)
(* order of their OIDs.                                                    *)

ifNumber == 1
ifInUcastPkts == 2
ifInErrors == 3
etherStatsPkts == 4
etherStatsCRCAlignErrors == 5

PortColumns == {ifInErrors, etherStatsPkts}
DetailColumns == {ifInUcastPkts, etherStatsCRCAlignErrors}

Before(a, b) == a[1] < b[1] \/ (a[1] = b[1] /\ a[2] < b[2])

Oids(m) ==
  {<<ifNumber, 0>>} \cup (PortColumns \X Ports)
    \cup (DetailColumns \X {p \in Ports : m[p].details # None})

Value(m, oid) ==
  LET s == m[oid[2]].summary  d == m[oid[2]].details IN
  CASE oid[1] = ifNumber -> PortCount
    [] oid[1] = ifInUcastPkts -> 0
    [] oid[1] = ifInErrors -> IF s.bad # 0 \/ d = None THEN s.bad ELSE d.crc
    [] oid[1] = etherStatsPkts -> s.good + s.bad
    [] oid[1] = etherStatsCRCAlignErrors -> d.crc

(* Counter32 raises on a sum that it cannot hold. *)
Fits(m) == \A oid \in Oids(m) : oid[1] # ifNumber => Value(m, oid) < CounterLimit

(* Mutants: the OID asked for must still be there, and bisect_left. *)
FollowingKnown(m, oid) == {o \in Oids(m) : oid \in Oids(m) \cup {<<0, 0>>} /\ Before(oid, o)}
FollowingOrSelf(m, oid) == {o \in Oids(m) : ~Before(o, oid)}
(* OidTree.next, as far as it goes: the OIDs that follow, and the first n. *)
Following(m, oid) == {o \in Oids(m) : Before(oid, o)}
FirstOf(n, oids) == {o \in oids : Cardinality({q \in oids : Before(q, o)}) < n}
LastOf(oids) == CHOOSE o \in oids : \A q \in oids : q = o \/ Before(q, o)

----------------------------------------------------------------------------

(* None is a value of its own. *)
ASSUME NoneIsApart ==
  None \notin Details \cup [Ports -> Summary] \cup [Ports -> PortMetrics]

TypeOK ==
  /\ counters \in [Ports -> [summary : Summary, details : DetailPage]]
  /\ reading \in [Ports -> Summary] \cup {None}
  /\ metrics \in [Ports -> PortMetrics] \cup {None}
  /\ shown \in [Ports -> PortMetrics] \cup {None}
  /\ (metrics = None) = (shown = None)
  /\ detail_port \in Ports
  /\ health \in {"none", "ok", "degraded"}
  /\ walk \in [going : BOOLEAN, n : 1..MaxRepetitions,
               at : (0..5) \X (0..PortCount), due : SUBSET ((1..5) \X (0..PortCount))]
  /\ packets \in 0..MaxPackets /\ faults \in 0..MaxFaults /\ reset \in BOOLEAN

NoWalk == [going |-> FALSE, n |-> 1, at |-> <<0, 0>>, due |-> {}]

Init ==
  /\ counters = [p \in Ports |-> [summary |-> Silent, details |-> NoneSeen]]
  /\ reading = None /\ metrics = None /\ detail_port = 1
  /\ shown = None /\ health = "none"
  /\ walk = NoWalk
  /\ packets = 0 /\ faults = 0 /\ reset = FALSE

Happens(kind) == kind \in FaultKinds /\ faults < MaxFaults /\ faults' = faults + 1

----------------------------------------------------------------------------
(* The switch. *)

Count(p, c) == counters' = [counters EXCEPT ![p] = c]

Plus(n) == (n + 1) % CounterLimit

Packet ==
  /\ packets < MaxPackets /\ packets' = packets + 1
  /\ \E p \in BusyPorts :
       LET c == counters[p] IN
       \/ Count(p, [c EXCEPT !.summary.good = Plus(@)])
       \/ Count(p, [c EXCEPT !.summary.bad = Plus(@), !.details.rx_crc = Plus(@)])
       \/ Count(p, [c EXCEPT !.details.tx_crc = Plus(@)])
  /\ reset' = (reset \/ \E p \in Ports : \/ counters'[p].summary.good < counters[p].summary.good
                                         \/ counters'[p].summary.bad < counters[p].summary.bad
                                         \/ counters'[p].details.tx_crc < counters[p].details.tx_crc)
  /\ UNCHANGED <<pollVars, walk, faults>>

Reboot ==
  /\ Happens("reboot")
  /\ counters' = [p \in Ports |-> [summary |-> Silent, details |-> NoneSeen]]
  /\ reset' = TRUE
  /\ UNCHANGED <<packets, pollVars, walk>>

----------------------------------------------------------------------------
(* read_metrics: the page of all ports, then the page of one.              *)

SummaryPage == [p \in Ports |-> counters[p].summary]
NoSummary == [p \in Ports |-> Silent]

(* The switch answers with the page asked for, or with a blank one. *)
Answers(page, asked) ==
  \/ page = asked /\ UNCHANGED <<faults, reset>>
  \/ page # asked /\ Happens("blank") /\ reset' = TRUE

WithoutDetails(page) == [p \in Ports |-> [summary |-> page[p], details |-> None]]

(* A walk under way is due the rows that stay. *)
Rebuilt(m) ==
  /\ shown' = m
  /\ walk' = [walk EXCEPT !.due = @ \cap Oids(m)]

(* _update_snmp and _write_health: metrics that do not fit leave the old   *)
(* tree.                                                                   *)
HealthAlwaysOk(m) == health' = "ok"   \* Mutant: it is written first
HealthAfter(m) == health' = IF Fits(m) THEN "ok" ELSE "degraded"

Publish(m) ==
  /\ metrics' = m
  /\ HealthAfter(m)
  /\ IF Fits(m) THEN Rebuilt(m) ELSE UNCHANGED <<shown, walk>>

(* Fresh metrics take the detail fields of the old ones over, by name. *)
TakenOver(d) == d

LockIgnored == TRUE   \* Mutant: a poll does not wait for the one under way
LockFree == reading = None

SummaryPoll ==
  /\ metrics # None /\ LockFree
  /\ \E page \in {SummaryPage, NoSummary} :
       /\ Answers(page, SummaryPage)
       /\ Publish([p \in Ports |-> [summary |-> page[p], details |-> TakenOver(metrics[p].details)]])
  /\ UNCHANGED <<switchVars, reading, detail_port>>

(* Also the beginning of start(). *)
DetailBegins ==
  /\ reading = None
  /\ \E page \in {SummaryPage, NoSummary} : Answers(page, SummaryPage) /\ reading' = page
  /\ UNCHANGED <<switchVars, metrics, detail_port, shown, health, walk>>

(* Mutants: the last port is skipped, and there is no wrapping around. *)
NextPortSkipping == IF PortCount = 1 THEN 1 ELSE (detail_port % (PortCount - 1)) + 1
NextPortUnbounded == detail_port + 1
NextPort == (detail_port % PortCount) + 1

DetailPoll ==
  /\ metrics # None /\ reading # None
  /\ reading' = None
  /\ \E page \in {counters[detail_port].details, NoneSeen} :
       /\ Answers(page, counters[detail_port].details)
       /\ Publish([metrics EXCEPT ![detail_port] =
                     [summary |-> reading[detail_port], details |-> ReadDetails(page)]])
  /\ detail_port' = NextPort
  /\ UNCHANGED switchVars

(* start(): metrics that do not fit are an exception that ends it. *)
Start ==
  /\ metrics = None /\ reading # None
  /\ reading' = None
  /\ \E page \in {counters[1].details, NoneSeen} :
       /\ Answers(page, counters[1].details)
       /\ LET m == [WithoutDetails(reading) EXCEPT ![1].details = ReadDetails(page)] IN
          IF Fits(m)
          THEN metrics' = m /\ Rebuilt(m) /\ health' = "ok"
          ELSE UNCHANGED <<metrics, shown, walk, health>>
  /\ UNCHANGED <<switchVars, detail_port>>

(* A request raises; health.json says so, if the daemon is up. *)
PollFails ==
  /\ Happens("fail")
  /\ reading' = None
  /\ health' = IF metrics = None THEN health ELSE "degraded"
  /\ UNCHANGED <<switchVars, metrics, detail_port, shown, walk, reset>>

Die ==
  /\ Happens("restart")
  /\ metrics' = None /\ reading' = None /\ detail_port' = 1
  /\ shown' = None
  /\ UNCHANGED <<switchVars, health, walk, reset>>

----------------------------------------------------------------------------
(* The manager.  While no daemon is up its requests time out, and it tries *)
(* again or gives up.                                                      *)

BeginWalk ==
  /\ ~walk.going /\ shown # None
  /\ \E n \in 1..MaxRepetitions :
       walk' = [NoWalk EXCEPT !.going = TRUE, !.n = n, !.due = Oids(shown)]
  /\ UNCHANGED <<switchVars, pollVars, faults, reset>>

(* GETNEXT is n = 1.  A reply with fewer than the n OIDs asked for ends in *)
(* EndOfMibView.                                                           *)
GetBulk ==
  /\ walk.going /\ shown # None
  /\ LET new == FirstOf(walk.n, Following(shown, walk.at))
         due == walk.due \ new
     IN walk' = IF Cardinality(new) = walk.n
                THEN [walk EXCEPT !.at = LastOf(new), !.due = due]
                ELSE [NoWalk EXCEPT !.due = due]
  /\ UNCHANGED <<switchVars, pollVars, faults, reset>>

GiveUp ==
  /\ walk.going /\ shown = None
  /\ walk' = NoWalk
  /\ UNCHANGED <<switchVars, pollVars, faults, reset>>

Walk == GiveUp \/ GetBulk

----------------------------------------------------------------------------

DetailLoop == DetailBegins \/ DetailPoll \/ Start

Next == Packet \/ Reboot \/ SummaryPoll \/ DetailLoop \/ PollFails \/ Die \/ BeginWalk \/ Walk

Spec == Init /\ [][Next]_vars

(* The detail loop goes on, a daemon that died is started again            *)
(* (compose.yaml), and a manager that has begun a walk goes on with it.    *)
FairSpec == Spec /\ WF_vars(DetailLoop) /\ WF_vars(Walk)

----------------------------------------------------------------------------

(* Until a broken packet is received, ifInErrors is the sum of the details, *)
(* which counts sent packets too and goes back when the first one comes.    *)
Borrowed(m) == {ifInErrors} \X {p \in Ports : m[p].summary.bad = 0}

(* What SNMP shows of any other counter never goes back, whichever poller  *)
(* stored it, unless the counter of the switch did.                        *)
CountersNeverRegress ==
  [][shown # None /\ shown' # None /\ ~reset' =>
       \A oid \in (Oids(shown) \cap Oids(shown')) \ Borrowed(shown) :
         Value(shown', oid) >= Value(shown, oid)]_vars

(* A walk that comes to its end has found every OID that was there all the *)
(* while, though the tree was replaced under it.                           *)
WalkFindsAll == ~walk.going => walk.due = {}

(* A walk ends, however often the tree is replaced. *)
WalkEnds == walk.going ~> ~walk.going

(* health.json does not say "ok" over a tree that could not be rebuilt.    *)
HealthyIsCurrent == metrics # None /\ health = "ok" => shown = metrics

Current == [p \in Ports |-> [counters[p] EXCEPT !.details = ReadDetails(@)]]

(* When the traffic pauses, SNMP comes to show every counter as it is,     *)
(* unless a sum of counters no longer fits.                                *)
EventuallyExact == <>[](shown = Current \/ ~Fits(Current))
=============================================================================
