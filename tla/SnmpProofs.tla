----------------------------- MODULE SnmpProofs -----------------------------
(***************************************************************************)
(* Proofs about Snmp, for any number of ports, width of the counters and   *)
(* cap on the repetitions, and any number of packets and faults.           *)
(***************************************************************************)
EXTENDS Snmp, FiniteSetTheorems, WellFoundedInduction, TLAPS

----------------------------------------------------------------------------
(* OIDs are ordered, and there are finitely many.                          *)

Rows == (1..5) \X (0..PortCount)

LEMMA RowsFinite == IsFiniteSet(Rows)
<1>1. \A n \in Nat, k \in Nat : IsFiniteSet(k..n)
  BY FS_Interval
<1>2. IsFiniteSet(1..5) /\ IsFiniteSet(0..PortCount)
  <2>1. 0 \in Nat /\ 1 \in Nat /\ 5 \in Nat /\ PortCount \in Nat
    BY SnmpConstants
  <2> QED
    BY <1>1, <2>1, Zenon
<1> QED
  BY <1>2, FS_Product DEF Rows

LEMMA BeforeOrders ==
  \A a, b, c \in Rows : /\ ~Before(a, a)
                        /\ Before(a, b) /\ Before(b, c) => Before(a, c)
                        /\ a = b \/ Before(a, b) \/ Before(b, a)
<1> SUFFICES ASSUME NEW a \in Rows, NEW b \in Rows, NEW c \in Rows
             PROVE  /\ ~Before(a, a)
                    /\ Before(a, b) /\ Before(b, c) => Before(a, c)
                    /\ a = b \/ Before(a, b) \/ Before(b, a)
  OBVIOUS
<1>1. /\ a[1] \in Int /\ a[2] \in Int /\ b[1] \in Int /\ b[2] \in Int
      /\ c[1] \in Int /\ c[2] \in Int
      /\ a[1] = b[1] /\ a[2] = b[2] => a = b
  BY DEF Rows
<1> QED
  BY <1>1 DEF Before

LEMMA OidsAreRows ==
  ASSUME NEW m
  PROVE  Oids(m) \in SUBSET Rows
BY SnmpConstants DEF Oids, Rows, Ports, PortColumns, DetailColumns, ifNumber, ifInUcastPkts,
   ifInErrors, etherStatsPkts, etherStatsCRCAlignErrors

(* Among finitely many sets one has no other for a subset. *)
LEMMA MinimalSet ==
  ASSUME NEW S, IsFiniteSet(S), NEW T, T \subseteq SUBSET S, T # {}
  PROVE  \E x \in T : \A y \in T : y \subseteq x => y = x
<1>1. T \subseteq FiniteSubsetsOf(S)
  BY FS_FiniteSubsetsOfFinite
<1>2. PICK x \in T : \A y \in T : <<y, x>> \notin StrictSubsetOrdering(S)
  BY <1>1, FS_StrictSubsetOrderingWellFounded, WFMin
<1>3. ASSUME NEW y \in T, y \subseteq x
      PROVE  y = x
  BY <1>2, <1>3 DEF StrictSubsetOrdering
<1> QED
  BY <1>3

LEMMA HasFirst ==
  ASSUME NEW S \in SUBSET Rows, S # {}
  PROVE  \E o \in S : \A q \in S : q = o \/ Before(o, q)
<1> DEFINE Down(o) == {q \in S : Before(q, o)}
           T == {Down(o) : o \in S}
<1>1. IsFiniteSet(S)
  BY RowsFinite, FS_Subset
<1>2. T \subseteq SUBSET S /\ T # {}
  OBVIOUS
<1>3. PICK x \in T : \A y \in T : y \subseteq x => y = x
  <2> HIDE DEF T
  <2> QED
    BY <1>1, <1>2, MinimalSet
<1>4. PICK o \in S : x = Down(o)
  OBVIOUS
<1>5. ASSUME NEW q \in S, Before(q, o)
      PROVE  FALSE
  <2>1. Down(q) \in T /\ Down(q) \subseteq Down(o)
    BY <1>5, BeforeOrders
  <2>2. q \in Down(o) /\ q \notin Down(q)
    BY <1>5, BeforeOrders
  <2> QED
    BY <1>3, <1>4, <2>1, <2>2
<1> QED
  BY <1>5, BeforeOrders

LEMMA HasLast ==
  ASSUME NEW S \in SUBSET Rows, S # {}
  PROVE  LastOf(S) \in S /\ \A q \in S : q = LastOf(S) \/ Before(q, LastOf(S))
<1> DEFINE Up(o) == {q \in S : Before(o, q)}
           T == {Up(o) : o \in S}
<1>1. IsFiniteSet(S)
  BY RowsFinite, FS_Subset
<1>2. T \subseteq SUBSET S /\ T # {}
  OBVIOUS
<1>3. PICK x \in T : \A y \in T : y \subseteq x => y = x
  <2> HIDE DEF T
  <2> QED
    BY <1>1, <1>2, MinimalSet
<1>4. PICK o \in S : x = Up(o)
  OBVIOUS
<1>5. ASSUME NEW q \in S, Before(o, q)
      PROVE  FALSE
  <2>1. Up(q) \in T /\ Up(q) \subseteq Up(o)
    BY <1>5, BeforeOrders
  <2>2. q \in Up(o) /\ q \notin Up(q)
    BY <1>5, BeforeOrders
  <2> QED
    BY <1>3, <1>4, <2>1, <2>2
<1>6. \E l \in S : \A q \in S : q = l \/ Before(q, l)
  BY <1>5, BeforeOrders
<1> QED
  BY <1>6 DEF LastOf

(* The first n of a set are a beginning of it, and n of them unless the    *)
(* whole set has fewer.                                                    *)
LEMMA FirstOfIs ==
  ASSUME NEW S \in SUBSET Rows, NEW n \in Nat \ {0}
  PROVE  /\ FirstOf(n, S) \subseteq S
         /\ \A o \in S \ FirstOf(n, S) : \A q \in FirstOf(n, S) : Before(q, o)
         /\ S # FirstOf(n, S) => Cardinality(FirstOf(n, S)) = n
<1> DEFINE Down(o) == {q \in S : Before(q, o)}
           new == FirstOf(n, S)
<1>1. \A o \in S : o \in new <=> Cardinality(Down(o)) < n
  BY DEF FirstOf
<1>2. new \subseteq S
  BY DEF FirstOf
<1>3. \A T \in SUBSET S : IsFiniteSet(T) /\ Cardinality(T) \in Nat
  BY RowsFinite, FS_Subset, FS_CardinalityType
<1>4. ASSUME NEW o \in S \ new, NEW q \in new
      PROVE  Before(q, o)
  <2> SUFFICES ASSUME ~Before(q, o)
               PROVE  FALSE
    OBVIOUS
  <2>1. Before(o, q)
    BY <1>2, BeforeOrders
  <2>2. Down(o) \subseteq Down(q)
    BY <1>2, <2>1, BeforeOrders
  <2>3. Cardinality(Down(o)) <= Cardinality(Down(q))
    BY <1>3, <2>2, FS_Subset
  <2>4. Cardinality(Down(o)) \in Nat /\ Cardinality(Down(q)) \in Nat
    BY <1>3
  <2> HIDE DEF Down, new
  <2> QED
    BY <1>1, <1>2, <2>3, <2>4
<1>5. ASSUME S # new
      PROVE  Cardinality(new) = n
  <2>1. PICK o \in S \ new : \A q \in S \ new : q = o \/ Before(o, q)
    BY <1>2, <1>5, HasFirst
  <2>2. Down(o) = new
    BY <1>2, <1>4, <2>1, BeforeOrders
  <2>3. Cardinality(new) >= n /\ Cardinality(new) \in Nat
    <3>1. Cardinality(Down(o)) \in Nat /\ ~(Cardinality(Down(o)) < n)
      BY <1>1, <1>3
    <3> HIDE DEF new
    <3> QED
      BY <2>2, <3>1
  <2>4. new # {}
    <3> HIDE DEF new
    <3> QED
      BY <2>3, FS_EmptySet
  <2> DEFINE l == LastOf(new)
  <2>5. l \in new /\ \A q \in new : q = l \/ Before(q, l)
    BY <1>2, <2>4, HasLast
  <2>6. Down(l) = new \ {l}
    <3>1. \A q \in S : Before(q, l) => q \in new
      BY <1>2, <1>4, <2>5, BeforeOrders
    <3> QED
      BY <1>2, <2>5, <3>1, BeforeOrders
  <2>7. Cardinality(new \ {l}) = Cardinality(new) - 1
    BY <1>2, <1>3, <2>5, FS_RemoveElement
  <2>8. Cardinality(Down(l)) < n
    BY <1>1, <1>2, <2>5
  <2> HIDE DEF new, l, Down
  <2> QED
    BY <2>3, <2>6, <2>7, <2>8
<1> QED
  BY <1>2, <1>4, <1>5

----------------------------------------------------------------------------
(* The invariants.                                                         *)

(* A manager has passed none of the rows it has yet to find, and they are  *)
(* in the tree whenever there is one.                                      *)
DueInv ==
  /\ ~walk.going => walk.due = {}
  /\ \A o \in walk.due : Before(walk.at, o) /\ (shown # None => o \in Oids(shown))

(* The switch counts a broken packet it received in both its counters. *)
TogetherInv == \A p \in Ports : counters[p].details.rx_crc = counters[p].summary.bad

(* What is read, stored and shown is ever older: the loops never overtake  *)
(* each other on the way from the switch to the tree.                      *)
UpTo(a, b) == a.good <= b.good /\ a.bad <= b.bad
DetailsUpTo(d, e) == d # None => e # None /\ d.crc <= e.crc

AgeInv ==
  ~reset => \A p \in Ports :
    /\ reading # None => UpTo(reading[p], counters[p].summary)
    /\ metrics # None =>
         /\ UpTo(metrics[p].summary, counters[p].summary)
         /\ reading # None => UpTo(metrics[p].summary, reading[p])
         /\ metrics[p].details # None =>
              metrics[p].details.crc <= ReadDetails(counters[p].details).crc
         /\ UpTo(shown[p].summary, metrics[p].summary)
         /\ DetailsUpTo(shown[p].details, metrics[p].details)

SnmpInv == TypeOK /\ DueInv /\ HealthyIsCurrent /\ TogetherInv /\ AgeInv

----------------------------------------------------------------------------
(* The switch counts.                                                      *)

SwitchCounters == [summary : Summary, details : DetailPage]

LEMMA PlusType == \A n \in Counter : Plus(n) \in Counter
BY SnmpConstants DEF Counter, Plus

LEMMA SilentTypes ==
  /\ Silent \in Summary /\ NoneSeen \in DetailPage
  /\ NoSummary \in [Ports -> Summary]
<1>1. 0 \in Counter
  BY SnmpConstants DEF Counter
<1> QED
  BY <1>1 DEF Silent, NoneSeen, NoSummary, Summary, DetailPage

LEMMA DetailsType == \A page \in DetailPage : ReadDetails(page) \in Details
BY SnmpConstants DEF ReadDetails, Details, DetailPage, Counter

(* One port counts on, and in ~reset no counter has gone back. *)
LEMMA PacketIs ==
  ASSUME TypeOK, TogetherInv, Packet
  PROVE  /\ counters' \in [Ports -> SwitchCounters]
         /\ TogetherInv'
         /\ reset' \in BOOLEAN /\ (reset => reset')
         /\ ~reset' => \A p \in Ports :
              /\ UpTo(counters[p].summary, counters'[p].summary)
              /\ ReadDetails(counters[p].details).crc <= ReadDetails(counters'[p].details).crc
<1>1. PICK p \in BusyPorts :
        LET c == counters[p] IN
        \/ Count(p, [c EXCEPT !.summary.good = Plus(@)])
        \/ Count(p, [c EXCEPT !.summary.bad = Plus(@), !.details.rx_crc = Plus(@)])
        \/ Count(p, [c EXCEPT !.details.tx_crc = Plus(@)])
  BY DEF Packet
<1> DEFINE c == counters[p]
<1>2. /\ p \in Ports /\ c \in SwitchCounters /\ c.summary \in Summary /\ c.details \in DetailPage
      /\ c.details.rx_crc = c.summary.bad
  BY <1>1, SnmpConstants DEF Ports, TypeOK, SwitchCounters, TogetherInv
<1>3. \E k \in SwitchCounters : Count(p, k) /\ k.details.rx_crc = k.summary.bad
  <2>1. CASE Count(p, [c EXCEPT !.summary.good = Plus(@)])
    <3> DEFINE k == [c EXCEPT !.summary.good = Plus(@)]
    <3>1. /\ k.summary = [c.summary EXCEPT !.good = Plus(c.summary.good)] /\ k.details = c.details
          /\ k = [summary |-> k.summary, details |-> k.details]
      BY <1>2 DEF SwitchCounters
    <3>2. k \in SwitchCounters /\ k.details.rx_crc = k.summary.bad
      BY <1>2, <3>1, PlusType DEF SwitchCounters, Summary
    <3> QED
      BY <2>1, <3>2
  <2>2. CASE Count(p, [c EXCEPT !.summary.bad = Plus(@), !.details.rx_crc = Plus(@)])
    <3> DEFINE k == [c EXCEPT !.summary.bad = Plus(@), !.details.rx_crc = Plus(@)]
    <3> DEFINE j == [c EXCEPT !.summary.bad = Plus(@)]
    <3>1. /\ j \in [summary : Summary, details : DetailPage] /\ j.details = c.details
          /\ j.summary = [c.summary EXCEPT !.bad = Plus(c.summary.bad)]
      BY <1>2, PlusType DEF SwitchCounters, Summary
    <3>2. k = [j EXCEPT !.details.rx_crc = Plus(c.details.rx_crc)]
      OBVIOUS
    <3>3. /\ k.summary = [c.summary EXCEPT !.bad = Plus(c.summary.bad)]
          /\ k.details = [c.details EXCEPT !.rx_crc = Plus(c.details.rx_crc)]
          /\ k = [summary |-> k.summary, details |-> k.details]
      <4> HIDE DEF j, k, c
      <4> QED
        BY <3>1, <3>2
    <3>4. k \in SwitchCounters /\ k.details.rx_crc = k.summary.bad
      BY <1>2, <3>3, PlusType DEF SwitchCounters, Summary, DetailPage
    <3> QED
      BY <2>2, <3>4
  <2>3. CASE Count(p, [c EXCEPT !.details.tx_crc = Plus(@)])
    <3> DEFINE k == [c EXCEPT !.details.tx_crc = Plus(@)]
    <3>1. /\ k.details = [c.details EXCEPT !.tx_crc = Plus(c.details.tx_crc)]
          /\ k.summary = c.summary
          /\ k = [summary |-> k.summary, details |-> k.details]
      BY <1>2 DEF SwitchCounters
    <3>2. k \in SwitchCounters /\ k.details.rx_crc = k.summary.bad
      BY <1>2, <3>1, PlusType DEF SwitchCounters, DetailPage
    <3> QED
      BY <2>3, <3>2
  <2> QED
    BY <1>1, <2>1, <2>2, <2>3
<1>4. counters' \in [Ports -> SwitchCounters] /\ TogetherInv'
  <2> HIDE DEF c
  <2> QED
    BY <1>2, <1>3 DEF Count, TypeOK, TogetherInv, SwitchCounters
<1>5. reset' \in BOOLEAN /\ (reset => reset')
  BY Zenon DEF Packet
<1>6. ASSUME ~reset', NEW q \in Ports
      PROVE  /\ UpTo(counters[q].summary, counters'[q].summary)
             /\ ReadDetails(counters[q].details).crc <= ReadDetails(counters'[q].details).crc
  <2>1. /\ ~(counters'[q].summary.good < counters[q].summary.good)
        /\ ~(counters'[q].summary.bad < counters[q].summary.bad)
        /\ ~(counters'[q].details.tx_crc < counters[q].details.tx_crc)
    BY <1>6, Zenon DEF Packet
  <2>2. /\ counters[q].details.rx_crc = counters[q].summary.bad
        /\ counters'[q].details.rx_crc = counters'[q].summary.bad
    BY <1>4 DEF TogetherInv
  <2>3. \A k \in SwitchCounters : /\ k.summary.good \in Int /\ k.summary.bad \in Int
                                  /\ k.details.rx_crc \in Int /\ k.details.tx_crc \in Int
    BY DEF SwitchCounters, Summary, DetailPage, Counter
  <2>4. counters[q] \in SwitchCounters /\ counters'[q] \in SwitchCounters
    BY <1>4 DEF TypeOK, SwitchCounters
  <2> QED
    BY <2>1, <2>2, <2>3, <2>4 DEF UpTo, ReadDetails
<1> QED
  BY <1>4, <1>5, <1>6

(* What the switch has not touched stays. *)
LEMMA SwitchStays ==
  ASSUME TypeOK, UNCHANGED switchVars
  PROVE  /\ counters' \in [Ports -> [summary : Summary, details : DetailPage]]
         /\ packets' \in 0..MaxPackets
         /\ TogetherInv => TogetherInv'
BY DEF TypeOK, switchVars, TogetherInv

LEMMA AnswersIs ==
  ASSUME TypeOK, NEW page, NEW asked, Answers(page, asked)
  PROVE  /\ faults' \in 0..MaxFaults /\ reset' \in BOOLEAN
         /\ ~reset' => page = asked /\ ~reset
<1>1. reset' \in BOOLEAN
  BY Zenon DEF Answers, TypeOK
<1>2. faults' \in 0..MaxFaults
  BY SnmpConstants DEF Answers, TypeOK, Happens
<1> QED
  BY <1>1, <1>2 DEF Answers

----------------------------------------------------------------------------
(* The tree is built anew.                                                 *)

WalkType == [going : BOOLEAN, n : 1..MaxRepetitions,
             at : (0..5) \X (0..PortCount), due : SUBSET Rows]

LEMMA RebuiltIs ==
  ASSUME TypeOK, DueInv, NEW m, Rebuilt(m)
  PROVE  shown' = m /\ walk' \in WalkType /\ DueInv'
<1>1. walk \in WalkType /\ walk' = [walk EXCEPT !.due = walk.due \cap Oids(m)] /\ shown' = m
  BY DEF Rebuilt, TypeOK, WalkType, Rows
<1>2. /\ walk' \in WalkType /\ walk'.due = walk.due \cap Oids(m)
      /\ walk'.going = walk.going /\ walk'.at = walk.at
  BY <1>1 DEF WalkType
<1> QED
  BY <1>1, <1>2 DEF DueInv

LEMMA WalkStays ==
  ASSUME TypeOK, DueInv, UNCHANGED <<shown, walk>>
  PROVE  walk' \in WalkType /\ DueInv'
BY DEF TypeOK, WalkType, Rows, DueInv

LEMMA PublishIs ==
  ASSUME TypeOK, DueInv, metrics # None, NEW m \in [Ports -> PortMetrics], Publish(m)
  PROVE  /\ metrics' = m /\ m # None /\ shown \in [Ports -> PortMetrics]
         /\ shown' = m \/ shown' = shown
         /\ shown' \in [Ports -> PortMetrics] /\ shown' # None
         /\ health' \in {"ok", "degraded"} /\ HealthyIsCurrent'
         /\ walk' \in WalkType /\ DueInv'
<1>1. m # None /\ shown \in [Ports -> PortMetrics] /\ shown # None /\ metrics' = m
  BY NoneIsApart DEF TypeOK, Publish
<1>2. CASE Fits(m)
  <2>1. Rebuilt(m) /\ health' = "ok"
    BY <1>2 DEF Publish, HealthAfter
  <2> QED
    BY <1>1, <2>1, RebuiltIs DEF HealthyIsCurrent
<1>3. CASE ~Fits(m)
  <2>1. UNCHANGED <<shown, walk>> /\ health' = "degraded"
    BY <1>3 DEF Publish, HealthAfter
  <2> QED
    BY <1>1, <2>1, WalkStays DEF HealthyIsCurrent
<1> QED
  BY <1>2, <1>3

(* The tree is rebuilt from metrics that are no older.                     *)
Grows ==
  ~reset' => \A p \in Ports : /\ UpTo(shown[p].summary, shown'[p].summary)
                             /\ DetailsUpTo(shown[p].details, shown'[p].details)

(* A poll stores metrics that are no older than the ones it replaces. *)
LEMMA PollKeeps ==
  ASSUME SnmpInv, metrics # None, NEW m \in [Ports -> PortMetrics], Publish(m),
         UNCHANGED switchVars, reading' = None, detail_port' \in Ports,
         faults' \in 0..MaxFaults, reset' \in BOOLEAN,
         ~reset' => ~reset /\ \A p \in Ports :
            /\ UpTo(metrics[p].summary, m[p].summary) /\ UpTo(m[p].summary, counters[p].summary)
            /\ DetailsUpTo(metrics[p].details, m[p].details)
            /\ m[p].details # None => m[p].details.crc <= ReadDetails(counters[p].details).crc
  PROVE  SnmpInv' /\ Grows
<1>1. TypeOK /\ DueInv /\ TogetherInv
  BY DEF SnmpInv
<1>2. /\ metrics' = m /\ m # None /\ shown \in [Ports -> PortMetrics]
      /\ shown' = m \/ shown' = shown
      /\ shown' \in [Ports -> PortMetrics] /\ shown' # None
      /\ health' \in {"ok", "degraded"} /\ HealthyIsCurrent'
      /\ walk' \in WalkType /\ DueInv'
  BY <1>1, PublishIs
<1>3. TypeOK' /\ TogetherInv'
  BY <1>1, <1>2, SwitchStays DEF TypeOK, WalkType, Rows
<1>4. AgeInv'
  <2> SUFFICES ASSUME ~reset', NEW p \in Ports
               PROVE  /\ UpTo(m[p].summary, counters[p].summary)
                      /\ m[p].details # None =>
                           m[p].details.crc <= ReadDetails(counters[p].details).crc
                      /\ UpTo(shown'[p].summary, m[p].summary)
                      /\ DetailsUpTo(shown'[p].details, m[p].details)
    BY <1>2 DEF AgeInv, switchVars
  <2> DEFINE Numbered(x) == /\ x.summary.good \in Int /\ x.summary.bad \in Int
                            /\ x.details # None => x.details.crc \in Int
  <2>1. \A x \in PortMetrics : Numbered(x)
    BY DEF PortMetrics, Summary, Counter, Details
  <2>2. metrics \in [Ports -> PortMetrics]
    BY <1>1 DEF TypeOK
  <2>3. Numbered(shown[p]) /\ Numbered(metrics[p]) /\ Numbered(m[p])
    BY <1>2, <2>1, <2>2
  <2>4. /\ UpTo(shown[p].summary, metrics[p].summary)
        /\ DetailsUpTo(shown[p].details, metrics[p].details)
    BY DEF SnmpInv, AgeInv
  <2>5. /\ UpTo(metrics[p].summary, m[p].summary)
        /\ DetailsUpTo(metrics[p].details, m[p].details)
    OBVIOUS
  <2>6. /\ UpTo(shown[p].summary, m[p].summary)
        /\ DetailsUpTo(shown[p].details, m[p].details)
    BY <2>3, <2>4, <2>5 DEF UpTo, DetailsUpTo
  <2>7. /\ UpTo(m[p].summary, m[p].summary)
        /\ DetailsUpTo(m[p].details, m[p].details)
    BY <2>3 DEF UpTo, DetailsUpTo
  <2> QED
    BY <1>2, <2>6, <2>7
<1>5. Grows
  <2> SUFFICES ASSUME ~reset', NEW p \in Ports
               PROVE  /\ UpTo(shown[p].summary, shown'[p].summary)
                      /\ DetailsUpTo(shown[p].details, shown'[p].details)
    BY DEF Grows
  <2> DEFINE Numbered(x) == /\ x.summary.good \in Int /\ x.summary.bad \in Int
                            /\ x.details # None => x.details.crc \in Int
  <2>1. \A x \in PortMetrics : Numbered(x)
    BY DEF PortMetrics, Summary, Counter, Details
  <2>2. metrics \in [Ports -> PortMetrics]
    BY <1>1 DEF TypeOK
  <2>3. Numbered(shown[p]) /\ Numbered(metrics[p]) /\ Numbered(m[p])
    BY <1>2, <2>1, <2>2
  <2>4. /\ UpTo(shown[p].summary, metrics[p].summary)
        /\ DetailsUpTo(shown[p].details, metrics[p].details)
        /\ UpTo(metrics[p].summary, m[p].summary)
        /\ DetailsUpTo(metrics[p].details, m[p].details)
    BY DEF SnmpInv, AgeInv
  <2>5. /\ UpTo(shown[p].summary, m[p].summary) /\ UpTo(shown[p].summary, shown[p].summary)
        /\ DetailsUpTo(shown[p].details, m[p].details)
        /\ DetailsUpTo(shown[p].details, shown[p].details)
    BY <2>3, <2>4 DEF UpTo, DetailsUpTo
  <2> QED
    BY <1>2, <2>5
<1> QED
  BY <1>2, <1>3, <1>4, <1>5 DEF SnmpInv

----------------------------------------------------------------------------
(* The loops. *)

LEMMA PagesType ==
  ASSUME TypeOK
  PROVE  /\ SummaryPage \in [Ports -> Summary] /\ NoSummary \in [Ports -> Summary]
         /\ \A p \in Ports : counters[p].details \in DetailPage
         /\ \A p \in Ports : SummaryPage[p] = counters[p].summary
BY SilentTypes DEF TypeOK, SummaryPage

LEMMA SummaryPollKeeps ==
  ASSUME SnmpInv, SummaryPoll
  PROVE  SnmpInv' /\ Grows
<1>1. /\ TypeOK /\ metrics # None /\ metrics \in [Ports -> PortMetrics]
      /\ reading = None /\ UNCHANGED <<switchVars, reading, detail_port>>
  BY DEF SummaryPoll, LockFree, SnmpInv, TypeOK
<1>2. PICK page \in {SummaryPage, NoSummary} :
        /\ Answers(page, SummaryPage)
        /\ Publish([p \in Ports |->
                       [summary |-> page[p], details |-> TakenOver(metrics[p].details)]])
  BY DEF SummaryPoll
<1> DEFINE m == [p \in Ports |-> [summary |-> page[p], details |-> metrics[p].details]]
<1>3. m \in [Ports -> PortMetrics] /\ Publish(m)
  BY <1>1, <1>2, PagesType DEF PortMetrics, TakenOver
<1>4. /\ faults' \in 0..MaxFaults /\ reset' \in BOOLEAN
      /\ ~reset' => page = SummaryPage /\ ~reset
  BY <1>1, <1>2, AnswersIs
<1>5. ASSUME ~reset', NEW p \in Ports
      PROVE  /\ UpTo(metrics[p].summary, m[p].summary) /\ UpTo(m[p].summary, counters[p].summary)
             /\ DetailsUpTo(metrics[p].details, m[p].details)
             /\ m[p].details # None =>
                  m[p].details.crc <= ReadDetails(counters[p].details).crc
  <2>1. m[p].summary = counters[p].summary /\ m[p].details = metrics[p].details
    BY <1>1, <1>4, <1>5, PagesType
  <2>2. /\ counters[p].summary.good \in Int /\ counters[p].summary.bad \in Int
        /\ metrics[p].details # None => metrics[p].details.crc \in Int
    BY <1>1 DEF TypeOK, Summary, Counter, PortMetrics, Details
  <2> HIDE DEF m
  <2> QED
    BY <1>1, <1>4, <1>5, <2>1, <2>2 DEF SnmpInv, AgeInv, UpTo, DetailsUpTo
<1> HIDE DEF m
<1> QED
  BY <1>1, <1>3, <1>4, <1>5, PollKeeps DEF TypeOK

LEMMA DetailBeginsKeeps ==
  ASSUME SnmpInv, DetailBegins
  PROVE  SnmpInv'
<1>1. /\ TypeOK /\ DueInv /\ TogetherInv
      /\ UNCHANGED <<switchVars, metrics, detail_port, shown, health, walk>>
  BY DEF DetailBegins, SnmpInv
<1>2. PICK page \in {SummaryPage, NoSummary} : Answers(page, SummaryPage) /\ reading' = page
  BY DEF DetailBegins
<1>3. /\ faults' \in 0..MaxFaults /\ reset' \in BOOLEAN
      /\ ~reset' => page = SummaryPage /\ ~reset
  BY <1>1, <1>2, AnswersIs
<1>4. reading' \in [Ports -> Summary]
  BY <1>1, <1>2, PagesType
<1>5. TypeOK' /\ TogetherInv' /\ DueInv' /\ HealthyIsCurrent'
  BY <1>1, <1>3, <1>4, SwitchStays, WalkStays
  DEF TypeOK, SnmpInv, HealthyIsCurrent
<1>6. AgeInv'
  <2> SUFFICES ASSUME ~reset', NEW p \in Ports
               PROVE  /\ UpTo(reading'[p], counters[p].summary)
                      /\ metrics # None => UpTo(metrics[p].summary, reading'[p])
    BY <1>1, <1>3 DEF AgeInv, SnmpInv, switchVars
  <2>1. reading'[p] = counters[p].summary
    BY <1>1, <1>2, <1>3, PagesType
  <2>2. counters[p].summary.good \in Int /\ counters[p].summary.bad \in Int
    BY <1>1 DEF TypeOK, Summary, Counter
  <2> QED
    BY <1>3, <2>1, <2>2 DEF SnmpInv, AgeInv, UpTo
<1> QED
  BY <1>5, <1>6 DEF SnmpInv

LEMMA DetailPollKeeps ==
  ASSUME SnmpInv, DetailPoll
  PROVE  SnmpInv' /\ Grows
<1>1. /\ TypeOK /\ metrics # None /\ metrics \in [Ports -> PortMetrics]
      /\ reading # None /\ reading \in [Ports -> Summary] /\ reading' = None
      /\ detail_port \in Ports /\ UNCHANGED switchVars
  BY DEF DetailPoll, SnmpInv, TypeOK
<1> DEFINE at == detail_port
<1>2. PICK page \in {counters[at].details, NoneSeen} :
        /\ Answers(page, counters[at].details)
        /\ Publish([metrics EXCEPT ![at] =
                       [summary |-> reading[at], details |-> ReadDetails(page)]])
  BY DEF DetailPoll
<1> DEFINE m == [metrics EXCEPT ![at] = [summary |-> reading[at], details |-> ReadDetails(page)]]
<1>3. m \in [Ports -> PortMetrics] /\ Publish(m)
  <2>1. page \in DetailPage
    BY <1>1, <1>2, PagesType, SilentTypes
  <2> QED
    BY <1>1, <1>2, <2>1, DetailsType DEF PortMetrics
<1>4. /\ faults' \in 0..MaxFaults /\ reset' \in BOOLEAN
      /\ ~reset' => page = counters[at].details /\ ~reset
  BY <1>1, <1>2, AnswersIs
<1>5. detail_port' \in Ports
  <2>1. detail_port' = (detail_port % PortCount) + 1
    BY DEF DetailPoll, NextPort
  <2> QED
    BY <1>1, <2>1, SnmpConstants DEF Ports
<1>6. ASSUME ~reset', NEW p \in Ports
      PROVE  /\ UpTo(metrics[p].summary, m[p].summary) /\ UpTo(m[p].summary, counters[p].summary)
             /\ DetailsUpTo(metrics[p].details, m[p].details)
             /\ m[p].details # None =>
                  m[p].details.crc <= ReadDetails(counters[p].details).crc
  <2>1. /\ UpTo(reading[p], counters[p].summary)
        /\ UpTo(metrics[p].summary, counters[p].summary)
        /\ UpTo(metrics[p].summary, reading[p])
        /\ metrics[p].details # None =>
             metrics[p].details.crc <= ReadDetails(counters[p].details).crc
    BY <1>1, <1>4, <1>6 DEF SnmpInv, AgeInv
  <2>2. /\ metrics[p].summary.good \in Int /\ metrics[p].summary.bad \in Int
        /\ metrics[p].details # None => metrics[p].details.crc \in Int
    BY <1>1 DEF Summary, Counter, PortMetrics, Details
  <2>3. ReadDetails(counters[p].details) \in Details
    BY <1>1, PagesType, DetailsType
  <2>4. CASE p = at
    <3>1. m[p] = [summary |-> reading[p], details |-> ReadDetails(counters[p].details)]
      BY <1>1, <1>4, <1>6, <2>4
    <3>2. ReadDetails(counters[p].details) # None
      BY <2>3, NoneIsApart
    <3>3. ReadDetails(counters[p].details).crc \in Int
      BY <2>3 DEF Details
    <3> HIDE DEF m
    <3> QED
      BY <2>1, <2>2, <3>1, <3>2, <3>3 DEF UpTo, DetailsUpTo
  <2>5. CASE p # at
    <3>1. m[p] = metrics[p]
      BY <1>1, <2>5
    <3> HIDE DEF m
    <3> QED
      BY <2>1, <2>2, <3>1 DEF UpTo, DetailsUpTo
  <2> HIDE DEF m
  <2> QED
    BY <2>4, <2>5
<1> HIDE DEF m
<1> QED
  BY <1>1, <1>3, <1>4, <1>5, <1>6, PollKeeps

LEMMA StartKeeps ==
  ASSUME SnmpInv, Start
  PROVE  SnmpInv'
<1>1. /\ TypeOK /\ DueInv /\ TogetherInv /\ metrics = None /\ shown = None
      /\ reading \in [Ports -> Summary] /\ reading' = None
      /\ UNCHANGED <<switchVars, detail_port>> /\ 1 \in Ports
  BY SnmpConstants DEF Start, SnmpInv, TypeOK, Ports
<1> DEFINE M(page) == [WithoutDetails(reading) EXCEPT ![1].details = ReadDetails(page)]
<1>2. PICK page \in {counters[1].details, NoneSeen} :
        /\ Answers(page, counters[1].details)
        /\ IF Fits(M(page))
           THEN metrics' = M(page) /\ Rebuilt(M(page)) /\ health' = "ok"
           ELSE UNCHANGED <<metrics, shown, walk, health>>
  BY DEF Start
<1> DEFINE m == M(page)
<1>3. /\ faults' \in 0..MaxFaults /\ reset' \in BOOLEAN
      /\ ~reset' => page = counters[1].details /\ ~reset
  BY <1>1, <1>2, AnswersIs
<1>4. page \in DetailPage
  BY <1>1, <1>2, PagesType, SilentTypes
<1>5. m = [p \in Ports |-> [summary |-> reading[p],
                           details |-> IF p = 1 THEN ReadDetails(page) ELSE None]]
  <2> DEFINE bare == WithoutDetails(reading)
             d == ReadDetails(page)
  <2>1. bare = [p \in Ports |-> [summary |-> reading[p], details |-> None]]
    BY DEF WithoutDetails
  <2>2. m = [bare EXCEPT ![1] = [bare[1] EXCEPT !.details = d]]
    OBVIOUS
  <2>3. [bare[1] EXCEPT !.details = d] = [summary |-> reading[1], details |-> d]
    <3> HIDE DEF d
    <3> QED
      BY <1>1, <2>1
  <2> HIDE DEF m, M, bare, d
  <2>4. m = [p \in Ports |-> [summary |-> reading[p], details |-> IF p = 1 THEN d ELSE None]]
    BY <1>1, <2>1, <2>2, <2>3
  <2> QED
    BY <2>4 DEF d
<1>6. m \in [Ports -> PortMetrics] /\ m # None
  <2>1. m \in [Ports -> PortMetrics]
    <3> HIDE DEF m, M
    <3> QED
      BY <1>1, <1>4, <1>5, DetailsType DEF PortMetrics
  <2> HIDE DEF m, M
  <2> QED
    BY <2>1, NoneIsApart
<1>7. CASE Fits(m)
  <2>1. metrics' = m /\ Rebuilt(m) /\ health' = "ok"
    BY <1>2, <1>7
  <2>2. shown' = m /\ walk' \in WalkType /\ DueInv'
    <3> HIDE DEF m, M
    <3> QED
      BY <1>1, <2>1, RebuiltIs
  <2>3. TypeOK' /\ TogetherInv' /\ HealthyIsCurrent'
    <3> HIDE DEF m, M
    <3> QED
      BY <1>1, <1>3, <1>6, <2>1, <2>2, SwitchStays DEF TypeOK, WalkType, Rows, HealthyIsCurrent
  <2>4. AgeInv'
    <3> SUFFICES ASSUME ~reset', NEW p \in Ports
                 PROVE  /\ UpTo(m[p].summary, counters[p].summary)
                        /\ m[p].details # None =>
                             m[p].details.crc <= ReadDetails(counters[p].details).crc
                        /\ UpTo(m[p].summary, m[p].summary)
                        /\ DetailsUpTo(m[p].details, m[p].details)
      BY <1>1, <2>1, <2>2 DEF AgeInv, switchVars
    <3>1. m[p].summary = reading[p] /\ (m[p].details # None => p = 1)
      <4> HIDE DEF m, M
      <4> QED
        BY <1>5
    <3>2. p = 1 => m[p].details = ReadDetails(counters[p].details)
      <4> HIDE DEF m, M
      <4> QED
        BY <1>3, <1>5
    <3>3. UpTo(reading[p], counters[p].summary)
      BY <1>1, <1>3, NoneIsApart DEF SnmpInv, AgeInv
    <3>4. reading[p].good \in Int /\ reading[p].bad \in Int
      BY <1>1 DEF Summary, Counter
    <3>5. ReadDetails(counters[p].details).crc \in Int
      BY <1>1, PagesType, DetailsType DEF Details
    <3> HIDE DEF m, M
    <3> QED
      BY <3>1, <3>2, <3>3, <3>4, <3>5 DEF UpTo, DetailsUpTo
  <2> QED
    BY <2>2, <2>3, <2>4 DEF SnmpInv
<1>8. CASE ~Fits(m)
  <2>1. UNCHANGED <<metrics, shown, walk, health>>
    BY <1>2, <1>8
  <2>2. TypeOK' /\ TogetherInv' /\ DueInv' /\ HealthyIsCurrent' /\ AgeInv'
    <3> HIDE DEF m, M
    <3> QED
      BY <1>1, <1>3, <2>1, SwitchStays, WalkStays DEF TypeOK, HealthyIsCurrent, AgeInv
  <2> QED
    BY <2>2 DEF SnmpInv
<1> QED
  BY <1>7, <1>8

LEMMA PollFailsKeeps ==
  ASSUME SnmpInv, PollFails
  PROVE  SnmpInv'
<1>1. /\ TypeOK /\ DueInv /\ TogetherInv /\ reading' = None
      /\ UNCHANGED <<switchVars, metrics, detail_port, shown, walk, reset>>
      /\ health' = IF metrics = None THEN health ELSE "degraded"
  BY DEF PollFails, SnmpInv
<1>2. faults' \in 0..MaxFaults
  BY SnmpConstants DEF PollFails, Happens, SnmpInv, TypeOK
<1>3. TypeOK' /\ TogetherInv' /\ DueInv' /\ HealthyIsCurrent'
  BY <1>1, <1>2, SwitchStays, WalkStays DEF TypeOK, HealthyIsCurrent
<1>4. AgeInv'
  BY <1>1 DEF SnmpInv, AgeInv, switchVars
<1> QED
  BY <1>3, <1>4 DEF SnmpInv

LEMMA DieKeeps ==
  ASSUME SnmpInv, Die
  PROVE  SnmpInv'
<1>1. /\ TypeOK /\ DueInv /\ TogetherInv
      /\ metrics' = None /\ reading' = None /\ detail_port' = 1 /\ shown' = None
      /\ UNCHANGED <<switchVars, health, walk, reset>> /\ 1 \in Ports
  BY SnmpConstants DEF Die, SnmpInv, Ports
<1>2. faults' \in 0..MaxFaults
  BY SnmpConstants DEF Die, Happens, SnmpInv, TypeOK
<1>3. TypeOK' /\ TogetherInv' /\ DueInv' /\ HealthyIsCurrent'
  BY <1>1, <1>2, SwitchStays DEF TypeOK, HealthyIsCurrent, DueInv
<1>4. AgeInv'
  BY <1>1 DEF AgeInv
<1> QED
  BY <1>3, <1>4 DEF SnmpInv

(* The switch counts on, or from zero again. *)
LEMMA SwitchKeeps ==
  ASSUME SnmpInv, Packet \/ Reboot
  PROVE  SnmpInv'
<1>1. TypeOK /\ DueInv /\ TogetherInv /\ UNCHANGED <<pollVars, walk>>
  BY DEF Packet, Reboot, SnmpInv
<1>2. CASE Packet
  <2>1. faults' = faults /\ packets' \in 0..MaxPackets
    <3>1. packets < MaxPackets /\ packets' = packets + 1 /\ faults' = faults
      BY <1>2, Zenon DEF Packet
    <3> QED
      BY <1>1, <3>1, SnmpConstants DEF TypeOK
  <2>2. /\ counters' \in [Ports -> SwitchCounters]
        /\ TogetherInv'
        /\ reset' \in BOOLEAN /\ (reset => reset')
        /\ ~reset' => \A p \in Ports :
             /\ UpTo(counters[p].summary, counters'[p].summary)
             /\ ReadDetails(counters[p].details).crc <= ReadDetails(counters'[p].details).crc
    BY <1>1, <1>2, PacketIs
  <2>3. TypeOK' /\ DueInv' /\ HealthyIsCurrent'
    BY <1>1, <2>1, <2>2, WalkStays
    DEF TypeOK, SnmpInv, HealthyIsCurrent, SwitchCounters, pollVars
  <2>4. AgeInv'
    <3> SUFFICES ASSUME ~reset', NEW p \in Ports
                 PROVE  /\ reading # None => UpTo(reading[p], counters'[p].summary)
                        /\ metrics # None =>
                             /\ UpTo(metrics[p].summary, counters'[p].summary)
                             /\ metrics[p].details # None =>
                                  metrics[p].details.crc <= ReadDetails(counters'[p].details).crc
      BY <1>1, <2>2 DEF SnmpInv, AgeInv, pollVars
    <3>1. /\ UpTo(counters[p].summary, counters'[p].summary)
          /\ ReadDetails(counters[p].details).crc <= ReadDetails(counters'[p].details).crc
      BY <2>2
    <3>2. /\ counters[p].summary \in Summary /\ counters'[p].summary \in Summary
          /\ ReadDetails(counters[p].details) \in Details
          /\ ReadDetails(counters'[p].details) \in Details
          /\ reading # None => reading[p] \in Summary
          /\ metrics # None => metrics[p] \in PortMetrics
      BY <1>1, <2>2, DetailsType DEF TypeOK, SwitchCounters
    <3>3. \A x \in Summary : x.good \in Int /\ x.bad \in Int
      BY DEF Summary, Counter
    <3>4. \A x \in Details : x.crc \in Int
      BY DEF Details
    <3>5. \A x \in PortMetrics : x.summary \in Summary /\ x.details \in Details \cup {None}
      BY DEF PortMetrics
    <3>6. /\ reading # None => UpTo(reading[p], counters[p].summary)
          /\ metrics # None =>
               /\ UpTo(metrics[p].summary, counters[p].summary)
               /\ metrics[p].details # None =>
                    metrics[p].details.crc <= ReadDetails(counters[p].details).crc
      BY <2>2 DEF SnmpInv, AgeInv
    <3> QED
      BY <3>1, <3>2, <3>3, <3>4, <3>5, <3>6 DEF UpTo
  <2> QED
    BY <2>2, <2>3, <2>4 DEF SnmpInv
<1>3. CASE Reboot
  <2>1. faults' \in 0..MaxFaults /\ reset' = TRUE /\ packets' = packets
    BY <1>1, <1>3, SnmpConstants DEF Reboot, Happens, TypeOK
  <2>2. counters' = [p \in Ports |-> [summary |-> Silent, details |-> NoneSeen]]
    BY <1>3 DEF Reboot
  <2>3. TogetherInv' /\ counters' \in [Ports -> [summary : Summary, details : DetailPage]]
    BY <2>2, SilentTypes DEF TogetherInv, Silent, NoneSeen
  <2>4. reset' \in BOOLEAN
    BY <2>1, Zenon
  <2>5. TypeOK' /\ DueInv' /\ HealthyIsCurrent'
    BY <1>1, <2>1, <2>3, <2>4, WalkStays DEF TypeOK, SnmpInv, HealthyIsCurrent, pollVars
  <2>6. AgeInv'
    BY <2>1 DEF AgeInv
  <2> QED
    BY <2>3, <2>5, <2>6 DEF SnmpInv
<1> QED
  BY <1>2, <1>3

----------------------------------------------------------------------------
(* The manager.                                                            *)

LEMMA ManagerKeeps ==
  ASSUME SnmpInv, walk' \in WalkType, DueInv', UNCHANGED <<switchVars, pollVars, faults, reset>>
  PROVE  SnmpInv'
<1>1. TypeOK /\ TogetherInv
  BY DEF SnmpInv
<1>2. TypeOK' /\ TogetherInv' /\ HealthyIsCurrent' /\ AgeInv'
  BY <1>1, SwitchStays
  DEF SnmpInv, TypeOK, WalkType, Rows, HealthyIsCurrent, AgeInv, switchVars, pollVars
<1> QED
  BY <1>2 DEF SnmpInv

LEMMA NoWalkType == NoWalk \in WalkType
BY SnmpConstants DEF NoWalk, WalkType

LEMMA BeginWalkKeeps ==
  ASSUME SnmpInv, BeginWalk
  PROVE  SnmpInv'
<1>1. UNCHANGED <<switchVars, pollVars, faults, reset>> /\ shown' = shown
  BY DEF BeginWalk, pollVars
<1>2. PICK n \in 1..MaxRepetitions :
        walk' = [NoWalk EXCEPT !.going = TRUE, !.n = n, !.due = Oids(shown)]
  BY DEF BeginWalk
<1>3. walk' = [going |-> TRUE, n |-> n, at |-> <<0, 0>>, due |-> Oids(shown)]
  BY <1>2 DEF NoWalk
<1>4. walk' \in WalkType
  BY <1>3, OidsAreRows, SnmpConstants DEF WalkType
<1>5. \A o \in Rows : Before(<<0, 0>>, o)
  BY DEF Before, Rows
<1>6. DueInv'
  <2>1. walk'.going /\ walk'.due = Oids(shown) /\ walk'.at = <<0, 0>>
    BY <1>3
  <2> QED
    BY <1>1, <1>5, <2>1, OidsAreRows DEF DueInv
<1> QED
  BY <1>1, <1>4, <1>6, ManagerKeeps

(* A reply brings the manager up to the last row of it, and passes over    *)
(* none; the last reply has all that is left.                              *)
LEMMA GetBulkKeeps ==
  ASSUME SnmpInv, GetBulk
  PROVE  SnmpInv'
<1> DEFINE F == Following(shown, walk.at)
           new == FirstOf(walk.n, F)
           due == walk.due \ new
<1>1. /\ walk \in WalkType /\ shown # None /\ shown' = shown
      /\ UNCHANGED <<switchVars, pollVars, faults, reset>>
  BY DEF GetBulk, SnmpInv, TypeOK, WalkType, Rows, pollVars
<1>2. walk' = IF Cardinality(new) = walk.n
              THEN [walk EXCEPT !.at = LastOf(new), !.due = due]
              ELSE [NoWalk EXCEPT !.due = due]
  BY DEF GetBulk
<1>3. F \in SUBSET Rows /\ walk.n \in Nat \ {0}
  BY <1>1, OidsAreRows, SnmpConstants DEF Following, WalkType
<1>4. walk.due \subseteq F
  BY <1>1, OidsAreRows DEF SnmpInv, DueInv, Following
<1>5. /\ new \subseteq F
      /\ \A o \in F \ new : \A q \in new : Before(q, o)
      /\ F # new => Cardinality(new) = walk.n
  <2> HIDE DEF F
  <2> QED
    BY <1>3, FirstOfIs
<1>6. due \in SUBSET Rows
  BY <1>1 DEF WalkType
<1>7. CASE Cardinality(new) = walk.n
  <2> HIDE DEF F, new, due
  <2>1. new # {}
    BY <1>3, <1>7, FS_EmptySet
  <2>2. LastOf(new) \in new
    BY <1>3, <1>5, <2>1, HasLast
  <2>3. LastOf(new) \in (0..5) \X (0..PortCount)
    <3>1. LastOf(new) \in Rows
      BY <1>3, <1>5, <2>2
    <3> QED
      BY <3>1 DEF Rows
  <2>4. walk' = [walk EXCEPT !.at = LastOf(new), !.due = due]
    BY <1>2, <1>7
  <2>5. /\ walk' \in WalkType /\ walk'.going = walk.going
        /\ walk'.at = LastOf(new) /\ walk'.due = due
    BY <1>1, <1>6, <2>3, <2>4 DEF WalkType
  <2>6. \A o \in due : Before(LastOf(new), o) /\ o \in Oids(shown)
    BY <1>4, <1>5, <2>2 DEF due, F, Following
  <2>7. ~walk.going => due = {}
    BY DEF SnmpInv, DueInv, due
  <2>8. DueInv'
    BY <1>1, <2>5, <2>6, <2>7 DEF DueInv
  <2> QED
    BY <1>1, <2>5, <2>8, ManagerKeeps
<1>8. CASE Cardinality(new) # walk.n
  <2>1. due = {}
    <3> HIDE DEF F, new
    <3> QED
      BY <1>4, <1>5, <1>8
  <2> HIDE DEF F, new, due
  <2>2. walk' = NoWalk
    BY <1>2, <1>8, <2>1 DEF NoWalk
  <2>3. DueInv' /\ walk' \in WalkType
    BY <2>2, NoWalkType DEF DueInv, NoWalk
  <2> QED
    BY <1>1, <2>3, ManagerKeeps
<1> QED
  BY <1>7, <1>8

LEMMA GiveUpKeeps ==
  ASSUME SnmpInv, GiveUp
  PROVE  SnmpInv'
<1>1. walk' = NoWalk /\ UNCHANGED <<switchVars, pollVars, faults, reset>>
  BY DEF GiveUp
<1>2. DueInv' /\ walk' \in WalkType
  BY <1>1, NoWalkType DEF DueInv, NoWalk
<1> QED
  BY <1>1, <1>2, ManagerKeeps

----------------------------------------------------------------------------
(* All steps. *)

LEMMA SnmpInvariant == Spec => []SnmpInv
<1>1. Init => SnmpInv
  <2> SUFFICES ASSUME Init
               PROVE  SnmpInv
    OBVIOUS
  <2>1. /\ counters \in [Ports -> [summary : Summary, details : DetailPage]]
        /\ reset \in BOOLEAN /\ 1 \in Ports /\ 0 \in 0..MaxPackets /\ 0 \in 0..MaxFaults
    <3>1. reset \in BOOLEAN
      BY Zenon DEF Init
    <3>2. 1 \in Ports /\ 0 \in 0..MaxPackets /\ 0 \in 0..MaxFaults
      BY SnmpConstants DEF Ports
    <3> QED
      BY <3>1, <3>2, SilentTypes DEF Init
  <2>2. TypeOK
    BY <2>1, NoWalkType DEF Init, TypeOK, WalkType, Rows
  <2>3. DueInv /\ HealthyIsCurrent /\ AgeInv
    BY DEF Init, DueInv, NoWalk, HealthyIsCurrent, AgeInv
  <2>4. TogetherInv
    BY DEF Init, TogetherInv, Silent, NoneSeen
  <2> QED
    BY <2>2, <2>3, <2>4 DEF SnmpInv
<1>2. SnmpInv /\ [Next]_vars => SnmpInv'
  <2> SUFFICES ASSUME SnmpInv, [Next]_vars
               PROVE  SnmpInv'
    OBVIOUS
  <2>1. CASE UNCHANGED vars
    <3>1. UNCHANGED <<switchVars, pollVars, faults, reset>> /\ UNCHANGED <<shown, walk>>
      BY <2>1 DEF vars, pollVars
    <3> QED
      BY <3>1, WalkStays, ManagerKeeps DEF SnmpInv
  <2>2. CASE Next
    BY <2>2, SwitchKeeps, SummaryPollKeeps, DetailBeginsKeeps, DetailPollKeeps, StartKeeps,
       PollFailsKeeps, DieKeeps, BeginWalkKeeps, GetBulkKeeps, GiveUpKeeps
    DEF Next, DetailLoop, Walk
  <2> QED
    BY <2>1, <2>2
<1> QED
  BY <1>1, <1>2, PTL DEF Spec

----------------------------------------------------------------------------
(* What SNMP promises.                                                     *)

(* Readings, metrics, the tree and the walk keep their types: no counter   *)
(* leaves its width, and there is a tree whenever there are metrics.       *)
THEOREM SnmpTypeCorrect == Spec => []TypeOK
BY SnmpInvariant, PTL DEF SnmpInv

(* health.json does not say "ok" over a tree that could not be rebuilt.    *)
THEOREM HealthIsTrue == Spec => []HealthyIsCurrent
BY SnmpInvariant, PTL DEF SnmpInv

(* A GETNEXT or GETBULK walk that has come to its end has found every OID  *)
(* that was in the tree all the while, however often the pollers replaced  *)
(* it in between, and however many OIDs a reply may hold.                  *)
THEOREM WalkIsComplete == Spec => []WalkFindsAll
<1>1. SnmpInv => WalkFindsAll
  BY DEF SnmpInv, DueInv, WalkFindsAll
<1> QED
  BY <1>1, SnmpInvariant, PTL

LEMMA ValueIs ==
  ASSUME NEW m, NEW oid
  PROVE  /\ oid[1] = ifNumber => Value(m, oid) = PortCount
         /\ oid[1] = ifInUcastPkts => Value(m, oid) = 0
         /\ oid[1] = ifInErrors /\ m[oid[2]].summary.bad # 0 => Value(m, oid) = m[oid[2]].summary.bad
         /\ oid[1] = etherStatsPkts =>
              Value(m, oid) = m[oid[2]].summary.good + m[oid[2]].summary.bad
         /\ oid[1] = etherStatsCRCAlignErrors => Value(m, oid) = m[oid[2]].details.crc
BY DEF Value, ifNumber, ifInUcastPkts, ifInErrors, etherStatsPkts, etherStatsCRCAlignErrors

LEMMA TreeGrows ==
  ASSUME SnmpInv, [Next]_vars, shown # None, shown' # None
  PROVE  Grows
<1>1. CASE SummaryPoll \/ DetailPoll
  BY <1>1, SummaryPollKeeps, DetailPollKeeps
<1>2. CASE shown' = shown
  <2>1. \A p \in Ports : shown[p] \in PortMetrics
    BY DEF SnmpInv, TypeOK
  <2>2. \A x \in PortMetrics : /\ x.summary.good \in Int /\ x.summary.bad \in Int
                               /\ x.details # None => x.details.crc \in Int
    BY DEF PortMetrics, Summary, Counter, Details
  <2> QED
    BY <1>2, <2>1, <2>2 DEF Grows, UpTo, DetailsUpTo
<1>3. CASE Start
  BY <1>3 DEF Start, SnmpInv, TypeOK
<1>4. SummaryPoll \/ DetailPoll \/ shown' = shown \/ Start
  BY DEF Next, DetailLoop, Walk, Packet, Reboot, DetailBegins, PollFails, Die, BeginWalk, GetBulk,
     GiveUp, vars, pollVars
<1> QED
  BY <1>1, <1>2, <1>3, <1>4

(* No counter that SNMP shows goes back by the doing of the daemon: the    *)
(* two loops, the details taken over and the trees that do not fit never   *)
(* put an older reading in the place of a newer one.                       *)
THEOREM CountersOnlyGrow == Spec => CountersNeverRegress
<1>1. SnmpInv /\ SnmpInv' /\ [Next]_vars =>
        [shown # None /\ shown' # None /\ ~reset' =>
           \A oid \in (Oids(shown) \cap Oids(shown')) \ Borrowed(shown) :
             Value(shown', oid) >= Value(shown, oid)]_vars
  <2> SUFFICES ASSUME SnmpInv, SnmpInv', [Next]_vars, shown # None, shown' # None, ~reset',
                      NEW oid \in (Oids(shown) \cap Oids(shown')) \ Borrowed(shown)
               PROVE  Value(shown', oid) >= Value(shown, oid)
    OBVIOUS
  <2>1. shown \in [Ports -> PortMetrics] /\ shown' \in [Ports -> PortMetrics]
    BY DEF SnmpInv, TypeOK
  <2> DEFINE p == oid[2]
             k == oid[1]
  <2>2. CASE k = ifNumber
    BY <2>2, ValueIs, SnmpConstants
  <2>3. CASE k # ifNumber
    <3>1. p \in Ports /\ k \in {2, 3, 4, 5}
      BY <2>3 DEF Oids, PortColumns, DetailColumns, ifNumber, ifInUcastPkts, ifInErrors,
         etherStatsPkts, etherStatsCRCAlignErrors
    <3>2. k \in DetailColumns => shown[p].details # None /\ shown'[p].details # None
      BY <2>3 DEF Oids, PortColumns, DetailColumns, ifNumber, ifInUcastPkts, ifInErrors,
         etherStatsPkts, etherStatsCRCAlignErrors
    <3>3. k = ifInErrors => shown[p].summary.bad # 0
      <4>1. oid = <<k, p>>
        BY DEF Oids
      <4> QED
        BY <3>1, <4>1 DEF Borrowed
    <3>4. \A x \in PortMetrics : /\ x.summary.good \in Nat /\ x.summary.bad \in Nat
                                 /\ x.details # None => x.details.crc \in Nat
      BY DEF PortMetrics, Summary, Counter, Details
    <3>5. /\ UpTo(shown[p].summary, shown'[p].summary)
          /\ DetailsUpTo(shown[p].details, shown'[p].details)
      BY <3>1, TreeGrows DEF Grows
    <3>6. shown[p] \in PortMetrics /\ shown'[p] \in PortMetrics
      BY <2>1, <3>1
    <3> DEFINE s == shown[p].summary
               t == shown'[p].summary
    <3>7. /\ s.good \in Nat /\ s.bad \in Nat /\ t.good \in Nat /\ t.bad \in Nat
          /\ s.good <= t.good /\ s.bad <= t.bad
      BY <3>4, <3>5, <3>6 DEF UpTo
    <3> HIDE DEF p, k
    <3>8. CASE k = ifInUcastPkts
      BY <3>8, ValueIs DEF k
    <3>9. CASE k = ifInErrors
      <4>1. Value(shown, oid) = s.bad /\ Value(shown', oid) = t.bad
        BY <3>3, <3>7, <3>9, ValueIs DEF k, p
      <4> QED
        BY <3>7, <4>1
    <3>10. CASE k = etherStatsPkts
      <4>1. Value(shown, oid) = s.good + s.bad /\ Value(shown', oid) = t.good + t.bad
        BY <3>10, ValueIs DEF k, p
      <4> QED
        BY <3>7, <4>1
    <3>11. CASE k = etherStatsCRCAlignErrors
      <4>1. /\ Value(shown, oid) = shown[p].details.crc
            /\ Value(shown', oid) = shown'[p].details.crc
        BY <3>11, ValueIs DEF k, p
      <4>2. shown[p].details # None
        BY <3>2, <3>11 DEF DetailColumns
      <4> QED
        BY <3>4, <3>5, <3>6, <4>1, <4>2 DEF DetailsUpTo
    <3> QED
      BY <3>1, <3>8, <3>9, <3>10, <3>11
      DEF ifInUcastPkts, ifInErrors, etherStatsPkts, etherStatsCRCAlignErrors
  <2> QED
    BY <2>2, <2>3
<1> QED
  BY <1>1, SnmpInvariant, PTL DEF Spec, CountersNeverRegress
=============================================================================
