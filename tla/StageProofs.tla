----------------------------- MODULE StageProofs -----------------------------
(***************************************************************************)
(* Proofs about what the phases of a commit have done and not done yet,    *)
(* and so about what its journal, its backup and its result say; and, at   *)
(* the end, that a commit says of its end what is so.                      *)
(***************************************************************************)
EXTENDS CommitProofs, FiniteSetTheorems

(* The changes of a plan and the parts of a configuration they are about.  *)

(* What a plan would change is not there yet. *)
LEMMA PlannedIsMissing ==
  ASSUME NEW cur \in Config, NEW t \in Config, NEW ch \in Plan(cur, t)
  PROVE  ~Observed(ch, t, cur) \/ (ch.action = "set_management" /\ t.mgmt.dhcp)
<1>1. ASSUME cur.mgmt # t.mgmt, cur.mgmt.vlan = t.mgmt.vlan, cur.mgmt.dhcp = t.mgmt.dhcp,
             Lease(cur.mgmt) = Lease(t.mgmt), cur.mgmt.gateway = t.mgmt.gateway
      PROVE  t.mgmt.dhcp
  <2>1. cur.mgmt \in Management /\ t.mgmt \in Management
    BY DEF Config
  <2>2. cur.mgmt.address # t.mgmt.address
    BY <1>1, <2>1 DEF Management
  <2> QED
    BY <1>1, <2>2 DEF Lease
<1>2. CASE ch = Change(5, "enable_dot1q", None) /\ ~cur.dot1q
  BY <1>2 DEF Change, Observed
<1>3. CASE \E v \in VlanIds(t) : ch = Change(10, "upsert_vlan", v) /\ cur.vlans[v] # t.vlans[v]
  BY <1>3 DEF Change, Observed
<1>4. CASE \E g \in Groups : /\ cur.lags[g] # t.lags[g]
                             /\ \/ ch = Change(20, "delete_lag", g) /\ t.lags[g] = None
                                \/ ch = Change(20, "set_lag", g) /\ t.lags[g] # None
  BY <1>4 DEF Change, Observed
<1>5. CASE \E p \in PortIds : ch = Change(30, "set_port", p) /\ cur.port[p] # t.port[p]
  BY <1>5 DEF Change, Observed
<1>6. CASE \E p \in PortIds : ch = Change(40, "set_pvid", p) /\ cur.pvid[p] # t.pvid[p]
  BY <1>6 DEF Change, Observed
<1>7. CASE ch = Change(45, "set_fallback_ip", None) /\ cur.fallback # t.fallback
  BY <1>7 DEF Change, Observed
<1>8. CASE ch = Change(50, "set_management", None) /\ cur.mgmt # t.mgmt
  BY <1>1, <1>8 DEF Change, Observed
<1>9. CASE \E v \in VlanIds(cur) \ VlanIds(t) : ch = Change(60, "delete_vlan", v)
  BY <1>9 DEF Change, Observed, VlanIds
<1> QED
  BY PlanForms, <1>2, <1>3, <1>4, <1>5, <1>6, <1>7, <1>8, <1>9

(* Part(ch, d): the part of configuration d that change ch is about. *)
Part(ch, d) ==
  CASE ch.action = "enable_dot1q" -> d.dot1q
    [] ch.action \in {"upsert_vlan", "delete_vlan"} -> d.vlans[ch.key]
    [] ch.action \in {"set_lag", "delete_lag"} -> d.lags[ch.key]
    [] ch.action = "set_port" -> d.port[ch.key]
    [] ch.action = "set_pvid" -> d.pvid[ch.key]
    [] ch.action = "set_fallback_ip" -> d.fallback
    [] ch.action = "set_management" -> d.mgmt

(* A change is observed or not by its own part. *)
LEMMA ObservedByPart ==
  ASSUME NEW cur, NEW t, NEW ch \in Plan(cur, t), NEW d, NEW e, Part(ch, d) = Part(ch, e)
  PROVE  Observed(ch, t, d) <=> Observed(ch, t, e)
BY PlanForms DEF Change, Observed, Part

(* The request for one change leaves the parts of the others alone. *)
LEMMA OtherPartsKept ==
  ASSUME NEW cur \in Config, NEW t \in Config, NEW d \in Config,
         NEW c \in Plan(cur, t), NEW ch \in Plan(cur, t), c # ch, NEW e \in Effects(c, t, d)
  PROVE  Part(ch, e) = Part(ch, d)
<1>0. VlanIds(cur) \subseteq Vids /\ VlanIds(t) \subseteq Vids
  BY DEF VlanIds
<1>1. CASE c = Change(5, "enable_dot1q", None)
  <2>1. e = [d EXCEPT !.dot1q = TRUE]
    BY <1>1 DEF Change, Effects
  <2>2. ch.action # "enable_dot1q"
    BY <1>1, PlanForms DEF Change
  <2>3. \/ ch.action \in {"upsert_vlan", "delete_vlan"} /\ Part(ch, e) = e.vlans[ch.key]
           /\ Part(ch, d) = d.vlans[ch.key]
        \/ ch.action \in {"set_lag", "delete_lag"} /\ Part(ch, e) = e.lags[ch.key]
           /\ Part(ch, d) = d.lags[ch.key]
        \/ ch.action = "set_port" /\ Part(ch, e) = e.port[ch.key]
           /\ Part(ch, d) = d.port[ch.key]
        \/ ch.action = "set_pvid" /\ Part(ch, e) = e.pvid[ch.key]
           /\ Part(ch, d) = d.pvid[ch.key]
        \/ ch.action = "set_fallback_ip" /\ Part(ch, e) = e.fallback /\ Part(ch, d) = d.fallback
        \/ ch.action = "set_management" /\ Part(ch, e) = e.mgmt /\ Part(ch, d) = d.mgmt
    BY <2>2, PlanForms DEF Change, Part
  <2> QED
    BY <2>1, <2>3 DEF Config
<1>2. ASSUME NEW v \in VlanIds(t), c = Change(10, "upsert_vlan", v) PROVE Part(ch, e) = Part(ch, d)
  <2>1. e = d \/ e = [d EXCEPT !.vlans[v] = t.vlans[v]]
    BY <1>2 DEF Change, Effects
  <2>2. ch.action \in {"upsert_vlan", "delete_vlan"} => ch.key \in Vids /\ ch.key # v
    BY <1>0, <1>2, PlanForms DEF Change
  <2> QED
    BY <1>2, <2>1, <2>2, PlanForms DEF Change, Part, Config
<1>3. ASSUME NEW g \in Groups,
             \/ c = Change(20, "delete_lag", g) /\ t.lags[g] = None
             \/ c = Change(20, "set_lag", g) /\ t.lags[g] # None
      PROVE  Part(ch, e) = Part(ch, d)
  <2>1. e = [d EXCEPT !.lags[g] = t.lags[g]]
    BY <1>3 DEF Change, Effects
  <2>2. ch.action \in {"set_lag", "delete_lag"} => ch.key \in Groups /\ ch.key # g
    BY <1>3, PlanForms DEF Change
  <2> QED
    BY <1>3, <2>1, <2>2, PlanForms DEF Change, Part, Config
<1>4. ASSUME NEW p \in PortIds, c = Change(30, "set_port", p) PROVE Part(ch, e) = Part(ch, d)
  <2>1. e = [d EXCEPT !.port[p] = t.port[p]]
    BY <1>4 DEF Change, Effects
  <2> QED
    BY <1>4, <2>1, PlanForms DEF Change, Part, Config
<1>5. ASSUME NEW p \in PortIds, c = Change(40, "set_pvid", p) PROVE Part(ch, e) = Part(ch, d)
  <2>1. e = [d EXCEPT !.pvid[p] = t.pvid[p]]
    BY <1>5 DEF Change, Effects
  <2> QED
    BY <1>5, <2>1, PlanForms DEF Change, Part, Config
<1>6. CASE c = Change(45, "set_fallback_ip", None)
  <2>1. e = [d EXCEPT !.fallback = t.fallback]
    BY <1>6 DEF Change, Effects
  <2> QED
    BY <1>6, <2>1, PlanForms DEF Change, Part, Config
<1>7. CASE c = Change(50, "set_management", None)
  <2>1. PICK m \in SwitchedManagement(t.mgmt) : e = [d EXCEPT !.mgmt = m]
    BY <1>7 DEF Change, Effects
  <2> QED
    BY <1>7, <2>1, PlanForms DEF Change, Part, Config
<1>8. ASSUME NEW v \in VlanIds(cur) \ VlanIds(t), c = Change(60, "delete_vlan", v)
      PROVE  Part(ch, e) = Part(ch, d)
  <2>1. e = [d EXCEPT !.vlans[v] = None]
    BY <1>8 DEF Change, Effects
  <2>2. ch.action \in {"upsert_vlan", "delete_vlan"} => ch.key \in Vids /\ ch.key # v
    BY <1>0, <1>8, PlanForms DEF Change
  <2> QED
    BY <1>8, <2>1, <2>2, PlanForms DEF Change, Part, Config
<1> QED
  BY PlanForms, <1>1, <1>2, <1>3, <1>4, <1>5, <1>6, <1>7, <1>8

(* The request for a change that is in effect changes nothing, unless it   *)
(* asks for a lease.                                                       *)
LEMMA RepeatedIsIdle ==
  ASSUME NEW cur \in Config, NEW t \in Config, NEW d \in Config,
         NEW ch \in Plan(cur, t), Observed(ch, t, d), NEW e \in Effects(ch, t, d),
         ~(ch.action = "set_management" /\ t.mgmt.dhcp)
  PROVE  e = d
<1>0. VlanIds(cur) \subseteq Vids /\ VlanIds(t) \subseteq Vids
  BY DEF VlanIds
<1>1. CASE ch = Change(5, "enable_dot1q", None)
  <2>1. e = [d EXCEPT !.dot1q = TRUE]
    BY <1>1 DEF Change, Effects
  <2>2. d.dot1q
    BY <1>1 DEF Change, Observed
  <2>3. d.dot1q = TRUE
    <3>1. d.dot1q \in BOOLEAN
      BY DEF Config
    <3> QED
      BY <2>2, <3>1, Zenon
  <2> QED
    BY <2>1, <2>3 DEF Config
<1>2. ASSUME NEW v \in VlanIds(t), ch = Change(10, "upsert_vlan", v) PROVE e = d
  BY <1>0, <1>2 DEF Change, Observed, Effects, Config
<1>3. ASSUME NEW g \in Groups,
             \/ ch = Change(20, "delete_lag", g) /\ t.lags[g] = None
             \/ ch = Change(20, "set_lag", g) /\ t.lags[g] # None
      PROVE  e = d
  BY <1>3 DEF Change, Observed, Effects, Config
<1>4. ASSUME NEW p \in PortIds, ch = Change(30, "set_port", p) PROVE e = d
  BY <1>4 DEF Change, Observed, Effects, Config
<1>5. ASSUME NEW p \in PortIds, ch = Change(40, "set_pvid", p) PROVE e = d
  BY <1>5 DEF Change, Observed, Effects, Config
<1>6. CASE ch = Change(45, "set_fallback_ip", None)
  BY <1>6 DEF Change, Observed, Effects, Config
<1>7. CASE ch = Change(50, "set_management", None)
  <2>1. e = [d EXCEPT !.mgmt = t.mgmt]
    BY <1>7 DEF Change, Effects, SwitchedManagement
  <2>2. d.mgmt.vlan = t.mgmt.vlan /\ d.mgmt.dhcp = t.mgmt.dhcp
        /\ d.mgmt.address = t.mgmt.address /\ d.mgmt.gateway = t.mgmt.gateway
    BY <1>7 DEF Change, Observed, Lease
  <2>3. d.mgmt \in Management /\ t.mgmt \in Management
    BY DEF Config
  <2>4. d.mgmt = t.mgmt
    BY <2>2, <2>3 DEF Management
  <2> QED
    BY <2>1, <2>4 DEF Config
<1>8. ASSUME NEW v \in VlanIds(cur) \ VlanIds(t), ch = Change(60, "delete_vlan", v) PROVE e = d
  BY <1>0, <1>8 DEF Change, Observed, Effects, Config
<1> QED
  BY PlanForms, <1>1, <1>2, <1>3, <1>4, <1>5, <1>6, <1>7, <1>8

(* So a change in effect stays in effect, and one not sent does not come   *)
(* into effect by itself.                                                  *)
LEMMA EffectAndOthers ==
  ASSUME NEW cur \in Config, NEW t \in Config, NEW d \in Config,
         NEW c \in Plan(cur, t), NEW ch \in Plan(cur, t), NEW e \in Effects(c, t, d),
         ~(ch.action = "set_management" /\ t.mgmt.dhcp)
  PROVE  /\ Observed(ch, t, d) => Observed(ch, t, e)
         /\ c # ch /\ Observed(ch, t, e) => Observed(ch, t, d)
<1>1. CASE c # ch
  BY <1>1, OtherPartsKept, ObservedByPart
<1>2. CASE c = ch
  BY <1>2, RepeatedIsIdle
<1> QED
  BY <1>1, <1>2

----------------------------------------------------------------------------
(* The journal keeps pace with the phases: nothing is skipped, and what it *)
(* lists as confirmed is what comes before the phase under way.            *)

Running == {"apply", "rebase", "confirm", "save", "verify"}

(* The first so many of the phases. *)
Beginning(stages, phases) ==
  stages \subseteq phases /\ \A n \in stages, k \in phases : k < n => k \in stages

Progress ==
  /\ pc \in {"plan", "backup"} => done = {}
  /\ pc \in Running \cup {"except"} =>
       /\ journal.status = "started" /\ journal.base = current /\ journal.target = target
       /\ Beginning(done, PhasesOf(ThePlan))
  /\ pc \in Running => journal.stages = done
  /\ pc \in {"apply", "rebase", "confirm"} =>
       phase \in PhasesOf(ThePlan) /\ done = {k \in PhasesOf(ThePlan) : k < phase}
  /\ pc \in {"save", "verify"} => done = PhasesOf(ThePlan)

InOrder(j) ==
  LET phases == PhasesOf(Plan(j.base, j.target))
  IN  Beginning(j.stages, phases) /\ (j.status = "complete" => j.stages = phases)

JournalInv == Progress /\ (journal # None => InOrder(journal))

LEMMA Beginnings ==
  ASSUME NEW n
  PROVE  /\ Beginning({}, PhasesOf(ThePlan))
         /\ Beginning(PhasesOf(ThePlan), PhasesOf(ThePlan))
         /\ n \in Nat => Beginning({k \in PhasesOf(ThePlan) : k < n}, PhasesOf(ThePlan))
<1>1. PhasesOf(ThePlan) \subseteq Nat
  BY PlanType DEF ThePlan, Phases
<1> QED
  BY <1>1 DEF Beginning

(* A confirmed phase makes the list complete, or complete up to the next. *)
LEMMA OnePhaseMore ==
  ASSUME TypeInv, phase \in PhasesOf(ThePlan), done = {k \in PhasesOf(ThePlan) : k < phase}
  PROVE  /\ LastPhase(phase) => done \cup {phase} = PhasesOf(ThePlan)
         /\ ~LastPhase(phase) =>
              /\ NextPhase(phase) \in PhasesOf(ThePlan)
              /\ done \cup {phase} = {k \in PhasesOf(ThePlan) : k < NextPhase(phase)}
<1>1. PhasesOf(ThePlan) \subseteq Nat /\ phase \in Nat
  BY PlanType DEF ThePlan, TypeInv, TypeOK, Phases
<1>2. LastPhase(phase) => done \cup {phase} = PhasesOf(ThePlan)
  BY <1>1 DEF LastPhase
<1>3. ASSUME ~LastPhase(phase)
      PROVE  /\ NextPhase(phase) \in PhasesOf(ThePlan)
             /\ done \cup {phase} = {k \in PhasesOf(ThePlan) : k < NextPhase(phase)}
  <2> DEFINE m == NextPhase(phase)
  <2>1. /\ m \in PhasesOf(ThePlan) /\ m > phase
        /\ \A k \in PhasesOf(ThePlan) : k > phase => m <= k
    BY <1>1, <1>3, NextPhaseExists
  <2> HIDE DEF m
  <2>2. done \cup {phase} = {k \in PhasesOf(ThePlan) : k < m}
    BY <1>1, <2>1
  <2> QED
    BY <2>1, <2>2 DEF m
<1> QED
  BY <1>2, <1>3

(* The first phase is the lowest of the plan. *)
LEMMA FirstPhase ==
  ASSUME TypeInv, pc = "backup"
  PROVE  /\ phase = 0 /\ ~LastPhase(phase) /\ Stage(ThePlan, phase) = {}
         /\ NextPhase(phase) \in PhasesOf(ThePlan)
         /\ {k \in PhasesOf(ThePlan) : k < NextPhase(phase)} = {}
<1>1. phase = 0 /\ ThePlan # {}
  BY DEF TypeInv, Control
<1>2. PhasesOf(ThePlan) \subseteq Phases \ {0} /\ Phases \subseteq Nat
  BY PlanType DEF ThePlan, Phases
<1>3. ~LastPhase(phase) /\ Stage(ThePlan, phase) = {}
  BY <1>1, <1>2 DEF LastPhase, PhasesOf, Phases, Stage
<1> DEFINE m == NextPhase(phase)
<1>4. /\ m \in PhasesOf(ThePlan)
      /\ \A k \in PhasesOf(ThePlan) : k > phase => m <= k
  BY <1>1, <1>3, NextPhaseExists
<1> HIDE DEF m
<1>5. {k \in PhasesOf(ThePlan) : k < m} = {}
  BY <1>1, <1>2, <1>4 DEF Phases
<1> QED
  BY <1>1, <1>3, <1>4, <1>5 DEF m

(* Steps that leave the client's place alone, those that end there, and    *)
(* those that raise.                                                       *)
LEMMA ProgressKept ==
  ASSUME JournalInv, UNCHANGED <<pc, target, current, phase, done, journal>>
  PROVE  JournalInv'
BY DEF JournalInv, Progress, Running, ThePlan

LEMMA ProgressEnds ==
  ASSUME JournalInv, UNCHANGED journal, pc' \in {"idle", "pull"}
  PROVE  JournalInv'
BY DEF JournalInv, Progress, Running

LEMMA RaiseEnds == ASSUME Raise PROVE pc' \in {"idle", "except"}
BY DEF Raise, Finish

LEMMA ProgressRaised ==
  ASSUME JournalInv, Raise, pc \in Steps, UNCHANGED <<target, current, journal>>
  PROVE  JournalInv'
<1>1. CASE pc' = "idle"
  BY <1>1, ProgressEnds
<1>2. CASE pc' = "except"
  <2>1. pc \in Running \cup {"except"} /\ done' = done /\ ThePlan' = ThePlan
    BY <1>2 DEF Raise, Finish, stageVars, Steps, Reading, Running, ThePlan
  <2> QED
    BY <1>2, <2>1 DEF JournalInv, Progress, Running
<1> QED
  BY <1>1, <1>2, RaiseEnds

(* Steps from one place of a phase to the next. *)
LEMMA ProgressWithin ==
  ASSUME JournalInv, UNCHANGED <<target, current, phase, done, journal>>,
         \/ pc \in {"apply", "rebase", "confirm"} /\ pc' \in {"apply", "rebase", "confirm"}
         \/ pc \in {"save", "verify"} /\ pc' \in {"save", "verify"}
         \/ pc = "plan" /\ pc' = "backup"
  PROVE  JournalInv'
BY DEF JournalInv, Progress, Running, ThePlan

LEMMA ProgressBackup ==
  ASSUME TypeInv, JournalInv, Backup
  PROVE  JournalInv'
<1>0. pc = "backup" /\ pc \in Steps /\ done = {} /\ UNCHANGED <<target, current>>
  BY DEF Backup, jobVars, JournalInv, Progress, Steps
<1>1. CASE Raise /\ UNCHANGED journal
  BY <1>0, <1>1, ProgressRaised
<1>2. CASE ~(Raise /\ UNCHANGED journal)
  <2>1. /\ StartPhase /\ done' = done
        /\ \E file : journal' = [status |-> "started", base |-> current, target |-> target,
                                 backup |-> file, stages |-> {}]
    BY <1>2 DEF Backup
  <2>2. /\ pc' = "apply" /\ phase' = NextPhase(phase)
        /\ journal'.status = "started" /\ journal'.base = current
        /\ journal'.target = target /\ journal'.stages = done'
    BY <1>0, <2>1 DEF StartPhase
  <2>3. ThePlan' = ThePlan
    BY <1>0 DEF ThePlan
  <2>4. phase' \in PhasesOf(ThePlan) /\ done' = {k \in PhasesOf(ThePlan) : k < phase'}
    BY <1>0, <2>1, <2>2, FirstPhase
  <2>5. Beginning(done', PhasesOf(ThePlan))
    BY <1>0, <2>1, Beginnings
  <2>6. Progress'
    BY <1>0, <2>2, <2>3, <2>4, <2>5 DEF Progress, Running
  <2>7. InOrder(journal')
    BY <1>0, <2>2, <2>5 DEF InOrder, ThePlan
  <2> QED
    BY <2>6, <2>7 DEF JournalInv
<1> QED
  BY <1>1, <1>2

LEMMA ProgressConfirmed ==
  ASSUME TypeInv, JournalInv, PhaseConfirmed
  PROVE  JournalInv'
<1>0. /\ pc = "confirm" /\ UNCHANGED <<target, current>> /\ done' = done \cup {phase}
      /\ phase \in PhasesOf(ThePlan) /\ done = {k \in PhasesOf(ThePlan) : k < phase}
      /\ ThePlan' = ThePlan /\ journal \in Journal
  BY DEF PhaseConfirmed, jobVars, JournalInv, Progress, ThePlan, TypeInv, Control, Committing
<1>1. /\ journal.status = "started" /\ journal.base = current /\ journal.target = target
      /\ journal # None => InOrder(journal)
  BY <1>0 DEF JournalInv, Progress, Running
<1>2. Beginning(done', PhasesOf(ThePlan))
  <2>1. LastPhase(phase) => done' = PhasesOf(ThePlan)
    BY <1>0, OnePhaseMore
  <2>2. ~LastPhase(phase) => /\ NextPhase(phase) \in Nat
                             /\ done' = {k \in PhasesOf(ThePlan) : k < NextPhase(phase)}
    BY <1>0, OnePhaseMore, PlanType DEF ThePlan, Phases
  <2> QED
    BY <2>1, <2>2, Beginnings
<1>3. CASE pc' = "except" /\ UNCHANGED journal
  BY <1>0, <1>1, <1>2, <1>3 DEF JournalInv, Progress, Running
<1>4. CASE RecordStages /\ SaveOrNextPhase
  <2>1. /\ journal'.status = "started" /\ journal'.base = current
        /\ journal'.target = target /\ journal'.stages = done'
    BY <1>0, <1>1, <1>4 DEF RecordStages, Journal
  <2>2. InOrder(journal')
    BY <1>2, <2>1 DEF InOrder, ThePlan
  <2>3. CASE LastPhase(phase)
    <3>1. pc' = "save" /\ done' = PhasesOf(ThePlan)
      BY <1>0, <1>4, <2>3, OnePhaseMore DEF SaveOrNextPhase
    <3> QED
      BY <1>0, <1>2, <2>1, <2>2, <3>1 DEF JournalInv, Progress, Running
  <2>4. CASE ~LastPhase(phase)
    <3>1. /\ pc' = "apply" /\ phase' = NextPhase(phase)
      BY <1>4, <2>4 DEF SaveOrNextPhase, StartPhase
    <3>2. phase' \in PhasesOf(ThePlan) /\ done' = {k \in PhasesOf(ThePlan) : k < phase'}
      BY <1>0, <2>4, <3>1, OnePhaseMore
    <3> QED
      BY <1>0, <1>2, <2>1, <2>2, <3>1, <3>2 DEF JournalInv, Progress, Running
  <2> QED
    BY <2>3, <2>4
<1> QED
  BY <1>3, <1>4 DEF PhaseConfirmed

LEMMA ProgressVerified ==
  ASSUME TypeInv, JournalInv, Verified
  PROVE  JournalInv'
<1>0. /\ pc = "verify" /\ journal \in Journal /\ journal.base = current
      /\ journal.target = target /\ journal.stages = PhasesOf(ThePlan) /\ done = PhasesOf(ThePlan)
      /\ UNCHANGED <<target, current, done>> /\ ThePlan' = ThePlan
  BY DEF Verified, TypeInv, Control, Committing, JournalInv, Progress, Running, jobVars, stageVars,
         ThePlan
<1>1. CASE pc' = "except" /\ UNCHANGED journal
  BY <1>0, <1>1 DEF JournalInv, Progress, Running
<1>2. CASE journal' = [journal EXCEPT !.status = "complete"] /\ Finish("committed")
  <2>1. /\ journal'.base = current /\ journal'.target = target
        /\ journal'.stages = PhasesOf(ThePlan) /\ pc' = "idle"
    BY <1>0, <1>2 DEF Journal, Finish
  <2>2. InOrder(journal')
    BY <2>1, Beginnings DEF InOrder, ThePlan
  <2> QED
    BY <2>1, <2>2 DEF JournalInv, Progress, Running
<1> QED
  BY <1>1, <1>2 DEF Verified

LEMMA ProgressExcept ==
  ASSUME TypeInv, JournalInv, Except
  PROVE  JournalInv'
<1>0. pc = "except" /\ journal \in Journal /\ pc' = "idle"
  BY DEF Except, Finish, TypeInv, Control, Committing
<1>1. CASE UNCHANGED journal
  BY <1>0, <1>1, ProgressEnds
<1>2. CASE journal' = [journal EXCEPT !.status = "failed", !.stages = done]
  <2>1. journal'.status = "failed" /\ journal'.stages = done
        /\ journal'.base = journal.base /\ journal'.target = journal.target
    BY <1>0, <1>2 DEF Journal
  <2>2. InOrder(journal')
    BY <1>0, <2>1 DEF InOrder, JournalInv, Progress, ThePlan
  <2> QED
    BY <1>0, <2>2 DEF JournalInv, Progress, Running
<1> QED
  BY <1>1, <1>2 DEF Except

LEMMA ProgressStep == TypeInv /\ JournalInv /\ [Next]_vars => JournalInv'
<1> SUFFICES ASSUME TypeInv, JournalInv, [Next]_vars PROVE JournalInv'
  OBVIOUS
<1>r. ASSUME Raise, pc \in Steps, UNCHANGED <<jobVars, fileVars>> PROVE JournalInv'
  BY <1>r, ProgressRaised DEF jobVars, fileVars
<1>1. ASSUME Ask PROVE JournalInv'
  <2>1. ASSUME StartCommit PROVE JournalInv'
    BY <2>1 DEF StartCommit, StartReading, fileVars, JournalInv, Progress, Running
  <2>2. ASSUME StartPull PROVE JournalInv'
    BY <2>2, ProgressEnds DEF StartPull, StartReading, fileVars
  <2>3. ASSUME StoreBackup \/ WriteMemory \/ Restore PROVE JournalInv'
    BY <2>3, ProgressKept DEF StoreBackup, WriteMemory, Restore, stageVars, fileVars
  <2> QED
    BY <1>1, <2>1, <2>2, <2>3 DEF Ask
<1>2. ASSUME StepOfRead \/ PullDone PROVE JournalInv'
  <2>1. ASSUME ReadPage PROVE JournalInv'
    BY <2>1, ProgressKept DEF ReadPage, jobVars, stageVars, fileVars
  <2>2. ASSUME ReadFails PROVE JournalInv'
    BY <2>2, <1>r DEF ReadFails, Steps
  <2>3. ASSUME PullDone PROVE JournalInv'
    <3>1. CASE CannotSaveState
      BY <2>3, <3>1, <1>r DEF PullDone, CannotSaveState, Steps, Reading
    <3>2. CASE ~CannotSaveState
      BY <2>3, <3>2, ProgressEnds DEF PullDone, Finish
    <3> QED
      BY <3>1, <3>2
  <2> QED
    BY <1>2, <2>1, <2>2, <2>3 DEF StepOfRead
<1>3. ASSUME Planned PROVE JournalInv'
  <2>1. CASE Verdict = "apply"
    <3>1. /\ pc = "plan" /\ pc' = "backup" /\ UNCHANGED <<target, done, journal>>
      BY <1>3, <2>1 DEF Planned, stageVars, fileVars
    <3> QED
      BY <3>1 DEF JournalInv, Progress, Running
  <2>2. CASE CannotSaveState
    BY <1>3, <2>2, <1>r DEF Planned, CannotSaveState, Steps, Reading
  <2>3. CASE Verdict # "apply" /\ ~CannotSaveState
    BY <1>3, <2>3, ProgressEnds DEF Planned, Finish, fileVars
  <2> QED
    BY <2>1, <2>2, <2>3
<1>4. ASSUME BackupFails PROVE JournalInv'
  BY <1>4, <1>r DEF BackupFails, Steps
<1>5. ASSUME Apply \/ ApplyManagement \/ LogInAgain PROVE JournalInv'
  <2>1. ASSUME NEW ch, Sent(ch), pc = "apply", UNCHANGED <<jobVars, fileVars>> PROVE JournalInv'
    BY <2>1, ProgressWithin DEF Sent, StartReading, jobVars, fileVars
  <2>2. ASSUME Apply PROVE JournalInv'
    BY <2>1, <2>2, <1>r DEF Apply, Steps
  <2>3. ASSUME ApplyManagement PROVE JournalInv'
    <3>1. CASE pc' = "rebase" /\ UNCHANGED <<phase, done>>
      BY <2>3, <3>1, ProgressWithin DEF ApplyManagement, jobVars, fileVars
    <3> QED
      BY <2>1, <2>3, <3>1 DEF ApplyManagement
  <2>4. ASSUME LogInAgain PROVE JournalInv'
    <3>1. CASE Raise
      BY <2>4, <3>1, <1>r DEF LogInAgain, Steps
    <3>2. CASE StartReading("confirm") /\ UNCHANGED stageVars
      BY <2>4, <3>2, ProgressWithin DEF LogInAgain, StartReading, jobVars, stageVars, fileVars
    <3> QED
      BY <2>4, <3>1, <3>2 DEF LogInAgain
  <2> QED
    BY <1>5, <2>2, <2>3, <2>4
<1>6. ASSUME PhaseIncomplete PROVE JournalInv'
  <2>1. CASE Raise
    BY <1>6, <2>1, <1>r DEF PhaseIncomplete, Steps, Reading
  <2>2. CASE StartReading("confirm") /\ UNCHANGED stageVars
    BY <1>6, <2>2, ProgressWithin DEF PhaseIncomplete, StartReading, jobVars, stageVars, fileVars
  <2> QED
    BY <1>6, <2>1, <2>2 DEF PhaseIncomplete
<1>7. ASSUME Save PROVE JournalInv'
  <2>1. CASE Raise
    BY <1>7, <2>1, <1>r DEF Save, Steps
  <2>2. CASE StartReading("verify") /\ UNCHANGED stageVars
    BY <1>7, <2>2, ProgressWithin DEF Save, StartReading, jobVars, stageVars, fileVars
  <2> QED
    BY <1>7, <2>1, <2>2 DEF Save
<1>8. ASSUME Mismatch PROVE JournalInv'
  BY <1>8, <1>r DEF Mismatch, Steps, Reading
<1>9. ASSUME Environment PROVE JournalInv'
  <2>1. ASSUME LateApply \/ LateSave \/ Admin \/ Reboot \/ Expire PROVE JournalInv'
    BY <2>1, ProgressKept
       DEF LateApply, LateSave, Admin, Reboot, Expire, jobVars, stageVars, fileVars
  <2>2. ASSUME Crash PROVE JournalInv'
    BY <2>2, ProgressEnds DEF Crash, Finish, fileVars
  <2> QED
    BY <1>9, <2>1, <2>2 DEF Environment
<1>10. CASE UNCHANGED vars
  BY <1>10, ProgressKept DEF vars, jobVars, stageVars, fileVars
<1> QED
  BY <1>1, <1>2, <1>3, <1>4, <1>5, <1>6, <1>7, <1>8, <1>9, <1>10, ProgressBackup,
     ProgressConfirmed, ProgressVerified, ProgressExcept DEF Next, Client, StepOfCommit

LEMMA JournalInvariant == Spec => []JournalInv
<1>1. Init => JournalInv
  BY DEF Init, JournalInv, Progress, Running
<1> QED
  BY <1>1, ProgressStep, TypeInvariant, PTL DEF Spec

----------------------------------------------------------------------------
(* What a step of an undisturbed commit can be: it reads a page, it plans, *)
(* it stays in its phase or it moves on to the next one.                   *)

SentInv ==
  clean =>
    /\ pc \notin {"pull", "plan"}
    /\ todo \subseteq UpTo(phase)
    /\ pending \subseteq {[change |-> ch, target |-> target] : ch \in UpTo(phase)}
    /\ \A ch \in ThePlan : ch.phase > phase => Leased(ch) \/ ~Observed(ch, target, dev)

(* At most one request of the phases so far is taken up, now or for later. *)
OneRequest ==
  \/ dev' = dev /\ pending' \subseteq pending
  \/ \E ch \in UpTo(phase) :
       /\ dev' = dev \/ dev' \in Effects(ch, target, dev)
       /\ pending' \subseteq pending \cup {[change |-> ch, target |-> target]}

Stays ==
  /\ UNCHANGED <<target, current, phase>>
  /\ todo' \subseteq todo
  /\ pc' \notin {"pull", "plan"}
  /\ pc' = "confirm" => page' = 1 \/ (pc = "confirm" /\ UNCHANGED <<seen, page>>)
  /\ done' = done \/ (PhaseConfirmed /\ done' = done \cup {phase})
  /\ OneRequest

MovesOn ==
  /\ StartPhase /\ ~LastPhase(phase)
  /\ UNCHANGED <<dev, pending, target, current>>
  /\ \/ pc = "backup" /\ done' = done
     \/ PhaseConfirmed /\ done' = done \cup {phase}

LEMMA RaiseStays ==
  ASSUME Raise, clean', UNCHANGED <<target, current>>, OneRequest
  PROVE  clean /\ Stays
<1>1. pc' = "except" /\ UNCHANGED <<clean, phase, todo, done>>
  BY DEF Raise, stageVars
<1> QED
  BY <1>1 DEF Stays

LEMMA ApplyShape ==
  ASSUME TypeInv, SentInv, clean', Apply \/ ApplyManagement \/ LogInAgain
  PROVE  clean /\ Stays
<1>0. UNCHANGED <<target, current>>
  BY DEF Apply, ApplyManagement, LogInAgain, jobVars
<1>1. ASSUME NEW ch \in todo, Answered(ch) \/ Lost(ch), clean
      PROVE  OneRequest
  <2>1. ch \in UpTo(phase)
    BY <1>1 DEF SentInv
  <2>2. /\ dev' = dev \/ dev' \in Effects(ch, target, dev)
        /\ pending' \subseteq pending \cup {[change |-> ch, target |-> target]}
    BY <1>1 DEF Answered, Lost, Accepted, Later, Nothing
  <2> QED
    BY <2>1, <2>2 DEF OneRequest
<1>2. ASSUME NEW ch \in todo, Answered(ch) \/ Lost(ch), Sent(ch), pc = "apply"
      PROVE  clean /\ Stays
  <2>1. /\ UNCHANGED <<phase, done, clean>> /\ todo' \subseteq todo
        /\ pc' \in {"apply", "confirm"} /\ (pc' = "confirm" => page' = 1)
    BY <1>2 DEF Sent, StartReading, readVars
  <2> QED
    BY <1>0, <1>1, <1>2, <2>1 DEF Stays
<1>r. Raise => clean
  BY DEF Raise
<1>3. ASSUME Apply PROVE clean /\ Stays
  BY <1>0, <1>1, <1>2, <1>3, <1>r, RaiseStays DEF Apply
<1>4. ASSUME ApplyManagement PROVE clean /\ Stays
  <2>1. PICK ch \in todo :
          /\ Answered(ch) \/ Lost(ch)
          /\ \/ Sent(ch)
             \/ /\ pc' = "rebase" /\ todo' = todo \ {ch}
                /\ UNCHANGED <<phase, done, clean>>
    BY <1>4 DEF ApplyManagement
  <2>2. pc = "apply"
    BY <1>4 DEF ApplyManagement
  <2>3. CASE pc' = "rebase" /\ todo' = todo \ {ch} /\ UNCHANGED <<phase, done, clean>>
    BY <1>0, <1>1, <2>1, <2>3 DEF Stays
  <2> QED
    BY <1>2, <2>1, <2>2, <2>3
<1>5. ASSUME LogInAgain PROVE clean /\ Stays
  <2>1. UNCHANGED <<dev, pending>> /\ pc = "rebase"
    BY <1>5 DEF LogInAgain, deviceVars, flashVars
  <2>2. OneRequest
    BY <2>1 DEF OneRequest
  <2>3. CASE Raise
    BY <1>0, <2>2, <2>3, RaiseStays
  <2>4. CASE StartReading("confirm") /\ UNCHANGED <<stageVars, clean>>
    BY <1>0, <2>2, <2>4 DEF StartReading, stageVars, Stays
  <2> QED
    BY <1>5, <2>3, <2>4 DEF LogInAgain
<1> QED
  BY <1>3, <1>4, <1>5

LEMMA ConcludeShape ==
  ASSUME TypeInv, clean',
         PhaseConfirmed \/ PhaseIncomplete \/ Save \/ Verified \/ Mismatch \/ Except
  PROVE  clean /\ (Stays \/ MovesOn)
<1>0. UNCHANGED <<dev, pending, target, current>> /\ OneRequest
  BY DEF PhaseConfirmed, PhaseIncomplete, Save, Verified, Mismatch, Except, deviceVars, flashVars, jobVars,
     OneRequest
<1>1. ASSUME UNCHANGED <<phase, done, clean>>, todo' \subseteq todo,
             pc' \notin {"pull", "plan"}, pc' = "confirm" => page' = 1
      PROVE  clean /\ Stays
  BY <1>0, <1>1 DEF Stays
<1>2. ASSUME Raise PROVE clean /\ Stays
  BY <1>0, <1>2, RaiseStays
<1>3. ASSUME PhaseConfirmed PROVE clean /\ (Stays \/ MovesOn)
  <2>1. clean' = clean /\ done' = done \cup {phase}
    BY <1>3 DEF PhaseConfirmed
  <2>2. CASE SaveOrNextPhase /\ LastPhase(phase)
    BY <1>0, <1>3, <2>1, <2>2 DEF SaveOrNextPhase, Stays
  <2>3. CASE SaveOrNextPhase /\ ~LastPhase(phase)
    BY <1>0, <1>3, <2>1, <2>3 DEF SaveOrNextPhase, MovesOn
  <2>4. CASE pc' = "except" /\ UNCHANGED <<phase, todo>>
    BY <1>0, <1>3, <2>1, <2>4 DEF Stays
  <2> QED
    BY <1>3, <2>2, <2>3, <2>4 DEF PhaseConfirmed
<1>4. ASSUME PhaseIncomplete PROVE clean /\ Stays
  BY <1>1, <1>2, <1>4 DEF PhaseIncomplete, StartReading, stageVars
<1>5. ASSUME Save PROVE clean /\ Stays
  BY <1>1, <1>2, <1>5 DEF Save, StartReading, stageVars
<1>6. ASSUME Verified PROVE clean /\ Stays
  BY <1>1, <1>6 DEF Verified, Finish, stageVars
<1>7. ASSUME Mismatch PROVE clean /\ Stays
  BY <1>2, <1>7 DEF Mismatch
<1>8. ASSUME Except PROVE clean /\ Stays
  BY <1>1, <1>8 DEF Except, Finish
<1> QED
  BY <1>3, <1>4, <1>5, <1>6, <1>7, <1>8

LEMMA AroundShape ==
  ASSUME TypeInv, SentInv, clean',
         Ask \/ ReadFails \/ PullDone \/ Environment \/ UNCHANGED vars
  PROVE  clean /\ Stays
<1>1. CASE StartCommit \/ StartPull \/ Restore \/ Admin \/ Reboot
  BY <1>1 DEF StartCommit, StartPull, Restore, Admin, Reboot
<1>2. CASE StoreBackup \/ WriteMemory \/ LateSave \/ Expire \/ UNCHANGED vars
  <2>1. UNCHANGED <<dev, pending, pc, target, current, phase, todo, done, clean, seen, page>>
    BY <1>2 DEF StoreBackup, WriteMemory, LateSave, Expire, vars, deviceVars, flashVars, jobVars, stageVars, readVars
  <2> QED
    BY <2>1 DEF SentInv, Stays, OneRequest
<1>3. CASE ReadFails
  <2>1. UNCHANGED <<dev, pending, target, current>>
    BY <1>3 DEF ReadFails, deviceVars, flashVars, jobVars
  <2> QED
    BY <1>3, <2>1, RaiseStays DEF ReadFails, OneRequest
<1>4. CASE PullDone
  BY <1>4 DEF PullDone, CannotSaveState, Raise, SentInv
<1>5. CASE LateApply
  <2>1. PICK r \in pending : dev' \in Effects(r.change, r.target, dev) /\ pending' = pending \ {r}
    BY <1>5 DEF LateApply
  <2>2. UNCHANGED <<pc, target, current, phase, todo, done, clean, seen, page>>
    BY <1>5 DEF LateApply, jobVars, stageVars, readVars
  <2>3. r.change \in UpTo(phase) /\ r.target = target
    BY <2>2 DEF SentInv
  <2> QED
    BY <2>1, <2>2, <2>3 DEF SentInv, Stays, OneRequest
<1>6. CASE Crash
  <2>1. /\ pc' = "idle" /\ todo' = {}
        /\ UNCHANGED <<dev, pending, target, current, phase, done, clean>>
    BY <1>6 DEF Crash, Finish, deviceVars, flashVars, jobVars
  <2> QED
    BY <2>1 DEF Stays, OneRequest
<1> QED
  BY <1>1, <1>2, <1>3, <1>4, <1>5, <1>6 DEF Ask, Environment

LEMMA StepShapes ==
  ASSUME TypeInv, SentInv, [Next]_vars, clean'
  PROVE  ReadPage \/ Planned \/ (clean /\ Stays) \/ (clean /\ MovesOn)
<1>1. ASSUME Backup \/ BackupFails PROVE clean /\ (Stays \/ MovesOn)
  <2>1. pc = "backup" /\ UNCHANGED <<dev, pending, target, current>> /\ OneRequest
    BY <1>1 DEF Backup, BackupFails, deviceVars, flashVars, jobVars, OneRequest
  <2>2. CASE Raise
    BY <2>1, <2>2, RaiseStays
  <2>3. CASE StartPhase /\ done' = done /\ clean' = clean
    <3>1. ~LastPhase(phase)
      BY <2>1, FirstPhase
    <3>2. MovesOn
      BY <2>1, <2>3, <3>1 DEF MovesOn
    <3> QED
      BY <2>3, <3>2
  <2> QED
    BY <1>1, <2>2, <2>3 DEF Backup, BackupFails
<1> QED
  BY <1>1, ApplyShape, ConcludeShape, AroundShape DEF Next, Client, StepOfRead, StepOfCommit

----------------------------------------------------------------------------
(* Nothing is sent ahead of its phase.                                     *)

LEMMA SentStays ==
  ASSUME TypeInv, SentInv, clean, Stays
  PROVE  SentInv'
<1>1. ThePlan' = ThePlan /\ UpTo(phase)' = UpTo(phase)
  BY DEF Stays, ThePlan, UpTo
<1>2. pending' \subseteq {[change |-> ch, target |-> target] : ch \in UpTo(phase)}
  BY DEF SentInv, Stays, OneRequest
<1>3. ASSUME NEW ch \in ThePlan, ch.phase > phase
      PROVE  Leased(ch)' \/ ~Observed(ch, target, dev')
  <2>1. Leased(ch) \/ ~Observed(ch, target, dev)
    BY <1>3 DEF SentInv
  <2>2. Leased(ch)' = Leased(ch)
    BY DEF Stays, Leased
  <2>3. CASE dev' # dev /\ ~Leased(ch)
    <3>1. PICK c \in UpTo(phase) : dev' \in Effects(c, target, dev)
      BY <2>3 DEF Stays, OneRequest
    <3>2. c # ch
      BY <1>3, <3>1, PlanType DEF UpTo, ThePlan, Changes, Phases, TypeInv, TypeOK
    <3> QED
      BY <2>1, <2>3, <3>1, <3>2, EffectAndOthers DEF UpTo, ThePlan, Leased, TypeInv, TypeOK
  <2> QED
    BY <2>1, <2>2, <2>3
<1> QED
  BY <1>1, <1>2, <1>3 DEF SentInv, Stays

LEMMA SentMovesOn ==
  ASSUME TypeInv, SentInv, clean, MovesOn
  PROVE  SentInv'
<1> DEFINE m == NextPhase(phase)
<1>1. pc' = "apply" /\ phase' = m /\ todo' = Stage(ThePlan, m)
      /\ UNCHANGED <<dev, pending, target, current>>
  BY DEF MovesOn, StartPhase
<1>2. phase \in Nat /\ m \in Nat /\ m > phase
  BY NextPhaseExists DEF MovesOn, TypeInv, TypeOK, Phases
<1> HIDE DEF m
<1>3. ThePlan' = ThePlan /\ \A ch \in ThePlan : ch.phase \in Nat
  BY <1>1, PlanType DEF ThePlan, Changes, Phases
<1>4. UpTo(phase) \subseteq UpTo(phase)' /\ todo' \subseteq UpTo(phase)'
  BY <1>1, <1>2, <1>3 DEF UpTo, Stage
<1>5. \A ch \in ThePlan : ch.phase > phase' => ch.phase > phase
  BY <1>1, <1>2, <1>3
<1> QED
  BY <1>1, <1>3, <1>4, <1>5 DEF SentInv, Leased

LEMMA SentPlanned ==
  ASSUME TypeInv, SentInv, Planned, clean'
  PROVE  SentInv' /\ dev' = current' /\ pending' = {} /\ pc' = "backup" /\ UNCHANGED done
<1>1. ~clean /\ phase = 0 /\ todo = {}
  BY DEF Planned, SentInv, TypeInv, Control
<1>2. /\ pc' = "backup" /\ current' = seen /\ dev = seen /\ pending = {}
      /\ UNCHANGED <<dev, pending, target, phase, todo, done>>
  BY <1>1 DEF Planned, CannotSaveState, Raise, deviceVars, flashVars, stageVars
<1>3. ASSUME NEW ch \in ThePlan' PROVE Leased(ch)' \/ ~Observed(ch, target', dev')
  BY <1>2, <1>3, PlannedIsMissing DEF ThePlan, Leased, TypeInv, TypeOK
<1> QED
  BY <1>1, <1>2, <1>3 DEF SentInv

LEMMA SentStep == TypeInv /\ SentInv /\ [Next]_vars => SentInv'
<1> SUFFICES ASSUME TypeInv, SentInv, [Next]_vars, clean' PROVE SentInv'
  BY DEF SentInv
<1>1. CASE ReadPage
  <2>1. UNCHANGED <<dev, pending, pc, target, current, phase, todo, clean>>
    BY <1>1 DEF ReadPage, deviceVars, flashVars, jobVars, stageVars
  <2> QED
    BY <2>1 DEF SentInv, UpTo, ThePlan, Leased
<1> QED
  BY <1>1, StepShapes, SentStays, SentMovesOn, SentPlanned

LEMMA SentInvariant == Spec => []SentInv
<1>1. Init => SentInv
  BY Zenon DEF Init, SentInv
<1> QED
  BY <1>1, SentStep, TypeInvariant, PTL DEF Spec

(* Whatever fails, and however late the switch applies a request: no       *)
(* change of a phase later than the one under way is on the switch.        *)
THEOREM FailureIsBounded == Spec => []LaterPhasesUntouched
<1>1. SentInv => LaterPhasesUntouched
  BY DEF SentInv, LaterPhasesUntouched
<1> QED
  BY <1>1, SentInvariant, PTL

----------------------------------------------------------------------------
(* What has been confirmed stays.                                          *)

(* PageOf(ch): the page of read_state that shows change ch. *)
PageOf(ch) ==
  CASE ch.action = "set_management" -> 1
    [] ch.action = "set_fallback_ip" -> 2
    [] ch.action = "set_port" -> 3
    [] ch.action \in {"set_lag", "delete_lag"} -> 4
    [] ch.action \in {"upsert_vlan", "delete_vlan", "enable_dot1q"} -> 5
    [] ch.action = "set_pvid" -> 6

LEMMA PageShows ==
  ASSUME NEW cur, NEW t, NEW ch \in Plan(cur, t), NEW s, NEW d, NEW n \in Pages
  PROVE  /\ PageOf(ch) \in Pages
         /\ PageOf(ch) = n => (Observed(ch, t, ReadPageInto(n, s, d)) <=> Observed(ch, t, d))
         /\ PageOf(ch) # n => (Observed(ch, t, ReadPageInto(n, s, d)) <=> Observed(ch, t, s))
<1>0. ch.action \in Actions
  BY PlanForms DEF Change, Actions
<1>1. PageOf(ch) \in Pages
  BY <1>0 DEF PageOf, Actions, Pages
<1>2. PageOf(ch) = n => Part(ch, ReadPageInto(n, s, d)) = Part(ch, d)
  BY <1>0 DEF PageOf, Part, ReadPageInto, Actions
<1>3. PageOf(ch) # n => Part(ch, ReadPageInto(n, s, d)) = Part(ch, s)
  BY <1>0 DEF PageOf, Part, ReadPageInto, Actions
<1> QED
  BY <1>1, <1>2, <1>3, ObservedByPart

InEffect(ch) == Leased(ch) \/ Observed(ch, target, dev)

StickInv ==
  clean =>
    /\ \A ch \in ThePlan : ch.phase \in done => InEffect(ch)
    /\ pc = "confirm" =>
         \A ch \in Stage(ThePlan, phase) :
           PageOf(ch) < page /\ Observed(ch, target, seen) => InEffect(ch)

LEMMA InEffectKept ==
  ASSUME TypeInv, OneRequest, UNCHANGED <<target, current>>, NEW ch \in ThePlan, InEffect(ch)
  PROVE  InEffect(ch)'
<1>1. Leased(ch)' <=> Leased(ch)
  BY DEF Leased
<1>2. CASE dev' = dev
  BY <1>1, <1>2 DEF InEffect
<1>3. CASE dev' # dev /\ ~Leased(ch)
  <2>1. PICK c \in UpTo(phase) : dev' \in Effects(c, target, dev)
    BY <1>3 DEF OneRequest
  <2>2. Observed(ch, target, dev) => Observed(ch, target, dev')
    BY <1>3, <2>1, EffectAndOthers DEF UpTo, ThePlan, Leased, TypeInv, TypeOK
  <2> QED
    BY <1>3, <2>2 DEF InEffect
<1> QED
  BY <1>1, <1>2, <1>3 DEF InEffect

(* A phase that is confirmed is in effect. *)
LEMMA ConfirmedInEffect ==
  ASSUME TypeInv, StickInv, clean, PhaseConfirmed, NEW ch \in Stage(ThePlan, phase)
  PROVE  InEffect(ch)
<1>1. pc = "confirm" /\ page = 7 /\ Observed(ch, target, seen)
  BY DEF PhaseConfirmed, Confirmed, Pages, TypeInv, TypeOK
<1>2. ch \in ThePlan
  BY DEF Stage
<1>3. PageOf(ch) \in 1..6
  BY <1>2, PageShows DEF ThePlan, Pages
<1> QED
  BY <1>1, <1>3 DEF StickInv

LEMMA StickStays ==
  ASSUME TypeInv, StickInv, clean, Stays \/ MovesOn
  PROVE  StickInv'
<1>0. UNCHANGED <<target, current>> /\ OneRequest
  BY DEF Stays, MovesOn, OneRequest
<1>1. ThePlan' = ThePlan
  BY <1>0 DEF ThePlan
<1>2. ASSUME NEW ch \in ThePlan, ch.phase \in done' PROVE InEffect(ch)'
  <2>1. InEffect(ch)
    <3>1. CASE ch.phase \in done
      BY <3>1 DEF StickInv
    <3>2. CASE ch.phase \notin done
      <4>1. PhaseConfirmed /\ ch.phase = phase
        BY <1>2, <3>2 DEF Stays, MovesOn
      <4> QED
        BY <4>1, ConfirmedInEffect DEF Stage
    <3> QED
      BY <3>1, <3>2
  <2> QED
    BY <1>0, <2>1, InEffectKept
<1>3. ASSUME pc' = "confirm", NEW ch \in Stage(ThePlan, phase'), PageOf(ch) < page',
             Observed(ch, target', seen')
      PROVE  InEffect(ch)'
  <2>1. Stays
    BY <1>3 DEF MovesOn, StartPhase
  <2>2. ch \in ThePlan /\ ch \in Stage(ThePlan, phase)
    BY <1>3, <2>1 DEF Stage, Stays
  <2>3. PageOf(ch) \in 1..6
    BY <2>2, PageShows DEF ThePlan, Pages
  <2>4. pc = "confirm" /\ UNCHANGED <<seen, page>>
    BY <1>3, <2>1, <2>3 DEF Stays
  <2>5. InEffect(ch)
    BY <1>0, <1>3, <2>2, <2>4 DEF StickInv
  <2> QED
    BY <1>0, <2>2, <2>5, InEffectKept
<1> QED
  BY <1>1, <1>2, <1>3 DEF StickInv

LEMMA StickRead ==
  ASSUME TypeInv, StickInv, clean, ReadPage, "default" \notin FaultKinds
  PROVE  StickInv'
<1>1. seen' = ReadPageInto(page, seen, dev) /\ page' = page + 1 /\ page \in Pages
  BY DEF ReadPage, Happens
<1>2. UNCHANGED <<dev, pc, target, current, phase, done, clean>>
  BY DEF ReadPage, deviceVars, flashVars, jobVars, stageVars
<1>3. ASSUME pc = "confirm", NEW ch \in Stage(ThePlan, phase), PageOf(ch) < page',
             Observed(ch, target, seen')
      PROVE  InEffect(ch)
  <2>0. ch \in Plan(current, target)
    BY DEF Stage, ThePlan
  <2>1. PageOf(ch) \in Nat /\ page \in Nat
    BY <1>1, <2>0, PageShows DEF Pages
  <2>2. CASE PageOf(ch) = page
    BY <1>1, <1>3, <2>0, <2>2, PageShows DEF InEffect
  <2>3. CASE PageOf(ch) < page
    BY <1>1, <1>3, <2>0, <2>1, <2>3, PageShows DEF StickInv
  <2> QED
    BY <1>1, <1>3, <2>1, <2>2, <2>3
<1>4. ThePlan' = ThePlan /\ \A ch : InEffect(ch)' <=> InEffect(ch)
  BY <1>2 DEF ThePlan, InEffect, Leased
<1> QED
  BY <1>2, <1>3, <1>4 DEF StickInv

LEMMA StickStep ==
  ASSUME "default" \notin FaultKinds
  PROVE  TypeInv /\ SentInv /\ JournalInv /\ StickInv /\ [Next]_vars => StickInv'
<1> SUFFICES ASSUME TypeInv, SentInv, JournalInv, StickInv, [Next]_vars, clean' PROVE StickInv'
  BY DEF StickInv
<1>1. CASE ReadPage
  <2>1. clean
    BY <1>1 DEF ReadPage
  <2> QED
    BY <1>1, <2>1, StickRead
<1>2. CASE Planned
  <2>1. pc' = "backup" /\ done' = {}
    BY <1>2, SentPlanned DEF Planned, JournalInv, Progress
  <2> QED
    BY <2>1 DEF StickInv
<1> QED
  BY <1>1, <1>2, StepShapes, StickStays

LEMMA StickInvariant ==
  ASSUME "default" \notin FaultKinds
  PROVE  Spec => []StickInv
<1>1. Init => StickInv
  BY Zenon DEF Init, StickInv
<1>2. TypeInv /\ SentInv /\ JournalInv /\ StickInv /\ [Next]_vars => StickInv'
  BY StickStep
<1> QED
  BY <1>1, <1>2, TypeInvariant, SentInvariant, JournalInvariant, PTL DEF Spec

(* A phase the journal lists as confirmed stays in effect, however late    *)
(* the switch applies requests it has answered and whatever else fails,    *)
(* unless a page that is not a configuration page is taken for one.        *)
THEOREM ConfirmedStagesStick ==
  ASSUME "default" \notin FaultKinds
  PROVE  Spec => []StagesStick
<1>1. StickInv => StagesStick
  BY DEF StickInv, StagesStick, Stage, InEffect
<1> QED
  BY <1>1, StickInvariant, PTL

----------------------------------------------------------------------------
(* The way back.                                                           *)

(* The journal and the backup of the commit under way, or just ended. *)
WayBack ==
  /\ journal # None /\ journal.base = current /\ journal.target = target
  /\ journal.backup = current /\ current \in backups

RollbackInv ==
  /\ expired => pc = "idle" \/ (pc \in {"pull", "plan"} /\ page = 1)
  /\ clean =>
       /\ pc \notin {"pull", "plan"}
       /\ \/ pc \in {"backup", "idle"} /\ dev = current /\ pending = {}
          \/ pc # "backup" /\ WayBack

(* The journal file, once written, keeps what it says about the way back.  *)
LEMMA WayBackKept ==
  ASSUME TypeInv, WayBack, [Next]_vars, UNCHANGED <<target, current>>, ~Backup
  PROVE  WayBack'
<1>0. journal \in Journal
  BY DEF TypeInv, TypeOK, WayBack
<1>1. backups \subseteq backups'
  BY DEF Next, vars, Ask, Client, StepOfRead, StepOfCommit, Environment, fileVars,
         StartCommit, StartPull, StoreBackup, SaveBackup, WriteMemory, Restore,
         ReadPage, ReadFails, PullDone, CannotSaveState, Planned, BackupFails, Apply,
         ApplyManagement, LogInAgain, PhaseConfirmed, PhaseIncomplete, Save, Verified, Mismatch,
         Except, LateApply, LateSave, Admin, Reboot, Expire, Crash
<1>2. \/ journal' = journal
      \/ journal' = [journal EXCEPT !.stages = done']
      \/ journal' = [journal EXCEPT !.status = "complete"]
      \/ journal' = [journal EXCEPT !.status = "failed", !.stages = done]
  BY DEF Next, vars, Ask, Client, StepOfRead, StepOfCommit, Environment, fileVars,
         StartCommit, StartPull, StoreBackup, WriteMemory, Restore,
         ReadPage, ReadFails, PullDone, CannotSaveState, Planned, BackupFails, Apply,
         ApplyManagement, LogInAgain, PhaseConfirmed, RecordStages, PhaseIncomplete, Save,
         Verified, Mismatch, Except, LateApply, LateSave, Admin, Reboot, Expire, Crash
<1>3. /\ journal' \in Journal /\ journal'.base = journal.base
      /\ journal'.target = journal.target /\ journal'.backup = journal.backup
  <2>1. done \subseteq Phases /\ done' \subseteq Phases
    BY TypeStep DEF TypeInv, TypeOK
  <2> QED
    BY <1>0, <1>2, <2>1 DEF Journal
<1> QED
  BY <1>1, <1>3, NoneIsApart DEF WayBack

(* Until the journal is written, a commit does not touch the switch. *)
LEMMA UntouchedKept ==
  ASSUME [Next]_vars, pc \in {"backup", "idle"}, dev = current, pending = {}, clean', ~Backup,
         UNCHANGED current
  PROVE  pc' \in {"backup", "idle"} /\ dev' = current /\ pending' = {}
<1>1. CASE Ask
  BY <1>1 DEF Ask, StartCommit, StartPull, StoreBackup, WriteMemory, Restore, deviceVars, flashVars
<1>2. CASE BackupFails
  BY <1>2 DEF BackupFails, Raise
<1>3. CASE Environment
  BY <1>3 DEF Environment, LateApply, LateSave, Admin, Reboot, Expire, Crash, Finish, deviceVars, flashVars
<1>4. CASE UNCHANGED vars
  BY <1>4 DEF vars, deviceVars, flashVars
<1> QED
  BY <1>1, <1>2, <1>3, <1>4 DEF Next, Client, StepOfRead, StepOfCommit, ReadPage, ReadFails,
     Reading, PullDone, Planned, Apply, ApplyManagement, LogInAgain, PhaseConfirmed,
     PhaseIncomplete, Save, Verified, Mismatch, Except

LEMMA BackupWaysBack ==
  ASSUME TypeInv, RollbackInv, clean, clean', Backup
  PROVE  pc' # "backup" /\ WayBack'
<1>1. pc = "backup" /\ dev = current /\ ~expired /\ UNCHANGED <<target, current>>
  BY DEF Backup, RollbackInv, jobVars
<1>2. ~Raise
  BY <1>1 DEF Raise
<1>3. PICK file \in Downloads :
        /\ SaveBackup(file)
        /\ journal' = [status |-> "started", base |-> current, target |-> target,
                      backup |-> file, stages |-> {}]
  BY <1>2 DEF Backup
<1>4. file = current /\ current \in Config
  BY <1>1, <1>3 DEF Downloads, TypeInv, TypeOK
<1>5. current \in backups'
  BY <1>3, <1>4, NoneIsApart DEF SaveBackup
<1>6. journal' \in Journal
  BY <1>1, <1>3, <1>4 DEF Journal, TypeInv, TypeOK
<1>7. pc' = "apply"
  BY <1>2 DEF Backup, StartPhase
<1> QED
  BY <1>1, <1>3, <1>4, <1>5, <1>6, <1>7, NoneIsApart DEF WayBack

(* The session ends only between operations, or an operation starts with   *)
(* it ended.                                                               *)
LEMMA SessionKept ==
  ASSUME {"expire", "reboot"} \cap FaultKinds = {}, TypeInv, RollbackInv, [Next]_vars, expired'
  PROVE  pc' = "idle" \/ (pc' \in {"pull", "plan"} /\ page' = 1)
<1>1. CASE Ask
  BY <1>1 DEF Ask, StartCommit, StartPull, StartReading, StoreBackup, WriteMemory, Restore, Asked
<1>2. CASE Environment
  BY <1>2 DEF Environment, LateApply, LateSave, Admin, Reboot, Expire, Crash, Happens, Finish, linkVars,
     readVars, RollbackInv
<1>3. CASE ReadFails
  <2>1. pc \in Reading /\ expired
    BY <1>3 DEF ReadFails, linkVars
  <2>2. pc \in {"pull", "plan"}
    BY <2>1 DEF RollbackInv, Reading
  <2> QED
    BY <1>3, <2>2 DEF ReadFails, Raise, Finish
<1>4. CASE StepOfCommit \/ PullDone
  <2>1. \/ pc \in {"pull", "plan"} /\ page = 7
        \/ pc \in {"backup", "apply", "rebase", "confirm", "save", "verify", "except"}
    <3>1. page \notin Pages => page = 7
      BY DEF Pages, TypeInv, TypeOK
    <3> QED
      BY <1>4, <3>1 DEF StepOfCommit, PullDone, Planned, Backup, BackupFails, Apply,
         ApplyManagement, LogInAgain, PhaseConfirmed, PhaseIncomplete, Save, Verified, Mismatch,
         Except
  <2>2. ~expired
    BY <2>1 DEF RollbackInv
  <2>3. expired' = FALSE \/ UNCHANGED expired
    BY <1>4 DEF StepOfCommit, PullDone, CannotSaveState, Planned, Backup, BackupFails, Apply,
       ApplyManagement, Answered, Lost,
       LogInAgain, PhaseConfirmed, PhaseIncomplete, Save, Verified, Mismatch, Except, linkVars
  <2> QED
    BY <2>2, <2>3
<1>5. CASE ReadPage
  BY <1>5 DEF ReadPage
<1>6. CASE UNCHANGED vars
  BY <1>6 DEF vars, linkVars, readVars, RollbackInv
<1> QED
  BY <1>1, <1>2, <1>3, <1>4, <1>5, <1>6 DEF Next, Client, StepOfRead

LEMMA RollbackStep ==
  ASSUME {"expire", "reboot"} \cap FaultKinds = {}
  PROVE  TypeInv /\ SentInv /\ RollbackInv /\ [Next]_vars => RollbackInv'
<1> SUFFICES ASSUME TypeInv, SentInv, RollbackInv, [Next]_vars PROVE RollbackInv'
  OBVIOUS
<1>1. ASSUME clean'
      PROVE  /\ pc' \notin {"pull", "plan"}
             /\ \/ pc' \in {"backup", "idle"} /\ dev' = current' /\ pending' = {}
                \/ pc' # "backup" /\ WayBack'
  <2>1. pc' \notin {"pull", "plan"}
    BY <1>1, SentStep DEF SentInv
  <2>2. CASE Planned
    BY <1>1, <2>2, SentPlanned
  <2>3. CASE ReadPage
    BY <1>1, <2>3 DEF ReadPage, deviceVars, flashVars, jobVars, fileVars, RollbackInv, WayBack
  <2>4. CASE Backup
    <3>1. clean
      BY <1>1, <2>4 DEF Backup, Raise
    <3> QED
      BY <1>1, <2>1, <2>4, <3>1, BackupWaysBack
  <2>5. CASE ~Planned /\ ~ReadPage /\ ~Backup
    <3>1. clean /\ (Stays \/ MovesOn)
      BY <1>1, <2>5, StepShapes
    <3>2. UNCHANGED <<target, current>>
      BY <3>1 DEF Stays, MovesOn
    <3>3. CASE pc \in {"backup", "idle"} /\ dev = current /\ pending = {}
      BY <1>1, <2>5, <3>2, <3>3, UntouchedKept
    <3>4. CASE pc # "backup" /\ WayBack
      <4>1. pc' # "backup"
        BY <2>5, <3>4 DEF Next, vars, Ask, Client, StepOfRead, StepOfCommit, Environment,
           StartCommit, StartPull, StartReading, StoreBackup, WriteMemory, Restore,
           ReadFails, PullDone, CannotSaveState, Raise, Finish, BackupFails,
           Apply, ApplyManagement, Sent, LogInAgain, PhaseConfirmed, SaveOrNextPhase, StartPhase,
           PhaseIncomplete, Save, Verified, Mismatch, Except, LateApply, LateSave, Admin, Reboot, Expire,
           Crash
      <4> QED
        BY <2>1, <2>5, <3>2, <3>4, <4>1, WayBackKept
    <3> QED
      BY <2>1, <3>1, <3>3, <3>4 DEF RollbackInv
  <2> QED
    BY <2>1, <2>2, <2>3, <2>4, <2>5
<1> QED
  BY <1>1, SessionKept DEF RollbackInv

(* As long as the login session lasts, the configuration a commit started  *)
(* from is in the backup file and the journal says what was attempted,     *)
(* from before the first request until after the last.  (A session that    *)
(* has ended makes the adapter store whatever page it gets instead.)       *)
THEOREM RollbackStaysAvailable ==
  ASSUME {"expire", "reboot"} \cap FaultKinds = {}
  PROVE  Spec => []RollbackAvailable
<1>1. Init => RollbackInv
  BY Zenon DEF Init, RollbackInv
<1>2. TypeInv /\ SentInv /\ RollbackInv /\ [Next]_vars => RollbackInv'
  BY RollbackStep
<1>3. RollbackInv => RollbackAvailable
  BY DEF RollbackInv, WayBack, RollbackAvailable
<1> QED
  BY <1>1, <1>2, <1>3, TypeInvariant, SentInvariant, PTL DEF Spec

----------------------------------------------------------------------------
(* What the journal tells of a commit that has touched the switch.         *)

(* It is this commit's; it lists nothing unconfirmed and, of what comes    *)
(* before the phase under way, all; it is behind only while it says        *)
(* "started".                                                              *)
Tells ==
  /\ journal # None /\ journal.base = current /\ journal.target = target
  /\ journal.stages \subseteq done
  /\ \A k \in PhasesOf(ThePlan) : k < phase => k \in journal.stages
  /\ journal.stages = done \/ journal.status = "started"

TellsInv ==
  clean => \/ pc \in {"backup", "idle"} /\ dev = current /\ pending = {}
           \/ pc # "backup" /\ Tells

LEMMA TellsFromBackup ==
  ASSUME TypeInv, JournalInv, clean', Backup
  PROVE  pc' # "backup" /\ Tells'
<1>1. pc = "backup" /\ UNCHANGED <<target, current>> /\ ThePlan' = ThePlan
  BY DEF Backup, jobVars, ThePlan
<1>2. ~Raise
  BY <1>1 DEF Raise
<1>3. /\ StartPhase /\ done' = done
      /\ \E file \in Downloads :
           journal' = [status |-> "started", base |-> current, target |-> target,
                       backup |-> file, stages |-> {}]
  BY <1>2 DEF Backup
<1>4. /\ journal'.base = current /\ journal'.target = target /\ journal'.stages = {}
      /\ journal'.status = "started" /\ journal' \in Journal
  BY <1>3 DEF Downloads, Journal, TypeInv, TypeOK
<1>5. /\ pc' = "apply"
      /\ {k \in PhasesOf(ThePlan) : k < phase'} = {}
  BY <1>1, <1>3, FirstPhase DEF StartPhase
<1> QED
  BY <1>1, <1>4, <1>5, NoneIsApart DEF Tells

LEMMA TellsFromConfirmed ==
  ASSUME TypeInv, JournalInv, Tells, PhaseConfirmed
  PROVE  pc' # "backup" /\ Tells'
<1>1. /\ pc = "confirm" /\ done' = done \cup {phase} /\ UNCHANGED <<target, current>>
      /\ journal \in Journal /\ journal.status = "started" /\ journal.stages = done
      /\ phase \in PhasesOf(ThePlan) /\ done = {k \in PhasesOf(ThePlan) : k < phase}
      /\ ThePlan' = ThePlan
  BY DEF PhaseConfirmed, jobVars, TypeInv, Control, Committing, JournalInv, Progress, Running,
         ThePlan
<1>2. CASE pc' = "except" /\ UNCHANGED <<journal, phase>>
  BY <1>1, <1>2 DEF Tells
<1>3. CASE RecordStages /\ SaveOrNextPhase
  <2>1. /\ journal' \in Journal /\ journal'.base = current /\ journal'.target = target
        /\ journal'.stages = done'
    <3>1. done' \subseteq Phases
      BY TypeStep DEF TypeInv, TypeOK, Next, Client, StepOfCommit
    <3> QED
      BY <1>1, <1>3, <3>1 DEF RecordStages, Journal, Tells
  <2>2. pc' \in {"save", "apply"} /\ \A k \in PhasesOf(ThePlan) : k < phase' => k \in done'
    <3>1. CASE LastPhase(phase)
      BY <1>1, <1>3, <3>1, OnePhaseMore DEF SaveOrNextPhase
    <3>2. CASE ~LastPhase(phase)
      BY <1>1, <1>3, <3>2, OnePhaseMore DEF SaveOrNextPhase, StartPhase
    <3> QED
      BY <3>1, <3>2
  <2> QED
    BY <1>1, <2>1, <2>2, NoneIsApart DEF Tells
<1> QED
  BY <1>2, <1>3 DEF PhaseConfirmed

(* The other two steps that write the journal end the commit. *)
LEMMA TellsAtTheEnd ==
  ASSUME TypeInv, JournalInv, Tells, Verified \/ Except
  PROVE  pc' # "backup" /\ Tells'
<1>1. /\ UNCHANGED <<target, current, phase, done>> /\ ThePlan' = ThePlan
      /\ journal \in Journal /\ pc' \in {"idle", "except"}
  BY DEF Verified, Except, Finish, jobVars, stageVars, TypeInv, Control, Committing, ThePlan
<1>2. CASE UNCHANGED journal
  BY <1>1, <1>2 DEF Tells
<1>3. CASE Verified /\ journal' = [journal EXCEPT !.status = "complete"]
  <2>1. journal.stages = done
    BY <1>3 DEF Verified, JournalInv, Progress, Running
  <2>2. /\ journal' \in Journal /\ journal'.base = journal.base
        /\ journal'.target = journal.target /\ journal'.stages = journal.stages
    BY <1>1, <1>3 DEF Journal
  <2> QED
    BY <1>1, <2>1, <2>2, NoneIsApart DEF Tells
<1>4. CASE Except /\ journal' = [journal EXCEPT !.status = "failed", !.stages = done]
  <2>1. done \subseteq Phases
    BY DEF TypeInv, TypeOK
  <2>2. /\ journal' \in Journal /\ journal'.base = journal.base
        /\ journal'.target = journal.target /\ journal'.stages = done
    BY <1>1, <1>4, <2>1 DEF Journal
  <2> QED
    BY <1>1, <2>2, NoneIsApart DEF Tells
<1> QED
  BY <1>2, <1>3, <1>4 DEF Verified, Except

LEMMA TellsStep == TypeInv /\ SentInv /\ JournalInv /\ TellsInv /\ [Next]_vars => TellsInv'
<1> SUFFICES ASSUME TypeInv, SentInv, JournalInv, TellsInv, [Next]_vars, clean'
             PROVE  \/ pc' \in {"backup", "idle"} /\ dev' = current' /\ pending' = {}
                    \/ pc' # "backup" /\ Tells'
  BY DEF TellsInv
<1>1. CASE Planned
  BY <1>1, SentPlanned
<1>2. CASE ReadPage
  BY <1>2 DEF ReadPage, deviceVars, jobVars, stageVars, fileVars, TellsInv, Tells, ThePlan
<1>3. CASE Backup
  BY <1>3, TellsFromBackup
<1>4. CASE ~Planned /\ ~ReadPage /\ ~Backup
  <2>1. clean /\ (Stays \/ MovesOn)
    BY <1>4, StepShapes
  <2>2. UNCHANGED <<target, current>> /\ ThePlan' = ThePlan
    BY <2>1 DEF Stays, MovesOn, ThePlan
  <2>3. CASE pc \in {"backup", "idle"} /\ dev = current /\ pending = {}
    BY <1>4, <2>2, <2>3, UntouchedKept
  <2>4. CASE pc # "backup" /\ Tells
    <3>1. CASE PhaseConfirmed \/ Verified \/ Except
      BY <2>4, <3>1, TellsFromConfirmed, TellsAtTheEnd
    <3>2. CASE ~PhaseConfirmed /\ ~Verified /\ ~Except
      <4>1. pc' # "backup" /\ UNCHANGED <<journal, phase, done>>
        BY <1>4, <2>4, <3>2 DEF Next, vars, Ask, Client, StepOfRead, StepOfCommit, Environment,
           StartCommit, StartPull, StartReading, StoreBackup, WriteMemory, Restore,
           ReadFails, PullDone, CannotSaveState, Raise, Finish, BackupFails,
           Apply, ApplyManagement, Sent, LogInAgain, PhaseIncomplete, Save, Mismatch,
           LateApply, LateSave, Admin, Reboot, Expire, Crash, stageVars, fileVars
      <4> QED
        BY <2>2, <2>4, <4>1 DEF Tells
    <3> QED
      BY <3>1, <3>2
  <2> QED
    BY <2>1, <2>3, <2>4 DEF TellsInv
<1> QED
  BY <1>1, <1>2, <1>3, <1>4

(* Whoever finds the journal, after a failure and after a success, can     *)
(* tell from it what of the commit is on the switch: what the listed       *)
(* stages ask for is, and beyond them only parts of the first one not      *)
(* listed; "failed" and "complete" are said with the list up to date.      *)
THEOREM JournalIsTruthful ==
  ASSUME "default" \notin FaultKinds
  PROVE  Spec => []JournalGuides
<1>1. Init => TellsInv
  BY Zenon DEF Init, TellsInv
<1>2. JournalInv => JournalInOrder
  BY DEF JournalInv, InOrder, Beginning, JournalInOrder
<1>3. TypeInv /\ SentInv /\ StickInv /\ TellsInv /\ JournalInOrder => JournalGuides
  <2> SUFFICES ASSUME TypeInv, SentInv, StickInv, TellsInv, clean, dev # current
               PROVE  /\ journal # None /\ journal.base = current /\ journal.target = target
                      /\ \A ch \in ThePlan :
                           \/ Leased(ch)
                           \/ IF ch.phase \in journal.stages
                              THEN Observed(ch, target, dev)
                              ELSE Observed(ch, target, dev) =>
                                     \A k \in PhasesOf(ThePlan) \ journal.stages : ch.phase <= k
                      /\ journal.stages = done \/ journal.status = "started"
    BY DEF JournalGuides
  <2>1. Tells
    BY DEF TellsInv
  <2>2. ASSUME NEW ch \in ThePlan, ~Leased(ch), ch.phase \in journal.stages
        PROVE  Observed(ch, target, dev)
    BY <2>1, <2>2 DEF Tells, StickInv, InEffect
  <2>3. ASSUME NEW ch \in ThePlan, ~Leased(ch), Observed(ch, target, dev),
               NEW k \in PhasesOf(ThePlan) \ journal.stages
        PROVE  ch.phase <= k
    <3>1. ch.phase \in Nat /\ k \in Nat /\ phase \in Nat
      BY <2>3, PlanType DEF ThePlan, Changes, Phases, TypeInv, TypeOK
    <3>2. ~(ch.phase > phase) /\ ~(k < phase)
      BY <2>1, <2>3 DEF SentInv, Tells
    <3> QED
      BY <3>1, <3>2
  <2> QED
    BY <2>1, <2>2, <2>3 DEF Tells
<1>4. Spec => []TellsInv
  BY <1>1, TellsStep, TypeInvariant, SentInvariant, JournalInvariant, PTL DEF Spec
<1> QED
  BY <1>2, <1>3, <1>4, TypeInvariant, SentInvariant, JournalInvariant, StickInvariant, PTL

----------------------------------------------------------------------------
(* What "configuration committed and saved" says.                          *)

TruthInv ==
  /\ ~target.mgmt.dhcp
  /\ clean /\ pc \in Running => ~expired
  /\ clean /\ pc = "verify" =>
       /\ unsaved = {} => flash = dev
       /\ \A n \in Pages : n < page => ReadPageInto(n, seen, dev) = seen
  /\ clean /\ pc = "idle" /\ outcome = "committed" =>
       /\ dev = target /\ cache = target
       /\ unsaved = {} => flash = target
       /\ journal.status = "complete" /\ journal.target = target
       /\ done = PhasesOf(ThePlan)

(* Once every phase is confirmed, what the switch still applies late       *)
(* changes nothing any more.                                               *)
LEMMA AllDoneIsStable ==
  ASSUME TypeInv, StickInv, clean, done = PhasesOf(ThePlan), OneRequest, ~target.mgmt.dhcp
  PROVE  dev' = dev
<1> SUFFICES ASSUME NEW ch \in UpTo(phase), dev' \in Effects(ch, target, dev) PROVE dev' = dev
  BY DEF OneRequest
<1>1. ch \in ThePlan /\ ch.phase \in done
  BY DEF UpTo, PhasesOf
<1>2. Observed(ch, target, dev)
  BY <1>1 DEF StickInv, InEffect, Leased
<1> QED
  BY <1>1, <1>2, RepeatedIsIdle DEF ThePlan, TypeInv, TypeOK

(* Pages read while the switch stands still agree with it. *)
LEMMA ReadAgain ==
  ASSUME NEW s, NEW d, NEW m \in Pages, NEW n \in Pages,
         n = m \/ ReadPageInto(n, s, d) = s
  PROVE  ReadPageInto(n, ReadPageInto(m, s, d), d) = ReadPageInto(m, s, d)
BY DEF ReadPageInto

LEMMA AllPagesRead ==
  ASSUME NEW s \in Config, NEW d \in Config, \A n \in Pages : ReadPageInto(n, s, d) = s
  PROVE  s = d
<1>1. ReadPageInto(1, s, d) = s /\ ReadPageInto(2, s, d) = s /\ ReadPageInto(3, s, d) = s
      /\ ReadPageInto(4, s, d) = s /\ ReadPageInto(5, s, d) = s /\ ReadPageInto(6, s, d) = s
  BY DEF Pages
<1>2. /\ s.mgmt = d.mgmt /\ s.fallback = d.fallback /\ s.port = d.port /\ s.lags = d.lags
      /\ s.vlans = d.vlans /\ s.dot1q = d.dot1q /\ s.pvid = d.pvid
  BY <1>1 DEF ReadPageInto
<1> QED
  BY <1>2 DEF Config

(* Steps that end the operation otherwise, or lead elsewhere. *)
LEMMA TruthElsewhere ==
  ASSUME TruthInv, UNCHANGED target, pc' \notin Running, pc' = "idle" => outcome' # "committed"
  PROVE  TruthInv'
BY DEF TruthInv, Running

LEMMA TruthUnclean == ASSUME ~target'.mgmt.dhcp, ~clean' PROVE TruthInv'
BY DEF TruthInv

LEMMA RaiseResult ==
  ASSUME Raise PROVE pc' = "except" \/ (pc' = "idle" /\ outcome' = "error")
BY DEF Raise, Finish

LEMMA TruthRaised == ASSUME TruthInv, UNCHANGED target, Raise PROVE TruthInv'
BY TruthElsewhere, RaiseResult DEF Running

(* Steps from the first request to the save. *)
LEMMA TruthApplying ==
  ASSUME TruthInv, UNCHANGED target, pc' \in {"apply", "rebase", "confirm", "save"},
         expired' = FALSE \/ (UNCHANGED expired /\ pc \in Running /\ clean' = clean)
  PROVE  TruthInv'
BY DEF TruthInv, Running

LEMMA TruthRead ==
  ASSUME TypeInv, TruthInv, ReadPage, "default" \notin FaultKinds
  PROVE  TruthInv'
<1>1. /\ seen' = ReadPageInto(page, seen, dev) /\ page' = page + 1 /\ page \in Pages
      /\ pc \in Reading /\ expired' = FALSE
  BY DEF ReadPage, Happens
<1>2. UNCHANGED <<dev, flash, unsaved, pc, target, current, done, outcome, cache, journal, clean>>
  BY DEF ReadPage, deviceVars, flashVars, jobVars, stageVars, fileVars
<1>3. ASSUME clean, pc = "verify", NEW n \in Pages, n < page'
      PROVE  ReadPageInto(n, seen', dev) = seen'
  <2>1. n = page \/ ReadPageInto(n, seen, dev) = seen
    BY <1>1, <1>3 DEF TruthInv, Pages
  <2> QED
    BY <1>1, <2>1, ReadAgain
<1> QED
  BY <1>1, <1>2, <1>3 DEF TruthInv, Reading

LEMMA TruthSaved ==
  ASSUME TypeInv, TruthInv, Save
  PROVE  TruthInv'
<1>0. pc = "save" /\ UNCHANGED <<dev, target>>
  BY DEF Save, jobVars
<1>1. CASE Raise
  BY <1>0, <1>1, TruthRaised
<1>2. CASE ~Raise
  <2>1. /\ pc' = "verify" /\ page' = 1 /\ clean' = clean /\ expired' = FALSE
        /\ SaveAnswered \/ expired
    BY <1>2 DEF Save, StartReading
  <2>2. clean /\ unsaved' = {} => flash' = dev
    BY <1>0, <2>1 DEF TruthInv, Running, SaveAnswered, Saved, SavedLater, SaveIgnored
  <2> QED
    BY <1>0, <2>1, <2>2 DEF TruthInv, Pages
<1> QED
  BY <1>1, <1>2

LEMMA TruthVerified ==
  ASSUME TypeInv, JournalInv, TruthInv, Verified
  PROVE  TruthInv'
<1>0. /\ pc = "verify" /\ page = 7 /\ seen = target
      /\ UNCHANGED <<dev, flash, unsaved, target, current, clean>>
  BY DEF Verified, AsRequested, Pages, TypeInv, TypeOK, deviceVars, flashVars, jobVars
<1>1. CASE pc' = "except"
  BY <1>0, <1>1, TruthElsewhere DEF Running
<1>2. CASE pc' # "except"
  <2>1. /\ cache' = seen /\ journal' = [journal EXCEPT !.status = "complete"]
        /\ pc' = "idle" /\ UNCHANGED done
    BY <1>2 DEF Verified, Finish
  <2>2. clean => dev = target /\ (unsaved = {} => flash = dev)
    <3>1. clean => \A n \in Pages : ReadPageInto(n, seen, dev) = seen
      BY <1>0 DEF TruthInv, Pages
    <3> QED
      BY <1>0, <3>1, AllPagesRead DEF TruthInv, TypeInv, TypeOK
  <2>3. journal'.status = "complete" /\ journal'.target = target
    BY <1>0, <2>1 DEF TypeInv, Control, Committing, JournalInv, Progress, Running, Journal
  <2>4. done' = PhasesOf(ThePlan)'
    BY <1>0, <2>1 DEF JournalInv, Progress, ThePlan
  <2> QED
    BY <1>0, <2>1, <2>2, <2>3, <2>4 DEF TruthInv, Running
<1> QED
  BY <1>1, <1>2

(* Nothing around the client disturbs a commit that is verified or over.   *)
LEMMA TruthLateApply ==
  ASSUME TypeInv, SentInv, JournalInv, StickInv, TruthInv, LateApply
  PROVE  TruthInv'
<1>1. UNCHANGED <<flash, unsaved, expired, pc, target, current, done, seen, page, outcome, cache,
                  journal, clean>>
  BY DEF LateApply, flashVars, linkVars, jobVars, stageVars, readVars, fileVars
<1>2. clean => OneRequest
  <2>1. PICK r \in pending : dev' \in Effects(r.change, r.target, dev) /\ pending' = pending \ {r}
    BY DEF LateApply
  <2>2. clean => r.change \in UpTo(phase) /\ r.target = target
    BY DEF SentInv
  <2> QED
    BY <2>1, <2>2 DEF OneRequest
<1>3. clean /\ (pc = "verify" \/ (pc = "idle" /\ outcome = "committed")) => dev' = dev
  BY <1>2, AllDoneIsStable DEF TruthInv, JournalInv, Progress
<1> QED
  BY <1>1, <1>3 DEF TruthInv, ThePlan

LEMMA TruthLateSave ==
  ASSUME TruthInv, LateSave
  PROVE  TruthInv'
<1>1. /\ flash' = dev
      /\ UNCHANGED <<dev, expired, pc, target, current, done, seen, page, outcome, cache,
                     journal, clean>>
  BY DEF LateSave, linkVars, jobVars, stageVars, readVars, fileVars
<1> QED
  BY <1>1 DEF TruthInv, ThePlan

LEMMA TruthStep ==
  ASSUME {"default", "expire"} \cap FaultKinds = {}, \A c \in Candidates : ~c.mgmt.dhcp
  PROVE  TypeInv /\ SentInv /\ JournalInv /\ StickInv /\ TruthInv /\ [Next]_vars => TruthInv'
<1> SUFFICES ASSUME TypeInv, SentInv, JournalInv, StickInv, TruthInv, [Next]_vars
             PROVE  TruthInv'
  OBVIOUS
<1>1. ASSUME Ask PROVE TruthInv'
  <2>1. CASE StartCommit
    BY <2>1, TruthUnclean DEF StartCommit
  <2>2. CASE StartPull \/ Restore
    BY <2>2, TruthUnclean DEF StartPull, Restore, TruthInv
  <2>3. CASE StoreBackup \/ WriteMemory
    <3>1. pc = "idle" /\ UNCHANGED <<pc, target>> /\ outcome' # "committed"
      BY <2>3 DEF StoreBackup, WriteMemory, Asked, SaveAnswered, SaveLost, Restored, NotRestored
    <3> QED
      BY <3>1, TruthElsewhere DEF Running
  <2> QED
    BY <1>1, <2>1, <2>2, <2>3 DEF Ask
<1>2. ASSUME ReadFails \/ BackupFails \/ Mismatch PROVE TruthInv'
  BY <1>2, TruthRaised DEF ReadFails, BackupFails, Mismatch, jobVars
<1>3. ASSUME PullDone \/ Planned PROVE TruthInv'
  <2>1. CASE Raise
    BY <1>3, <2>1, TruthRaised DEF PullDone, Planned, CannotSaveState, jobVars
  <2>2. CASE ~Raise
    <3>1. pc' = "backup" \/ (pc' = "idle" /\ outcome' \in {"pulled", Verdict})
      BY <1>3, <2>2 DEF PullDone, Planned, CannotSaveState, Finish
    <3>2. Verdict # "committed"
      BY DEF Verdict
    <3>3. UNCHANGED target
      BY <1>3 DEF PullDone, Planned, CannotSaveState, jobVars
    <3> QED
      BY <3>1, <3>2, <3>3, TruthElsewhere DEF Running
  <2> QED
    BY <2>1, <2>2
<1>4. ASSUME Backup PROVE TruthInv'
  <2>1. UNCHANGED target /\ expired' = FALSE /\ (Raise \/ pc' = "apply")
    BY <1>4 DEF Backup, StartPhase, jobVars
  <2> QED
    BY <2>1, TruthRaised, TruthApplying
<1>5. ASSUME Apply \/ ApplyManagement \/ LogInAgain PROVE TruthInv'
  <2>1. CASE Raise
    BY <1>5, <2>1, TruthRaised DEF Apply, ApplyManagement, LogInAgain, jobVars
  <2>2. CASE ~Raise
    <3>1. /\ UNCHANGED target /\ clean' = clean /\ pc \in {"apply", "rebase"}
          /\ pc' \in {"apply", "rebase", "confirm"}
      BY <1>5, <2>2 DEF Apply, ApplyManagement, LogInAgain, Sent, StartReading, jobVars
    <3>2. expired' = FALSE \/ UNCHANGED expired
      BY <1>5, <2>2 DEF Apply, ApplyManagement, LogInAgain, Answered, Lost
    <3> QED
      BY <3>1, <3>2, TruthApplying DEF Running
  <2> QED
    BY <2>1, <2>2
<1>6. ASSUME PhaseConfirmed \/ PhaseIncomplete PROVE TruthInv'
  <2>1. CASE Raise
    BY <1>6, <2>1, TruthRaised DEF PhaseConfirmed, PhaseIncomplete, jobVars
  <2>2. CASE ~Raise
    <3>1. /\ UNCHANGED <<target, expired>> /\ clean' = clean /\ pc = "confirm"
          /\ pc' \in {"apply", "confirm", "save", "except"}
      BY <1>6, <2>2 DEF PhaseConfirmed, SaveOrNextPhase, StartPhase, PhaseIncomplete, StartReading,
         jobVars, linkVars
    <3> QED
      BY <3>1, TruthApplying, TruthElsewhere DEF Running
  <2> QED
    BY <2>1, <2>2
<1>7. ASSUME Except PROVE TruthInv'
  <2>1. UNCHANGED target /\ pc' = "idle" /\ outcome' = "failed"
    BY <1>7 DEF Except, Finish, jobVars
  <2> QED
    BY <2>1, TruthElsewhere DEF Running
<1>8. ASSUME Environment PROVE TruthInv'
  <2>1. CASE Admin \/ Reboot
    BY <2>1, TruthUnclean DEF Admin, Reboot, jobVars, TruthInv
  <2>2. CASE Crash
    <3>1. UNCHANGED target /\ pc' = "idle" /\ outcome' = "crashed"
      BY <2>2 DEF Crash, Finish, jobVars
    <3> QED
      BY <3>1, TruthElsewhere DEF Running
  <2> QED
    BY <1>8, <2>1, <2>2, TruthLateApply, TruthLateSave DEF Environment, Expire, Happens
<1>9. CASE UNCHANGED vars
  BY <1>9 DEF TruthInv, ThePlan, vars, deviceVars, flashVars, linkVars, jobVars, stageVars, readVars, fileVars
<1> QED
  BY <1>1, <1>2, <1>3, <1>4, <1>5, <1>6, <1>7, <1>8, <1>9, TruthRead, TruthSaved, TruthVerified
     DEF Next, Client, StepOfRead, StepOfCommit

(* "configuration committed and saved" is true of the running              *)
(* configuration, the cached state and the journal, then and for as long   *)
(* as nobody else changes the switch: requests lost, ignored or applied    *)
(* late, failing disks and crashes included.  It is true of the            *)
(* flash once the switch has carried out the save it has answered, which   *)
(* the commit does not look into.  Not of a candidate that leaves the      *)
(* address to DHCP, and not if the session ends unnoticed or the wrong     *)
(* page is taken for a configuration page.                                 *)
THEOREM CommittedIsTrue ==
  ASSUME {"default", "expire"} \cap FaultKinds = {}, \A c \in Candidates : ~c.mgmt.dhcp
  PROVE  Spec => []CommitTruth
<1>1. Init => TruthInv
  <2> SUFFICES ASSUME Init PROVE TruthInv
    OBVIOUS
  <2>1. target = Defaults /\ pc = "idle" /\ outcome = "none"
    BY DEF Init
  <2>2. ~Defaults.mgmt.dhcp
    BY Zenon DEF Defaults
  <2> QED
    BY <2>1, <2>2 DEF TruthInv, Running
<1>2. TypeInv /\ SentInv /\ JournalInv /\ StickInv /\ TruthInv /\ [Next]_vars => TruthInv'
  BY TruthStep
<1>3. TruthInv => CommitTruth
  BY DEF TruthInv, CommitTruth
<1>4. "default" \notin FaultKinds
  OBVIOUS
<1>5. Spec => []StickInv
  BY <1>4, StickInvariant
<1> QED
  BY <1>1, <1>2, <1>3, <1>5, TypeInvariant, SentInvariant, JournalInvariant, PTL DEF Spec

----------------------------------------------------------------------------
(* How a commit ends: "committed and saved" only of a candidate that a     *)
(* save has put into the flash, whatever single thing went wrong but the   *)
(* save itself, and "partial failure" only if something did.  Both follow  *)
(* a commit while nothing has interfered with it.                          *)

(* The switch has only the ports of its hardware. *)
HardwareOnly(c) == \A p \in PortIds \ HwPorts : c.port[p] = None /\ c.pvid[p] = 1

(* MixOf(d, c, t): every part of d is as in c or as in t. *)
MixOf(d, c, t) ==
  /\ d.mgmt \in {c.mgmt, t.mgmt} /\ d.fallback \in {c.fallback, t.fallback}
  /\ d.dot1q \in {c.dot1q, t.dot1q}
  /\ \A p \in PortIds : d.port[p] \in {c.port[p], t.port[p]} /\ d.pvid[p] \in {c.pvid[p], t.pvid[p]}
  /\ \A v \in Vids : d.vlans[v] \in {c.vlans[v], t.vlans[v]}
  /\ \A g \in Groups : d.lags[g] \in {c.lags[g], t.lags[g]}

(* A commit on its own leads from one configuration to another by parts.   *)
LEMMA MixKept ==
  ASSUME NEW c \in Config, NEW t \in Config, NEW d \in Config, t.dot1q = TRUE, ~t.mgmt.dhcp,
         MixOf(d, c, t), NEW ch \in Plan(c, t), NEW e \in Effects(ch, t, d)
  PROVE  MixOf(e, c, t)
<1>1. CASE ch = Change(5, "enable_dot1q", None)
  <2>1. e = [d EXCEPT !.dot1q = TRUE]
    BY <1>1 DEF Change, Effects
  <2> QED
    BY <2>1 DEF MixOf, Config
<1>2. ASSUME NEW v \in VlanIds(t), ch = Change(10, "upsert_vlan", v) PROVE MixOf(e, c, t)
  <2>1. e = d \/ e = [d EXCEPT !.vlans[v] = t.vlans[v]]
    BY <1>2 DEF Change, Effects
  <2> QED
    BY <2>1 DEF MixOf, Config, VlanIds
<1>3. ASSUME NEW g \in Groups,
             \/ ch = Change(20, "delete_lag", g) /\ t.lags[g] = None
             \/ ch = Change(20, "set_lag", g) /\ t.lags[g] # None
      PROVE  MixOf(e, c, t)
  <2>1. e = [d EXCEPT !.lags[g] = t.lags[g]]
    BY <1>3 DEF Change, Effects
  <2> QED
    BY <2>1 DEF MixOf, Config
<1>4. ASSUME NEW p \in PortIds, ch = Change(30, "set_port", p) PROVE MixOf(e, c, t)
  <2>1. e = [d EXCEPT !.port[p] = t.port[p]]
    BY <1>4 DEF Change, Effects
  <2> QED
    BY <2>1 DEF MixOf, Config
<1>5. ASSUME NEW p \in PortIds, ch = Change(40, "set_pvid", p) PROVE MixOf(e, c, t)
  <2>1. e = [d EXCEPT !.pvid[p] = t.pvid[p]]
    BY <1>5 DEF Change, Effects
  <2> QED
    BY <2>1 DEF MixOf, Config
<1>6. CASE ch = Change(45, "set_fallback_ip", None)
  <2>1. e = [d EXCEPT !.fallback = t.fallback]
    BY <1>6 DEF Change, Effects
  <2> QED
    BY <2>1 DEF MixOf, Config
<1>7. CASE ch = Change(50, "set_management", None)
  <2>1. e = [d EXCEPT !.mgmt = t.mgmt]
    BY <1>7 DEF Change, Effects, SwitchedManagement
  <2> QED
    BY <2>1 DEF MixOf, Config
<1>8. ASSUME NEW v \in VlanIds(c) \ VlanIds(t), ch = Change(60, "delete_vlan", v)
      PROVE  MixOf(e, c, t)
  <2>1. e = [d EXCEPT !.vlans[v] = None] /\ t.vlans[v] = None /\ v \in Vids
    BY <1>8 DEF Change, Effects, VlanIds
  <2> QED
    BY <2>1 DEF MixOf, Config
<1> QED
  BY PlanForms, <1>1, <1>2, <1>3, <1>4, <1>5, <1>6, <1>7, <1>8

(* Nothing that differs is left out of build_plan for a valid candidate: a *)
(* switch on its way from one to the other that shows every planned change *)
(* (_change_observed) has exactly the configuration asked for.             *)
THEOREM PlanIsComplete ==
  ASSUME NEW c \in Config, NEW t \in Config, NEW d \in Config, Valid(t), ~t.mgmt.dhcp,
         HardwareOnly(c), HardwareOnly(t), MixOf(d, c, t),
         \A ch \in Plan(c, t) : Observed(ch, t, d)
  PROVE  d = t
<1>0. /\ t.dot1q /\ PortsOf(t) = HwPorts /\ 1 \in VlanIds(t) /\ 1 \in Vids
      /\ HwPorts \subseteq PortIds
  BY PlannerConstants DEF Valid, ValidVlans, ValidPorts
<1>1. d.dot1q = t.dot1q
  <2>1. CASE c.dot1q
    BY <1>0, <2>1 DEF MixOf, Config
  <2>2. CASE ~c.dot1q
    <3>1. Change(5, "enable_dot1q", None) \in Plan(c, t)
      BY <1>0, <2>2 DEF Plan, EnableDot1q
    <3>2. d.dot1q
      BY <3>1 DEF Observed, Change
    <3> QED
      BY <1>0, <3>2 DEF Config
  <2> QED
    BY <2>1, <2>2
<1>2. ASSUME NEW v \in Vids PROVE d.vlans[v] = t.vlans[v]
  <2>1. CASE c.vlans[v] = t.vlans[v]
    BY <2>1 DEF MixOf
  <2>2. CASE c.vlans[v] # t.vlans[v] /\ t.vlans[v] # None
    <3>1. Change(10, "upsert_vlan", v) \in Plan(c, t)
      BY <2>2 DEF Plan, UpsertVlans, VlanIds
    <3> QED
      BY <3>1 DEF Observed, Change
  <2>3. CASE c.vlans[v] # t.vlans[v] /\ t.vlans[v] = None
    <3>1. Change(60, "delete_vlan", v) \in Plan(c, t)
      BY <1>0, <2>3 DEF Plan, DeleteVlans, VlanIds
    <3> QED
      BY <2>3, <3>1 DEF Observed, Change
  <2> QED
    BY <2>1, <2>2, <2>3
<1>3. ASSUME NEW g \in Groups PROVE d.lags[g] = t.lags[g]
  <2>1. CASE c.lags[g] = t.lags[g]
    BY <2>1 DEF MixOf
  <2>2. CASE c.lags[g] # t.lags[g]
    <3>1. Change(20, IF t.lags[g] = None THEN "delete_lag" ELSE "set_lag", g) \in Plan(c, t)
      BY <2>2 DEF Plan, LagChanges
    <3> QED
      BY <3>1 DEF Observed, Change
  <2> QED
    BY <2>1, <2>2
<1>4. ASSUME NEW p \in PortIds PROVE d.port[p] = t.port[p] /\ d.pvid[p] = t.pvid[p]
  <2>1. CASE p \in PortIds \ HwPorts
    BY <2>1 DEF MixOf, HardwareOnly
  <2>2. CASE p \in HwPorts
    <3>1. c.port[p] # t.port[p] => Change(30, "set_port", p) \in Plan(c, t)
      BY <1>0, <2>2 DEF Plan, SetPorts
    <3>2. c.pvid[p] # t.pvid[p] => Change(40, "set_pvid", p) \in Plan(c, t)
      BY <1>0, <2>2 DEF Plan, SetPvids
    <3>3. c.port[p] # t.port[p] => d.port[p] = t.port[p]
      BY <3>1 DEF Observed, Change
    <3>4. c.pvid[p] # t.pvid[p] => d.pvid[p] = t.pvid[p]
      BY <3>2 DEF Observed, Change
    <3> QED
      BY <3>3, <3>4 DEF MixOf
  <2> QED
    BY <2>1, <2>2
<1>5. d.fallback = t.fallback
  <2>1. c.fallback # t.fallback => Change(45, "set_fallback_ip", None) \in Plan(c, t)
    BY DEF Plan, SetFallback
  <2>2. c.fallback # t.fallback => d.fallback = t.fallback
    BY <2>1 DEF Observed, Change
  <2> QED
    BY <2>2 DEF MixOf
<1>6. d.mgmt = t.mgmt
  <2>1. c.mgmt # t.mgmt => Change(50, "set_management", None) \in Plan(c, t)
    BY DEF Plan, SetManagement, ManagementChange
  <2>2. c.mgmt # t.mgmt => /\ d.mgmt.vlan = t.mgmt.vlan /\ d.mgmt.dhcp = t.mgmt.dhcp
                           /\ Lease(d.mgmt) = Lease(t.mgmt) /\ d.mgmt.gateway = t.mgmt.gateway
    BY <2>1 DEF Observed, Change
  <2>3. d.mgmt \in Management /\ t.mgmt \in Management
    BY DEF Config
  <2>4. c.mgmt # t.mgmt => d.mgmt.address = t.mgmt.address
    BY <2>2 DEF Lease
  <2> QED
    BY <2>2, <2>3, <2>4 DEF MixOf, Management
<1>7. d.vlans = t.vlans /\ d.lags = t.lags /\ d.port = t.port /\ d.pvid = t.pvid
  BY <1>2, <1>3, <1>4 DEF Config
<1> QED
  BY <1>1, <1>5, <1>6, <1>7 DEF Config
----------------------------------------------------------------------------
(* While nothing has interfered.  A request that the switch has taken up   *)
(* for later counts as interference from the moment it is carried out.     *)

Calm == faults = 0 \/ (faults = 1 /\ pending # {})

(* A commit has begun, or the plan of one has begun to be read. *)
Under == pc \in Running \cup {"backup"} \/ (pc = "plan" /\ page > 1)

(* The pages read so far are those of the switch as it is. *)
Shown == \A n \in Pages : n < page => ReadPageInto(n, seen, dev) = seen

(* The switch is on its way from the current to the target configuration,  *)
(* and what has been confirmed is there.                                   *)
OnItsWay ==
  /\ HardwareOnly(current) /\ MixOf(dev, current, target)
  /\ todo \subseteq ThePlan
  /\ \A ch \in ThePlan : ch.phase \in done => Observed(ch, target, dev)

AtMostOneLate == (faults = 0 => pending = {}) /\ \A r, s \in pending : r = s

CalmInv ==
  Calm =>
    /\ AtMostOneLate
    /\ HardwareOnly(dev) /\ \A b \in backups : HardwareOnly(b)
    /\ pc \in Reading => Shown
    /\ pc = "backup" => dev = current
    /\ pc \in Running => OnItsWay
    /\ Under => ~expired
    /\ unsaved = {}
    /\ pc = "verify" => flash = dev

TargetInv == pc \in {"plan"} \cup Committing => target \in Candidates

(* What is assumed of the configurations: ports are those of the hardware, *)
(* and no candidate leaves its address to DHCP.                            *)
Ordinary ==
  /\ \A c \in DeviceConfigs \cup Candidates : HardwareOnly(c)
  /\ \A c \in Candidates : ~c.mgmt.dhcp

LEMMA TargetStep == TargetInv /\ [Next]_vars => TargetInv'
<1> SUFFICES ASSUME TargetInv, [Next]_vars PROVE TargetInv'
  OBVIOUS
<1>1. StartCommit \/ UNCHANGED target
  BY DEF Next, vars, Ask, Client, StepOfRead, StepOfCommit, Environment, jobVars,
         StartPull, StoreBackup, WriteMemory, Restore,
         ReadPage, ReadFails, PullDone, CannotSaveState, Planned, Backup, BackupFails, Apply,
         ApplyManagement, LogInAgain, PhaseConfirmed, PhaseIncomplete, Save, Verified, Mismatch,
         Except, LateApply, LateSave, Admin, Reboot, Expire, Crash
<1>2. CASE StartCommit
  BY <1>2 DEF StartCommit, TargetInv
<1>3. CASE ~StartCommit
  <2>1. CASE Ask \/ Environment \/ UNCHANGED vars
    BY <1>1, <1>3, <2>1 DEF TargetInv, Ask, StartPull, StartReading, StoreBackup, WriteMemory, Restore,
       Environment, LateApply, LateSave, Admin, Reboot, Expire, Crash, Finish, vars, Committing, Asked
  <2>2. CASE Client
    <3>1. pc \in {"plan"} \cup Committing \/ pc' \in {"idle", "pull", "except"}
      BY <2>2, RaiseEnds DEF Client, StepOfRead, StepOfCommit, ReadPage, ReadFails, PullDone,
         CannotSaveState, Finish, Reading, Planned, Backup, BackupFails, Apply, ApplyManagement, LogInAgain,
         PhaseConfirmed, PhaseIncomplete, Save, Verified, Mismatch, Except, Committing
    <3>2. pc = "pull" => pc' # "except"
      BY <2>2 DEF Client, StepOfRead, StepOfCommit, ReadPage, ReadFails, PullDone, Raise,
         CannotSaveState, Finish, Planned, Backup, BackupFails, Apply, ApplyManagement, LogInAgain,
         PhaseConfirmed, PhaseIncomplete, Save, Verified, Mismatch, Except
    <3>3. pc \in Steps \ {"pull"} => pc \in {"plan"} \cup Committing
      BY DEF Steps, Reading, Committing
    <3>4. pc \in Steps
      BY <2>2 DEF Client, StepOfRead, StepOfCommit, ReadPage, ReadFails, PullDone, Steps, Reading,
         Planned, Backup, BackupFails, Apply, ApplyManagement, LogInAgain,
         PhaseConfirmed, PhaseIncomplete, Save, Verified, Mismatch, Except
    <3> QED
      BY <1>1, <1>3, <3>1, <3>2, <3>3, <3>4 DEF TargetInv, Committing
  <2> QED
    BY <2>1, <2>2 DEF Next
<1> QED
  BY <1>2, <1>3

(* A failure ends the calm, unless it is the first and makes a request late. *)
LEMMA NoLongerCalm ==
  ASSUME TypeInv, CalmInv, NEW k, Happens(k), pending' \subseteq pending
  PROVE  ~Calm'
<1>1. faults \in Nat /\ faults' = faults + 1
  BY DEF Happens, TypeInv, TypeOK
<1>2. faults = 0 => pending' = {}
  BY DEF CalmInv, Calm, AtMostOneLate
<1> QED
  BY <1>1, <1>2 DEF Calm

LEMMA FirstIsLate ==
  ASSUME TypeInv, CalmInv, NEW k, Happens(k), NEW ch, Later(ch), Calm'
  PROVE  Calm /\ AtMostOneLate'
<1>1. faults \in Nat /\ faults' = faults + 1
  BY DEF Happens, TypeInv, TypeOK
<1>2. faults = 0 /\ faults' = 1
  BY <1>1 DEF Calm
<1>3. pending' = {[change |-> ch, target |-> target]}
  BY <1>2 DEF CalmInv, Calm, AtMostOneLate, Later
<1> QED
  BY <1>2, <1>3 DEF Calm, AtMostOneLate

LEMMA StillCalm ==
  ASSUME CalmInv, Calm', UNCHANGED <<faults, pending>>
  PROVE  Calm /\ AtMostOneLate'
BY DEF CalmInv, Calm, AtMostOneLate

(* Steps that end the operation, or are about to. *)
LEMMA CalmEnds ==
  ASSUME CalmInv, Calm, AtMostOneLate', HardwareOnly(dev'), backups' \subseteq backups \cup {dev},
         unsaved' \subseteq unsaved, pc' \in {"idle", "except"}
  PROVE  CalmInv'
BY DEF CalmInv, Reading, Running, Under

(* What a request for a change of the plan does in the calm. *)
LEMMA CalmRequest ==
  ASSUME TypeInv, CalmInv, Calm', Ordinary, TargetInv, pc = "apply", NEW ch \in todo,
         Answered(ch) \/ Lost(ch), UNCHANGED <<target, current>>
  PROVE  /\ Calm /\ AtMostOneLate' /\ HardwareOnly(dev') /\ MixOf(dev', current, target)
         /\ \A c \in ThePlan : c.phase \in done => Observed(c, target, dev')
         /\ ~expired'
<1>1. \/ Accepted(ch) /\ UNCHANGED faults
      \/ Later(ch) /\ \E k : Happens(k)
      \/ Nothing /\ UNCHANGED faults
  <2>1. ASSUME \E k : Happens(k) PROVE ~(Nothing \/ Accepted(ch))
    <3>1. Nothing \/ Accepted(ch) => pending' = pending
      BY DEF Nothing, Accepted
    <3> QED
      BY <2>1, <3>1, NoLongerCalm
  <2> QED
    BY <2>1 DEF Answered, Lost
<1>2. Calm /\ AtMostOneLate'
  <2>1. CASE UNCHANGED faults /\ UNCHANGED pending
    BY <2>1, StillCalm
  <2>2. CASE Later(ch) /\ \E k : Happens(k)
    BY <2>2, FirstIsLate
  <2> QED
    BY <1>1, <2>1, <2>2 DEF Accepted, Nothing
<1>3. /\ OnItsWay /\ HardwareOnly(current) /\ HardwareOnly(dev) /\ ~expired
  BY <1>2 DEF CalmInv, Running, OnItsWay, Under
<1>4. Valid(target) /\ target \in Candidates
  BY DEF TypeInv, Control, TargetInv, Committing
<1>5. /\ target.dot1q = TRUE /\ ~target.mgmt.dhcp /\ HardwareOnly(target)
  <2>1. target \in Config
    BY DEF TypeInv, TypeOK
  <2> QED
    BY <1>4, <2>1 DEF Valid, ValidVlans, Ordinary, Config
<1>6. ch \in ThePlan
  BY <1>3 DEF OnItsWay
<1>7. ~expired'
  BY <1>3 DEF Answered, Lost
<1>8. CASE dev' = dev
  BY <1>2, <1>3, <1>7, <1>8 DEF OnItsWay
<1>9. CASE dev' \in Effects(ch, target, dev)
  <2>0. current \in Config /\ target \in Config /\ dev \in Config
    BY DEF TypeInv, TypeOK
  <2>1. MixOf(dev', current, target)
    BY <1>3, <1>5, <1>6, <1>9, <2>0, MixKept DEF OnItsWay, ThePlan
  <2>2. HardwareOnly(dev')
    BY <1>3, <1>5, <2>1 DEF MixOf, HardwareOnly
  <2>3. ASSUME NEW c \in ThePlan, c.phase \in done PROVE Observed(c, target, dev')
    BY <1>3, <1>5, <1>6, <1>9, <2>0, <2>3, EffectAndOthers DEF OnItsWay, ThePlan
  <2> QED
    BY <1>2, <1>7, <2>1, <2>2, <2>3
<1> QED
  BY <1>1, <1>8, <1>9 DEF Accepted, Later, Nothing

(* The pages agree with the switch when all of them have been read. *)
LEMMA CalmSeen ==
  ASSUME TypeInv, CalmInv, Calm, pc \in Reading, page \notin Pages
  PROVE  seen = dev
<1>1. page = 7
  BY DEF TypeInv, TypeOK, Pages
<1>2. \A n \in Pages : ReadPageInto(n, seen, dev) = seen
  BY <1>1 DEF CalmInv, Shown, Pages
<1> QED
  BY <1>2, AllPagesRead DEF TypeInv, TypeOK

LEMMA CalmRead ==
  ASSUME TypeInv, CalmInv, Calm', ReadPage
  PROVE  CalmInv'
<1>1. /\ page' = page + 1 /\ page \in Pages /\ expired' = FALSE
      /\ UNCHANGED <<dev, flash, unsaved, pending, pc, target, current, todo, done, backups>>
  BY DEF ReadPage, deviceVars, flashVars, jobVars, stageVars, fileVars
<1>2. UNCHANGED faults /\ seen' = ReadPageInto(page, seen, dev)
  BY <1>1, NoLongerCalm DEF ReadPage
<1>3. Calm /\ AtMostOneLate'
  BY <1>1, <1>2, StillCalm
<1>4. Shown'
  <2>1. Shown
    BY <1>3 DEF CalmInv, ReadPage
  <2>2. ASSUME NEW n \in Pages, n < page' PROVE ReadPageInto(n, seen', dev) = seen'
    <3>1. n = page \/ ReadPageInto(n, seen, dev) = seen
      BY <1>1, <2>1, <2>2 DEF Shown, Pages
    <3> QED
      BY <1>1, <1>2, <3>1, ReadAgain
  <2> QED
    BY <1>1, <2>2 DEF Shown
<1> QED
  BY <1>1, <1>3, <1>4 DEF CalmInv, OnItsWay, ThePlan, Under

LEMMA CalmPlanned ==
  ASSUME TypeInv, CalmInv, Calm', Planned
  PROVE  CalmInv'
<1>1. UNCHANGED <<dev, flash, unsaved, pending, expired, backups>> /\ pc = "plan" /\ page \notin Pages
  BY DEF Planned, CannotSaveState, deviceVars, flashVars, linkVars, fileVars
<1>2. UNCHANGED faults
  BY <1>1, NoLongerCalm DEF Planned, CannotSaveState
<1>3. Calm /\ AtMostOneLate'
  BY <1>1, <1>2, StillCalm
<1>4. CASE pc' # "backup"
  <2>1. pc' \in {"idle", "except"}
    BY <1>4, RaiseEnds DEF Planned, CannotSaveState, Finish
  <2> QED
    BY <1>1, <1>3, <2>1, CalmEnds DEF CalmInv
<1>5. CASE pc' = "backup"
  <2>1. current' = seen
    BY <1>5, RaiseEnds DEF Planned, CannotSaveState, Finish
  <2>2. seen = dev
    BY <1>1, <1>3, CalmSeen DEF Reading
  <2>3. ~expired
    BY <1>1, <1>3 DEF CalmInv, Under, TypeInv, TypeOK, Pages
  <2> QED
    BY <1>1, <1>3, <1>5, <2>1, <2>2, <2>3 DEF CalmInv, Reading, Running
<1> QED
  BY <1>4, <1>5

LEMMA CalmBackup ==
  ASSUME TypeInv, JournalInv, CalmInv, Calm', Backup
  PROVE  CalmInv'
<1>1. UNCHANGED <<dev, flash, unsaved, pending, target, current>> /\ pc = "backup" /\ expired' = FALSE
  BY DEF Backup, deviceVars, flashVars, jobVars
<1>2. /\ \E file \in Downloads : SaveBackup(file)
      /\ StartPhase /\ UNCHANGED <<faults, done>>
  BY <1>1, NoLongerCalm DEF Backup
<1>3. Calm /\ AtMostOneLate'
  BY <1>1, <1>2, StillCalm
<1>4. dev = current /\ ~expired /\ HardwareOnly(dev)
  BY <1>1, <1>3 DEF CalmInv, Under
<1>5. backups' \subseteq backups \cup {dev}
  BY <1>2, <1>4 DEF Downloads, SaveBackup
<1>6. pc' = "apply" /\ todo' \subseteq ThePlan
  BY <1>2 DEF StartPhase, Stage
<1>7. done' = {}
  BY <1>1, <1>2 DEF JournalInv, Progress
<1>8. OnItsWay'
  BY <1>1, <1>4, <1>6, <1>7 DEF OnItsWay, ThePlan, MixOf
<1> QED
  BY <1>1, <1>3, <1>4, <1>5, <1>6, <1>8 DEF CalmInv, Reading

LEMMA CalmApply ==
  ASSUME TypeInv, CalmInv, Calm', Ordinary, TargetInv, Apply \/ ApplyManagement
  PROVE  CalmInv'
<1>1. PICK ch \in todo : /\ Answered(ch) \/ Lost(ch)
                         /\ \/ Sent(ch)
                            \/ Raise
                            \/ pc' = "rebase" /\ todo' = todo \ {ch} /\ UNCHANGED done
  BY DEF Apply, ApplyManagement
<1>2. pc = "apply" /\ UNCHANGED <<flash, unsaved, target, current, backups>>
  BY DEF Apply, ApplyManagement, flashVars, jobVars, fileVars
<1>3. /\ Calm /\ AtMostOneLate' /\ HardwareOnly(dev') /\ MixOf(dev', current, target)
      /\ \A c \in ThePlan : c.phase \in done => Observed(c, target, dev')
      /\ ~expired'
  BY <1>1, <1>2, CalmRequest
<1>4. CASE Raise
  BY <1>2, <1>3, <1>4, CalmEnds, RaiseEnds
<1>5. CASE ~Raise
  <2>1. /\ pc' \in {"apply", "confirm", "rebase"} /\ todo' \subseteq todo /\ UNCHANGED done
        /\ pc' = "confirm" => page' = 1
    BY <1>1, <1>2, <1>5 DEF Sent, StartReading
  <2>2. OnItsWay
    BY <1>2, <1>3 DEF CalmInv, Running
  <2>3. OnItsWay'
    BY <1>2, <1>3, <2>1, <2>2 DEF OnItsWay, ThePlan
  <2>4. pc' \in Reading => Shown'
    BY <2>1 DEF Reading, Shown, Pages
  <2>5. \A b \in backups' : HardwareOnly(b)
    BY <1>2, <1>3 DEF CalmInv
  <2> QED
    BY <1>2, <1>3, <2>1, <2>3, <2>4, <2>5 DEF CalmInv
<1> QED
  BY <1>4, <1>5

LEMMA CalmLogIn ==
  ASSUME TypeInv, CalmInv, Calm', LogInAgain
  PROVE  CalmInv'
<1>1. UNCHANGED <<dev, flash, unsaved, pending, target, current, backups>> /\ pc = "rebase"
  BY DEF LogInAgain, deviceVars, flashVars, jobVars, fileVars
<1>2. UNCHANGED faults
  BY <1>1, NoLongerCalm DEF LogInAgain, Unanswered
<1>3. Calm /\ AtMostOneLate' /\ HardwareOnly(dev) /\ OnItsWay
  BY <1>1, <1>2, StillCalm DEF CalmInv, Running
<1>4. CASE Raise
  BY <1>1, <1>3, <1>4, CalmEnds, RaiseEnds
<1>5. CASE ~Raise
  <2>1. pc' = "confirm" /\ page' = 1 /\ expired' = FALSE /\ UNCHANGED <<todo, done>>
    BY <1>5 DEF LogInAgain, StartReading, stageVars
  <2> QED
    BY <1>1, <1>3, <2>1 DEF CalmInv, Shown, Pages, OnItsWay, ThePlan
<1> QED
  BY <1>4, <1>5

LEMMA CalmConfirmed ==
  ASSUME TypeInv, CalmInv, Calm', PhaseConfirmed
  PROVE  CalmInv'
<1>1. /\ UNCHANGED <<dev, flash, unsaved, pending, expired, target, current, backups>>
      /\ pc = "confirm" /\ page \notin Pages /\ Confirmed /\ done' = done \cup {phase}
  BY DEF PhaseConfirmed, deviceVars, flashVars, linkVars, jobVars
<1>2. SaveOrNextPhase /\ UNCHANGED faults
  BY <1>1, NoLongerCalm DEF PhaseConfirmed
<1>3. Calm /\ AtMostOneLate' /\ HardwareOnly(dev) /\ OnItsWay /\ ~expired
  BY <1>1, <1>2, StillCalm DEF CalmInv, Running, Under
<1>4. seen = dev
  BY <1>1, <1>3, CalmSeen DEF Reading
<1>5. pc' \in {"apply", "save"} /\ todo' \subseteq ThePlan
  BY <1>2, <1>3 DEF SaveOrNextPhase, StartPhase, Stage, OnItsWay
<1>6. \A ch \in ThePlan : ch.phase \in done' => Observed(ch, target, dev)
  BY <1>1, <1>3, <1>4 DEF Confirmed, Stage, OnItsWay
<1>7. OnItsWay'
  BY <1>1, <1>3, <1>5, <1>6 DEF OnItsWay, ThePlan
<1> QED
  BY <1>1, <1>3, <1>5, <1>7 DEF CalmInv, Reading

LEMMA CalmRetry ==
  ASSUME TypeInv, CalmInv, Calm', PhaseIncomplete
  PROVE  CalmInv'
<1>1. /\ UNCHANGED <<dev, flash, unsaved, pending, expired, target, current, backups, faults>>
      /\ pc = "confirm"
  BY DEF PhaseIncomplete, deviceVars, flashVars, linkVars, jobVars, fileVars
<1>2. Calm /\ AtMostOneLate' /\ HardwareOnly(dev) /\ OnItsWay /\ ~expired
  BY <1>1, StillCalm DEF CalmInv, Running, Under
<1>3. CASE Raise
  BY <1>1, <1>2, <1>3, CalmEnds, RaiseEnds
<1>4. CASE ~Raise
  <2>1. pc' = "confirm" /\ page' = 1 /\ UNCHANGED <<todo, done>>
    BY <1>4 DEF PhaseIncomplete, StartReading, stageVars
  <2> QED
    BY <1>1, <1>2, <2>1 DEF CalmInv, Shown, Pages, OnItsWay, ThePlan
<1> QED
  BY <1>3, <1>4

LEMMA CalmSave ==
  ASSUME TypeInv, CalmInv, Calm', Save
  PROVE  CalmInv'
<1>1. UNCHANGED <<dev, pending, target, current, backups>> /\ pc = "save"
  BY DEF Save, jobVars, fileVars
<1>2. UNCHANGED faults
  BY <1>1, NoLongerCalm DEF Save, SaveAnswered, SaveLost
<1>3. Calm /\ AtMostOneLate' /\ HardwareOnly(dev) /\ OnItsWay /\ ~expired /\ unsaved = {}
  BY <1>1, <1>2, StillCalm DEF CalmInv, Running, Under
<1>n. ASSUME NEW k, Happens(k) PROVE FALSE
  BY <1>1, <1>n, NoLongerCalm
<1>4. CASE Raise
  <2>1. \/ ~Reachable /\ NotSaved
        \/ pc' = "verify"
    BY <1>n DEF Save, SaveLost, StartReading
  <2>2. unsaved' = unsaved
    BY <1>4, <2>1, RaiseEnds DEF NotSaved, flashVars
  <2> QED
    BY <1>1, <1>3, <1>4, <2>2, CalmEnds, RaiseEnds
<1>5. CASE ~Raise
  <2>1. /\ pc' = "verify" /\ page' = 1 /\ expired' = FALSE /\ UNCHANGED <<todo, done>>
        /\ Saved
    BY <1>n, <1>3, <1>5 DEF Save, SaveAnswered, StartReading, stageVars
  <2>2. flash' = dev /\ unsaved' = {}
    BY <1>3, <2>1 DEF Saved
  <2> QED
    BY <1>1, <1>3, <2>1, <2>2 DEF CalmInv, Shown, Pages, OnItsWay, ThePlan
<1> QED
  BY <1>4, <1>5

(* Steps after which the client is done, or about to be. *)
LEMMA CalmEnding ==
  ASSUME TypeInv, CalmInv, Calm',
         ReadFails \/ PullDone \/ BackupFails \/ Verified \/ Mismatch \/ Except
  PROVE  CalmInv'
<1>1. UNCHANGED <<dev, pending, unsaved, backups>>
  BY DEF ReadFails, PullDone, CannotSaveState, BackupFails, Verified, Mismatch, Except, deviceVars, flashVars,
     fileVars
<1>2. UNCHANGED faults
  BY <1>1, NoLongerCalm DEF ReadFails, PullDone, CannotSaveState, BackupFails, Verified,
     Mismatch, Except, Unanswered
<1>3. Calm /\ AtMostOneLate'
  BY <1>1, <1>2, StillCalm
<1>4. pc' \in {"idle", "except"}
  BY RaiseEnds DEF ReadFails, PullDone, CannotSaveState, BackupFails, Verified, Mismatch, Except,
     Finish
<1> QED
  BY <1>1, <1>3, <1>4, CalmEnds DEF CalmInv

LEMMA CalmAsk ==
  ASSUME TypeInv, CalmInv, Calm', Ask
  PROVE  CalmInv'
<1>1. UNCHANGED faults
  BY NoLongerCalm DEF Ask, StartCommit, StartPull, StoreBackup, WriteMemory, Restore, SaveAnswered,
     SaveLost, Restored, NotRestored, deviceVars, flashVars
<1>n. ASSUME NEW k, Happens(k) PROVE FALSE
  BY <1>1, <1>n DEF Happens, TypeInv, TypeOK
<1>2. CASE Restore
  <2>1. /\ dev' \in backups /\ pending' = {} /\ unsaved' = {} /\ pc' = "idle"
        /\ UNCHANGED backups
    BY <1>2, <1>n DEF Restore, Restored, Asked, fileVars
  <2>2. Calm
    BY <1>1, <2>1 DEF Calm
  <2> QED
    BY <2>1, <2>2, CalmEnds DEF CalmInv, AtMostOneLate
<1>3. CASE ~Restore
  <2>1. UNCHANGED <<dev, pending>>
    BY <1>3 DEF Ask, StartCommit, StartPull, StoreBackup, WriteMemory, deviceVars, flashVars
  <2>2. Calm /\ AtMostOneLate'
    BY <1>1, <2>1, StillCalm
  <2>u. unsaved' \subseteq unsaved
    BY <1>3, <1>n DEF Ask, StartCommit, StartPull, StoreBackup, WriteMemory, SaveAnswered, SaveLost,
       Saved, deviceVars, flashVars
  <2>3. CASE StoreBackup \/ WriteMemory
    <3>1. pc' = "idle" /\ backups' \subseteq backups \cup {dev}
      BY <2>3 DEF StoreBackup, WriteMemory, Asked, SaveBackup, fileVars
    <3> QED
      BY <2>1, <2>2, <2>u, <3>1, CalmEnds DEF CalmInv
  <2>4. CASE StartCommit \/ StartPull
    <3>1. pc' \in {"pull", "plan"} /\ page' = 1 /\ UNCHANGED backups
      BY <2>4 DEF StartCommit, StartPull, StartReading, fileVars
    <3> QED
      BY <2>1, <2>2, <2>u, <3>1 DEF CalmInv, Shown, Pages, Under, Running
  <2> QED
    BY <1>3, <2>3, <2>4 DEF Ask
<1> QED
  BY <1>2, <1>3

(* What happens around the client ends the calm. *)
LEMMA CalmAround ==
  ASSUME TypeInv, CalmInv, Calm', Environment
  PROVE  FALSE
<1>1. pending' \subseteq pending
  BY DEF Environment, LateApply, LateSave, Admin, Reboot, Expire, Crash, deviceVars, flashVars
<1>s. ~LateSave
  BY DEF LateSave, CalmInv, Calm
<1>2. LateApply
  BY <1>1, <1>s, NoLongerCalm DEF Environment, Admin, Reboot, Expire, Crash
<1>3. PICK r \in pending : pending' = pending \ {r} /\ UNCHANGED faults
  BY <1>2 DEF LateApply
<1>4. Calm /\ AtMostOneLate
  BY <1>3 DEF Calm, CalmInv
<1>5. pending' = {}
  BY <1>3, <1>4 DEF AtMostOneLate
<1> QED
  BY <1>3, <1>4, <1>5 DEF Calm, AtMostOneLate

LEMMA CalmStep ==
  ASSUME Ordinary
  PROVE  TypeInv /\ JournalInv /\ TargetInv /\ CalmInv /\ [Next]_vars => CalmInv'
<1> SUFFICES ASSUME TypeInv, JournalInv, TargetInv, CalmInv, [Next]_vars, Calm' PROVE CalmInv'
  BY DEF CalmInv
<1>1. CASE UNCHANGED vars
  BY <1>1 DEF CalmInv, Calm, AtMostOneLate, Shown, OnItsWay, ThePlan, Under,
     vars, deviceVars, flashVars, linkVars, jobVars, stageVars, readVars, fileVars
<1> QED
  BY <1>1, CalmRead, CalmPlanned, CalmBackup, CalmApply, CalmLogIn, CalmConfirmed, CalmRetry,
     CalmSave, CalmEnding, CalmAsk, CalmAround
     DEF Next, Client, StepOfRead, StepOfCommit
----------------------------------------------------------------------------
(* Once one thing has gone wrong and nothing is on its way to the switch   *)
(* any more.  A restart may have ended the session, but then the switch    *)
(* runs what it has saved; and whoever changed it before it was read back  *)
(* for the last time will be seen.                                         *)

Settled == faults = 1 /\ pending = {}

SettledInv ==
  Settled =>
    /\ Under /\ expired => dev = flash
    /\ pc = "verify" => \/ flash = target /\ unsaved = {}
                        \/ Shown /\ (flash = dev \/ unsaved # {})

(* What is in the flash, or what will be once a late save is carried out.  *)
SavedInv ==
  faults <= 1 /\ pc = "idle" /\ outcome = "committed" =>
    \/ flash = target /\ unsaved = {}
    \/ Settled /\ dev = target /\ (flash = target \/ unsaved # {})

(* After the save an undisturbed commit is where it should be. *)
LEMMA CalmIsSaved ==
  ASSUME TypeInv, JournalInv, TargetInv, CalmInv, Ordinary, Calm, pc = "verify"
  PROVE  flash = dev /\ dev = target /\ unsaved = {}
<1>1. /\ HardwareOnly(current) /\ MixOf(dev, current, target) /\ flash = dev /\ unsaved = {}
      /\ \A ch \in ThePlan : ch.phase \in done => Observed(ch, target, dev)
  BY DEF CalmInv, Running, OnItsWay
<1>2. \A ch \in ThePlan : Observed(ch, target, dev)
  BY <1>1 DEF JournalInv, Progress, PhasesOf
<1>3. Valid(target) /\ target \in Candidates
  BY DEF TypeInv, Control, TargetInv, Committing
<1>4. HardwareOnly(target) /\ ~target.mgmt.dhcp
  BY <1>3 DEF Ordinary
<1>5. current \in Config /\ target \in Config /\ dev \in Config
  BY DEF TypeInv, TypeOK
<1> QED
  BY <1>1, <1>2, <1>3, <1>4, <1>5, PlanIsComplete DEF ThePlan

(* Where a state with one failure and nothing pending comes from. *)
LEMMA SettledFrom ==
  ASSUME TypeInv, CalmInv, Settled', [Next]_vars
  PROVE  /\ Calm \/ Settled
         /\ Settled => UNCHANGED faults /\ ~LateApply
         /\ UNCHANGED <<faults, pending>> => Settled
         /\ Settled => \A k : ~Happens(k)
<1>1. faults' = faults \/ faults' = faults + 1
  BY DEF Next, Ask, Client, Environment, StepOfRead, StepOfCommit, StartPull, StartCommit,
     StoreBackup, WriteMemory, Restore, SaveAnswered, SaveLost, Restored, NotRestored, Happens, ReadPage, ReadFails, Unanswered, PullDone,
     CannotSaveState, Planned, Backup, BackupFails, Apply, ApplyManagement, Answered, Lost, LogInAgain,
     PhaseConfirmed, PhaseIncomplete, Save, Verified, Mismatch, Except, LateApply, LateSave, Admin, Reboot,
     Expire, Crash, vars
<1>2. faults \in Nat
  BY DEF TypeInv, TypeOK
<1>3. faults \in {0, 1}
  BY <1>1, <1>2 DEF Settled
<1>4. Settled => \A k : ~Happens(k)
  BY DEF Settled, Happens
<1>5. Settled => UNCHANGED faults
  BY <1>1 DEF Settled
<1>6. Settled => ~LateApply
  BY DEF Settled, LateApply
<1> QED
  BY <1>3, <1>4, <1>5, <1>6 DEF Settled, Calm

(* A session that has ended during a commit ended with a restart. *)
LEMMA SettledSession ==
  ASSUME TypeInv, CalmInv, SettledInv, Settled', [Next]_vars, "expire" \notin FaultKinds,
         Under', expired'
  PROVE  dev' = flash'
<1>1. CASE Reboot
  BY <1>1 DEF Reboot
<1>2. CASE ~Reboot
  <2>1. expired
    <3>1. CASE Restore
      BY <3>1 DEF Restore, Asked, Under, Running
    <3>2. CASE ~Restore
      BY <1>2, <3>2 DEF Next, Ask, Client, Environment, StepOfRead, StepOfCommit, StartPull, StartCommit,
       StoreBackup, WriteMemory, ReadPage, ReadFails, PullDone,
       CannotSaveState, Planned, Backup, BackupFails, Apply, ApplyManagement, Answered, Lost, LogInAgain,
       PhaseConfirmed, PhaseIncomplete, Save, Verified, Mismatch, Except, LateApply, LateSave, Admin,
       Expire, Happens, Crash, vars, linkVars
    <3> QED
      BY <3>1, <3>2
  <2>2. Under
    <3>1. CASE Ask
      BY <3>1 DEF Ask, StartPull, StartCommit, StartReading, StoreBackup, WriteMemory, Restore, Asked,
         Under, Running
    <3>2. CASE Client
      <4>1. pc' \in {"idle", "except"} \/ pc \in Running \cup {"backup"} \/ pc' = pc \/ Planned
        BY <3>2, RaiseEnds DEF Client, StepOfRead, StepOfCommit, ReadPage, ReadFails, PullDone,
           CannotSaveState, Finish, Backup, BackupFails, Apply, ApplyManagement,
           LogInAgain, PhaseConfirmed, PhaseIncomplete, Save, Verified, Mismatch, Except, Running
      <4>2. pc = "plan" /\ ~ReadPage => Planned \/ pc' \in {"idle", "except"}
        BY <3>2, RaiseEnds DEF Client, StepOfRead, StepOfCommit, ReadFails, PullDone,
           Backup, BackupFails, Apply, ApplyManagement,
           LogInAgain, PhaseConfirmed, PhaseIncomplete, Save, Verified, Mismatch, Except
      <4>3. ~ReadPage
        BY DEF ReadPage
      <4>4. Planned => pc = "plan" /\ page > 1
        BY DEF Planned, TypeInv, TypeOK, Pages
      <4> QED
        BY <4>1, <4>2, <4>3, <4>4 DEF Under, Running
    <3>3. CASE Environment \/ UNCHANGED vars
      BY <1>2, <3>3 DEF Environment, LateApply, LateSave, Admin, Expire, Crash, Finish, Under, Running, vars,
         readVars
    <3> QED
      BY <3>1, <3>2, <3>3 DEF Next
  <2>3. Settled
    BY <2>1, <2>2, SettledFrom DEF CalmInv
  <2>4. UNCHANGED faults /\ ~LateApply /\ (\A k : ~Happens(k)) /\ dev = flash
    BY <2>1, <2>2, <2>3, SettledFrom DEF SettledInv
  <2>5. CASE Ask
    BY <2>5 DEF Ask, StartPull, StartCommit, StartReading, StoreBackup, WriteMemory, Restore, Asked,
       Under, Running
  <2>6. CASE Client
    <3>1. ~Save
      <4>1. ASSUME Save PROVE FALSE
        <5>1. (pc' = "verify" /\ expired' = FALSE) \/ Raise
          BY <4>1 DEF Save, StartReading
        <5> QED
          BY <5>1, RaiseEnds DEF Under, Running
      <4> QED
        BY <4>1
    <3>2. UNCHANGED dev
      BY <2>4, <2>6, <3>1 DEF Client, StepOfRead, StepOfCommit, ReadPage, ReadFails, PullDone,
         CannotSaveState, Planned, Backup, BackupFails, Apply, ApplyManagement, Answered, Lost,
         Nothing, LogInAgain, PhaseConfirmed, PhaseIncomplete, Verified, Mismatch, Except, deviceVars, flashVars
    <3>3. UNCHANGED flash
      BY <2>6, <3>1 DEF Client, StepOfRead, StepOfCommit, ReadPage, ReadFails, PullDone,
         CannotSaveState, Planned, Backup, BackupFails, Apply, ApplyManagement,
         LogInAgain, PhaseConfirmed, PhaseIncomplete, Verified, Mismatch, Except, deviceVars, flashVars
    <3> QED
      BY <2>4, <3>2, <3>3
  <2>7. CASE Environment \/ UNCHANGED vars
    BY <1>2, <2>4, <2>7 DEF Environment, LateSave, Admin, Expire, Crash, vars, deviceVars, flashVars
  <2> QED
    BY <2>5, <2>6, <2>7 DEF Next
<1> QED
  BY <1>1, <1>2

(* Anything that is not on the switch any more will show. *)
LEMMA SettledShows ==
  ASSUME TypeInv, JournalInv, TargetInv, CalmInv, SettledInv, Ordinary,
         Settled', [Next]_vars, pc' = "verify"
  PROVE  \/ flash' = target' /\ unsaved' = {}
         \/ Shown' /\ (flash' = dev' \/ unsaved' # {})
<1>1. CASE Save
  <2>1. /\ page' = 1 /\ UNCHANGED <<dev, pending, target>> /\ pc = "save"
        /\ SaveAnswered \/ (expired /\ NotSaved /\ UNCHANGED faults)
    BY <1>1, RaiseEnds DEF Save, StartReading, jobVars
  <2>2. Shown'
    BY <2>1 DEF Shown, Pages
  <2>3. CASE expired /\ NotSaved /\ UNCHANGED faults
    <3>1. Settled /\ Under
      BY <2>1, <2>3, SettledFrom DEF Under, Running
    <3>2. flash' = dev
      BY <2>3, <3>1 DEF SettledInv, NotSaved, flashVars
    <3> QED
      BY <2>1, <2>2, <3>2
  <2>4. CASE SaveAnswered
    <3>1. flash' = dev \/ unsaved' # {}
      BY <2>4 DEF SaveAnswered, Saved, SavedLater, SaveIgnored
    <3> QED
      BY <2>1, <2>2, <3>1
  <2> QED
    BY <2>1, <2>3, <2>4
<1>2. CASE ~Save /\ ~LateSave
  <2>1. pc = "verify" /\ UNCHANGED <<flash, target>> /\ unsaved' \subseteq unsaved
    BY <1>2, RaiseEnds DEF Next, Ask, Client, Environment, StepOfRead, StepOfCommit, StartPull, StartCommit,
       StartReading, StoreBackup, WriteMemory, Restore, Asked, ReadPage, ReadFails, PullDone,
       CannotSaveState, Planned, Backup, StartPhase, BackupFails, Apply, ApplyManagement, Sent,
       LogInAgain, PhaseConfirmed, SaveOrNextPhase, PhaseIncomplete, Verified, Mismatch,
       Except, Finish, LateApply, LateSave, Admin, Reboot, Expire, Crash, vars, deviceVars, flashVars, jobVars
  <2>2. CASE Calm
    BY <2>1, <2>2, CalmIsSaved
  <2>3. CASE Settled
    <3>1. \/ flash = target /\ unsaved = {}
          \/ Shown /\ (flash = dev \/ unsaved # {})
      BY <2>1, <2>3 DEF SettledInv
    <3>2. (\A k : ~Happens(k)) /\ ~LateApply
      BY <2>3, SettledFrom
    <3>3. CASE ReadPage
      <4>1. /\ seen' = ReadPageInto(page, seen, dev) /\ page' = page + 1 /\ page \in Pages
            /\ UNCHANGED <<dev, unsaved>>
        BY <3>2, <3>3 DEF ReadPage, deviceVars, flashVars
      <4>2. ASSUME Shown, NEW n \in Pages, n < page' PROVE ReadPageInto(n, seen', dev) = seen'
        <5>1. n = page \/ ReadPageInto(n, seen, dev) = seen
          BY <4>1, <4>2 DEF Shown, Pages
        <5> QED
          BY <4>1, <5>1, ReadAgain
      <4>3. Shown => Shown'
        BY <4>1, <4>2 DEF Shown
      <4> QED
        BY <2>1, <3>1, <4>1, <4>3
    <3>4. CASE ~ReadPage
      <4>1. UNCHANGED vars
        BY <1>2, <2>1, <3>2, <3>4, RaiseEnds DEF Next, Ask, Client, Environment, StepOfRead, StepOfCommit,
         StartPull, StartCommit, StartReading, StoreBackup, WriteMemory, Restore, Asked, ReadFails, PullDone,
         Planned, Backup, BackupFails, Apply, ApplyManagement, LogInAgain, PhaseConfirmed, PhaseIncomplete,
         Verified, Mismatch, Except, Finish, Admin, Reboot, Expire, Crash
      <4> QED
        BY <2>1, <3>1, <4>1 DEF vars, deviceVars, flashVars, readVars, Shown
    <3> QED
      BY <3>3, <3>4
  <2> QED
    BY <2>2, <2>3, SettledFrom
<1>3. CASE LateSave
  <2>1. /\ "late" \in unsaved /\ flash' = dev
        /\ UNCHANGED <<dev, pending, faults, pc, target, seen, page>>
    BY <1>3 DEF LateSave, jobVars, readVars
  <2>2. Settled
    BY <2>1, SettledFrom
  <2>3. Shown
    BY <2>1, <2>2 DEF SettledInv
  <2>4. Shown'
    BY <2>1, <2>3 DEF Shown
  <2> QED
    BY <2>1, <2>4
<1> QED
  BY <1>1, <1>2, <1>3

LEMMA SettledStep ==
  ASSUME Ordinary, "expire" \notin FaultKinds
  PROVE  TypeInv /\ JournalInv /\ TargetInv /\ CalmInv /\ SettledInv /\ [Next]_vars => SettledInv'
BY SettledSession, SettledShows DEF SettledInv

(* Only a final read-back that agrees ends in "committed". *)
LEMMA SavedStep ==
  ASSUME Ordinary
  PROVE  TypeInv /\ JournalInv /\ TargetInv /\ CalmInv /\ SettledInv /\ SavedInv /\ [Next]_vars
           => SavedInv'
<1> SUFFICES ASSUME TypeInv, JournalInv, TargetInv, CalmInv, SettledInv, SavedInv, [Next]_vars,
                    faults' <= 1, pc' = "idle", outcome' = "committed"
             PROVE  \/ flash' = target' /\ unsaved' = {}
                    \/ Settled' /\ dev' = target' /\ (flash' = target' \/ unsaved' # {})
  BY DEF SavedInv
<1>1. CASE Verified
  <2>1. /\ pc = "verify" /\ page \notin Pages /\ seen = target
        /\ UNCHANGED <<dev, pending, faults, flash, unsaved, target>>
    BY <1>1 DEF Verified, AsRequested, deviceVars, flashVars, jobVars
  <2>2. faults \in Nat /\ page = 7 /\ seen \in Config /\ dev \in Config
    BY <2>1 DEF TypeInv, TypeOK, Pages
  <2>3. Calm \/ Settled
    BY <2>1, <2>2 DEF Calm, Settled
  <2>4. CASE Calm
    BY <2>1, <2>4, CalmIsSaved
  <2>5. CASE Settled
    <3>1. \/ flash = target /\ unsaved = {}
          \/ Shown /\ (flash = dev \/ unsaved # {})
      BY <2>1, <2>5 DEF SettledInv
    <3>2. Shown => \A n \in Pages : ReadPageInto(n, seen, dev) = seen
      BY <2>2 DEF Shown, Pages
    <3>3. Shown => seen = dev
      BY <2>2, <3>2, AllPagesRead
    <3> QED
      BY <2>1, <2>5, <3>1, <3>3 DEF Settled
  <2> QED
    BY <2>3, <2>4, <2>5
<1>2. CASE ~Verified
  <2>1. /\ pc = "idle" /\ outcome = "committed" /\ UNCHANGED target
        /\ LateSave \/ (UNCHANGED flash /\ unsaved' \subseteq unsaved)
        /\ Environment \/ UNCHANGED vars
    <3>1. CASE Ask
      BY <3>1 DEF Ask, StartPull, StartCommit, StartReading, StoreBackup, WriteMemory, Restore, SaveAnswered, SaveLost, Restored, NotRestored
    <3>2. CASE Client
      <4>1. ~Raise
        BY RaiseResult
      <4>2. Verdict # "committed"
        BY DEF Verdict
      <4> QED
        BY <1>2, <3>2, <4>1, <4>2 DEF Client, StepOfRead, StepOfCommit, ReadPage, Reading, ReadFails,
           PullDone, CannotSaveState, Planned, Backup, StartPhase, BackupFails, Apply,
           ApplyManagement, Sent, StartReading, LogInAgain, PhaseConfirmed, SaveOrNextPhase,
           PhaseIncomplete, Save, Mismatch, Except, Finish
    <3>3. CASE Environment \/ UNCHANGED vars
      BY <3>3 DEF Environment, LateApply, LateSave, Admin, Reboot, Expire, Crash, Finish, vars, deviceVars, flashVars,
         jobVars
    <3> QED
      BY <3>1, <3>2, <3>3 DEF Next
  <2>2. faults <= 1
    <3>1. faults \in Nat
      BY DEF TypeInv, TypeOK
    <3>2. faults' = faults \/ faults' = faults + 1
      BY <2>1 DEF Next, Ask, Client, Environment, StepOfRead, StepOfCommit, StartPull, StartCommit,
         StoreBackup, WriteMemory, Restore, SaveAnswered, SaveLost, Restored, NotRestored, Happens, ReadPage, ReadFails, PullDone, Reading,
         Planned, Backup, BackupFails, Apply, ApplyManagement, LogInAgain,
         PhaseConfirmed, PhaseIncomplete, Save, Verified, Mismatch, Except, LateApply, LateSave, Admin, Reboot,
         Expire, Crash, vars
    <3> QED
      BY <3>1, <3>2
  <2>3. CASE flash = target /\ unsaved = {}
    BY <2>1, <2>3 DEF LateSave
  <2>4. CASE Settled /\ dev = target /\ (flash = target \/ unsaved # {})
    <3>1. (\A k : ~Happens(k)) /\ ~LateApply
      BY <2>4 DEF Settled, Happens, LateApply
    <3>2. LateSave \/ UNCHANGED vars
      BY <2>1, <3>1 DEF Environment, Admin, Reboot, Expire, Crash
    <3>3. CASE LateSave
      BY <2>1, <2>4, <3>3 DEF LateSave, Settled
    <3>4. CASE UNCHANGED vars
      BY <2>1, <2>4, <3>4 DEF vars, deviceVars, flashVars, Settled
    <3> QED
      BY <3>2, <3>3, <3>4
  <2> QED
    BY <2>1, <2>2, <2>3, <2>4 DEF SavedInv
<1> QED
  BY <1>1, <1>2

LEMMA CalmInvariant ==
  ASSUME Ordinary
  PROVE  Spec => [](TypeInv /\ JournalInv /\ TargetInv /\ CalmInv)
<1>1. Init => TargetInv
  BY DEF Init, TargetInv, Committing
<1>2. Init => CalmInv
  BY DEF Init, CalmInv, AtMostOneLate, Ordinary, Reading, Running, Under
<1>3. TargetInv /\ [Next]_vars => TargetInv'
  BY TargetStep
<1>4. TypeInv /\ JournalInv /\ TargetInv /\ CalmInv /\ [Next]_vars => CalmInv'
  BY CalmStep
<1> QED
  BY <1>1, <1>2, <1>3, <1>4, TypeInvariant, JournalInvariant, PTL DEF Spec

(* "configuration committed and saved" means that the flash holds the      *)
(* candidate, if one thing at most has gone wrong up to then: another      *)
(* administrator, a restart, a page without its variables, a change lost,  *)
(* ignored or carried out late, at any point of the commit.  What may go   *)
(* wrong with the save itself is told only where its answer is lost: one   *)
(* that is answered and ignored, or still to come, is not noticed.  Nor is *)
(* a session that ends, and nothing is said of a candidate that leaves the *)
(* address to DHCP.                                                        *)
THEOREM SavedMeansSaved ==
  ASSUME Ordinary, "expire" \notin FaultKinds
  PROVE  Spec => []CommittedIsSaved
<1>1. Init => SettledInv /\ SavedInv
  BY DEF Init, SettledInv, Settled, SavedInv
<1>2. TypeInv /\ JournalInv /\ TargetInv /\ CalmInv /\ SettledInv /\ [Next]_vars => SettledInv'
  BY SettledStep
<1>3. TypeInv /\ JournalInv /\ TargetInv /\ CalmInv /\ SettledInv /\ SavedInv /\ [Next]_vars
        => SavedInv'
  BY SavedStep
<1>4. SavedInv => CommittedIsSaved
  BY DEF SavedInv, CommittedIsSaved
<1> QED
  BY <1>1, <1>2, <1>3, <1>4, CalmInvariant, PTL DEF Spec
----------------------------------------------------------------------------
(* A commit that nothing interferes with, to a switch whose VLAN table has *)
(* room for what it is to hold on the way.                                 *)

Known == DeviceConfigs \cup Candidates

RoomEnough ==
  /\ IsFiniteSet(Vids)
  /\ \A c \in Known, t \in Candidates : Cardinality(VlanIds(c) \cup VlanIds(t)) <= MaxVlans

(* What has been sent of the phase is in effect, and the switch is where   *)
(* the adapter looks for it.                                               *)
ThroughInv ==
  faults = 0 =>
    /\ outcome # "failed" /\ pc # "except"
    /\ Under => Reachable
    /\ pc \in {"idle", "pull", "plan"} => dev \in Known
    /\ backups \subseteq Known
    /\ pc \in Running \cup {"backup"} => current \in Known
    /\ pc \in {"apply", "rebase", "confirm"} =>
         /\ todo \subseteq Stage(ThePlan, phase)
         /\ \A ch \in Stage(ThePlan, phase) \ todo : Observed(ch, target, dev)
    /\ pc \in {"rebase", "confirm"} => todo = {}

(* A request of the plan does what it is for, if the table has room.       *)
LEMMA EffectArrives ==
  ASSUME IsFiniteSet(Vids), NEW c \in Config, NEW t \in Config, NEW d \in Config, MixOf(d, c, t),
         ~t.mgmt.dhcp, Cardinality(VlanIds(c) \cup VlanIds(t)) <= MaxVlans,
         NEW ch \in Plan(c, t), NEW e \in Effects(ch, t, d)
  PROVE  Observed(ch, t, e)
<1>1. CASE ch = Change(5, "enable_dot1q", None)
  <2>1. e = [d EXCEPT !.dot1q = TRUE]
    BY <1>1 DEF Change, Effects
  <2>2. e.dot1q
    BY <2>1, Zenon DEF Config
  <2> QED
    BY <1>1, <2>2 DEF Observed, Change
<1>2. ASSUME NEW v \in VlanIds(t), ch = Change(10, "upsert_vlan", v) PROVE Observed(ch, t, e)
  <2>1. e = IF NoRoomFor(v, d) THEN d ELSE [d EXCEPT !.vlans[v] = t.vlans[v]]
    BY <1>2 DEF Change, Effects
  <2>2. ~NoRoomFor(v, d)
    <3> DEFINE U == VlanIds(c) \cup VlanIds(t)
    <3>1. IsFiniteSet(U)
      BY FS_Subset DEF VlanIds
    <3>2. VlanIds(d) \subseteq U
      BY DEF MixOf, VlanIds
    <3>3. v \in U
      OBVIOUS
    <3>4. /\ Cardinality(VlanIds(d)) <= Cardinality(U)
          /\ Cardinality(U) = Cardinality(VlanIds(d)) => U = VlanIds(d)
          /\ IsFiniteSet(VlanIds(d))
      BY <3>1, <3>2, FS_Subset
    <3>5. Cardinality(VlanIds(d)) \in Nat /\ Cardinality(U) \in Nat /\ MaxVlans \in Nat
      BY <3>1, <3>4, FS_CardinalityType, PlannerConstants
    <3>6. d.vlans[v] = None => v \notin VlanIds(d)
      BY DEF VlanIds
    <3> HIDE DEF U
    <3>7. Cardinality(U) <= MaxVlans
      BY DEF U
    <3> QED
      BY <3>3, <3>4, <3>5, <3>6, <3>7 DEF NoRoomFor
  <2>3. e.vlans[v] = t.vlans[v]
    BY <2>1, <2>2 DEF Config, VlanIds
  <2> QED
    BY <1>2, <2>3 DEF Observed, Change
<1>3. ASSUME NEW g \in Groups,
             \/ ch = Change(20, "delete_lag", g) /\ t.lags[g] = None
             \/ ch = Change(20, "set_lag", g) /\ t.lags[g] # None
      PROVE  Observed(ch, t, e)
  <2>1. e = [d EXCEPT !.lags[g] = t.lags[g]]
    BY <1>3 DEF Change, Effects
  <2>2. e.lags[g] = t.lags[g]
    BY <2>1 DEF Config
  <2> QED
    BY <1>3, <2>2 DEF Observed, Change
<1>4. ASSUME NEW p \in PortIds, ch = Change(30, "set_port", p) PROVE Observed(ch, t, e)
  <2>1. e = [d EXCEPT !.port[p] = t.port[p]]
    BY <1>4 DEF Change, Effects
  <2>2. e.port[p] = t.port[p]
    BY <2>1 DEF Config
  <2> QED
    BY <1>4, <2>2 DEF Observed, Change
<1>5. ASSUME NEW p \in PortIds, ch = Change(40, "set_pvid", p) PROVE Observed(ch, t, e)
  <2>1. e = [d EXCEPT !.pvid[p] = t.pvid[p]]
    BY <1>5 DEF Change, Effects
  <2>2. e.pvid[p] = t.pvid[p]
    BY <2>1 DEF Config
  <2> QED
    BY <1>5, <2>2 DEF Observed, Change
<1>6. CASE ch = Change(45, "set_fallback_ip", None)
  <2>1. e = [d EXCEPT !.fallback = t.fallback]
    BY <1>6 DEF Change, Effects
  <2>2. e.fallback = t.fallback
    BY <2>1 DEF Config
  <2> QED
    BY <1>6, <2>2 DEF Observed, Change
<1>7. CASE ch = Change(50, "set_management", None)
  <2>1. e = [d EXCEPT !.mgmt = t.mgmt]
    BY <1>7 DEF Change, Effects, SwitchedManagement
  <2>2. e.mgmt = t.mgmt
    BY <2>1 DEF Config
  <2> QED
    BY <1>7, <2>2 DEF Observed, Change
<1>8. ASSUME NEW v \in VlanIds(c) \ VlanIds(t), ch = Change(60, "delete_vlan", v)
      PROVE  Observed(ch, t, e)
  <2>1. e = [d EXCEPT !.vlans[v] = None] /\ v \in Vids
    BY <1>8 DEF Change, Effects, VlanIds
  <2>2. e.vlans[v] = None
    BY <2>1 DEF Config
  <2> QED
    BY <1>8, <2>2 DEF Observed, Change
<1> QED
  BY PlanForms, <1>1, <1>2, <1>3, <1>4, <1>5, <1>6, <1>7, <1>8

(* Only the change of the management interface moves the switch. *)
LEMMA EffectOnAddress ==
  ASSUME NEW c \in Config, NEW t \in Config, NEW d \in Config, ~t.mgmt.dhcp,
         NEW ch \in Plan(c, t), NEW e \in Effects(ch, t, d)
  PROVE  /\ ch.action = "set_management" => e.mgmt = t.mgmt
         /\ ch.action # "set_management" => e.mgmt = d.mgmt
<1>1. CASE ch.action = "set_management"
  <2>1. e = [d EXCEPT !.mgmt = t.mgmt]
    BY <1>1 DEF Effects, SwitchedManagement
  <2> QED
    BY <1>1, <2>1 DEF Config
<1>2. CASE ch.action # "set_management"
  <2>1. ch.action \in Actions
    BY PlanType DEF Changes
  <2>2. /\ ch.action \in {"enable_dot1q"} => e = [d EXCEPT !.dot1q = TRUE]
        /\ ch.action \in {"upsert_vlan"} => e = d \/ e = [d EXCEPT !.vlans[ch.key] = t.vlans[ch.key]]
        /\ ch.action \in {"delete_vlan"} => e = [d EXCEPT !.vlans[ch.key] = None]
        /\ ch.action \in {"set_lag"} => e = [d EXCEPT !.lags[ch.key] = t.lags[ch.key]]
        /\ ch.action \in {"delete_lag"} => e = [d EXCEPT !.lags[ch.key] = None]
        /\ ch.action \in {"set_port"} => e = [d EXCEPT !.port[ch.key] = t.port[ch.key]]
        /\ ch.action \in {"set_pvid"} => e = [d EXCEPT !.pvid[ch.key] = t.pvid[ch.key]]
        /\ ch.action \in {"set_fallback_ip"} => e = [d EXCEPT !.fallback = t.fallback]
    BY DEF Effects
  <2> QED
    BY <1>2, <2>1, <2>2 DEF Actions, Config
<1> QED
  BY <1>1, <1>2

(* Nothing has gone wrong after a step, so nothing had before it.          *)
LEMMA Undisturbed ==
  ASSUME TypeInv, CalmInv, [Next]_vars, faults' = 0
  PROVE  /\ faults = 0 /\ Calm /\ pending = {}
         /\ \A k : ~Happens(k)
         /\ Under => ~expired
<1>1. faults \in Nat
  BY DEF TypeInv, TypeOK
<1>2. \A k : ~Happens(k)
  BY <1>1 DEF Happens
<1>3. faults' = faults
  BY <1>2 DEF Next, Ask, Client, Environment, StepOfRead, StepOfCommit, StartPull, StartCommit,
     StoreBackup, WriteMemory, Restore, SaveAnswered, SaveLost, Restored, NotRestored, ReadPage, ReadFails, Unanswered, PullDone,
     CannotSaveState, Planned, Backup, BackupFails, Apply, ApplyManagement, Answered, Lost, LogInAgain,
     PhaseConfirmed, PhaseIncomplete, Save, Verified, Mismatch, Except, LateApply, LateSave, Admin, Reboot,
     Expire, Crash, vars
<1> QED
  BY <1>2, <1>3 DEF Calm, CalmInv, AtMostOneLate

(* Before and after a commit. *)
LEMMA ThroughOutside ==
  ASSUME ThroughInv, faults = 0, dev' \in Known, backups' \subseteq Known, pc' \in {"idle", "pull", "plan"},
         outcome' # "failed", ~Under'
  PROVE  ThroughInv'
BY DEF ThroughInv, Running

LEMMA ThroughAsk ==
  ASSUME TypeInv, CalmInv, ThroughInv, Ask, faults' = 0, faults = 0
  PROVE  ThroughInv'
<1>1. dev \in Known /\ backups \subseteq Known /\ outcome # "failed"
  BY DEF ThroughInv, Ask, StartPull, StartCommit, StoreBackup, WriteMemory, Restore, Asked
<1>2. dev' \in Known /\ backups' \subseteq Known
  BY <1>1 DEF Ask, StartPull, StartCommit, StoreBackup, WriteMemory, Restore, Restored, NotRestored,
     SaveBackup, deviceVars, fileVars
<1>3. pc' \in {"idle", "pull", "plan"} /\ outcome' # "failed"
  BY <1>1 DEF Ask, StartPull, StartCommit, StartReading, StoreBackup, WriteMemory, Restore, Asked, SaveAnswered, SaveLost, Restored, NotRestored
<1>4. ~Under'
  BY DEF Ask, StartPull, StartCommit, StartReading, StoreBackup, WriteMemory, Restore, Asked,
     Under, Running
<1> QED
  BY <1>1, <1>2, <1>3, <1>4, ThroughOutside

LEMMA ThroughRead ==
  ASSUME TypeInv, CalmInv, ThroughInv, ReadPage, faults = 0
  PROVE  ThroughInv'
BY DEF ThroughInv, ReadPage, Reachable, deviceVars, flashVars, jobVars, stageVars, fileVars, ThePlan

(* Requests reach the switch during a commit, and pulls end in peace. *)
LEMMA ThroughNoAnswer ==
  ASSUME TypeInv, CalmInv, ThroughInv, ReadFails \/ BackupFails \/ PullDone, faults = 0,
         \A k : ~Happens(k)
  PROVE  ThroughInv'
<1>1. Under => Reachable
  BY DEF ThroughInv
<1>2. pc \in {"pull", "plan"}
  BY <1>1 DEF ReadFails, BackupFails, PullDone, Unanswered, Under, Running, Reading
<1>3. dev \in Known /\ backups \subseteq Known
  BY <1>2 DEF ThroughInv
<1>4. pc' = "idle" /\ outcome' \in {"error", "pulled"} /\ UNCHANGED <<dev, backups>>
  BY <1>2 DEF ReadFails, BackupFails, PullDone, CannotSaveState, Raise, Finish, deviceVars, flashVars, fileVars
<1> QED
  BY <1>3, <1>4, ThroughOutside DEF Under, Running

LEMMA ThroughPlanned ==
  ASSUME TypeInv, CalmInv, Calm, ThroughInv, Planned, faults = 0, \A k : ~Happens(k)
  PROVE  ThroughInv'
<1>1. /\ pc = "plan" /\ page \notin Pages /\ UNCHANGED <<dev, url, backups>>
  BY DEF Planned, CannotSaveState, deviceVars, flashVars, linkVars, fileVars
<1>2. dev \in Known /\ backups \subseteq Known /\ outcome # "failed"
  BY <1>1 DEF ThroughInv
<1>3. CASE pc' # "backup"
  <2>1. pc' = "idle" /\ outcome' = Verdict
    BY <1>3 DEF Planned, CannotSaveState, Finish
  <2>2. Verdict # "failed"
    BY DEF Verdict
  <2> QED
    BY <1>1, <1>2, <2>1, <2>2, ThroughOutside DEF Under, Running
<1>4. CASE pc' = "backup"
  <2>1. current' = seen /\ UNCHANGED outcome
    BY <1>4 DEF Planned, CannotSaveState, Finish
  <2>2. seen = dev
    BY <1>1, CalmSeen DEF Reading
  <2>3. Reachable
    BY <1>1 DEF ThroughInv, Under, TypeInv, TypeOK, Pages
  <2> QED
    BY <1>1, <1>2, <1>4, <2>1, <2>2, <2>3 DEF ThroughInv, Reachable
<1> QED
  BY <1>3, <1>4

LEMMA ThroughBackup ==
  ASSUME TypeInv, CalmInv, Calm, ThroughInv, Backup, faults = 0, \A k : ~Happens(k)
  PROVE  ThroughInv'
<1>1. /\ pc = "backup" /\ UNCHANGED <<dev, url, current, target, outcome>>
      /\ StartPhase /\ \E file \in Downloads : SaveBackup(file)
  BY DEF Backup, deviceVars, flashVars, jobVars
<1>2. dev = current /\ ~expired /\ current \in Known /\ Reachable /\ backups \subseteq Known
  BY <1>1 DEF CalmInv, ThroughInv, Under
<1>3. backups' \subseteq Known
  BY <1>1, <1>2 DEF Downloads, SaveBackup
<1>4. pc' = "apply" /\ todo' = Stage(ThePlan, phase')
  BY <1>1 DEF StartPhase
<1> QED
  BY <1>1, <1>2, <1>3, <1>4 DEF ThroughInv, Reachable, ThePlan

(* A request of the phase is sent, arrives and is carried out. *)
LEMMA ThroughApply ==
  ASSUME TypeInv, CalmInv, Calm, TargetInv, ThroughInv, Ordinary, RoomEnough,
         Apply \/ ApplyManagement, faults = 0, \A k : ~Happens(k)
  PROVE  ThroughInv'
<1>1. /\ pc = "apply" /\ UNCHANGED <<target, current, backups>>
  BY DEF Apply, ApplyManagement, jobVars, fileVars
<1>2. /\ Reachable /\ ~expired /\ current \in Known /\ backups \subseteq Known /\ outcome # "failed"
      /\ todo \subseteq Stage(ThePlan, phase)
      /\ \A c \in Stage(ThePlan, phase) \ todo : Observed(c, target, dev)
      /\ MixOf(dev, current, target)
  BY <1>1 DEF ThroughInv, CalmInv, Under, Running, OnItsWay
<1>3. target \in Candidates /\ ~target.mgmt.dhcp
  BY <1>1 DEF TargetInv, Committing, Ordinary
<1>4. current \in Config /\ target \in Config /\ dev \in Config
  BY DEF TypeInv, TypeOK
<1>5. PICK ch \in todo :
        /\ Answered(ch)
        /\ \/ ch.action # "set_management" /\ Sent(ch) /\ UNCHANGED url
           \/ /\ ch.action = "set_management" /\ url' = target.mgmt.address
              /\ pc' = "rebase" /\ todo' = todo \ {ch}
              /\ UNCHANGED <<phase, outcome>>
  <2>1. \A ch : ~Lost(ch)
    BY <1>2 DEF Lost
  <2> QED
    BY <1>3, <2>1 DEF Apply, ApplyManagement
<1>6. ch \in ThePlan /\ ch.phase = phase
  BY <1>2 DEF Stage
<1>7. dev' \in Effects(ch, target, dev)
  BY <1>2, <1>5 DEF Answered, Accepted
<1>8. Observed(ch, target, dev')
  BY <1>2, <1>3, <1>4, <1>6, <1>7, EffectArrives DEF RoomEnough, ThePlan
<1>9. ASSUME NEW c \in Stage(ThePlan, phase) \ (todo \ {ch}) PROVE Observed(c, target, dev')
  <2>1. CASE c = ch
    BY <1>8, <2>1
  <2>2. CASE c # ch
    <3>1. c \in ThePlan /\ Observed(c, target, dev)
      BY <1>2, <1>9, <2>2 DEF Stage
    <3> QED
      BY <1>3, <1>4, <1>6, <1>7, <3>1, EffectAndOthers DEF ThePlan
  <2> QED
    BY <2>1, <2>2
<1>10. /\ ch.action = "set_management" => dev'.mgmt = target.mgmt
       /\ ch.action # "set_management" => dev'.mgmt = dev.mgmt
  BY <1>3, <1>4, <1>6, <1>7, EffectOnAddress DEF ThePlan
<1>11. Reachable'
  BY <1>2, <1>5, <1>10 DEF Reachable
<1>12. /\ todo' = todo \ {ch} /\ UNCHANGED <<phase, outcome>>
       /\ pc' \in {"apply", "confirm", "rebase"}
       /\ pc' = "confirm" => todo' = {}
  BY <1>1, <1>5 DEF Sent, StartReading
<1>13. pc' = "rebase" => todo' = {}
  <2>1. SUFFICES ASSUME pc' = "rebase" PROVE \A c \in todo : c = ch
    BY <1>12
  <2>2. ch.action = "set_management"
    BY <1>1, <1>5, <2>1 DEF Sent, StartReading
  <2>3. phase = 50
    BY <1>6, <2>2, PlanForms DEF ThePlan, Change
  <2>4. \A c \in ThePlan : c.phase = 50 => c = Change(50, "set_management", None)
    BY PlanForms DEF ThePlan, Change
  <2> QED
    BY <1>2, <1>6, <2>3, <2>4 DEF Stage
<1>14. UNCHANGED ThePlan
  BY <1>1 DEF ThePlan
<1> QED
  BY <1>1, <1>2, <1>9, <1>11, <1>12, <1>13, <1>14 DEF ThroughInv, Running

LEMMA ThroughLogIn ==
  ASSUME TypeInv, ThroughInv, LogInAgain, faults = 0, \A k : ~Happens(k)
  PROVE  ThroughInv'
<1>1. pc = "rebase" /\ Reachable
  BY DEF LogInAgain, ThroughInv, Under, Running
<1>2. pc' = "confirm" /\ UNCHANGED <<dev, url, target, current, phase, todo, outcome, backups>>
  BY <1>1 DEF LogInAgain, Unanswered, StartReading, deviceVars, flashVars, jobVars, stageVars, fileVars
<1> QED
  BY <1>1, <1>2 DEF ThroughInv, Reachable, ThePlan, Running

(* A phase that has been sent is read back as confirmed. *)
LEMMA ThroughConfirm ==
  ASSUME TypeInv, CalmInv, Calm, ThroughInv, PhaseConfirmed \/ PhaseIncomplete, faults = 0,
         \A k : ~Happens(k)
  PROVE  ThroughInv'
<1>1. /\ pc = "confirm" /\ page \notin Pages
      /\ UNCHANGED <<dev, url, target, current, outcome, backups>> \/ PhaseIncomplete
  BY DEF PhaseConfirmed, PhaseIncomplete, deviceVars, flashVars, linkVars, jobVars
<1>2. seen = dev
  BY <1>1, CalmSeen DEF Reading
<1>3. \A ch \in Stage(ThePlan, phase) : Observed(ch, target, dev)
  BY <1>1 DEF ThroughInv
<1>4. Confirmed
  BY <1>2, <1>3 DEF Confirmed
<1>5. SaveOrNextPhase /\ UNCHANGED <<dev, url, target, current, outcome, backups>>
  BY <1>1, <1>4 DEF PhaseConfirmed, PhaseIncomplete
<1>6. pc' = "save" \/ (pc' = "apply" /\ todo' = Stage(ThePlan, phase'))
  BY <1>5 DEF SaveOrNextPhase, StartPhase
<1> QED
  BY <1>1, <1>5, <1>6 DEF ThroughInv, Reachable, ThePlan, Under, Running

LEMMA ThroughSave ==
  ASSUME TypeInv, CalmInv, Calm, ThroughInv, Save, faults = 0, \A k : ~Happens(k)
  PROVE  ThroughInv'
<1>1. pc = "save" /\ Reachable
  BY DEF Save, ThroughInv, Under, Running
<1>2. pc' = "verify" /\ UNCHANGED <<dev, url, current, outcome, backups>>
  BY <1>1 DEF Save, SaveLost, StartReading, jobVars, fileVars
<1> QED
  BY <1>1, <1>2 DEF ThroughInv, Reachable, Under, Running

LEMMA ThroughVerified ==
  ASSUME TypeInv, JournalInv, TargetInv, CalmInv, Calm, ThroughInv, Ordinary,
         Verified \/ Mismatch, faults = 0, \A k : ~Happens(k)
  PROVE  ThroughInv'
<1>1. pc = "verify" /\ page \notin Pages
  BY DEF Verified, Mismatch
<1>2. dev = target /\ seen = dev
  BY <1>1, CalmIsSaved, CalmSeen DEF Reading
<1>3. target \in Known
  BY <1>1 DEF TargetInv, Committing, Known
<1>4. pc' = "idle" /\ outcome' = "committed" /\ UNCHANGED <<dev, backups>>
  BY <1>2 DEF Verified, Mismatch, AsRequested, Finish, deviceVars, flashVars
<1>5. backups \subseteq Known
  BY DEF ThroughInv
<1> QED
  BY <1>2, <1>3, <1>4, <1>5, ThroughOutside DEF Under, Running

LEMMA ThroughStep ==
  ASSUME Ordinary, RoomEnough
  PROVE  TypeInv /\ JournalInv /\ TargetInv /\ CalmInv /\ ThroughInv /\ [Next]_vars => ThroughInv'
<1> SUFFICES ASSUME TypeInv, JournalInv, TargetInv, CalmInv, ThroughInv, [Next]_vars, faults' = 0
             PROVE  ThroughInv'
  BY DEF ThroughInv
<1>1. /\ faults = 0 /\ Calm /\ pending = {} /\ \A k : ~Happens(k)
  BY Undisturbed
<1>2. ~Except
  BY <1>1 DEF Except, ThroughInv
<1>3. ~Environment
  BY <1>1 DEF CalmInv, Environment, LateApply, LateSave, Admin, Reboot, Expire, Crash
<1>4. CASE UNCHANGED vars
  BY <1>4 DEF ThroughInv, ThePlan, Reachable, Under, vars, deviceVars, flashVars, linkVars, jobVars, stageVars,
     readVars, fileVars
<1> QED
  BY <1>1, <1>2, <1>3, <1>4, ThroughAsk, ThroughRead, ThroughNoAnswer, ThroughPlanned, ThroughBackup,
     ThroughApply, ThroughLogIn, ThroughConfirm, ThroughSave, ThroughVerified
     DEF Next, Client, StepOfRead, StepOfCommit

(* "configuration stopped after a partial failure" is never the end of a   *)
(* valid commit that nothing interferes with, if the VLAN table holds the  *)
(* old VLANs and the new ones together: every phase is confirmed by its    *)
(* first read-back, the management address is followed, and the final      *)
(* read-back agrees.                                                       *)
THEOREM ValidPlansGoThrough ==
  ASSUME Ordinary, RoomEnough
  PROVE  Spec => []NoSpuriousFailure
<1>1. Init => ThroughInv
  BY DEF Init, ThroughInv, Under, Running, Known
<1>2. TypeInv /\ JournalInv /\ TargetInv /\ CalmInv /\ ThroughInv /\ [Next]_vars => ThroughInv'
  BY ThroughStep
<1>3. ThroughInv => NoSpuriousFailure
  BY DEF ThroughInv, NoSpuriousFailure
<1> QED
  BY <1>1, <1>2, <1>3, CalmInvariant, PTL DEF Spec
=============================================================================
