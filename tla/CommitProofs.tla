---------------------------- MODULE CommitProofs ----------------------------
(***************************************************************************)
(* Proofs about Commit, for any set of VLANs, ports, groups, addresses and *)
(* candidates, and any number of faults and operations.                    *)
(***************************************************************************)
EXTENDS Commit, TLAPS

(* What a change of a plan looks like: the phases of build_plan. *)
LEMMA PlanForms ==
  ASSUME NEW cur, NEW t, NEW ch \in Plan(cur, t)
  PROVE  \/ ch = Change(5, "enable_dot1q", None) /\ ~cur.dot1q
         \/ \E v \in VlanIds(t) : ch = Change(10, "upsert_vlan", v) /\ cur.vlans[v] # t.vlans[v]
         \/ \E g \in Groups : /\ cur.lags[g] # t.lags[g]
                              /\ \/ ch = Change(20, "delete_lag", g) /\ t.lags[g] = None
                                 \/ ch = Change(20, "set_lag", g) /\ t.lags[g] # None
         \/ \E p \in PortIds : ch = Change(30, "set_port", p) /\ cur.port[p] # t.port[p]
         \/ \E p \in PortIds : ch = Change(40, "set_pvid", p) /\ cur.pvid[p] # t.pvid[p]
         \/ ch = Change(45, "set_fallback_ip", None) /\ cur.fallback # t.fallback
         \/ ch = Change(50, "set_management", None) /\ cur.mgmt # t.mgmt
         \/ \E v \in VlanIds(cur) \ VlanIds(t) : ch = Change(60, "delete_vlan", v)
<1>1. CASE ch \in EnableDot1q(cur, t)
  BY <1>1 DEF EnableDot1q
<1>2. CASE ch \in UpsertVlans(cur, t)
  BY <1>2 DEF UpsertVlans
<1>3. CASE ch \in LagChanges(cur, t)
  BY <1>3 DEF LagChanges
<1>4. CASE ch \in SetPorts(cur, t)
  BY <1>4 DEF SetPorts, PortsOf
<1>5. CASE ch \in SetPvids(cur, t)
  BY <1>5 DEF SetPvids, PortsOf
<1>6. CASE ch \in SetFallback(cur, t)
  BY <1>6 DEF SetFallback
<1>7. CASE ch \in SetManagement(cur, t)
  BY <1>7 DEF SetManagement, ManagementChange
<1>8. CASE ch \in DeleteVlans(cur, t)
  BY <1>8 DEF DeleteVlans
<1> QED
  BY <1>1, <1>2, <1>3, <1>4, <1>5, <1>6, <1>7, <1>8 DEF Plan

LEMMA PlanType ==
  ASSUME NEW cur, NEW t
  PROVE  Plan(cur, t) \subseteq Changes /\ PhasesOf(Plan(cur, t)) \subseteq Phases \ {0}
<1> SUFFICES ASSUME NEW ch \in Plan(cur, t)
             PROVE  ch \in Changes /\ ch.phase \in Phases \ {0}
  BY DEF PhasesOf
<1>1. VlanIds(cur) \subseteq Vids /\ VlanIds(t) \subseteq Vids
  BY DEF VlanIds
<1> QED
  BY <1>1, PlanForms DEF Change, Changes, Phases, Actions

LEMMA EffectsType ==
  ASSUME PlannerConstants, NEW ch \in Changes, NEW t \in Config, NEW d \in Config
  PROVE  Effects(ch, t, d) \subseteq Config
<1> SUFFICES ASSUME NEW e \in Effects(ch, t, d) PROVE e \in Config
  OBVIOUS
<1>0. ch.action \in Actions
  BY DEF Changes
<1>1. CASE ch.action = "enable_dot1q"
  BY <1>1 DEF Effects, Config
<1>2. CASE ch.action = "upsert_vlan"
  BY <1>2 DEF Effects, Config
<1>3. CASE ch.action = "set_lag"
  BY <1>3 DEF Effects, Config
<1>4. CASE ch.action = "delete_lag"
  BY <1>4 DEF Effects, Config
<1>5. CASE ch.action = "set_port"
  BY <1>5 DEF Effects, Config
<1>6. CASE ch.action = "set_pvid"
  BY <1>6 DEF Effects, Config
<1>7. CASE ch.action = "set_fallback_ip"
  BY <1>7 DEF Effects, Config
<1>8. CASE ch.action = "set_management"
  <2>1. PICK m \in SwitchedManagement(t.mgmt) : e = [d EXCEPT !.mgmt = m]
    BY <1>8 DEF Effects
  <2>2. m \in Management
    BY DEF SwitchedManagement, Management, Config, PlannerConstants
  <2> QED
    BY <2>1, <2>2 DEF Config
<1>9. CASE ch.action = "delete_vlan"
  BY <1>9 DEF Effects, Config
<1> QED
  BY <1>0, <1>1, <1>2, <1>3, <1>4, <1>5, <1>6, <1>7, <1>8, <1>9 DEF Actions

LEMMA DefaultsType == ASSUME PlannerConstants PROVE Defaults \in Config
BY DEF Defaults, Config, Management, PlannerConstants

LEMMA ReadType ==
  ASSUME NEW n, NEW s \in Config, NEW d \in Config
  PROVE  ReadPageInto(n, s, d) \in Config
BY DEF ReadPageInto, Config

(* NextPhase is the first phase of the plan after n. *)
LEMMA NextPhaseExists ==
  ASSUME NEW n \in Nat, ~LastPhase(n)
  PROVE  /\ NextPhase(n) \in PhasesOf(ThePlan)
         /\ NextPhase(n) \in Phases \ {0}
         /\ NextPhase(n) > n
         /\ \A k \in PhasesOf(ThePlan) : k > n => NextPhase(n) <= k
<1> DEFINE S == PhasesOf(ThePlan)
<1>1. S \subseteq Phases \ {0}
  BY PlanType DEF ThePlan
<1>2. \E k \in S : k > n
  BY <1>1 DEF LastPhase, Phases
<1>3. \E m \in S : m > n /\ \A k \in S : k > n => m <= k
  <2> DEFINE First(m) == m \in S /\ m > n
  <2>1. First(5) \/ First(10) \/ First(20) \/ First(30) \/ First(40) \/ First(45)
           \/ First(50) \/ First(60)
    BY <1>1, <1>2 DEF Phases
  <2>2. \A k \in S : k \in {5, 10, 20, 30, 40, 45, 50, 60}
    BY <1>1 DEF Phases
  <2> HIDE DEF S
  <2> QED
    BY <2>1, <2>2
<1> QED
  BY <1>1, <1>3 DEF NextPhase

----------------------------------------------------------------------------
(* Type correctness. *)

TypeInv == TypeOK /\ Control

LEMMA InitType == Init => TypeInv
<1> SUFFICES ASSUME Init PROVE TypeInv
  OBVIOUS
<1>1. Defaults \in Config
  BY DefaultsType, PlannerConstants
<1>2. expired \in BOOLEAN /\ clean \in BOOLEAN /\ opts \in Options
  BY Zenon DEF Init, NoOptions, Options
<1>2a. TypeOK
  BY <1>1, <1>2, CommitConstants DEF Init, TypeOK, CommitConstants, Steps, Reading, Phases, Outcomes
<1>3. Control
  BY DEF Init, Control, Committing
<1> QED
  BY <1>2a, <1>3 DEF TypeInv

(* The pieces the actions share. *)
LEMMA RaiseType ==
  ASSUME TypeInv, Raise, pc \in Steps,
         UNCHANGED <<jobVars, journal>>
  PROVE  /\ pc' \in Steps \cup {"idle"} /\ outcome' \in Outcomes /\ clean' \in BOOLEAN
         /\ phase' \in Phases /\ todo' \subseteq Changes /\ done' \subseteq Phases
         /\ opts' \in Options /\ seen' \in Config /\ page' \in 1..7
         /\ attempt' \in 1..MaxAttempts
         /\ Control'
<1>1. CASE pc \in {"pull", "plan", "backup"}
  <2>1. /\ pc' = "idle" /\ outcome' = "error" /\ todo' = {} /\ clean' = FALSE
        /\ opts' = NoOptions /\ seen' = Defaults /\ page' = 1 /\ attempt' = 1
        /\ UNCHANGED <<phase, done>>
    BY <1>1 DEF Raise, Finish, Rewind
  <2>2. Defaults \in Config /\ NoOptions \in Options /\ 1 \in 1..MaxAttempts
    BY DefaultsType, PlannerConstants, CommitConstants DEF NoOptions, Options, CommitConstants
  <2>3. Control'
    BY <2>1 DEF Control, Committing
  <2>4. clean' \in BOOLEAN
    BY <2>1, Zenon
  <2> QED
    BY <2>1, <2>2, <2>3, <2>4 DEF TypeInv, TypeOK, Outcomes
<1>2. CASE pc \notin {"pull", "plan", "backup"}
  <2>1. pc' = "except" /\ UNCHANGED <<outcome, clean, stageVars, readVars>>
    BY <1>2 DEF Raise
  <2>2. Control'
    BY <1>2, <2>1 DEF TypeInv, Control, Committing, Steps, Reading, jobVars, ThePlan
  <2> QED
    BY <2>1, <2>2 DEF TypeInv, TypeOK, Steps, stageVars, readVars
<1> QED
  BY <1>1, <1>2

(* A request the switch has taken, or lost, leaves it well-typed. *)
LEMMA RequestType ==
  ASSUME TypeInv, NEW ch \in Changes, Accepted(ch) \/ Later(ch) \/ Nothing
  PROVE  dev' \in Config /\ pending' \subseteq [change : Changes, target : Config]
<1>1. CASE Accepted(ch)
  BY <1>1, EffectsType, PlannerConstants DEF Accepted, TypeInv, TypeOK
<1>2. CASE Later(ch)
  BY <1>2 DEF Later, TypeInv, TypeOK
<1>3. CASE Nothing
  BY <1>3 DEF Nothing, TypeInv, TypeOK
<1> QED
  BY <1>1, <1>2, <1>3

LEMMA FaultType ==
  ASSUME TypeInv, (\E k \in FaultKinds : Happens(k)) \/ UNCHANGED faults
  PROVE  faults' \in 0..MaxFaults
BY CommitConstants DEF Happens, TypeInv, TypeOK, CommitConstants

LEMMA StartPhaseType ==
  ASSUME TypeInv, StartPhase, ~LastPhase(phase)
  PROVE  phase' \in Phases /\ todo' \subseteq Changes
<1>1. phase \in Nat
  BY DEF TypeInv, TypeOK, Phases
<1> QED
  BY <1>1, NextPhaseExists, PlanType DEF StartPhase, Stage, ThePlan

(* What the switch does about a save. *)
FlashType == flash \in Config /\ unsaved \subseteq {"late", "ignored"}

LEMMA SaveType ==
  ASSUME TypeInv, SaveAnswered \/ SaveLost \/ (NotSaved /\ UNCHANGED faults)
  PROVE  FlashType' /\ faults' \in 0..MaxFaults
<1>1. FlashType'
  BY DEF SaveAnswered, SaveLost, Saved, SavedLater, SaveIgnored, NotSaved, flashVars,
         FlashType, TypeInv, TypeOK
<1>2. faults' \in 0..MaxFaults
  BY FaultType DEF SaveAnswered, SaveLost, Happens
<1> QED
  BY <1>1, <1>2

LEMMA RaisingType ==
  ASSUME TypeInv, pc \in Steps, Raise, UNCHANGED <<jobVars, journal>>,
         dev' \in Config /\ FlashType' /\ backups' \subseteq Config,
         pending' \subseteq [change : Changes, target : Config],
         expired' \in BOOLEAN /\ url' \in Addresses,
         cache' \in Config \cup {None} /\ faults' \in 0..MaxFaults
  PROVE  TypeInv'
<1>1. UNCHANGED <<target, current, asked, journal>>
  BY DEF jobVars
<1> QED
  BY <1>1, RaiseType DEF TypeInv, TypeOK, FlashType

(* An exception in a step that has done nothing else. *)
LEMMA OnlyRaisingType ==
  ASSUME TypeInv, pc \in Steps, Raise,
         (\E k \in FaultKinds : Happens(k)) \/ UNCHANGED faults,
         UNCHANGED <<deviceVars, linkVars, jobVars, fileVars>>
  PROVE  TypeInv'
<1>1. UNCHANGED <<dev, flash, unsaved, pending, expired, url, journal, backups, cache>>
  BY DEF deviceVars, flashVars, linkVars, fileVars
<1>2. faults' \in 0..MaxFaults
  BY FaultType
<1>3. /\ dev' \in Config /\ FlashType' /\ backups' \subseteq Config
      /\ pending' \subseteq [change : Changes, target : Config]
      /\ expired' \in BOOLEAN /\ url' \in Addresses
      /\ cache' \in Config \cup {None}
  BY <1>1 DEF TypeInv, TypeOK, FlashType
<1> QED
  BY <1>1, <1>2, <1>3, RaisingType

(* The steps that read pages. *)
LEMMA ReadingType ==
  ASSUME TypeInv, StepOfRead \/ PullDone \/ PhaseIncomplete \/ Mismatch
  PROVE  TypeInv'
<1>0. Defaults \in Config
  BY DefaultsType, PlannerConstants
<1>1. ASSUME ReadPage PROVE TypeInv'
  <2>1. seen' \in Config
    BY <1>0, <1>1, ReadType DEF ReadPage, TypeInv, TypeOK
  <2>2. page' \in 1..7
    BY <1>1 DEF ReadPage, Pages
  <2>3. faults' \in 0..MaxFaults
    BY <1>1, FaultType DEF ReadPage, Happens
  <2>4. expired' \in BOOLEAN
    BY <1>1, Zenon DEF ReadPage
  <2>5. UNCHANGED <<deviceVars, url, pc, jobVars, stageVars, opts, attempt, outcome, fileVars, clean>>
    BY <1>1 DEF ReadPage
  <2>6. TypeOK'
    BY <2>1, <2>2, <2>3, <2>4, <2>5
       DEF TypeInv, TypeOK, deviceVars, flashVars, jobVars, stageVars, fileVars
  <2>7. Control'
    BY <2>5 DEF TypeInv, Control, jobVars, stageVars, fileVars, ThePlan
  <2> QED
    BY <2>6, <2>7 DEF TypeInv
<1>3. ASSUME ReadFails PROVE TypeInv'
  BY OnlyRaisingType, <1>3 DEF ReadFails, Unanswered, Happens, Steps
<1>4. ASSUME PullDone PROVE TypeInv'
  <2>1. CASE CannotSaveState
    BY OnlyRaisingType, <1>4, <2>1 DEF PullDone, CannotSaveState, Happens, Steps, Reading
  <2>2. CASE ~CannotSaveState
    <3>1. /\ cache' = seen /\ Finish("pulled")
          /\ UNCHANGED <<deviceVars, linkVars, jobVars, phase, done, journal, backups, faults, clean>>
      BY <1>4, <2>2 DEF PullDone
    <3>2. opts' \in Options
      BY <3>1, Zenon DEF Finish, Rewind, NoOptions, Options
    <3>3. TypeOK'
      BY <1>0, <3>1, <3>2, CommitConstants DEF TypeInv, TypeOK, Finish, Rewind, deviceVars, flashVars, linkVars,
         jobVars, Outcomes, CommitConstants
    <3>4. Control'
      BY <3>1 DEF Finish, Control, Committing
    <3> QED
      BY <3>3, <3>4 DEF TypeInv
  <2> QED
    BY <2>1, <2>2
<1>5. ASSUME PhaseIncomplete PROVE TypeInv'
  <2>1. CASE attempt < MaxAttempts
    <3>1. /\ StartReading("confirm") /\ attempt' = attempt + 1
          /\ UNCHANGED <<stageVars, opts, outcome, clean>>
          /\ UNCHANGED <<deviceVars, linkVars, jobVars, fileVars, faults>>
      BY <1>5, <2>1 DEF PhaseIncomplete, RetriesLeft, NextAttempt
    <3>2. attempt' \in 1..MaxAttempts
      BY <2>1, <3>1, CommitConstants DEF TypeInv, TypeOK, CommitConstants
    <3>3. TypeOK'
      BY <1>0, <3>1, <3>2 DEF TypeInv, TypeOK, StartReading, stageVars, deviceVars, flashVars, linkVars, jobVars,
         fileVars, Steps, Reading
    <3>4. Control'
      BY <1>5, <3>1 DEF PhaseIncomplete, RetriesLeft, NextAttempt, TypeInv, Control, Committing, StartReading, jobVars, fileVars
    <3> QED
      BY <3>3, <3>4 DEF TypeInv
  <2>2. CASE ~(attempt < MaxAttempts)
    BY OnlyRaisingType, <1>5, <2>2 DEF PhaseIncomplete, RetriesLeft, NextAttempt, Steps, Reading
  <2> QED
    BY <2>1, <2>2
<1>6. ASSUME Mismatch PROVE TypeInv'
  BY OnlyRaisingType, <1>6 DEF Mismatch, AsRequested, Steps, Reading
<1> QED
  BY <1>1, <1>3, <1>4, <1>5, <1>6 DEF StepOfRead

LEMMA AskType ==
  ASSUME TypeInv, Ask
  PROVE  TypeInv'
<1>0. Defaults \in Config
  BY DefaultsType, PlannerConstants
<1>a. ASSUME NEW op, Asked(op) PROVE asked' \in 0..MaxAsked /\ pc = "idle"
  BY <1>a, CommitConstants DEF Asked, TypeInv, TypeOK, CommitConstants
<1>1. ASSUME StartCommit PROVE TypeInv'
  <2>1. asked' \in 0..MaxAsked
    BY <1>a, <1>1 DEF StartCommit
  <2>2. opts' \in Options
    BY <1>1 DEF StartCommit, Options, TypeInv, TypeOK
  <2>3. clean' \in BOOLEAN
    BY <1>1, Zenon DEF StartCommit
  <2>4. /\ target' \in Config /\ current' \in Config /\ phase' = 0 /\ todo' = {} /\ done' = {}
        /\ pc' = "plan" /\ seen' \in Config /\ page' = 1
    BY <1>0, <1>1, CommitConstants DEF StartCommit, StartReading, CommitConstants
  <2>5. UNCHANGED <<deviceVars, linkVars, attempt, outcome, fileVars, faults>>
    BY <1>1 DEF StartCommit
  <2>6. TypeOK'
    BY <2>1, <2>2, <2>3, <2>4, <2>5
       DEF TypeInv, TypeOK, deviceVars, flashVars, linkVars, fileVars, Steps, Reading, Phases
  <2>7. Control'
    BY <2>4 DEF Control, Committing
  <2> QED
    BY <2>6, <2>7 DEF TypeInv
<1>2. ASSUME StartPull PROVE TypeInv'
  <2>1. asked' \in 0..MaxAsked
    BY <1>a, <1>2 DEF StartPull
  <2>2. clean' \in BOOLEAN
    BY <1>2, Zenon DEF StartPull
  <2>3. /\ pc' = "pull" /\ seen' \in Config /\ page' = 1
        /\ UNCHANGED <<deviceVars, linkVars, target, current, stageVars, opts, attempt, outcome,
                       fileVars, faults>>
    BY <1>0, <1>2 DEF StartPull, StartReading
  <2>4. TypeOK'
    BY <2>1, <2>2, <2>3
       DEF TypeInv, TypeOK, deviceVars, flashVars, linkVars, stageVars, fileVars, Steps, Reading
  <2>5. Control'
    BY <2>3 DEF Control, Committing
  <2> QED
    BY <2>4, <2>5 DEF TypeInv
<1>3. ASSUME StoreBackup PROVE TypeInv'
  <2>1. asked' \in 0..MaxAsked
    BY <1>a, <1>3 DEF StoreBackup
  <2>2. expired' \in BOOLEAN
    BY <1>3, Zenon DEF StoreBackup
  <2>3. backups' \subseteq Config /\ outcome' \in Outcomes
    BY <1>3 DEF StoreBackup, SaveBackup, TypeInv, TypeOK, Outcomes
  <2>4. UNCHANGED <<deviceVars, url, pc, target, current, stageVars, readVars, journal, cache,
                    faults, clean>>
    BY <1>3 DEF StoreBackup
  <2>5. TypeOK'
    BY <2>1, <2>2, <2>3, <2>4 DEF TypeInv, TypeOK, deviceVars, flashVars, stageVars, readVars
  <2>6. Control'
    BY <1>3, <1>a DEF StoreBackup, Control, Committing
  <2> QED
    BY <2>5, <2>6 DEF TypeInv
<1>4. ASSUME WriteMemory PROVE TypeInv'
  <2>1. asked' \in 0..MaxAsked /\ faults' \in 0..MaxFaults
    BY <1>a, <1>4, SaveType DEF WriteMemory
  <2>2. expired' \in BOOLEAN
    BY <1>4, Zenon DEF WriteMemory
  <2>3. FlashType' /\ outcome' \in Outcomes
    BY <1>4, SaveType DEF WriteMemory, Outcomes
  <2>4. UNCHANGED <<dev, pending, url, pc, target, current, stageVars, readVars, fileVars, clean>>
    BY <1>4 DEF WriteMemory
  <2>5. TypeOK'
    BY <2>1, <2>2, <2>3, <2>4 DEF TypeInv, TypeOK, FlashType, stageVars, readVars, fileVars
  <2>6. Control'
    BY <1>4, <1>a DEF WriteMemory, Control, Committing
  <2> QED
    BY <2>5, <2>6 DEF TypeInv
<1>5. ASSUME Restore PROVE TypeInv'
  <2>1. asked' \in 0..MaxAsked /\ faults' \in 0..MaxFaults
    BY <1>a, <1>5, FaultType DEF Restore, Happens
  <2>2. expired' \in BOOLEAN /\ clean' \in BOOLEAN
    BY <1>5, Zenon DEF Restore, Restored, NotRestored
  <2>3. /\ dev' \in Config /\ FlashType' /\ outcome' \in Outcomes
        /\ pending' \subseteq [change : Changes, target : Config]
    BY <1>5 DEF Restore, Restored, NotRestored, TypeInv, TypeOK, FlashType, Outcomes, deviceVars,
                flashVars
  <2>4. UNCHANGED <<url, pc, target, current, stageVars, readVars, fileVars>>
    BY <1>5 DEF Restore
  <2>5. TypeOK'
    BY <2>1, <2>2, <2>3, <2>4 DEF TypeInv, TypeOK, FlashType, stageVars, readVars, fileVars
  <2>6. Control'
    BY <1>5, <1>a DEF Restore, Control, Committing
  <2> QED
    BY <2>5, <2>6 DEF TypeInv
<1> QED
  BY <1>1, <1>2, <1>3, <1>4, <1>5 DEF Ask

LEMMA EnvironmentType ==
  ASSUME TypeInv, Environment
  PROVE  TypeInv'
<1>0. Defaults \in Config
  BY DefaultsType, PlannerConstants
<1>1. ASSUME LateApply PROVE TypeInv'
  <2>1. dev' \in Config /\ pending' \subseteq [change : Changes, target : Config]
    BY <1>1, EffectsType, PlannerConstants DEF LateApply, TypeInv, TypeOK
  <2>2. UNCHANGED <<flash, unsaved, linkVars, pc, jobVars, stageVars, readVars, outcome, fileVars,
                    faults, clean>>
    BY <1>1 DEF LateApply, flashVars
  <2>3. TypeOK'
    BY <2>1, <2>2
       DEF TypeInv, TypeOK, linkVars, jobVars, stageVars, readVars, fileVars
  <2>4. Control'
    BY <2>2 DEF TypeInv, Control, jobVars, stageVars, fileVars, ThePlan
  <2> QED
    BY <2>3, <2>4 DEF TypeInv
<1>5. ASSUME LateSave PROVE TypeInv'
  <2>1. FlashType'
    BY <1>5 DEF LateSave, TypeInv, TypeOK, FlashType
  <2>2. UNCHANGED <<dev, pending, linkVars, pc, jobVars, stageVars, readVars, outcome, fileVars,
                    faults, clean>>
    BY <1>5 DEF LateSave
  <2>3. TypeOK'
    BY <2>1, <2>2
       DEF TypeInv, TypeOK, FlashType, linkVars, jobVars, stageVars, readVars, fileVars
  <2>4. Control'
    BY <2>2 DEF TypeInv, Control, jobVars, stageVars, fileVars, ThePlan
  <2> QED
    BY <2>3, <2>4 DEF TypeInv
<1>2. ASSUME Admin \/ Reboot PROVE TypeInv'
  <2>1. /\ dev' \in Config /\ FlashType'
        /\ pending' \subseteq [change : Changes, target : Config]
    BY <1>2, CommitConstants
       DEF Admin, Reboot, TypeInv, TypeOK, FlashType, flashVars, CommitConstants
  <2>2. faults' \in 0..MaxFaults
    BY <1>2, FaultType DEF Admin, Reboot, Happens
  <2>3. clean' \in BOOLEAN
    BY <1>2, Zenon DEF Admin, Reboot
  <2>4. expired' \in BOOLEAN
    <3>1. expired \in BOOLEAN
      BY DEF TypeInv, TypeOK
    <3>2. expired' = TRUE \/ expired' = expired
      BY <1>2, Zenon DEF Admin, Reboot, linkVars
    <3> QED
      BY <3>1, <3>2, Zenon
  <2>5. UNCHANGED <<url, pc, jobVars, stageVars, readVars, outcome, fileVars>>
    BY <1>2 DEF Admin, Reboot, linkVars
  <2>6. TypeOK'
    BY <2>1, <2>2, <2>3, <2>4, <2>5
       DEF TypeInv, TypeOK, FlashType, jobVars, stageVars, readVars, fileVars
  <2>7. Control'
    BY <2>5 DEF TypeInv, Control, jobVars, stageVars, fileVars, ThePlan
  <2> QED
    BY <2>6, <2>7 DEF TypeInv
<1>3. ASSUME Expire PROVE TypeInv'
  <2>1. expired' \in BOOLEAN
    BY <1>3, Zenon DEF Expire
  <2>2. faults' \in 0..MaxFaults
    BY <1>3, FaultType DEF Expire, Happens
  <2>3. UNCHANGED <<deviceVars, url, pc, jobVars, stageVars, readVars, outcome, fileVars, clean>>
    BY <1>3 DEF Expire
  <2>4. TypeOK'
    BY <2>1, <2>2, <2>3
       DEF TypeInv, TypeOK, deviceVars, flashVars, jobVars, stageVars, readVars, fileVars
  <2>5. Control'
    BY <2>3 DEF TypeInv, Control, jobVars, stageVars, fileVars, ThePlan
  <2> QED
    BY <2>4, <2>5 DEF TypeInv
<1>4. ASSUME Crash PROVE TypeInv'
  <2>1. opts' \in Options
    BY <1>4, Zenon DEF Crash, Finish, Rewind, NoOptions, Options
  <2>2. /\ pc' = "idle" /\ outcome' = "crashed" /\ todo' = {} /\ seen' = Defaults /\ page' = 1
        /\ attempt' = 1
    BY <1>4 DEF Crash, Finish, Rewind
  <2>3. faults' \in 0..MaxFaults /\ url' \in Addresses
    BY <1>4, FaultType, CommitConstants DEF Crash, Happens, TypeInv, TypeOK, CommitConstants
  <2>4. UNCHANGED <<deviceVars, expired, jobVars, phase, done, fileVars, clean>>
    BY <1>4 DEF Crash
  <2>5. TypeOK'
    BY <1>0, <2>1, <2>2, <2>3, <2>4, CommitConstants
       DEF TypeInv, TypeOK, deviceVars, flashVars, jobVars, fileVars, Outcomes, CommitConstants
  <2>6. Control'
    BY <2>2 DEF Control, Committing
  <2> QED
    BY <2>5, <2>6 DEF TypeInv
<1> QED
  BY <1>1, <1>2, <1>3, <1>4, <1>5 DEF Environment

LEMMA PlanningType ==
  ASSUME TypeInv, Planned \/ Backup \/ BackupFails
  PROVE  TypeInv'
<1>0. Defaults \in Config
  BY DefaultsType, PlannerConstants
<1>1. ASSUME Planned PROVE TypeInv'
  <2>0. pc \in Steps
    BY <1>1 DEF Planned, Steps, Reading
  <2>1. CASE CannotSaveState
    BY <1>1, <2>0, <2>1, OnlyRaisingType DEF CannotSaveState, Happens
  <2>2. ASSUME Finish(Verdict), Verdict # "apply", cache' \in Config \cup {None},
               UNCHANGED <<deviceVars, linkVars, jobVars, phase, done, journal, backups, faults,
                           clean>>
        PROVE  TypeInv'
    <3>1. opts' \in Options
      BY <2>2, Zenon DEF Finish, Rewind, NoOptions, Options
    <3>2. Verdict \in Outcomes
      BY <2>2 DEF Verdict, Outcomes
    <3>3. TypeOK'
      BY <1>0, <2>2, <3>1, <3>2, CommitConstants
         DEF TypeInv, TypeOK, Finish, Rewind, deviceVars, flashVars, linkVars, jobVars, CommitConstants
    <3>4. Control'
      BY <2>2 DEF Finish, Control, Committing
    <3> QED
      BY <3>3, <3>4 DEF TypeInv
  <2>3. ASSUME Verdict = "apply", pc' = "backup", current' = seen, Rewind, clean' \in BOOLEAN,
               UNCHANGED <<deviceVars, linkVars, target, asked, stageVars, outcome, fileVars,
                           faults>>
        PROVE  TypeInv'
    <3>1. opts' \in Options
      BY <2>3, Zenon DEF Rewind, NoOptions, Options
    <3>2. TypeOK'
      BY <1>0, <2>3, <3>1, CommitConstants
         DEF TypeInv, TypeOK, Rewind, deviceVars, flashVars, linkVars, stageVars, fileVars, Steps,
             CommitConstants
    <3>3. Valid(target) /\ Plan(seen, target) # {}
      BY <2>3 DEF Verdict
    <3>4. Control'
      <4>1. phase = 0 /\ todo = {}
        BY <1>1 DEF Planned, TypeInv, Control
      <4> QED
        BY <2>3, <3>3, <4>1 DEF Control, Committing, ThePlan, stageVars
    <3> QED
      BY <3>2, <3>4 DEF TypeInv
  <2>4. Verdict = "apply" => clean' \in BOOLEAN
    BY <1>1, Zenon DEF Planned, CannotSaveState
  <2> QED
    BY <1>1, <2>1, <2>2, <2>3, <2>4 DEF Planned, TypeInv, TypeOK, fileVars
<1>2. ASSUME Backup PROVE TypeInv'
  <2>0. pc = "backup" /\ phase = 0 /\ ThePlan # {} /\ Valid(target)
    BY <1>2 DEF Backup, TypeInv, Control, Committing
  <2>1. Downloads \subseteq Config \cup {None}
    BY DEF Downloads, TypeInv, TypeOK
  <2>2. expired' \in BOOLEAN
    BY <1>2, Zenon DEF Backup
  <2>3. UNCHANGED <<dev, flash, unsaved, pending, url, target, current, asked, cache>>
    BY <1>2 DEF Backup, deviceVars, flashVars, jobVars
  <2>4. CASE \E file \in Downloads :
                /\ SaveBackup(file)
                /\ journal' = [status |-> "started", base |-> current, target |-> target,
                               backup |-> file, stages |-> {}]
                /\ StartPhase
                /\ UNCHANGED <<readVars, outcome, faults, done, clean>>
    <3>1. ~LastPhase(phase)
      <4>1. PICK ch \in ThePlan : TRUE
        BY <2>0
      <4>2. ch.phase \in PhasesOf(ThePlan) /\ ch.phase \in Phases \ {0}
        BY <4>1, PlanType DEF PhasesOf, ThePlan
      <4> QED
        BY <2>0, <4>2 DEF LastPhase, Phases
    <3>2. backups' \subseteq Config /\ journal' \in Journal
      BY <2>1, <2>4 DEF SaveBackup, Journal, TypeInv, TypeOK
    <3>3. pc' = "apply" /\ phase' \in Phases /\ todo' \subseteq Changes
      BY <2>4, <3>1, StartPhaseType DEF StartPhase
    <3>4. UNCHANGED <<readVars, outcome, faults, done, clean>>
      BY <2>4
    <3>5. TypeOK'
      BY <2>2, <2>3, <3>2, <3>3, <3>4 DEF TypeInv, TypeOK, readVars, Steps
    <3>6. Control'
      BY <2>0, <2>3, <3>2, <3>3 DEF Control, Committing, ThePlan
    <3> QED
      BY <3>5, <3>6 DEF TypeInv
  <2>5. CASE Happens("disk") /\ Raise /\ UNCHANGED journal
             /\ (UNCHANGED backups \/ \E file \in Downloads : SaveBackup(file))
    <3>1. backups' \subseteq Config
      BY <2>1, <2>5 DEF SaveBackup, TypeInv, TypeOK
    <3>2. faults' \in 0..MaxFaults
      BY <2>5, FaultType DEF Happens
    <3>3. /\ dev' \in Config /\ FlashType' /\ url' \in Addresses
          /\ pending' \subseteq [change : Changes, target : Config]
          /\ cache' \in Config \cup {None}
          /\ UNCHANGED <<jobVars, journal>> /\ pc \in Steps
      BY <2>0, <2>3, <2>5 DEF TypeInv, TypeOK, FlashType, jobVars, Steps
    <3> QED
      BY <2>2, <2>5, <3>1, <3>2, <3>3, RaisingType
  <2> QED
    BY <1>2, <2>4, <2>5 DEF Backup
<1>3. ASSUME BackupFails PROVE TypeInv'
  BY <1>3, OnlyRaisingType DEF BackupFails, Unanswered, Happens, Steps
<1> QED
  BY <1>1, <1>2, <1>3

LEMMA ApplyingType ==
  ASSUME TypeInv, Apply \/ ApplyManagement \/ LogInAgain
  PROVE  TypeInv'
<1>0. Defaults \in Config
  BY DefaultsType, PlannerConstants
<1>1. ASSUME NEW ch \in todo, Answered(ch) \/ Lost(ch)
      PROVE  /\ dev' \in Config /\ pending' \subseteq [change : Changes, target : Config]
             /\ expired' \in BOOLEAN /\ faults' \in 0..MaxFaults
  <2>1. ch \in Changes
    BY DEF TypeInv, TypeOK
  <2>2. Accepted(ch) \/ Later(ch) \/ Nothing
    BY <1>1 DEF Answered, Lost
  <2>3. faults' \in 0..MaxFaults
    BY <1>1, FaultType DEF Answered, Lost, Happens
  <2>4. expired' \in BOOLEAN
    <3>1. expired \in BOOLEAN
      BY DEF TypeInv, TypeOK
    <3>2. expired' = FALSE \/ expired' = expired
      BY <1>1, Zenon DEF Answered, Lost
    <3> QED
      BY <3>1, <3>2, Zenon
  <2> QED
    BY <2>1, <2>2, <2>3, <2>4, RequestType
<1>2. ASSUME NEW ch, Sent(ch), pc = "apply",
             dev' \in Config, pending' \subseteq [change : Changes, target : Config],
             expired' \in BOOLEAN, faults' \in 0..MaxFaults,
             UNCHANGED <<flashVars, url, jobVars, fileVars>>
      PROVE  TypeInv'
  <2>1. /\ pc' \in {"apply", "confirm"} /\ seen' \in Config /\ page' \in 1..7
        /\ attempt' \in 1..MaxAttempts /\ opts' = opts
    BY <1>0, <1>2, CommitConstants
       DEF Sent, StartReading, TypeInv, TypeOK, readVars, CommitConstants
  <2>2. todo' \subseteq Changes /\ UNCHANGED <<phase, done, outcome, clean>>
    BY <1>2 DEF Sent, TypeInv, TypeOK
  <2>3. TypeOK'
    BY <1>2, <2>1, <2>2 DEF TypeInv, TypeOK, Steps, Reading, flashVars, jobVars, fileVars
  <2>4. Control'
    BY <1>2, <2>1 DEF TypeInv, Control, Committing, jobVars, fileVars
  <2> QED
    BY <2>3, <2>4 DEF TypeInv
<1>3. ASSUME Apply PROVE TypeInv'
  <2>1. PICK ch \in todo : (Answered(ch) /\ Sent(ch)) \/ (Lost(ch) /\ Raise)
    BY <1>3 DEF Apply
  <2>2. UNCHANGED <<flashVars, url, jobVars, fileVars>> /\ pc = "apply"
    BY <1>3 DEF Apply
  <2>3. CASE Sent(ch) /\ Answered(ch)
    BY <1>1, <1>2, <2>2, <2>3
  <2>4. CASE Raise /\ Lost(ch)
    <3>1. /\ FlashType' /\ url' \in Addresses /\ backups' \subseteq Config
          /\ cache' \in Config \cup {None} /\ UNCHANGED <<jobVars, journal>> /\ pc \in Steps
      BY <2>2 DEF TypeInv, TypeOK, FlashType, flashVars, fileVars, Steps
    <3> QED
      BY <1>1, <2>4, <3>1, RaisingType
  <2> QED
    BY <2>1, <2>3, <2>4
<1>4. ASSUME ApplyManagement PROVE TypeInv'
  <2>1. PICK ch \in todo :
          /\ Answered(ch) \/ Lost(ch)
          /\ IF target.mgmt.dhcp
             THEN Sent(ch) /\ UNCHANGED url
             ELSE /\ url' = target.mgmt.address
                  /\ pc' = "rebase"
                  /\ todo' = todo \ {ch}
                  /\ UNCHANGED <<phase, done, readVars, outcome, clean>>
    BY <1>4 DEF ApplyManagement
  <2>2. UNCHANGED <<flashVars, jobVars, fileVars>> /\ pc = "apply"
    BY <1>4 DEF ApplyManagement
  <2>3. CASE target.mgmt.dhcp
    BY <1>1, <1>2, <2>1, <2>2, <2>3
  <2>4. CASE ~target.mgmt.dhcp
    <3>1. Valid(target)
      BY <2>2 DEF TypeInv, Control, Committing
    <3>2. url' \in Addresses
      BY <2>1, <2>4, <3>1, PlannerConstants DEF Valid, ValidManagement, PlannerConstants
    <3>3. TypeOK'
      BY <1>1, <2>1, <2>2, <2>4, <3>2
         DEF TypeInv, TypeOK, Steps, flashVars, jobVars, fileVars, readVars
    <3>4. Control'
      BY <2>1, <2>2, <2>4 DEF TypeInv, Control, Committing, jobVars, fileVars
    <3> QED
      BY <3>3, <3>4 DEF TypeInv
  <2> QED
    BY <2>3, <2>4
<1>5. ASSUME LogInAgain PROVE TypeInv'
  <2>1. UNCHANGED <<deviceVars, url, jobVars, fileVars>> /\ pc = "rebase"
    BY <1>5 DEF LogInAgain
  <2>2. CASE Unanswered /\ Raise /\ UNCHANGED expired
    BY <2>1, <2>2, OnlyRaisingType DEF Unanswered, Happens, Steps, linkVars
  <2>3. CASE ~(Unanswered /\ Raise /\ UNCHANGED expired)
    <3>1. /\ StartReading("confirm") /\ attempt' = 1 /\ expired' = FALSE
          /\ UNCHANGED <<stageVars, opts, outcome, clean, faults>>
      BY <1>5, <2>3 DEF LogInAgain
    <3>2. expired' \in BOOLEAN
      BY <3>1, Zenon
    <3>3. /\ pc' = "confirm" /\ seen' \in Config /\ page' = 1 /\ attempt' \in 1..MaxAttempts
      BY <1>0, <3>1, CommitConstants DEF StartReading, CommitConstants
    <3>4. UNCHANGED <<dev, flash, unsaved, pending, url, target, current, asked, journal, backups, cache,
                      phase, todo, done, opts, outcome, clean, faults>>
      BY <2>1, <3>1 DEF deviceVars, flashVars, jobVars, fileVars, stageVars
    <3>5. TypeOK'
      BY <3>2, <3>3, <3>4 DEF TypeInv, TypeOK, Steps, Reading
    <3>6. Control'
      BY <2>1, <3>3, <3>4 DEF TypeInv, Control, Committing
    <3> QED
      BY <3>5, <3>6 DEF TypeInv
  <2> QED
    BY <2>2, <2>3
<1> QED
  BY <1>3, <1>4, <1>5

LEMMA ConcludingType ==
  ASSUME TypeInv, PhaseConfirmed \/ Save \/ Verified \/ Except
  PROVE  TypeInv'
<1>0. Defaults \in Config
  BY DefaultsType, PlannerConstants
<1>r. ASSUME Rewind PROVE opts' \in Options /\ seen' \in Config /\ page' \in 1..7
                          /\ attempt' \in 1..MaxAttempts
  <2>1. opts' \in Options
    BY <1>r, Zenon DEF Rewind, NoOptions, Options
  <2> QED
    BY <1>0, <1>r, <2>1, CommitConstants DEF Rewind, CommitConstants
<1>1. ASSUME PhaseConfirmed PROVE TypeInv'
  <2>1. /\ pc = "confirm" /\ done' = done \cup {phase}
        /\ UNCHANGED <<dev, flash, unsaved, pending, expired, url, target, current, asked, outcome,
                       backups, cache, clean>>
    BY <1>1 DEF PhaseConfirmed, RecordStages, deviceVars, flashVars, linkVars, jobVars
  <2>2. done' \subseteq Phases /\ journal \in Journal /\ Valid(target)
    BY <2>1 DEF TypeInv, TypeOK, Control, Committing
  <2>3. CASE /\ journal' = [journal EXCEPT !.stages = done']
             /\ SaveOrNextPhase /\ Rewind /\ UNCHANGED faults
    <3>1. journal' \in Journal
      BY <2>2, <2>3 DEF Journal
    <3>2. pc' \in {"apply", "save"} /\ phase' \in Phases /\ todo' \subseteq Changes
      BY <2>3, StartPhaseType DEF SaveOrNextPhase, StartPhase, TypeInv, TypeOK
    <3>3. TypeOK'
      BY <1>r, <2>1, <2>2, <2>3, <3>1, <3>2 DEF TypeInv, TypeOK, Steps
    <3>4. Control'
      BY <2>1, <2>2, <3>1, <3>2 DEF Control, Committing
    <3> QED
      BY <3>3, <3>4 DEF TypeInv
  <2>4. CASE Happens("disk") /\ pc' = "except" /\ UNCHANGED <<journal, phase, todo, readVars>>
    <3>1. faults' \in 0..MaxFaults
      BY <2>4, FaultType DEF Happens
    <3>2. TypeOK'
      BY <2>1, <2>2, <2>4, <3>1 DEF TypeInv, TypeOK, Steps, readVars
    <3>3. Control'
      BY <2>1, <2>2, <2>4 DEF Control, Committing
    <3> QED
      BY <3>2, <3>3 DEF TypeInv
  <2> QED
    BY <1>1, <2>3, <2>4 DEF PhaseConfirmed, RecordStages
<1>2. ASSUME Save PROVE TypeInv'
  <2>1. pc = "save" /\ UNCHANGED <<dev, pending, url, jobVars, fileVars>>
    BY <1>2 DEF Save
  <2>2. FlashType' /\ faults' \in 0..MaxFaults
    BY <1>2, SaveType DEF Save
  <2>3. expired' \in BOOLEAN
    <3>1. expired \in BOOLEAN
      BY DEF TypeInv, TypeOK
    <3>2. expired' = FALSE \/ expired' = expired
      BY <1>2, Zenon DEF Save
    <3> QED
      BY <3>1, <3>2, Zenon
  <2>4. CASE StartReading("verify") /\ UNCHANGED <<stageVars, opts, attempt, outcome, clean>>
    <3>1. pc' = "verify" /\ seen' \in Config /\ page' = 1
      BY <1>0, <2>4 DEF StartReading
    <3>2. TypeOK'
      BY <2>1, <2>2, <2>3, <2>4, <3>1
         DEF TypeInv, TypeOK, FlashType, Steps, Reading, stageVars, jobVars, fileVars
    <3>3. Control'
      BY <2>1, <3>1 DEF TypeInv, Control, Committing, jobVars, fileVars
    <3> QED
      BY <3>2, <3>3 DEF TypeInv
  <2>5. CASE Raise
    <3>1. /\ dev' \in Config /\ url' \in Addresses /\ backups' \subseteq Config
          /\ pending' \subseteq [change : Changes, target : Config]
          /\ cache' \in Config \cup {None} /\ UNCHANGED <<jobVars, journal>> /\ pc \in Steps
      BY <2>1 DEF TypeInv, TypeOK, fileVars, Steps
    <3> QED
      BY <2>2, <2>3, <2>5, <3>1, RaisingType
  <2> QED
    BY <1>2, <2>4, <2>5 DEF Save
<1>3. ASSUME Verified PROVE TypeInv'
  <2>1. /\ pc = "verify" /\ UNCHANGED <<deviceVars, linkVars, jobVars, backups, clean>>
        /\ cache' \in {cache, seen}
    BY <1>3 DEF Verified, AsRequested
  <2>2. journal \in Journal /\ Valid(target)
    BY <2>1 DEF TypeInv, Control, Committing
  <2>3. CASE /\ journal' = [journal EXCEPT !.status = "complete"]
             /\ Finish("committed") /\ UNCHANGED <<phase, done, faults>>
    <3>1. journal' \in Journal
      BY <2>2, <2>3 DEF Journal
    <3>2. pc' = "idle" /\ outcome' \in Outcomes /\ todo' = {} /\ Rewind
      BY <2>3 DEF Finish, Outcomes
    <3>3. TypeOK'
      BY <1>r, <2>1, <2>3, <3>1, <3>2 DEF TypeInv, TypeOK, deviceVars, flashVars, linkVars, jobVars
    <3>4. Control'
      BY <3>2 DEF Control, Committing
    <3> QED
      BY <3>3, <3>4 DEF TypeInv
  <2>4. CASE Happens("disk") /\ pc' = "except"
             /\ UNCHANGED <<journal, stageVars, readVars, outcome>>
    <3>1. faults' \in 0..MaxFaults
      BY <2>4, FaultType DEF Happens
    <3>2. TypeOK'
      BY <2>1, <2>4, <3>1
         DEF TypeInv, TypeOK, Steps, deviceVars, flashVars, linkVars, jobVars, stageVars, readVars
    <3>3. Control'
      BY <2>1, <2>2, <2>4 DEF Control, Committing, jobVars
    <3> QED
      BY <3>2, <3>3 DEF TypeInv
  <2> QED
    BY <1>3, <2>3, <2>4 DEF Verified, AsRequested
<1>4. ASSUME Except PROVE TypeInv'
  <2>1. /\ pc = "except" /\ pc' = "idle" /\ outcome' \in Outcomes /\ todo' = {} /\ Rewind
        /\ UNCHANGED <<deviceVars, linkVars, jobVars, phase, done, backups, cache, clean>>
    BY <1>4 DEF Except, Finish, Outcomes
  <2>2. faults' \in 0..MaxFaults
    BY <1>4, FaultType DEF Except, Happens
  <2>3. journal' \in Journal
    <3>1. journal \in Journal /\ done \subseteq Phases
      BY <2>1 DEF TypeInv, TypeOK, Control, Committing
    <3> QED
      BY <1>4, <3>1 DEF Except, Journal
  <2>4. TypeOK'
    BY <1>r, <2>1, <2>2, <2>3 DEF TypeInv, TypeOK, deviceVars, flashVars, linkVars, jobVars
  <2>5. Control'
    BY <2>1 DEF Control, Committing
  <2> QED
    BY <2>4, <2>5 DEF TypeInv
<1> QED
  BY <1>1, <1>2, <1>3, <1>4

(* Every variable keeps its type, and the client its footing: a plan is    *)
(* backed up, applied and verified only for a valid candidate, and no step *)
(* after the backup is without a journal.                                  *)
LEMMA TypeStep == TypeInv /\ [Next]_vars => TypeInv'
<1> SUFFICES ASSUME TypeInv, [Next]_vars PROVE TypeInv'
  OBVIOUS
<1>1. CASE Next
  BY <1>1, AskType, ReadingType, PlanningType, ApplyingType, ConcludingType, EnvironmentType
     DEF Next, Client, StepOfCommit
<1>2. CASE UNCHANGED vars
  BY <1>2 DEF TypeInv, TypeOK, Control, vars, deviceVars, flashVars, linkVars, jobVars, stageVars, readVars,
     fileVars, ThePlan
<1> QED
  BY <1>1, <1>2

LEMMA TypeInvariant == Spec => []TypeInv
BY InitType, TypeStep, PTL DEF Spec

(* The types, and the footing: at every moment of every commit the         *)
(* candidate is valid, and there is a journal from the backup on.          *)
THEOREM TypeCorrect == Spec => [](TypeOK /\ Control)
BY TypeInvariant, PTL DEF TypeInv

----------------------------------------------------------------------------
(* Dependency order. *)

LEMMA ValidConsistent ==
  ASSUME NEW c, Valid(c)
  PROVE  Consistent(c) /\ PortsOf(c) = HwPorts
BY DEF Valid, ValidManagement, ValidPorts, Consistent, Refs

(* What one change can do to the VLANs and to what refers to them. *)
LEMMA EffectOnVlans ==
  ASSUME PlannerConstants, NEW cur \in Config, NEW t \in Config, NEW d \in Config,
         NEW ch \in Plan(cur, t), NEW e \in Effects(ch, t, d)
  PROVE  /\ ch.phase < 60 => VlanIds(d) \subseteq VlanIds(e)
         /\ VlanIds(d) \cap VlanIds(t) \subseteq VlanIds(e)
         /\ \A p \in HwPorts : \/ e.pvid[p] = d.pvid[p]
                               \/ ch.phase = 40 /\ e.pvid[p] = t.pvid[p]
         /\ \/ e.mgmt.vlan = d.mgmt.vlan
            \/ ch.phase = 50 /\ e.mgmt.vlan = t.mgmt.vlan
<1>1. CASE ch = Change(5, "enable_dot1q", None)
  BY <1>1 DEF Change, Effects, VlanIds, Config
<1>2. ASSUME NEW v \in VlanIds(t), ch = Change(10, "upsert_vlan", v)
      PROVE  /\ VlanIds(d) \subseteq VlanIds(e) /\ e.pvid = d.pvid /\ e.mgmt = d.mgmt
             /\ ch.phase = 10
  <2>1. e = d \/ e = [d EXCEPT !.vlans[v] = t.vlans[v]]
    BY <1>2 DEF Change, Effects
  <2>2. v \in Vids /\ t.vlans[v] # None
    BY DEF VlanIds
  <2> QED
    BY <1>2, <2>1, <2>2 DEF Change, VlanIds, Config
<1>3. ASSUME NEW g \in Groups, ch = Change(20, "delete_lag", g) \/ ch = Change(20, "set_lag", g)
      PROVE  e.vlans = d.vlans /\ e.pvid = d.pvid /\ e.mgmt = d.mgmt /\ ch.phase = 20
  BY <1>3 DEF Change, Effects, Config
<1>4. ASSUME NEW p \in PortIds, ch = Change(30, "set_port", p)
      PROVE  e.vlans = d.vlans /\ e.pvid = d.pvid /\ e.mgmt = d.mgmt /\ ch.phase = 30
  BY <1>4 DEF Change, Effects, Config
<1>5. ASSUME NEW p \in PortIds, ch = Change(40, "set_pvid", p)
      PROVE  /\ e.vlans = d.vlans /\ e.mgmt = d.mgmt /\ ch.phase = 40
             /\ \A q \in PortIds : e.pvid[q] \in {d.pvid[q], t.pvid[q]}
  BY <1>5 DEF Change, Effects, Config
<1>6. CASE ch = Change(45, "set_fallback_ip", None)
  BY <1>6 DEF Change, Effects, VlanIds, Config
<1>7. CASE ch = Change(50, "set_management", None)
  <2>1. PICK m \in SwitchedManagement(t.mgmt) : e = [d EXCEPT !.mgmt = m]
    BY <1>7 DEF Change, Effects
  <2>2. m.vlan = t.mgmt.vlan
    BY DEF SwitchedManagement
  <2> QED
    BY <1>7, <2>1, <2>2 DEF Change, VlanIds, Config
<1>8. ASSUME NEW v \in VlanIds(cur) \ VlanIds(t), ch = Change(60, "delete_vlan", v)
      PROVE  /\ VlanIds(d) \ {v} \subseteq VlanIds(e) /\ e.pvid = d.pvid /\ e.mgmt = d.mgmt
             /\ ch.phase = 60
  BY <1>8 DEF Change, Effects, VlanIds, Config
<1>9. e.vlans = d.vlans => VlanIds(e) = VlanIds(d)
  BY DEF VlanIds
<1> QED
  BY PlanForms, PlannerConstants, <1>1, <1>2, <1>3, <1>4, <1>5, <1>6, <1>7, <1>8, <1>9
     DEF PlannerConstants

LEMMA EffectKeepsPhase ==
  ASSUME PlannerConstants, NEW cur \in Config, NEW t \in Config, NEW d \in Config,
         NEW n \in Phases, NEW ch \in Plan(cur, t), ch.phase <= n,
         InPhase(n, cur, t, d), NEW e \in Effects(ch, t, d)
  PROVE  /\ InPhase(n, cur, t, e)
         /\ \A s, pg : ReadBack(n, t, s, pg, d) => ReadBack(n, t, s, pg, e)
<1>0. n \in Nat /\ ch.phase \in Nat
  BY PlanType DEF Phases, Changes
<1> DEFINE Facts ==
      /\ ch.phase < 60 => VlanIds(d) \subseteq VlanIds(e)
      /\ VlanIds(d) \cap VlanIds(t) \subseteq VlanIds(e)
      /\ \A p \in HwPorts : \/ e.pvid[p] = d.pvid[p]
                            \/ ch.phase = 40 /\ e.pvid[p] = t.pvid[p]
      /\ \/ e.mgmt.vlan = d.mgmt.vlan
         \/ ch.phase = 50 /\ e.mgmt.vlan = t.mgmt.vlan
<1>1. Facts
  BY EffectOnVlans
<1>2. InPhase(n, cur, t, e)
  BY <1>0, <1>1 DEF InPhase
<1>3. ASSUME NEW s, NEW pg, ReadBack(n, t, s, pg, d)
      PROVE  ReadBack(n, t, s, pg, e)
  BY <1>0, <1>1, <1>3 DEF ReadBack
<1> QED
  BY <1>2, <1>3

(* A phase that has been read back in full is over: the switch is ready    *)
(* for the next one of the plan.                                           *)
LEMMA PhaseOver ==
  ASSUME PlannerConstants, NEW cur \in Config, NEW t \in Config, NEW d \in Config,
         NEW s \in Config, NEW n \in Phases, NEW m \in PhasesOf(Plan(cur, t)), m > n,
         \A k \in PhasesOf(Plan(cur, t)) : k > n => m <= k,
         PortsOf(t) = HwPorts,
         \A ch \in Stage(Plan(cur, t), n) : Observed(ch, t, s),
         ReadBack(n, t, s, 7, d), InPhase(n, cur, t, d)
  PROVE  InPhase(m, cur, t, d)
<1>0. n \in Nat /\ m \in Nat
  BY PlanType DEF Phases
<1>a. ASSUME NEW ch \in Plan(cur, t), ch.phase < m
      PROVE  ch.phase < n \/ (ch.phase = n /\ Observed(ch, t, s))
  <2>1. ch.phase \in PhasesOf(Plan(cur, t)) /\ ch.phase \in Nat
    BY PlanType DEF PhasesOf, Changes, Phases
  <2> QED
    BY <1>0, <1>a, <2>1 DEF Stage
<1>1. m > 10 => VlanIds(t) \subseteq VlanIds(d)
  <2> SUFFICES ASSUME m > 10, n <= 10, NEW v \in VlanIds(t) PROVE v \in VlanIds(d)
    BY <1>0 DEF InPhase
  <2>1. CASE cur.vlans[v] = t.vlans[v]
    BY <1>0, <2>1 DEF InPhase, VlanIds
  <2>2. CASE cur.vlans[v] # t.vlans[v]
    <3>1. Change(10, "upsert_vlan", v) \in Plan(cur, t)
      BY <2>2 DEF Plan, UpsertVlans
    <3>2. n = 10 /\ Observed(Change(10, "upsert_vlan", v), t, s)
      BY <1>0, <1>a, <3>1 DEF Change
    <3>3. v \in VlanIds(s)
      BY <3>2 DEF Observed, Change, VlanIds
    <3> QED
      BY <3>2, <3>3 DEF ReadBack
  <2> QED
    BY <2>1, <2>2
<1>2. ASSUME NEW p \in HwPorts
      PROVE  \/ m <= 40 /\ d.pvid[p] = cur.pvid[p]
             \/ m >= 40 /\ d.pvid[p] = t.pvid[p]
  <2> SUFFICES ASSUME m > 40, n <= 40 PROVE d.pvid[p] = t.pvid[p]
    BY <1>0 DEF InPhase
  <2>1. CASE cur.pvid[p] = t.pvid[p]
    BY <2>1 DEF InPhase
  <2>2. CASE cur.pvid[p] # t.pvid[p]
    <3>1. Change(40, "set_pvid", p) \in Plan(cur, t)
      BY <2>2 DEF Plan, SetPvids
    <3>2. n = 40 /\ Observed(Change(40, "set_pvid", p), t, s)
      BY <1>0, <1>a, <3>1 DEF Change
    <3>3. s.pvid[p] = t.pvid[p]
      BY <3>2 DEF Observed, Change
    <3> QED
      BY <3>2, <3>3 DEF ReadBack
  <2> QED
    BY <2>1, <2>2
<1>3. \/ m <= 50 /\ d.mgmt.vlan = cur.mgmt.vlan
      \/ m >= 50 /\ d.mgmt.vlan = t.mgmt.vlan
  <2> SUFFICES ASSUME m > 50, n <= 50 PROVE d.mgmt.vlan = t.mgmt.vlan
    BY <1>0 DEF InPhase
  <2>1. CASE cur.mgmt = t.mgmt
    BY <2>1 DEF InPhase
  <2>2. CASE cur.mgmt # t.mgmt
    <3>1. Change(50, "set_management", None) \in Plan(cur, t)
      BY <2>2 DEF Plan, SetManagement, ManagementChange
    <3>2. n = 50 /\ Observed(Change(50, "set_management", None), t, s)
      BY <1>0, <1>a, <3>1 DEF Change
    <3>3. s.mgmt.vlan = t.mgmt.vlan
      BY <3>2 DEF Observed, Change
    <3> QED
      BY <3>2, <3>3 DEF ReadBack
  <2> QED
    BY <2>1, <2>2
<1>4. m < 60 => VlanIds(cur) \subseteq VlanIds(d)
  BY <1>0 DEF InPhase
<1> QED
  BY <1>1, <1>2, <1>3, <1>4 DEF InPhase

(* In every phase, what the switch refers to is there. *)
LEMMA InPhaseConsistent ==
  ASSUME NEW cur, NEW t, NEW d, NEW n \in Phases,
         Consistent(cur), Consistent(t), InPhase(n, cur, t, d)
  PROVE  Consistent(d)
<1>0. n \in Nat
  BY DEF Phases
<1>1. cur.mgmt.vlan \in VlanIds(cur) /\ t.mgmt.vlan \in VlanIds(t)
  BY DEF Consistent, Refs
<1>2. \A p \in HwPorts : cur.pvid[p] \in VlanIds(cur) /\ t.pvid[p] \in VlanIds(t)
  BY DEF Consistent, Refs
<1>3. d.mgmt.vlan \in VlanIds(d)
  BY <1>0, <1>1 DEF InPhase
<1>4. \A p \in HwPorts : d.pvid[p] \in VlanIds(d)
  BY <1>0, <1>2 DEF InPhase
<1> QED
  BY <1>3, <1>4 DEF Consistent, Refs

(* A step that stays in its phase, and at most sends, loses or applies     *)
(* requests of the plan, up to that phase.                                 *)
LEMMA OrderKept ==
  ASSUME TypeInv, OrderInv, clean' => clean,
         UNCHANGED <<target, current, phase>>, todo' \subseteq todo,
         pc' \notin {"pull", "plan"},
         pc' = "confirm" => page' = 1 \/ (pc = "confirm" /\ UNCHANGED <<seen, page>>),
         clean =>
           \/ dev' = dev /\ pending' \subseteq pending
           \/ \E ch \in UpTo(phase) :
                 /\ dev' = dev \/ dev' \in Effects(ch, target, dev)
                 /\ pending' \subseteq pending \cup {[change |-> ch, target |-> target]}
  PROVE  OrderInv'
<1> SUFFICES ASSUME clean' PROVE OrderInv'
  BY DEF OrderInv
<1>1. /\ Consistent(current) /\ Consistent(target) /\ todo \subseteq UpTo(phase)
      /\ pending \subseteq {[change |-> ch, target |-> target] : ch \in UpTo(phase)}
      /\ InPhase(phase, current, target, dev)
      /\ pc = "confirm" => ReadBack(phase, target, seen, page, dev)
      /\ clean
  BY DEF OrderInv
<1>2. UpTo(phase)' = UpTo(phase)
  BY DEF UpTo, ThePlan
<1>3. pending' \subseteq {[change |-> ch, target |-> target] : ch \in UpTo(phase)}
  BY <1>1
<1>4. /\ InPhase(phase, current, target, dev')
      /\ \A s, pg : ReadBack(phase, target, s, pg, dev) => ReadBack(phase, target, s, pg, dev')
  <2>1. CASE dev' = dev
    BY <1>1, <2>1
  <2>2. CASE dev' # dev
    <3>1. PICK ch \in UpTo(phase) : dev' \in Effects(ch, target, dev)
      BY <1>1, <2>2
    <3> QED
      BY <1>1, <3>1, EffectKeepsPhase, PlannerConstants DEF UpTo, ThePlan, TypeInv, TypeOK
  <2> QED
    BY <2>1, <2>2
<1>5. pc' = "confirm" => ReadBack(phase, target, seen', page', dev')
  <2>1. ReadBack(phase, target, seen', 1, dev')
    BY DEF ReadBack
  <2> QED
    BY <1>1, <1>4, <2>1
<1> QED
  BY <1>1, <1>2, <1>3, <1>4, <1>5 DEF OrderInv

(* A call that raises ends the operation or the phase. *)
LEMMA OrderRaised ==
  ASSUME TypeInv, OrderInv, Raise, pc \in Steps, UNCHANGED <<target, current>>,
         clean => \/ dev' = dev /\ pending' \subseteq pending
                  \/ \E ch \in UpTo(phase) :
                        /\ dev' = dev \/ dev' \in Effects(ch, target, dev)
                        /\ pending' \subseteq pending \cup {[change |-> ch, target |-> target]}
  PROVE  OrderInv'
<1>1. CASE pc \in {"pull", "plan", "backup"}
  BY <1>1 DEF Raise, OrderInv
<1>2. CASE pc \notin {"pull", "plan", "backup"}
  <2>1. pc' = "except" /\ clean' = clean /\ UNCHANGED <<phase, todo>>
    BY <1>2 DEF Raise, stageVars
  <2> QED
    BY <2>1, OrderKept
<1> QED
  BY <1>1, <1>2

LEMMA OrderRead ==
  ASSUME TypeInv, OrderInv, "default" \notin FaultKinds, ReadPage
  PROVE  OrderInv'
<1> SUFFICES ASSUME clean PROVE OrderInv'
  BY DEF ReadPage, OrderInv
<1>1. seen' = ReadPageInto(page, seen, dev) /\ page' = page + 1 /\ page \in 1..6
  BY DEF ReadPage, Happens, Pages
<1>2. UNCHANGED <<dev, pending, pc, target, current, phase, todo, clean>>
  BY DEF ReadPage, deviceVars, flashVars, jobVars, stageVars
<1>3. pc = "confirm" => ReadBack(phase, target, seen', page', dev')
  <2> SUFFICES ASSUME ReadBack(phase, target, seen, page, dev)
               PROVE  ReadBack(phase, target, seen', page', dev)
    BY <1>2 DEF OrderInv
  <2>1. page = 5 => seen'.vlans = dev.vlans
    BY <1>1 DEF ReadPageInto
  <2>2. page # 5 => seen'.vlans = seen.vlans
    BY <1>1 DEF ReadPageInto
  <2>3. page = 6 => seen'.pvid = dev.pvid
    BY <1>1 DEF ReadPageInto
  <2>4. page = 1 => seen'.mgmt = dev.mgmt
    BY <1>1 DEF ReadPageInto
  <2>5. page # 1 => seen'.mgmt = seen.mgmt
    BY <1>1 DEF ReadPageInto
  <2> QED
    BY <1>1, <2>1, <2>2, <2>3, <2>4, <2>5 DEF ReadBack, VlanIds
<1> QED
  BY <1>2, <1>3 DEF OrderInv, UpTo, ThePlan

LEMMA OrderPlanned ==
  ASSUME TypeInv, OrderInv, Planned
  PROVE  OrderInv'
<1>0. pc = "plan" /\ ~clean /\ phase = 0 /\ todo = {}
  BY DEF Planned, OrderInv, TypeInv, Control
<1>1. CASE clean'
  <2>1. /\ Verdict = "apply" /\ pc' = "backup" /\ current' = seen
        /\ dev = seen /\ Consistent(seen) /\ pending = {}
        /\ UNCHANGED <<deviceVars, target, stageVars>>
    BY <1>0, <1>1 DEF Planned, CannotSaveState, Raise
  <2>2. Consistent(target)
    BY <2>1, ValidConsistent DEF Verdict
  <2>3. InPhase(0, seen, target, seen)
    BY DEF InPhase
  <2> QED
    BY <1>0, <2>1, <2>2, <2>3 DEF OrderInv, deviceVars, flashVars, stageVars
<1>2. CASE ~clean'
  BY <1>2 DEF OrderInv
<1> QED
  BY <1>1, <1>2

(* Going to the next phase, from the backup or from a confirmed phase. *)
LEMMA OrderNextPhase ==
  ASSUME TypeInv, OrderInv, StartPhase, ~LastPhase(phase), Valid(target), clean' = clean,
         UNCHANGED <<dev, pending, target, current>>,
         \A ch \in Stage(ThePlan, phase) : Observed(ch, target, seen),
         clean => ReadBack(phase, target, seen, 7, dev)
  PROVE  OrderInv'
<1> SUFFICES ASSUME clean PROVE OrderInv'
  BY DEF OrderInv
<1> DEFINE m == NextPhase(phase)
<1>1. pc' = "apply" /\ phase' = m /\ todo' = Stage(ThePlan, m)
  BY DEF StartPhase
<1>2. /\ m \in PhasesOf(ThePlan) /\ m \in Phases /\ m > phase
      /\ \A k \in PhasesOf(ThePlan) : k > phase => m <= k
  BY NextPhaseExists DEF TypeInv, TypeOK, Phases
<1>3. PortsOf(target) = HwPorts
  BY ValidConsistent
<1> HIDE DEF m
<1>4. InPhase(m, current, target, dev)
  BY <1>2, <1>3, PhaseOver, PlannerConstants DEF OrderInv, TypeInv, TypeOK, ThePlan
<1>5. UpTo(phase) \subseteq UpTo(phase)' /\ todo' \subseteq UpTo(phase)'
  <2>1. ThePlan' = ThePlan
    BY DEF ThePlan
  <2>2. \A ch \in ThePlan : ch.phase \in Nat
    BY PlanType DEF ThePlan, Changes, Phases
  <2>3. phase \in Nat /\ m \in Nat
    BY <1>2 DEF TypeInv, TypeOK, Phases
  <2> QED
    BY <1>1, <1>2, <2>1, <2>2, <2>3 DEF UpTo, Stage
<1> QED
  BY <1>1, <1>4, <1>5 DEF OrderInv

LEMMA OrderBackup ==
  ASSUME TypeInv, OrderInv, Backup \/ BackupFails
  PROVE  OrderInv'
<1>0. /\ pc = "backup" /\ phase = 0 /\ ThePlan # {} /\ Valid(target)
      /\ UNCHANGED <<dev, pending, target, current>> /\ pc \in Steps
  BY DEF Backup, BackupFails, TypeInv, Control, Committing, deviceVars, flashVars, jobVars, Steps
<1>1. CASE StartPhase /\ clean' = clean
  <2>1. \A ch \in ThePlan : ch.phase \in PhasesOf(ThePlan) /\ ch.phase \in Phases \ {0}
    BY PlanType DEF PhasesOf, ThePlan
  <2>2. ~LastPhase(phase)
    BY <1>0, <2>1 DEF LastPhase, Phases
  <2>3. Stage(ThePlan, phase) = {}
    BY <1>0, <2>1 DEF Stage
  <2>4. ReadBack(phase, target, seen, 7, dev)
    BY <1>0 DEF ReadBack
  <2> QED
    BY <1>0, <1>1, <2>2, <2>3, <2>4, OrderNextPhase
<1>2. CASE Raise
  BY <1>0, <1>2, OrderRaised
<1> QED
  BY <1>1, <1>2 DEF Backup, BackupFails

LEMMA OrderApply ==
  ASSUME TypeInv, OrderInv, Apply \/ ApplyManagement \/ LogInAgain
  PROVE  OrderInv'
<1>0. UNCHANGED <<target, current>> /\ pc \in Steps
  BY DEF Apply, ApplyManagement, LogInAgain, jobVars, Steps
<1>1. ASSUME NEW ch \in todo, Answered(ch) \/ Lost(ch)
      PROVE  clean => \E c \in UpTo(phase) :
                        /\ dev' = dev \/ dev' \in Effects(c, target, dev)
                        /\ pending' \subseteq pending \cup {[change |-> c, target |-> target]}
  <2>1. clean => ch \in UpTo(phase)
    BY DEF OrderInv
  <2>2. /\ dev' = dev \/ dev' \in Effects(ch, target, dev)
        /\ pending' \subseteq pending \cup {[change |-> ch, target |-> target]}
    BY <1>1 DEF Answered, Lost, Accepted, Later, Nothing
  <2> QED
    BY <2>1, <2>2
<1>2. ASSUME NEW ch \in todo, Answered(ch) \/ Lost(ch), Sent(ch), pc = "apply" PROVE OrderInv'
  <2>1. /\ UNCHANGED <<phase, clean>> /\ todo' \subseteq todo
        /\ pc' \in {"apply", "confirm"} /\ (pc' = "confirm" => page' = 1)
    BY <1>2 DEF Sent, StartReading, readVars
  <2> QED
    BY <1>0, <1>1, <1>2, <2>1, OrderKept
<1>3. ASSUME Apply PROVE OrderInv'
  BY <1>0, <1>1, <1>2, <1>3, OrderRaised DEF Apply
<1>4. ASSUME ApplyManagement PROVE OrderInv'
  <2>1. PICK ch \in todo :
          /\ Answered(ch) \/ Lost(ch)
          /\ \/ Sent(ch)
             \/ /\ pc' = "rebase" /\ todo' = todo \ {ch}
                /\ UNCHANGED <<phase, clean>>
    BY <1>4 DEF ApplyManagement
  <2>2. pc = "apply"
    BY <1>4 DEF ApplyManagement
  <2>3. CASE pc' = "rebase" /\ todo' = todo \ {ch} /\ UNCHANGED <<phase, clean>>
    BY <1>0, <1>1, <2>1, <2>3, OrderKept
  <2> QED
    BY <1>2, <2>1, <2>2, <2>3
<1>5. ASSUME LogInAgain PROVE OrderInv'
  <2>1. UNCHANGED <<dev, pending>> /\ pc = "rebase"
    BY <1>5 DEF LogInAgain, deviceVars, flashVars
  <2>2. CASE Raise
    BY <1>0, <2>1, <2>2, OrderRaised
  <2>3. CASE StartReading("confirm") /\ UNCHANGED <<stageVars, clean>>
    BY <1>0, <2>1, <2>3, OrderKept DEF StartReading, stageVars
  <2> QED
    BY <1>5, <2>2, <2>3 DEF LogInAgain
<1> QED
  BY <1>3, <1>4, <1>5

LEMMA OrderConclude ==
  ASSUME TypeInv, OrderInv,
         PhaseConfirmed \/ PhaseIncomplete \/ Save \/ Verified \/ Mismatch \/ Except
  PROVE  OrderInv'
<1>0. UNCHANGED <<dev, pending, target, current>> /\ pc \in Steps
  BY DEF PhaseConfirmed, RecordStages, PhaseIncomplete, RetriesLeft, NextAttempt, Save, Verified, AsRequested, Mismatch, AsRequested, Except, deviceVars, flashVars, jobVars,
     Steps, Reading
<1>1. ASSUME UNCHANGED <<phase, clean>>, todo' \subseteq todo, pc' \notin {"pull", "plan"},
             pc' = "confirm" => page' = 1
      PROVE  OrderInv'
  BY <1>0, <1>1, OrderKept
<1>2. ASSUME Raise PROVE OrderInv'
  BY <1>0, <1>2, OrderRaised
<1>3. ASSUME PhaseConfirmed PROVE OrderInv'
  <2>1. pc = "confirm" /\ page = 7 /\ Confirmed /\ clean' = clean /\ Valid(target)
    BY <1>3 DEF PhaseConfirmed, RecordStages, Pages, TypeInv, TypeOK, Control, Committing
  <2>2. CASE SaveOrNextPhase /\ LastPhase(phase)
    BY <1>1, <2>1, <2>2 DEF SaveOrNextPhase
  <2>3. CASE SaveOrNextPhase /\ ~LastPhase(phase)
    <3>1. clean => ReadBack(phase, target, seen, 7, dev)
      BY <2>1 DEF OrderInv
    <3> QED
      BY <1>0, <2>1, <2>3, <3>1, OrderNextPhase DEF SaveOrNextPhase, Confirmed
  <2>4. CASE pc' = "except" /\ UNCHANGED <<phase, todo>>
    BY <1>1, <2>1, <2>4
  <2> QED
    BY <1>3, <2>2, <2>3, <2>4 DEF PhaseConfirmed, RecordStages
<1>4. ASSUME PhaseIncomplete PROVE OrderInv'
  BY <1>1, <1>2, <1>4 DEF PhaseIncomplete, RetriesLeft, NextAttempt, StartReading, stageVars
<1>5. ASSUME Save PROVE OrderInv'
  BY <1>1, <1>2, <1>5 DEF Save, StartReading, stageVars
<1>6. ASSUME Verified PROVE OrderInv'
  BY <1>1, <1>6 DEF Verified, AsRequested, Finish, stageVars
<1>7. ASSUME Mismatch PROVE OrderInv'
  BY <1>2, <1>7 DEF Mismatch, AsRequested
<1>8. ASSUME Except PROVE OrderInv'
  BY <1>1, <1>8 DEF Except, Finish
<1> QED
  BY <1>3, <1>4, <1>5, <1>6, <1>7, <1>8

LEMMA OrderAround ==
  ASSUME TypeInv, OrderInv, Ask \/ ReadFails \/ PullDone \/ Environment
  PROVE  OrderInv'
<1>1. ASSUME StartCommit \/ StartPull \/ Restore \/ Admin \/ Reboot PROVE OrderInv'
  BY <1>1 DEF StartCommit, StartPull, Restore, Admin, Reboot, OrderInv
<1>2. ASSUME StoreBackup \/ WriteMemory \/ Expire PROVE OrderInv'
  <2>1. UNCHANGED <<dev, pending, pc, target, current, phase, todo, clean, seen, page>>
    BY <1>2 DEF StoreBackup, WriteMemory, Expire, deviceVars, flashVars, jobVars, stageVars, readVars
  <2> QED
    BY <2>1, OrderKept DEF OrderInv
<1>3. ASSUME ReadFails PROVE OrderInv'
  BY <1>3, OrderRaised DEF ReadFails, deviceVars, flashVars, jobVars, Steps
<1>4. ASSUME PullDone PROVE OrderInv'
  BY <1>4 DEF PullDone, CannotSaveState, Raise, OrderInv
<1>5. ASSUME LateApply PROVE OrderInv'
  <2>1. PICK r \in pending : dev' \in Effects(r.change, r.target, dev) /\ pending' = pending \ {r}
    BY <1>5 DEF LateApply
  <2>2. UNCHANGED <<pc, target, current, phase, todo, clean, seen, page>>
    BY <1>5 DEF LateApply, jobVars, stageVars, readVars
  <2>3. clean => r.change \in UpTo(phase) /\ r.target = target
    BY DEF OrderInv
  <2> QED
    BY <2>1, <2>2, <2>3, OrderKept DEF OrderInv
<1>7. ASSUME LateSave PROVE OrderInv'
  <2>1. UNCHANGED <<dev, pending, pc, target, current, phase, todo, clean, seen, page>>
    BY <1>7 DEF LateSave, jobVars, stageVars, readVars
  <2> QED
    BY <2>1, OrderKept DEF OrderInv
<1>6. ASSUME Crash PROVE OrderInv'
  <2>1. /\ pc' = "idle" /\ todo' = {}
        /\ UNCHANGED <<dev, pending, target, current, phase, clean>>
    BY <1>6 DEF Crash, Finish, deviceVars, flashVars, jobVars
  <2> QED
    BY <2>1, OrderKept
<1> QED
  BY <1>1, <1>2, <1>3, <1>4, <1>5, <1>6, <1>7 DEF Ask, Environment

LEMMA OrderStep ==
  ASSUME "default" \notin FaultKinds
  PROVE  TypeInv /\ OrderInv /\ [Next]_vars => OrderInv'
<1> SUFFICES ASSUME TypeInv, OrderInv, [Next]_vars PROVE OrderInv'
  OBVIOUS
<1>1. CASE Next
  BY <1>1, OrderRead, OrderPlanned, OrderBackup, OrderApply, OrderConclude, OrderAround
     DEF Next, Client, StepOfRead, StepOfCommit
<1>2. CASE UNCHANGED vars
  BY <1>2, OrderKept DEF OrderInv, vars, deviceVars, flashVars, jobVars, stageVars, readVars
<1> QED
  BY <1>1, <1>2

(* The inductive invariant of the phases holds in every commit, as long as *)
(* no page comes without its variables: a phase read back page by page is  *)
(* in effect as far as VLANs and what refers to them go.                   *)
THEOREM OrderInvariant ==
  ASSUME "default" \notin FaultKinds
  PROVE  Spec => []OrderInv
<1>1. Init => OrderInv
  BY Zenon DEF Init, OrderInv
<1>2. TypeInv /\ OrderInv /\ [Next]_vars => OrderInv'
  BY OrderStep
<1> QED
  BY <1>1, <1>2, TypeInvariant, PTL DEF Spec

(* Whatever else fails, and however often, a commit never leaves the       *)
(* switch with a management VLAN or a PVID that does not exist: the phases *)
(* of build_plan, each read back before the next, are enough, unless a     *)
(* page that is not a configuration page is taken for one.                 *)
THEOREM DependencyOrderHolds ==
  ASSUME "default" \notin FaultKinds
  PROVE  Spec => []DependencyOrder
<1>1. TypeInv /\ OrderInv => DependencyOrder
  BY InPhaseConsistent DEF TypeInv, TypeOK, OrderInv, DependencyOrder
<1> QED
  BY <1>1, OrderInvariant, TypeInvariant, PTL
=============================================================================
