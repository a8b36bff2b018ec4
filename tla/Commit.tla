------------------------------- MODULE Commit -------------------------------
(***************************************************************************)
(* MercSwitchClient (client.py) driving one switch through the RPM/CGI     *)
(* adapter (adapters/rpm_cgi.py): pull, commit, backup, restore and        *)
(* write_memory, one action per request the client awaits or per file it   *)
(* writes.  Between two of them the switch goes on by itself: it applies a *)
(* request it has already answered, another administrator changes it, it   *)
(* reboots into what its flash holds, it ends the login session; and the   *)
(* client's process may die.                                               *)
(*                                                                         *)
(* Whether an operation is under way is pc; "idle" between operations.     *)
(* The locals of the last operation keep their values when it ends.        *)
(***************************************************************************)
EXTENDS Planner

CONSTANTS
  Candidates,      \* the candidate configurations a user may ask for
  DeviceConfigs,   \* what the switch may start with, or be set to by others
  InitialUrl,      \* the address in the configured URL
  FaultKinds,      \* what may go wrong in this instance (AllFaultKinds)
  MaxFaults,       \* BOUND: how many times something goes wrong
  MaxAsked,        \* BOUND: how many operations users ask for
  Operations,      \* what users ask for in this instance (AllOperations)
  MaxAttempts      \* read-backs per phase: range(3) in commit

AllFaultKinds ==
  {"raise",    \* a request gets an HTTP error or no answer, done or not
   "late",     \* a request is answered before the switch applies it
   "ignore",   \* a request is answered but the switch does not apply it
   "disk",     \* writing a file fails
   "crash",    \* the process of the client dies
   "expire",   \* the switch ends the login session
   "default",  \* a page comes without the variables read_state looks for
   "admin",    \* another administrator changes the switch
   "reboot"}   \* the switch restarts from its flash

AllOperations == {"commit", "pull", "backup", "save", "restore"}

ASSUME CommitConstants ==
  /\ Operations \subseteq AllOperations
  /\ Candidates \subseteq Config
  /\ DeviceConfigs \subseteq Config
  /\ InitialUrl \in Addresses
  /\ FaultKinds \subseteq AllFaultKinds
  /\ MaxFaults \in Nat /\ MaxAsked \in Nat
  /\ MaxAttempts \in Nat \ {0}

VARIABLES
  dev,       \* running configuration of the switch
  flash,     \* its saved configuration
  unsaved,   \* of the saves it has taken: "late", one is still to come;
             \* "ignored", it did nothing about the last
  pending,   \* requests it has answered and will apply later
  expired,   \* it has ended the session the adapter's token belongs to
  url,       \* the address the adapter sends requests to
  pc,        \* where the client is
  target,    \* the candidate of the current (or last) commit
  current,   \* the state it was planned from
  phase,     \* the phase being applied
  todo,      \* changes of this phase still to send
  done,      \* phases read back and confirmed: journal["stages"]
  opts,      \* base_hash, check, force, allow_management_change, until planned
  seen,      \* what read_state has assembled so far
  page,      \* the next page it fetches
  attempt,   \* which read-back of the phase this is
  outcome,   \* how the last operation ended
  journal,   \* the journal file of the last commit that got that far
  backups,   \* what the native backup files restore
  cache,     \* state.json
  faults,    \* how many things have gone wrong
  asked,     \* how many operations have been asked for
  clean      \* history: since the current commit read the switch in one
             \* piece, nobody else has changed it

flashVars == <<flash, unsaved>>
deviceVars == <<dev, flashVars, pending>>
linkVars == <<expired, url>>
jobVars == <<target, current, asked>>
stageVars == <<phase, todo, done>>
readVars == <<opts, seen, page, attempt>>
fileVars == <<journal, backups, cache>>
vars == <<deviceVars, linkVars, pc, jobVars, stageVars, readVars, outcome, fileVars,
          faults, clean>>

Reading == {"pull", "plan", "confirm", "verify"}
Steps == Reading \cup {"backup", "apply", "rebase", "save", "except"}
Phases == {0, 5, 10, 20, 30, 40, 45, 50, 60}
Actions == {"enable_dot1q", "upsert_vlan", "set_lag", "delete_lag", "set_port", "set_pvid",
            "set_fallback_ip", "set_management", "delete_vlan"}
Changes == [phase : Phases, action : Actions, key : Vids \cup PortIds \cup Groups \cup {None}]
Options == [base : Config \cup {None}, check : BOOLEAN, force : BOOLEAN, allow : BOOLEAN]
Journal == [status : {"started", "failed", "complete"}, base : Config, target : Config,
            backup : Config \cup {None}, stages : SUBSET Phases]
Outcomes == {"none", "pulled", "drift", "invalid", "confirm", "checked", "unchanged", "error",
             "crashed", "failed", "committed", "stored", "restored"}

(* None is a value of its own. *)
ASSUME NoneIsApart == None \notin Config /\ None \notin Journal

TypeOK ==
  /\ dev \in Config /\ flash \in Config /\ unsaved \subseteq {"late", "ignored"}
  /\ pending \subseteq [change : Changes, target : Config]
  /\ expired \in BOOLEAN /\ url \in Addresses
  /\ pc \in Steps \cup {"idle"}
  /\ target \in Config /\ opts \in Options /\ current \in Config
  /\ phase \in Phases /\ todo \subseteq Changes /\ done \subseteq Phases
  /\ seen \in Config /\ page \in 1..7 /\ attempt \in 1..MaxAttempts
  /\ outcome \in Outcomes
  /\ journal \in Journal \cup {None}
  /\ backups \subseteq Config
  /\ cache \in Config \cup {None}
  /\ faults \in 0..MaxFaults /\ asked \in 0..MaxAsked /\ clean \in BOOLEAN

NoOptions == [base |-> None, check |-> FALSE, force |-> FALSE, allow |-> FALSE]

Init ==
  /\ dev \in DeviceConfigs /\ flash = dev /\ unsaved = {} /\ pending = {}
  /\ expired = FALSE /\ url = InitialUrl
  /\ pc = "idle" /\ outcome = "none"
  /\ target = Defaults /\ opts = NoOptions /\ current = Defaults
  /\ phase = 0 /\ todo = {} /\ done = {}
  /\ seen = Defaults /\ page = 1 /\ attempt = 1
  /\ journal = None /\ backups = {} /\ cache = None
  /\ faults = 0 /\ asked = 0 /\ clean = FALSE

Happens(kind) == kind \in FaultKinds /\ faults < MaxFaults /\ faults' = faults + 1
Asked(operation) ==
  /\ pc = "idle" /\ operation \in Operations
  /\ asked < MaxAsked /\ asked' = asked + 1
Reachable == url = dev.mgmt.address
ThePlan == Plan(current, target)

----------------------------------------------------------------------------
(* Ending an operation, and starting to read the six pages. *)

Rewind == opts' = NoOptions /\ seen' = Defaults /\ page' = 1 /\ attempt' = 1

Finish(result) ==
  /\ pc' = "idle" /\ outcome' = result
  /\ todo' = {}
  /\ Rewind

StartReading(where) ==
  /\ pc' = where
  /\ seen' = Defaults /\ page' = 1

(* A call raises.  Before the journal exists the error goes to the user;   *)
(* once it does, to the except clause of commit.                           *)
Raise ==
  IF pc \in {"pull", "plan", "backup"}
  THEN /\ Finish("error")
       /\ clean' = FALSE
       /\ UNCHANGED <<phase, done>>
  ELSE /\ pc' = "except"
       /\ UNCHANGED <<outcome, clean, stageVars, readVars>>

----------------------------------------------------------------------------
(* read_state: one page per step, the session renewed where it has ended. *)

ReadPage ==
  /\ pc \in Reading /\ page \in Pages /\ Reachable
  /\ \/ /\ seen' = ReadPageInto(page, seen, dev)
        /\ UNCHANGED faults
     \/ /\ Happens("default")
        /\ seen' = ReadPageInto(page, seen, Defaults)
  /\ page' = page + 1
  /\ expired' = FALSE
  /\ UNCHANGED <<deviceVars, url, pc, jobVars, stageVars, opts, attempt, outcome, fileVars, clean>>

(* A request that changes nothing on the switch gets no usable answer. *)
Unanswered == \/ ~Reachable /\ UNCHANGED faults
              \/ Reachable /\ Happens("raise")

ReadFails ==
  /\ pc \in Reading /\ page \in Pages
  /\ Unanswered
  /\ Raise
  /\ UNCHANGED <<deviceVars, linkVars, jobVars, fileVars>>

(* save_state fails after a read. *)
CannotSaveState ==
  /\ Happens("disk")
  /\ Raise
  /\ UNCHANGED <<deviceVars, linkVars, jobVars, fileVars>>

----------------------------------------------------------------------------
(* pull *)

StartPull ==
  /\ Asked("pull")
  /\ StartReading("pull")
  /\ clean' = FALSE
  /\ UNCHANGED <<deviceVars, linkVars, target, current, stageVars, opts, attempt, outcome, fileVars, faults>>

PullDone ==
  /\ pc = "pull" /\ page \notin Pages
  /\ \/ /\ cache' = seen
        /\ Finish("pulled")
        /\ UNCHANGED <<deviceVars, linkVars, jobVars, phase, done, journal, backups, faults, clean>>
     \/ CannotSaveState

----------------------------------------------------------------------------
(* commit, up to the backup.  The candidate was made from the cached state *)
(* and carries its hash, or was written by hand and carries none.          *)

StartCommit ==
  /\ Asked("commit")
  /\ target' \in Candidates
  /\ opts' \in [base : {cache, None}, check : BOOLEAN, force : BOOLEAN, allow : BOOLEAN]
  /\ StartReading("plan")
  /\ phase' = 0 /\ done' = {} /\ todo' = {}
  /\ current' = Defaults
  /\ clean' = FALSE
  /\ UNCHANGED <<deviceVars, linkVars, attempt, outcome, fileVars, faults>>

Drifted == opts.base # None /\ opts.base # seen /\ ~opts.force

(* What commit answers without touching the switch; "apply" otherwise. *)
Verdict ==
  CASE Drifted -> "drift"
    [] ~Drifted /\ ~Valid(target) -> "invalid"
    [] ~Drifted /\ Valid(target) /\ ManagementChange(seen, target) /\ ~opts.allow -> "confirm"
    [] OTHER -> IF opts.check THEN "checked"
                ELSE IF Plan(seen, target) = {} THEN "unchanged" ELSE "apply"

Planned ==
  /\ pc = "plan" /\ page \notin Pages
  /\ \/ /\ Verdict \notin {"apply", "unchanged"}
        /\ Finish(Verdict)
        /\ UNCHANGED <<deviceVars, linkVars, jobVars, phase, done, fileVars, faults, clean>>
     \/ /\ Verdict = "unchanged"
        /\ \/ /\ cache' = seen
              /\ Finish(Verdict)
              /\ UNCHANGED <<deviceVars, linkVars, jobVars, phase, done, journal, backups,
                             faults, clean>>
           \/ CannotSaveState
     \/ /\ Verdict = "apply"
        /\ pc' = "backup"
        /\ current' = seen
        /\ Rewind
        /\ clean' = (dev = seen /\ Consistent(seen) /\ pending = {})
        /\ UNCHANGED <<deviceVars, linkVars, target, asked, stageVars, outcome, fileVars, faults>>

(* adapter.backup, save_backup, save_journal.  The request carries the     *)
(* token from before the session was renewed: the switch may answer it     *)
(* with a page that is not a backup, and the answer is stored as it is.    *)
NextPhase(n) == CHOOSE m \in PhasesOf(ThePlan) :
                  m > n /\ \A k \in PhasesOf(ThePlan) : k > n => m <= k
(* Mutant: deletions are taken for an optional last phase. *)
LastPhaseOffByOne(n) == \A k \in PhasesOf(ThePlan) : k <= n \/ k = 60
LastPhase(n) == \A k \in PhasesOf(ThePlan) : k <= n

StartPhase ==
  /\ pc' = "apply"
  /\ phase' = NextPhase(phase)
  /\ todo' = Stage(ThePlan, NextPhase(phase))

Downloads == IF expired THEN {dev, None} ELSE {dev}
(* Mutant: the backup is downloaded and not stored. *)
SaveBackupForgotten(file) == UNCHANGED backups
SaveBackup(file) == backups' = backups \cup ({file} \ {None})

Backup ==
  /\ pc = "backup" /\ Reachable
  /\ expired' = FALSE
  /\ \/ /\ \E file \in Downloads :
             /\ SaveBackup(file)
             /\ journal' = [status |-> "started", base |-> current, target |-> target,
                            backup |-> file, stages |-> {}]
        /\ StartPhase
        /\ UNCHANGED <<readVars, outcome, faults, done, clean>>
     \/ /\ Happens("disk")
        /\ UNCHANGED backups \/ \E file \in Downloads : SaveBackup(file)
        /\ Raise
        /\ UNCHANGED journal
  /\ UNCHANGED <<deviceVars, url, jobVars, cache>>

BackupFails ==
  /\ pc = "backup"
  /\ Unanswered
  /\ Raise
  /\ UNCHANGED <<deviceVars, linkVars, jobVars, fileVars>>

----------------------------------------------------------------------------
(* apply_change for every change of the phase, in whatever order their     *)
(* names sort.                                                             *)

Accepted(ch) == dev' \in Effects(ch, target, dev) /\ UNCHANGED pending
Later(ch) == pending' = pending \cup {[change |-> ch, target |-> target]} /\ UNCHANGED dev
Nothing == UNCHANGED <<dev, pending>>

(* The switch answers with a page; nobody reads what the page says.  The   *)
(* token was taken before the session was renewed.                         *)
Answered(ch) ==
  /\ Reachable
  /\ expired' = FALSE
  /\ \/ Accepted(ch) /\ UNCHANGED faults
     \/ Later(ch) /\ Happens("late")
     \/ Nothing /\ Happens("ignore")
     \/ Nothing /\ expired /\ UNCHANGED faults

Lost(ch) ==
  /\ UNCHANGED expired
  /\ \/ ~Reachable /\ Nothing /\ UNCHANGED faults
     \/ /\ Reachable /\ Happens("raise")
        /\ Nothing \/ Accepted(ch) \/ Later(ch)

Sent(ch) ==
  /\ todo' = todo \ {ch}
  /\ IF todo' = {}
     THEN StartReading("confirm") /\ attempt' = 1 /\ UNCHANGED opts
     ELSE UNCHANGED <<pc, readVars>>
  /\ UNCHANGED <<phase, done, outcome, clean>>

Apply ==
  /\ pc = "apply"
  /\ \E ch \in todo :
       /\ ch.action # "set_management"
       /\ \/ Answered(ch) /\ Sent(ch)
          \/ Lost(ch) /\ Raise
  /\ UNCHANGED <<flashVars, url, jobVars, fileVars>>

(* set_management: a lost answer is expected and passed over.  With a      *)
(* static address the adapter moves to it and logs in there.               *)
ApplyManagement ==
  /\ pc = "apply"
  /\ \E ch \in todo :
       /\ ch.action = "set_management"
       /\ Answered(ch) \/ Lost(ch)
       /\ IF target.mgmt.dhcp
          THEN Sent(ch) /\ UNCHANGED url
          ELSE /\ url' = target.mgmt.address
               /\ pc' = "rebase"
               /\ todo' = todo \ {ch}
               /\ UNCHANGED <<phase, done, readVars, outcome, clean>>
  /\ UNCHANGED <<flashVars, jobVars, fileVars>>

LogInAgain ==
  /\ pc = "rebase"
  /\ \/ /\ Reachable
        /\ StartReading("confirm") /\ attempt' = 1
        /\ expired' = FALSE
        /\ UNCHANGED <<stageVars, opts, outcome, clean, faults>>
     \/ Unanswered /\ Raise /\ UNCHANGED expired
  /\ UNCHANGED <<deviceVars, url, jobVars, fileVars>>

----------------------------------------------------------------------------
(* Reading a phase back.  A confirmed phase is written to the journal.     *)

(* Mutant: the last read-back counts whatever it shows. *)
ConfirmedOrGivenUp ==
  \/ attempt = MaxAttempts
  \/ \A ch \in Stage(ThePlan, phase) : Observed(ch, target, seen)
Confirmed == \A ch \in Stage(ThePlan, phase) : Observed(ch, target, seen)

SaveOrNextPhase ==
  IF LastPhase(phase)
  THEN pc' = "save" /\ UNCHANGED <<phase, todo>>
  ELSE StartPhase

(* Mutant: a confirmed phase is not written to the journal. *)
RecordStagesForgotten == UNCHANGED journal
RecordStages == journal' = [journal EXCEPT !.stages = done']

PhaseConfirmed ==
  /\ pc = "confirm" /\ page \notin Pages /\ Confirmed
  /\ done' = done \cup {phase}
  /\ \/ /\ RecordStages
        /\ SaveOrNextPhase
        /\ Rewind
        /\ UNCHANGED faults
     \/ /\ Happens("disk")
        /\ pc' = "except"
        /\ UNCHANGED <<journal, phase, todo, readVars>>
  /\ UNCHANGED <<deviceVars, linkVars, jobVars, outcome, backups, cache, clean>>

(* Mutants: one read-back too many, and read-backs that are not counted. *)
RetriesLeftOffByOne == attempt <= MaxAttempts
NextAttemptForgotten == UNCHANGED attempt
RetriesLeft == attempt < MaxAttempts
NextAttempt == attempt' = attempt + 1

PhaseIncomplete ==
  /\ pc = "confirm" /\ page \notin Pages /\ ~Confirmed
  /\ IF RetriesLeft
     THEN /\ StartReading("confirm")
          /\ NextAttempt
          /\ UNCHANGED <<stageVars, opts, outcome, clean>>
     ELSE Raise
  /\ UNCHANGED <<deviceVars, linkVars, jobVars, fileVars, faults>>

----------------------------------------------------------------------------
(* write_memory, the final read-back, and the two ways a commit ends.      *)

(* Mutant: the request does not ask for a save. *)
SavedNothing == UNCHANGED flashVars
Saved == flash' = dev /\ unsaved' = unsaved \ {"ignored"}
SavedLater == unsaved' = (unsaved \ {"ignored"}) \cup {"late"} /\ UNCHANGED flash
SaveIgnored == unsaved' = unsaved \cup {"ignored"} /\ UNCHANGED flash
NotSaved == UNCHANGED flashVars

(* Nobody reads what the switch answers to a save either. *)
SaveAnswered ==
  \/ Saved /\ UNCHANGED faults
  \/ SavedLater /\ Happens("late")
  \/ SaveIgnored /\ Happens("ignore")

SaveLost == Happens("raise") /\ (NotSaved \/ Saved \/ SavedLater)

Save ==
  /\ pc = "save"
  /\ \/ /\ Reachable
        /\ SaveAnswered \/ (expired /\ NotSaved /\ UNCHANGED faults)
        /\ StartReading("verify")
        /\ expired' = FALSE
        /\ UNCHANGED <<stageVars, opts, attempt, outcome, clean>>
     \/ /\ \/ ~Reachable /\ NotSaved /\ UNCHANGED faults
           \/ Reachable /\ SaveLost
        /\ Raise
        /\ UNCHANGED expired
  /\ UNCHANGED <<dev, pending, url, jobVars, fileVars>>

(* Mutant: the final read-back is not compared. *)
AsRequestedUnchecked == TRUE
AsRequested == seen = target

Verified ==
  /\ pc = "verify" /\ page \notin Pages /\ AsRequested
  /\ \/ /\ cache' = seen
        /\ journal' = [journal EXCEPT !.status = "complete"]
        /\ Finish("committed")
        /\ UNCHANGED <<phase, done, faults>>
     \/ /\ Happens("disk")
        /\ cache' \in {cache, seen}
        /\ pc' = "except"
        /\ UNCHANGED <<journal, stageVars, readVars, outcome>>
  /\ UNCHANGED <<deviceVars, linkVars, jobVars, backups, clean>>

Mismatch ==
  /\ pc = "verify" /\ page \notin Pages /\ ~AsRequested
  /\ Raise
  /\ UNCHANGED <<deviceVars, linkVars, jobVars, fileVars, faults>>

(* except Exception: the journal says so, unless it cannot be written. *)
Except ==
  /\ pc = "except"
  /\ Finish("failed")
  /\ \/ /\ journal' = [journal EXCEPT !.status = "failed", !.stages = done]
        /\ UNCHANGED faults
     \/ Happens("disk") /\ UNCHANGED journal
  /\ UNCHANGED <<deviceVars, linkVars, jobVars, phase, done, backups, cache, clean>>

----------------------------------------------------------------------------
(* backup, restore and write_memory called by themselves: each logs in     *)
(* first, so the token is fresh.  Restoring restarts the switch.           *)

StoreBackup ==
  /\ Asked("backup") /\ Reachable
  /\ SaveBackup(dev)
  /\ outcome' = "stored"
  /\ expired' = FALSE
  /\ UNCHANGED <<deviceVars, url, pc, target, current, stageVars, readVars, journal, cache, faults, clean>>

WriteMemory ==
  /\ Asked("save") /\ Reachable
  /\ \/ SaveAnswered /\ outcome' = "stored"
     \/ SaveLost /\ outcome' = "error"
  /\ expired' = FALSE
  /\ UNCHANGED <<dev, pending, url, pc, target, current, stageVars, readVars, fileVars, clean>>

Restored ==
  /\ dev' \in backups /\ flash' = dev'
  /\ pending' = {} /\ unsaved' = {}
  /\ expired' = TRUE
NotRestored == UNCHANGED deviceVars /\ expired' = FALSE

Restore ==
  /\ Asked("restore") /\ Reachable /\ backups # {}
  /\ \/ Restored /\ UNCHANGED faults /\ outcome' = "restored"
     \/ NotRestored /\ Happens("ignore") /\ outcome' = "restored"
     \/ (Restored \/ NotRestored) /\ Happens("raise") /\ outcome' = "error"
  /\ clean' = FALSE
  /\ UNCHANGED <<url, pc, target, current, stageVars, readVars, fileVars>>

----------------------------------------------------------------------------
(* What happens around the client. *)

LateApply ==
  /\ \E r \in pending :
       /\ dev' \in Effects(r.change, r.target, dev)
       /\ pending' = pending \ {r}
  /\ UNCHANGED <<flashVars, linkVars, pc, jobVars, stageVars, readVars, outcome, fileVars,
                 faults, clean>>

LateSave ==
  /\ "late" \in unsaved
  /\ flash' = dev /\ unsaved' = unsaved \ {"late"}
  /\ UNCHANGED <<dev, pending, linkVars, pc, jobVars, stageVars, readVars, outcome, fileVars,
                 faults, clean>>

Admin ==
  /\ Happens("admin")
  /\ dev' \in DeviceConfigs \ {dev}
  /\ clean' = FALSE
  /\ UNCHANGED <<flashVars, pending, linkVars, pc, jobVars, stageVars, readVars, outcome, fileVars>>

Reboot ==
  /\ Happens("reboot")
  /\ dev' = flash /\ pending' = {} /\ unsaved' = unsaved \ {"late"}
  /\ expired' = TRUE
  /\ clean' = FALSE
  /\ UNCHANGED <<flash, url, pc, jobVars, stageVars, readVars, outcome, fileVars>>

Expire ==
  /\ ~expired /\ Happens("expire")
  /\ expired' = TRUE
  /\ UNCHANGED <<deviceVars, url, pc, jobVars, stageVars, readVars, outcome, fileVars, clean>>

(* The process dies, or only the task that ran the operation. *)
Crash ==
  /\ pc # "idle" /\ Happens("crash")
  /\ Finish("crashed")
  /\ url' \in {url, InitialUrl}
  /\ UNCHANGED <<deviceVars, expired, jobVars, phase, done, fileVars, clean>>

----------------------------------------------------------------------------

StepOfRead == ReadPage \/ ReadFails
StepOfCommit ==
  \/ Planned \/ Backup \/ BackupFails \/ Apply \/ ApplyManagement \/ LogInAgain
  \/ PhaseConfirmed \/ PhaseIncomplete \/ Save \/ Verified \/ Mismatch \/ Except
Ask == StartCommit \/ StartPull \/ StoreBackup \/ WriteMemory \/ Restore
Client == StepOfRead \/ PullDone \/ StepOfCommit
Environment == LateApply \/ LateSave \/ Admin \/ Reboot \/ Expire \/ Crash

Next == Ask \/ Client \/ Environment

Spec == Init /\ [][Next]_vars

(* The event loop runs a step that can run: every request is answered or   *)
(* times out (15 s), and read-backs are at most MaxAttempts.  Nothing says *)
(* when a user asks for something, or when the switch misbehaves.          *)
FairSpec == Spec /\ WF_vars(Client)

----------------------------------------------------------------------------
(* What commit promises.                                                   *)

(* The management VLAN and every PVID of the running switch exist, at      *)
(* every moment of a commit and whatever fails in it: the "dependency      *)
(* order" of build_plan's phases, each held back until the one before has  *)
(* been read back.                                                         *)
DependencyOrder == clean => Consistent(dev)

(* Whenever the switch no longer has the configuration the commit started  *)
(* from, the backup file holds that configuration and the journal says     *)
(* what was being attempted.                                               *)
RollbackAvailable ==
  clean /\ dev # current =>
    /\ journal # None /\ journal.base = current /\ journal.target = target
    /\ journal.backup = current /\ current \in backups

(* The address of a DHCP client comes and goes by itself.                  *)
Leased(ch) == ch.action = "set_management" /\ target.mgmt.dhcp

(* A phase the journal lists as confirmed stays in effect for the rest of  *)
(* the commit and after it, however late the switch applies requests; only *)
(* what comes with a lease may change.                                     *)
StagesStick ==
  clean => \A n \in done : \A ch \in Stage(ThePlan, n) : Leased(ch) \/ Observed(ch, target, dev)

(* "configuration committed and saved" is true of the running              *)
(* configuration, of the cached state and of the journal; of the flash as  *)
(* well unless the switch has answered a save without carrying it out,     *)
(* which nobody looks for.                                                 *)
CommitTruth ==
  pc = "idle" /\ outcome = "committed" /\ clean =>
    /\ dev = target /\ cache = target
    /\ unsaved = {} => flash = target
    /\ journal.status = "complete" /\ journal.target = target

(* What a save under "configuration committed and saved" has put into the  *)
(* flash is what was asked for, even when one thing goes wrong, such as    *)
(* another administrator changing the switch anywhere in the commit: the   *)
(* read-back after the save would show it.  What it would not show is a    *)
(* save that was answered and is ignored or still to come: the pages are   *)
(* those of the running configuration.                                     *)
CommittedIsSaved ==
  pc = "idle" /\ outcome = "committed" /\ faults <= 1 /\ unsaved = {} => flash = target

(* What a failure leaves behind is bounded by the phase it happened in: no *)
(* change of a later phase has reached the switch.                         *)
LaterPhasesUntouched ==
  clean => \A ch \in ThePlan : ch.phase > phase => Leased(ch) \/ ~Observed(ch, target, dev)

(* "configuration stopped after a partial failure" is said only when       *)
(* something failed: a valid plan on an undisturbed switch goes through.   *)
NoSpuriousFailure == faults = 0 => outcome # "failed"

(* ... and not of a switch that runs and has saved all that was asked for. *)
FailureIsPartial ==
  pc = "idle" /\ outcome = "failed" /\ clean /\ faults = 0 =>
    \/ flash # dev
    \/ \E ch \in ThePlan : ~Observed(ch, target, dev)

(* Every operation ends. *)
OperationsEnd == pc # "idle" ~> pc = "idle"

(* The journal, whatever happens while it is written: its stages are those *)
(* of its plan, in order and without a gap, and all of them once it says   *)
(* "complete".                                                             *)
JournalInOrder ==
  journal # None =>
    LET phases == PhasesOf(Plan(journal.base, journal.target))
    IN  /\ journal.stages \subseteq phases
        /\ \A n \in journal.stages, k \in phases : k < n => k \in journal.stages
        /\ journal.status = "complete" => journal.stages = phases

(* What whoever finds the journal of a commit that changed the switch can  *)
(* conclude from it, also if the process died or the disk failed between a *)
(* change and its entry: what the listed stages ask for is in effect, what *)
(* is in effect besides belongs to the first stage not listed, and nothing *)
(* confirmed is missing unless the journal still says "started".           *)
JournalGuides ==
  /\ JournalInOrder
  /\ clean /\ dev # current =>
       /\ journal # None /\ journal.base = current /\ journal.target = target
       /\ \A ch \in ThePlan :
            \/ Leased(ch)
            \/ IF ch.phase \in journal.stages
               THEN Observed(ch, target, dev)
               ELSE Observed(ch, target, dev) =>
                      \A k \in PhasesOf(ThePlan) \ journal.stages : ch.phase <= k
       /\ journal.stages = done \/ journal.status = "started"

----------------------------------------------------------------------------
(* Why DependencyOrder holds: an invariant that every step preserves, as   *)
(* long as a page never comes without its variables ("default").           *)

Committing == {"backup", "apply", "rebase", "confirm", "save", "verify", "except"}

(* What the place the client is in says about its locals and its journal. *)
Control ==
  /\ pc \in {"plan", "backup"} => phase = 0 /\ todo = {}
  /\ pc = "backup" => ThePlan # {}
  /\ pc \in Committing => Valid(target)
  /\ pc \in Committing \ {"backup"} => journal \in Journal

(* A switch with configuration d, n being the phase of the commit from cur *)
(* to t: old VLANs go only in phase 60, new ones are there after phase 10, *)
(* PVIDs switch over in phase 40 and the management VLAN in phase 50.      *)
InPhase(n, cur, t, d) ==
  /\ n < 60 => VlanIds(cur) \subseteq VlanIds(d)
  /\ n > 10 => VlanIds(t) \subseteq VlanIds(d)
  /\ \A p \in HwPorts : \/ n <= 40 /\ d.pvid[p] = cur.pvid[p]
                        \/ n >= 40 /\ d.pvid[p] = t.pvid[p]
  /\ \/ n <= 50 /\ d.mgmt.vlan = cur.mgmt.vlan
     \/ n >= 50 /\ d.mgmt.vlan = t.mgmt.vlan

(* What the pages read so far of a switch in phase n prove about it now.  *)
ReadBack(n, t, s, pg, d) ==
  /\ n = 10 /\ pg > 5 => VlanIds(s) \subseteq VlanIds(d)
  /\ n = 40 /\ pg > 6 =>
       \A p \in HwPorts : s.pvid[p] = t.pvid[p] => d.pvid[p] = t.pvid[p]
  /\ n = 50 /\ pg > 1 /\ s.mgmt.vlan = t.mgmt.vlan => d.mgmt.vlan = t.mgmt.vlan

UpTo(n) == {ch \in ThePlan : ch.phase <= n}

OrderInv ==
  clean =>
    /\ Consistent(current) /\ Consistent(target)
    /\ todo \subseteq UpTo(phase)
    /\ pending \subseteq {[change |-> ch, target |-> target] : ch \in UpTo(phase)}
    /\ InPhase(phase, current, target, dev)
    /\ pc = "confirm" => ReadBack(phase, target, seen, page, dev)
    /\ pc \notin {"pull", "plan"}
=============================================================================
