------------------------------- MODULE Control -------------------------------
(***************************************************************************)
(* mercswitchctl (cli.py): one command after the other, each a process of  *)
(* its own with an adapter of its own (Http), and what the commands leave  *)
(* to each other: state.json, candidate.cli and other files with a         *)
(* candidate, and the native backups (storage.py).  The shell is a process *)
(* that stays, with the commands of a CommandSession.                      *)
(*                                                                         *)
(* A commit has here one phase, of one form, read back once; the rest is   *)
(* in Commit.  Its candidate is the one file there is: candidate.cli, or   *)
(* the file the user names.                                                *)
(***************************************************************************)
EXTENDS Http

CONSTANTS
  Configs,       \* configurations of the switch
  Blank,         \* what the login page reads as
  FaultKinds,    \* what may go wrong in this instance (AllFaultKinds)
  MaxFaults,     \* BOUND: how many times something goes wrong
  MaxCommands    \* BOUND: how many commands are given

AllFaultKinds ==
  {"raise",     \* a request raises
   "end",       \* the switch ends the login session
   "disk",      \* a file cannot be written
   "kill",      \* the process ends: ^C, or worse
   "outside"}   \* another administrator changes the switch

ASSUME ControlConstants ==
  /\ Blank \in Configs /\ None \notin Configs
  /\ FaultKinds \subseteq AllFaultKinds
  /\ MaxFaults \in Nat /\ MaxCommands \in Nat /\ MaxEnds \in Nat

VARIABLES
  dev,         \* the switch
  pc,          \* where the command is; "idle": no process, "prompt": the shell
  cmd,         \* the command
  seen,        \* the configuration it has read
  session,     \* of the shell: session.running, session.candidate
  cache,       \* state.json
  file,        \* the candidate
  made,        \* history: the cached configuration the candidate was made from
  backups,     \* what the stored backups restore
  faults, commands,
  wrong,       \* history: this command was not given the page or file it asked for
  disturbed    \* history: another administrator has changed the switch since
               \* this command read it

fileVars == <<cache, file, made, backups>>
boundVars == <<faults, commands>>
historyVars == <<wrong, disturbed>>
vars == <<httpVars, dev, pc, cmd, seen, session, fileVars, boundVars, historyVars>>

Operations == {"pull", "commit", "write-memory", "backup", "restore", "shell"}
Reads == {"read", "plan", "confirm", "verify"}
Requests == Reads \cup {"login", "download", "write", "save", "upload"}
Session == [running : Configs, candidate : Configs]
Command == [op : Operations, target : Configs, base : Configs, check : BOOLEAN, force : BOOLEAN]

(* None is a value of its own. *)
ASSUME NoneIsApart == None \notin Session

TypeOK ==
  /\ HttpTypeOK
  /\ dev \in Configs /\ seen \in Configs
  /\ pc \in Requests \cup {"idle", "prompt", "store"}
  /\ cmd \in Command
  /\ session \in Session \cup {None}
  /\ (pc = "idle" => session = None) /\ (pc = "prompt" => session # None)
  /\ cache \in Configs \cup {None}
  /\ file \in Configs \cup {None} /\ made \in Configs \cup {None}
  /\ (file = None) = (made = None)
  /\ backups \subseteq Configs
  /\ faults \in 0..MaxFaults /\ commands \in 0..MaxCommands
  /\ wrong \in BOOLEAN /\ disturbed \in BOOLEAN

NoCommand == [op |-> "pull", target |-> Blank, base |-> Blank, check |-> FALSE, force |-> FALSE]

Init ==
  /\ HttpInit
  /\ dev \in Configs
  /\ pc = "idle" /\ cmd = NoCommand /\ seen = Blank /\ session = None
  /\ cache = None /\ file = None /\ made = None /\ backups = {}
  /\ faults = 0 /\ commands = 0
  /\ wrong = FALSE /\ disturbed = FALSE

Happens(kind) == kind \in FaultKinds /\ faults < MaxFaults /\ faults' = faults + 1

----------------------------------------------------------------------------
(* The user. *)

(* A new operation of the client; each begins with authenticate. *)
Operation(c) ==
  /\ commands < MaxCommands /\ commands' = commands + 1
  /\ pc' = "login"
  /\ cmd' = c
  /\ wrong' = FALSE /\ disturbed' = FALSE
  /\ Begin("login")
  /\ UNCHANGED <<dev, seen, session, fileVars, faults>>

Asks(op) == [NoCommand EXCEPT !.op = op]

Pull == pc = "idle" /\ Operation(Asks("pull"))   \* and show --live
WriteMemory == pc = "idle" /\ Operation(Asks("write-memory"))
Backup == pc = "idle" /\ Operation(Asks("backup"))
Shell == pc = "idle" /\ Operation(Asks("shell"))
Restore == pc = "idle" /\ \E b \in backups : Operation([Asks("restore") EXCEPT !.target = b])

(* And sync; without a cached state or a file both fail at once. *)
Commit ==
  /\ pc = "idle" /\ cache # None /\ file # None
  /\ \E check, force \in BOOLEAN :
       Operation([op |-> "commit", target |-> file, base |-> cache, check |-> check, force |-> force])

(* The user writes a file from what show, or pull -o, has printed. *)
WriteFile ==
  /\ pc = "idle" /\ cache # None
  /\ file' \in Configs /\ made' = cache
  /\ UNCHANGED <<httpVars, dev, pc, cmd, seen, session, cache, backups, boundVars, historyVars>>

(* What follows a line of the shell that is accepted: candidate.cli is     *)
(* written.  A line that is rejected may have changed the candidate too.   *)
KeepCandidate ==
  \/ file' = session'.candidate /\ made' = session'.running /\ UNCHANGED faults
  \/ Happens("disk") /\ UNCHANGED <<file, made>>

ShellLine ==
  /\ pc = "prompt"
  /\ \E c \in Configs : session' = [session EXCEPT !.candidate = c]
  /\ \/ KeepCandidate
     \/ UNCHANGED <<file, made, faults>>
  /\ UNCHANGED <<httpVars, dev, pc, cmd, seen, cache, backups, commands, historyVars>>

ShellCommit ==
  /\ pc = "prompt"
  /\ \E check, force \in BOOLEAN :
       Operation([op |-> "commit", target |-> session.candidate, base |-> session.running,
                  check |-> check, force |-> force])

ShellWrite == pc = "prompt" /\ Operation(Asks("write-memory"))

EndsProcess ==
  /\ Forgotten
  /\ pc' = "idle" /\ cmd' = NoCommand /\ session' = None
  /\ UNCHANGED <<dev, seen>>

ShellEnds ==
  /\ pc = "prompt"
  /\ EndsProcess
  /\ UNCHANGED <<fileVars, boundVars, historyVars>>

----------------------------------------------------------------------------
(* The requests of an operation.                                           *)

RequestKind(where) ==
  CASE where = "login" -> "login"
    [] where \in Reads -> "page"
    [] where = "download" -> "file"
    [] where \in {"write", "save", "upload"} -> "form"

(* What the switch does when it carries a form out. *)
Effect ==
  IF pc \in {"write", "upload"} THEN dev' = cmd.target ELSE UNCHANGED dev

CarriedOut == carried' /\ ~carried
Arrives == call # None /\ call' = None

(* One step of the exchange under way. *)
OnTheWire(step) ==
  /\ step
  /\ IF CarriedOut THEN Effect ELSE UNCHANGED dev
  /\ seen' = IF ~(Arrives /\ pc \in Reads) \/ answer' = "raised" THEN seen
             ELSE IF answer' = "good" THEN dev ELSE Blank
  /\ wrong' = (wrong \/ answer' = "wrong")
  /\ disturbed' = (disturbed /\ ~(Arrives /\ pc = "plan"))
  /\ UNCHANGED <<pc, cmd, session, fileVars, commands>>

Wire == OnTheWire(Exchange) /\ UNCHANGED faults
WireFails == OnTheWire(Raises) /\ Happens("raise")
SessionEnds == OnTheWire(EndSession) /\ Happens("end")

----------------------------------------------------------------------------
(* What the client and the command do with an answer.                      *)

GoOn(where) ==
  /\ pc' = where
  /\ Begin(RequestKind(where))
  /\ UNCHANGED <<dev, cmd, seen, session, fileVars, boundVars, historyVars>>

(* Mutant: the shell prompts although its first pull has failed. *)
StopsAtPrompt ==
  IF session = None /\ cmd.op # "shell"
  THEN EndsProcess
  ELSE /\ pc' = "prompt" /\ cmd' = NoCommand
       /\ UNCHANGED <<httpVars, dev, seen, session>>
(* An exception ends the process, or the shell shows it and prompts again. *)
Stops ==
  IF session = None
  THEN EndsProcess
  ELSE /\ pc' = "prompt" /\ cmd' = NoCommand
       /\ UNCHANGED <<httpVars, dev, seen, session>>

Fails == Stops /\ UNCHANGED <<fileVars, boundVars, historyVars>>

(* A command that returns leaves the shell with one thing to do. *)
Returns ==
  /\ Stops
  /\ IF session = None THEN UNCHANGED <<file, made, faults>> ELSE KeepCandidate
  /\ UNCHANGED <<cache, backups, commands, historyVars>>

Has(where) == pc = where /\ call = None /\ answer \in {"good", "wrong"}

Raised == pc \in Requests /\ call = None /\ answer = "raised" /\ Fails

AfterLogin ==
  /\ Has("login")
  /\ GoOn(CASE cmd.op \in {"pull", "shell"} -> "read"
            [] cmd.op = "commit" -> "plan"
            [] cmd.op = "backup" -> "download"
            [] cmd.op = "write-memory" -> "save"
            [] cmd.op = "restore" -> "upload")

Store(where) ==
  /\ Has(where)
  /\ pc' = "store"
  /\ UNCHANGED <<httpVars, dev, cmd, seen, session, fileVars, boundVars, historyVars>>

AfterRead == Store("read")

(* Mutant: the base is the state the switch is found in. *)
DriftedNever == FALSE
Drifted == cmd.base # seen /\ ~cmd.force
Mismatch == seen # cmd.target

(* plan, and what commit answers by itself.  A candidate may also be       *)
(* invalid, or need a confirmation nobody gave.                            *)
AfterPlan ==
  /\ Has("plan")
  /\ \/ Fails
     \/ ~Drifted /\ cmd.check /\ Returns
     \/ ~Drifted /\ ~cmd.check /\ ~Mismatch /\ Store("plan")
     \/ ~Drifted /\ ~cmd.check /\ Mismatch /\ GoOn("download")

(* save_backup and the journal, before anything is written. *)
SaveBackupForgotten == UNCHANGED backups   \* Mutant
SaveBackup == backups' = IF answer = "good" THEN backups \cup {dev} ELSE backups

AfterDownload ==
  /\ Has("download")
  /\ \/ /\ SaveBackup
        /\ IF cmd.op = "commit"
           THEN pc' = "write" /\ Begin("form") /\ UNCHANGED <<dev, cmd, seen, session>>
           ELSE Stops
        /\ UNCHANGED faults
     \/ Happens("disk") /\ Stops /\ (SaveBackup \/ UNCHANGED backups)
  /\ UNCHANGED <<cache, file, made, commands, historyVars>>

AfterWrite == Has("write") /\ GoOn("confirm")

(* Mutant: the switch is read again until it has the candidate. *)
ReadBackAgain == GoOn(pc)
GivesUp == Fails

AfterConfirm ==
  /\ Has("confirm")
  /\ \/ Mismatch /\ GivesUp
     \/ ~Mismatch /\ GoOn("save")

AfterSave ==
  /\ Has("save")
  /\ IF cmd.op = "commit" THEN GoOn("verify") ELSE Returns

AfterUpload == Has("upload") /\ EndsProcess /\ UNCHANGED <<fileVars, boundVars, historyVars>>

AfterVerify ==
  \/ Store("verify") /\ ~Mismatch
  \/ Has("verify") /\ Mismatch /\ GivesUp

(* save_state, and what the command does with the state it gets. *)
Shown ==
  IF cmd.op = "shell" \/ session # None
  THEN /\ pc' = "prompt" /\ cmd' = NoCommand
       /\ session' = [running |-> seen, candidate |-> seen]
       /\ UNCHANGED <<httpVars, dev, seen>>
  ELSE EndsProcess

StoreState ==
  /\ pc = "store"
  /\ \/ /\ cache' = seen
        /\ Shown
        /\ IF session # None THEN KeepCandidate ELSE UNCHANGED <<file, made, faults>>
     \/ /\ Happens("disk")
        /\ cache' \in {cache, seen}
        /\ Stops
        /\ UNCHANGED <<file, made>>
  /\ UNCHANGED <<backups, commands, historyVars>>

----------------------------------------------------------------------------

Kill ==
  /\ pc # "idle" /\ Happens("kill")
  /\ EndsProcess
  /\ UNCHANGED <<fileVars, commands, historyVars>>

Outside ==
  /\ Happens("outside")
  /\ dev' \in Configs \ {dev}
  /\ disturbed' = TRUE
  /\ UNCHANGED <<httpVars, pc, cmd, seen, session, fileVars, commands, wrong>>

User ==
  \/ Pull \/ WriteMemory \/ Backup \/ Shell \/ Restore \/ Commit \/ WriteFile
  \/ ShellLine \/ ShellCommit \/ ShellWrite \/ ShellEnds
Client ==
  \/ Raised \/ AfterLogin \/ AfterRead \/ AfterPlan \/ AfterDownload \/ AfterWrite
  \/ AfterConfirm \/ AfterSave \/ AfterUpload \/ AfterVerify \/ StoreState

Next == User \/ Client \/ Wire \/ WireFails \/ SessionEnds \/ Kill \/ Outside

Spec == Init /\ [][Next]_vars

(* Requests are answered or raise, and the process runs. *)
FairSpec == Spec /\ WF_vars(Client) /\ WF_vars(Wire)

----------------------------------------------------------------------------

Writes == pc = "write" /\ CarriedOut

(* A commit not forced changes only a switch that still has the            *)
(* configuration cached when the command began, or shown by the shell,     *)
(* unless it is changed in the middle of the commit.                       *)
DriftIsNoticed ==
  [][Writes /\ ~cmd.force => dev = cmd.base \/ disturbed \/ wrong]_vars

(* ... and the configuration it replaces is in a backup by then.           *)
BackupBeforeWrite == [][Writes => dev \in backups \/ disturbed \/ wrong]_vars

(* Every command ends, whatever the switch and the disk do. *)
CommandsEnd == pc \notin {"idle", "prompt"} ~> pc \in {"idle", "prompt"}

(* "switch state changed since the candidate was created": a commit not    *)
(* forced changes only a switch that still has the configuration its       *)
(* candidate was made from.                                                *)
CandidateIsOfThisState ==
  [][Writes /\ session = None /\ ~cmd.force => dev = made \/ disturbed \/ wrong]_vars
=============================================================================
