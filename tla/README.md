# A formal model of MercSwitch

MercSwitch manages a small web-managed switch: it scrapes the configuration from
the pages of the switch's web interface, lets a user edit a candidate in a
Cisco-like language, and commits the candidate with ordered CGI requests that it
reads back, saves and verifies. A daemon serves several SSH sessions and SNMP
over one connection to the switch.

This directory holds TLA+ modules that model that logic, TLC configurations that
check them on small instances, and proofs, checked by TLAPS, of what matters
most. Paths below are relative to `src/` of the repository; the package is
`src/mercswitch/`.

## 1. Inventory

| component | state it keeps | operations | correct when |
|---|---|---|---|
| configuration records (`models.py`) | configurations, changes, plans | hash, copy | equal hashes mean equal managed configurations |
| planner (`planner.py`) | none | `build_plan` | the phases never leave a VLAN reference dangling |
| configuration language (`config.py`) | none | `render_config`, `parse_config`, membership helpers, `validate_candidate` | what is rendered reads back as the same; only what the switch can hold is valid |
| client (`client.py`) | none between calls; locals of `commit` across its awaits | `pull`, `plan`, `commit`, `backup`, `restore`, `write_memory` | order, read-back, save, verification, journal and backup hold whatever fails on the way |
| RPM/CGI adapter (`adapters/rpm_cgi.py`) | login token, base URL, cached identity and capabilities | `read_state`, `apply_change`, `write_memory`, `backup`, `restore`, login | a request is answered or its failure noticed; a page is what the switch has |
| storage (`storage.py`) | `state.json`, `running.cli`, `base.sha256`, backups, journals, `health.json` | atomic replacement of one file | files say what happened |
| daemon (`daemon.py`) | `state`, `metrics`, `detail_port`, `io_lock`, two poller tasks | `start`, locked `commit` and `write_memory`, `_summary_loop`, `_detail_loop`, `close` | nobody's change is lost, its state never goes back, failures show |
| command engine (`command_engine.py`) | `running`, `candidate`, mode, context of one session | `execute`, `_configure` | a line changes what it names and nothing else |
| SSH server (`ssh_server.py`) | one session per process | interactive and one-shot commands, pasted texts | a session survives its errors; a viewer changes nothing |
| SNMP agent (`snmp_agent.py`) | an immutable OID tree | replacement, GET, GETNEXT, GETBULK | shows what the daemon last saw; a walk is complete though the tree is replaced under it |
| control program (`cli.py`) | none; its processes meet in the cache directory | the client operations, a local shell | the same promises without a daemon, from one process to the next |
| daemon program (`daemon_cli.py`) | none | `run`, `healthcheck` | an unhealthy daemon is reported |
| profiles, daemon configuration, JS literals, errors, deployment | files read at start | parsing | (not modelled, see section 8) |

How they interact. A session calls the client through `LockedDaemonClient`, which
takes `io_lock`; the two pollers take the same lock. All of them share one HTTP
client, one login token and the one switch, which also answers to other
administrators and to its own web interface. The daemon's `state` is replaced by
the poller and by successful commits; a session holds the `state` it connected
with until it commits itself. The SNMP tree is rebuilt by the pollers from
`state` and `metrics`. `health.json` is written by both pollers and read by
another process. Every awaited request is a place where other tasks run, where
the task may be cancelled, and where the process may die; every file written is a
place where the disk may fail.

What is hard here. A commit is some twenty awaited requests to a device that may
lose an answer, answer first and act later, forget the session in the middle, or
move to another address on request; its read-backs put a state together from six
pages fetched one after the other; it may stop anywhere. Several sessions do
this at once with pollers in between. `PROJECT.json` lists these hazards one by
one, at their lines, with the properties that address them.

## 2. Modules

| module | models | in brief |
|---|---|---|
| `Planner` | `models.py`, `planner.py`, `validate_candidate`, `_change_observed`, the effect of each request of `apply_change`, the pages of `read_state` | pure operators on configurations |
| `Commit` (extends `Planner`) | `MercSwitchClient` and the adapter beneath it, the switch, the files | one action per awaited request or file written |
| `CommitProofs`, `StageProofs` (each extends the one before, the first `Commit`) | | the theorems about `Commit`: types and dependency order; journal, stages, the way back, what a success means, how a commit ends |
| `SharedSwitch` | | abstract: a switch on which a change is compared and carried out in one step |
| `Daemon` | `MercSwitchDaemon`, `LockedDaemonClient`, the SSH sessions, pollers, health, SNMP refresh, shutdown | sessions and pollers behind `io_lock`; implements `SharedSwitch` |
| `Language` (extends `Planner`) | `render_config`, `parse_config`, `port_vlan_memberships`, `set_port_vlan_memberships`, `_configure` | rendering, parsing and one line of configuration mode as operators |
| `Session` (extends `Language`) | `CommandSession` with its modes and contexts, the texts `ssh_server.py` and `cli.py` load | one session, every sequence of lines |
| `Snmp` | `read_metrics`, the merging of metrics in `daemon.py`, `OidTree`, `build_oid_values`, GETNEXT and GETBULK | from the counters of the switch to a manager's walk |
| `Link` | | abstract: what one request may come to, whatever login sessions do |
| `Http` | `authenticate`, `_get`, `_post` and their retry | one exchange with the switch, request by request; implements `Link` |
| `Control` (extends `Http`) | `cli.py`, the shell included, and the files its processes leave to each other | one command after the other |
| `DaemonProofs`, `SnmpProofs`, `ControlProofs` | | the theorems about the module each extends |
| `SetInduction` | | lemmas: induction over subsets of a finite set, the function behind a fold, where a text leads its reader, tables in their order |
| `SessionProofs` (extends `Session`, `SetInduction`) | | the theorems about sessions and lines |
| `TextProofs` (extends `SessionProofs`) | | the theorems about whole texts |
| `MCCommit`, `MCDaemon`, `MCSession`, `MCSnmp`, `MCControl` | | the values of the constants for TLC |

Some modules hold operators marked *Mutant*: the form a definition would take
with a plausible bug. No behaviour uses them; `PROJECT.json` says which property
notices each, so that a reader sees what every property is sensitive to.

### Planner

A configuration is what `managed_hash` covers, so that two configurations are
equal when their hashes are: management interface, fallback switch, port
settings, PVIDs, VLAN table, LAGs, 802.1Q. VLAN ids are numbers (the range check
needs them), everything else is a model value: the (enabled, speed, flow control)
of a port is one value, as is an address with its netmask. `Plan(cur, t)` is the
union of one operator per kind of change; a change names its phase, its action
and the VLAN, port or group; its value is the candidate's. A plan is a *set*: the
order of the changes within a phase is left open, which covers the sorted order of
the code and every other. `Effects` says what the switch may do with a request;
it is the firmware's part and external. `NoRoomFor` is the VLAN table that is
full; a DHCP lease may be any address.

### Commit

The state is the switch (`dev`, `flash`, changes answered but not yet carried
out in `pending`, and of saves in `unsaved`: one still to come, the last ignored), the connection (`expired`, `url`), the client (`pc` and the
locals of `commit`), its files (`journal`, `backups`, `cache`), and one history
variable, `clean`: since the commit read the switch, nobody but this commit has
changed it.

| code | actions |
|---|---|
| `pull`, `read_state` | `StartPull`, `ReadPage` (one page each), `ReadFails`, `PullDone` |
| `commit`: plan, drift, validation, confirmation | `StartCommit`, `Planned` with `Verdict` |
| backup and journal | `Backup`, `BackupFails` |
| `apply_change`, one request each | `Apply`, `ApplyManagement` (which moves to the new address), `LogInAgain` |
| read-back, three attempts | `ReadPage`, `PhaseConfirmed`, `PhaseIncomplete` |
| save, verification, journal, cache | `Save`, `Verified`, `Mismatch` |
| `except Exception` | `Except` |
| other operations | `StoreBackup`, `WriteMemory`, `Restore` |

A request, for a change or for a save, may be carried out and answered, carried
out with its answer lost, answered and carried out later (`LateApply`, `LateSave`),
answered and ignored, or not arrive. Around the
client, another administrator may change the switch, the switch may restart from
its flash, the session may end, the disk may fail, and the process or the task
may die; each is a kind of fault of the constant `FaultKinds`, and at most
`MaxFaults` happen in a behaviour. An expired session is renewed by the request
that finds it expired; a token already put into that request's text is not, and
the switch then ignores the request (`Nothing`).

### Daemon

Here a commit is three steps under the lock (`Compare`, `Write`, `Result`); what
happens inside them is in `Commit`. A failing `Write` may leave any
configuration. `io_lock` is a FIFO `queue` whose head holds it, as
`asyncio.Lock` serves its waiters. `state` carries a version, the number of
changes of the switch it reflects: only there to say "older". Pollers sleep, wait,
pull, keep and update; an exception is written to `health.json`, and an exception
of that write ends the task. `close` stops the pollers, then closes the client
without taking the lock.

### Language and Session

A line is a record of its words and argument; a text a sequence of lines.
`Render` gives the sections in the code's order, `Parse` folds `ParseLine` over a
text and then carries out the switchport lines it has collected, with the code's
defaults for missing ones. `Configure` is one line in configuration mode; its
half-effects are kept, such as the PVID that is replaced before the VLANs are
found undefined (`SetMemberships`). A line that raises, by a check or by a
`KeyError` on an entry removed since, is `Reject`. A name loses the blanks at its
end when its line is stripped (`Stripped`); a session takes any speed, a text only
those of `SPEEDS` (`OddSettings`). VLANs are rendered in increasing order
(`VidOrder`); the orders of ports and LAGs are fixed but arbitrary. `Session` adds the modes, roles, loading,
aborting, committing and leaving. An SSH session loads text in either mode and
ends when it cannot be read; the local shell loads files outside configuration
mode and goes on.

### Snmp

The switch counts packets of a port, modulo `CounterLimit`; `reading` is the page
of all ports a detail poll, or `start()`, has fetched and whose second page it
awaits, and at the same time the lock that poll holds. `metrics` and `shown` are
what the daemon keeps and what the tree was built from; they differ only when
`Counter32` has refused a sum. An OID is a pair of column and port, ordered as
OIDs are; `Oids` and `Value` are `build_oid_values`, reduced to one column of each
kind (constant, always there, there with details before and after those, sum of
two). A manager walks with GETNEXT, or with GETBULK of `walk.n` repetitions; `walk.due` is the
set of OIDs that have been in the tree since it began and that it has not found.
Requests fail, pages come blank, the switch and the daemon restart.

### Link, Http and Control

`Http` is one request as the adapter sends it: the root page, the login, the root
page again for the token, then the request, and once more after a login page. A
session may end between any two of these. The token of a form or file is fixed
when its text is made (`call.text`), so that the request sent again carries an
old one. `Link` is what a caller can rely on in spite of it; `ended` counts how
often the session has ended since the last good answer.

| answer | means |
|---|---|
| good | a form has been carried out, once; a page or file is the one asked for |
| wrong | not carried out, or another page; only for a form or file if the session has ended, for a page if it has ended twice |
| raised | perhaps carried out, once |

`Control` puts `cli.py` on top: `Pull`, `Commit` (and sync), `WriteMemory`, `Backup`,
`Restore`, `Shell` with `ShellLine`, `ShellCommit` and `ShellWrite`. A commit has one
phase. `cache` is `state.json`, `file` the candidate the next commit will take,
with `made`, the cached state its author had before him; `backups` holds what each
stored file restores. `disturbed` and `wrong` are history: another administrator
has changed the switch after the commit read it; an answer was not what was
asked for.

## 3. Runs

The passing runs explore their instance completely.

| run | asks | size |
|---|---|---|
| `commit_order` | two commits between configurations that differ in everything, any two of: request raises, is carried out late, is ignored, disk fails, client dies, another administrator changes the switch | 3.8 M states |
| `commit_faults` | every operation, every candidate of `MCCommit` (one with DHCP), any one fault of any kind, under fairness: the order holds, and each operation ends | 810 k |
| `daemon_sessions` | two sessions and the pollers, with a failing request, a full disk, a cancelled session, another administrator or the shutdown, under fairness: they implement `SharedSwitch`, what the daemon shows never goes back, commands are answered, ports counted, SNMP caught up | 535 k |
| `snmp` | two pollers and a manager, counters that overflow, one fault, under fairness: walks end and are complete, counters do not go back, health tells the truth | 138 k |
| `control` | four commands, the shell among them, with three faults, under fairness: `Http` implements `Link`, drift is noticed, there is a backup before a write, commands end | 595 k |
| `session_lines` | every sequence of lines for the VLANs of two ports, or for the management interface, or for names, settings and LAGs, with loads, aborts and commits | 253 k |

What they show.

* **`DependencyOrder`**: at every moment of an undisturbed commit and after it,
  however it ends, the management VLAN and all PVIDs of the running switch are
  defined. **`OrderInv`** is the inductive invariant behind it.
* **`RollbackAvailable`**: once the switch differs from what the commit started
  from, the backup and the journal that lead back exist.
* **`StagesStick`**, **`LaterPhasesUntouched`**: a phase recorded as confirmed
  stays in effect, also when requests are carried out late; no change of a later
  phase has reached the switch. Both leave out what comes with a DHCP lease.
* **`CommitTruth`**, **`CommittedIsSaved`**, **`NoSpuriousFailure`**: what the user
  is told is so; "committed and saved" holds even if any one thing of
  `commit_order` goes wrong on the way, a change by another administrator
  included. The exception is in the formulas: a save that the switch has answered
  without carrying it out (`unsaved`).
* **`JournalGuides`**: from the journal of a commit, failed, complete or left behind
  by a process that died, one can tell which stages are on the switch, to which
  one the rest belongs, and that the list of a failed or complete one is up to date.
* **`OperationsEnd`**, **`EveryCommandEnds`**, **`CommandsEnd`**,
  **`EveryPortDetailed`**, **`SnmpCatchesUp`**, **`EventuallyExact`**, **`WalkEnds`**:
  liveness.
* **`ImplementsSharedSwitch`**: with the lock around drift check and writes, a
  commit not forced replaces only the configuration it was made from.
* **`StateNeverRegresses`**, **`StateNotBehindSessions`**, **`DetailsKept`**: what
  is read before an await and stored after it never undoes something newer.
* **`WalkFindsAll`**: `bisect` finds the way on from an OID that is gone, so a walk
  that ends has found every row that was there all the while.
* **`CountersNeverRegress`**: neither poller stores counters older than those
  shown, whichever of the two pages they come from; **`HealthyIsCurrent`**: "ok"
  is never written over a tree that could not be rebuilt.
* **`ImplementsLink`**: an expired session costs a request at most its own effect,
  never a second one; a page survives one expiry, a form or a file may not.
* **`DriftIsNoticed`**, **`BackupBeforeWrite`**: a commit of the control program
  changes only the switch it was compared with, and what it replaces is in a
  backup by then; the exceptions are named (`disturbed`, `wrong`).
* **`RoundTrip`**, **`TypingRestores`**, **`HybridOnlyIfNeeded`**: for every
  candidate a session can reach, what is shown can be loaded again and means the
  same; typing the running configuration over any candidate restores it (save for
  entries that were added); the hybrid form is used only where it must be.
* **`PortLineIsLocal`**, **`RejectedKeepsVlans`**, **`AccessAndTrunkAreValid`**:
  what a line may change, also when it is rejected, and that access and trunk
  lines bring any mixed-up port back to a valid one.
* **`NoStaleContext`**, **`BaseIsRunning`**: no context survives its mode, and the
  hash the drift check compares is always that of the configuration shown.

### Where the code and its documentation disagree

Each of these runs checks one property and finds a counterexample; the finding in
`PROJECT.json` quotes the line that says otherwise.

| run | what happens |
|---|---|
| `dhcp_failure` | a DHCP candidate is applied and saved in full, then reported as a partial failure: the leased address is hashed, the candidate has none |
| `vlan_capacity` | a valid candidate fails on a switch whose table holds the old or the new VLANs but not both: phase 10 adds, phase 60 deletes |
| `stale_token` | the session ends before the save; the request is repeated with the old token, ignored, and the commit reports "committed and saved" |
| `default_page` | a page without its variables reads as default settings and confirms a phase; a VLAN in use is deleted |
| `dead_poller` | the summary loop ends, the detail loop keeps `health.json` at "ok" |
| `stale_base` | a candidate is written, another administrator changes the switch, `show --live` refreshes `state.json`; the commit finds no drift and undoes the change |

More that need no run to be seen, or contradict no line of the repository:

* A save that the switch answers and ignores, or carries out later, is not noticed:
  nobody reads the answer (`adapters/rpm_cgi.py:538`), and the read-back after it
  (`client.py:131`) reads the running configuration. `stale_token` is a cause of this
  in the code itself; an ignored save of another cause is the switch's doing, and
  `CommitTruth` and `CommittedIsSaved` leave it out.
* `README.md:233` says that every write downloads a backup first, and `restore`
  (`client.py:170`) does not.
* "show running-config", announced as the "Current switch configuration"
  (`command_engine.py:42`), shows what the session connected with, or its own last
  commit (`command_engine.py:528`).
* `ifInErrors` is borrowed from the details until the first broken packet is
  received (`snmp_agent.py:80`), and the details add sent packets to received ones
  (`adapters/rpm_cgi.py:423`): with two broken packets sent and then one received
  the counter goes from 2 to 1. `CountersNeverRegress` therefore leaves out
  `Borrowed`.
* `rx_good + rx_bad` (`snmp_agent.py:109`) may not fit `Counter32`, which raises: the
  tree stays as it is and health is "degraded" until a counter wraps; a daemon
  that starts then ends at once. Speeds are clamped (`snmp_agent.py:79`), sums are not.

### Bounds

`Commit`: two ports, one LAG, three VLANs, two addresses, one or two operations,
one or two faults. Two ports suffice for a PVID that has switched while another
has not; three VLANs for one that stays, one that goes and one that comes; the
configurations of `MCCommit` differ in every part, so that each phase and each
change occurs, and one candidate names VLANs it does not define. Two faults let a
late request meet a failure, and a second operation start from what a failed one
left. `MaxAttempts` is the code's three; `Candidates` and `DeviceConfigs` are
chosen per run. Faults are paired where a pair matters to the order of a commit (`commit_order`); expiry, restart, lateness
and DHCP are met one at a time (`commit_faults`). `Daemon`: two sessions (a third
could only wait like the second), two configurations, the first of which it
starts with (`FirstConfigs`; which of two it is tells nothing), one fault,
`MaxAsked` commands, two ports for the wrap-around of `detail_port`. `Snmp`: two
ports, so that a row may vanish before others (a restarted daemon has the details of
port 1 only), the other of which has the traffic (`BusyPorts`); `CounterLimit` two
and `MaxPackets` three, so that counters wrap, sums overflow and fit again; `MaxRepetitions` two, the least that skips. `Control`: two configurations, one of
them what a login page reads as; `MaxCommands` four, `MaxFaults` three,
`MaxEnds` two: a session that ends twice is what makes a page wrong.
`Session`: two ports, so that
one can be the bystander; two VLANs, each present or absent; the words one session
types (`WordGroups`: VLANs and switchport, management, or entries and settings;
lines of different groups touch different parts of the candidate), the texts that may be loaded (`Texts`: a rendered configuration, whole
and with any one line missing) and the candidates whose commits are followed
(`Commits`) are named bounds; the number of lines typed is not bounded.
No run uses `SYMMETRY`: most check liveness.
Deadlock is not checked where the system really stops: all operations used up, a
daemon that has been closed, a session that has ended.

### Fairness

`Commit!FairSpec` has weak fairness of the client's own steps: the event loop runs
what can run, and every request ends, by its answer or by the HTTP timeout of
15 s. `Daemon!FairSpec` has weak fairness of each session being served and of each
poller: `asyncio.Lock` is FIFO and the loop runs every ready task. `Snmp!FairSpec` has
weak fairness of the detail loop together with the start of a daemon that died
(`restart: unless-stopped`, `compose.yaml:4`) and of a manager that has begun a walk;
the summary loop is not needed, since a detail poll reads both pages.
`Control!FairSpec` has weak fairness of the process and of the exchange, which the
timeout of 15 s ends. Nothing is
assumed of users, of the switch, of faults or of the shutdown; starting a command
is never fair.

## 4. Proofs

Every safety property of the passing runs and both refinements are theorems:
they hold for every value of the constants that satisfies the named assumptions
of the modules. Those say what the constants are (`PlannerConstants`,
`CommitConstants`, ...), that the value `None` is none of the records, numbers and
sets it stands beside (`NoneIsApart`, `NothingIsApart`; in Python, `None` is no
`SwitchState`, no `int` and no `set`), and for `Session` that VLANs, ports and LAGs
are finitely many and a text is a sequence of lines (`TextConstants`). TLC evaluates
all of them on the passing runs.

Some theorems have hypotheses besides. The last column says what happens without
them, and names the run that shows it where there is one:

| hypothesis | of | without it |
|---|---|---|
| `"default" \notin FaultKinds`: no page comes without its variables | `DependencyOrderHolds`, `OrderInvariant`, `JournalIsTruthful`, `ConfirmedStagesStick`, `CommittedIsTrue` | `default_page` |
| `"expire" \notin FaultKinds`: the session does not end unnoticed | `RollbackStaysAvailable`, `CommittedIsTrue`, `SavedMeansSaved` | `stale_token`; a backup requested with the old token stores whatever page it gets |
| `"reboot" \notin FaultKinds` | `RollbackStaysAvailable` | a restart ends the session too, and `Backup` does as above |
| no candidate leaves its address to DHCP | `CommittedIsTrue`, and in `Ordinary` | `dhcp_failure` |
| `HardwareOnly` in `Ordinary`: nothing is configured of a port the switch does not have | `SavedMeansSaved`, `ValidPlansGoThrough` | never in the program: `read_state` lists no other ports and a candidate is edited from what it lists; the model's configurations could |
| `RoomEnough`: the VLAN table holds the old and the new VLANs together | `ValidPlansGoThrough` | `vlan_capacity` |

### Commit

* **`TypeCorrect`**. `TypeOK` is not inductive by itself: that a phase can be
  entered needs the plan to be non-empty when the backup is made, and that the
  journal can be updated needs it to exist. The theorem is about `TypeOK /\ Control`;
  `Control` says what the position of the client implies for its locals.
* **`OrderInvariant`**, **`DependencyOrderHolds`**. While nobody else interferes,
  (1) only changes of phases up to the current one have been sent or are pending;
  (2) so old VLANs are there before phase 60, PVIDs have their old values before
  phase 40 and their new ones after it, the management VLAN likewise with 50
  (`InPhase`); (3) entering phase 20 needs every new VLAN to have been *read back*,
  and a page once read stays true because the changes still pending in the phase
  can only add to it (`ReadBack`); (4) the plan is valid on both sides, so each
  reference is to an old VLAN before its phase, and to a new one after it.
* **`FailureIsBounded`**. Changes of one plan concern different parts of a
  configuration (`OtherPartsKept`), so what the switch takes up of the phases so far
  leaves the later ones unobserved (`SentInv`). `StepShapes` sorts all steps of an
  undisturbed commit into four shapes, which the proofs after it share.
* **`ConfirmedStagesStick`**. Carrying out a change again that is in effect
  changes nothing (`RepeatedIsIdle`), other changes do not touch it
  (`EffectAndOthers`), and what a page showed of a phase while it was read back is
  in effect from then on (`StickInv`).
* **`JournalIsTruthful`**. `JournalInv` has `Progress`: the phases confirmed are
  exactly those of the plan before the current one (`OnePhaseMore`), and the journal
  of a running commit lists them, or all but the last if the disk failed. A journal
  lists a beginning of its plan, whatever becomes of the process (`InOrder`).
  `TellsInv` puts this together with the two theorems before it: what is listed is
  confirmed, and so in effect, what is of a later phase than the current one is not;
  an entry that was lost leaves the journal at "started".
* **`RollbackStaysAvailable`**. `RollbackInv`: either nothing has been sent yet, or
  the backup and the journal exist and say `current`; and a session that has ended
  does so outside of commits.
* **`CommittedIsTrue`**. Of the flash, only if no save is outstanding (`unsaved`). Once
  all phases are confirmed, what is still pending is
  idle (`AllDoneIsStable`), so the six pages read one after the other are those
  of one configuration (`AllPagesRead`).
* **`PlanIsComplete`**, **`SavedMeansSaved`**. Up to the first failure (`Calm`; a request the switch has
  taken up for later counts from when it is carried out) the switch is, part by
  part, as it was or as it is to be (`MixOf`), so that when every planned change is
  observed it is the candidate (`PlanIsComplete`: nothing that differs is left out of
  a plan). After it (`Settled`) either the flash holds the candidate already, or
  a save is outstanding, or no second failure keeps the last read-back from
  comparing what was saved. `CommittedIsSaved` leaves out the second case.
* **`ValidPlansGoThrough`**. Without any failure `ThroughInv` follows the address
  of the switch, and each request is observed as soon as it is answered
  (`EffectArrives`; the table is never full because what the switch holds is part of
  the old and the new VLANs together).

### Daemon

The inductive invariant is `TypeOK /\ Mutex /\ Footing`: a task in one of the steps
between its awaits that rely on each other is the head of `queue`; and the version
a poller or session has read lies between those of `state` and of the switch. It
gives **`DaemonTypeCorrect`** (the types, and `OneAtATime`: no two tasks are in such
steps at once), **`DaemonIsUpToDate`** (`StateNotBehindSessions`) and
the action properties **`StateGoesForward`** and **`DetailsAreKept`**.
**`DaemonImplementsSharedSwitch`**: under the mapping of `Daemon!Shared`, every step
is one of `SharedSwitch` or a stutter; the step that matters is `Write`, where
`Mutex` and `Footing` show that the comparison made in `Compare` still holds.

### Link, Http, Control

The invariant is `TypeOK /\ HttpInv /\ AnswerInv /\ KindInv /\ CommitInv`. `HttpInv` says
how often the session must have ended for token and request to be where they are:
an old token means once, a repeated request that finds the session closed again
means twice. **`RequestImplementsLink`** follows by cases. `CommitInv` ties what the
process has read to the switch from the plan to the first write, with `disturbed`
and `wrong` as the only ways out; it gives **`CommitNoticesDrift`** and
**`BackupComesFirst`**, as action properties.

### Snmp

`SnmpInv`: the rows a walk has still to find lie ahead of it and are in the tree
(`DueInv`); health is never better than the tree; and along the way from the switch
to the tree everything is ever older (`AgeInv`): counters, the page read, what is
stored, what is shown. **`WalkIsComplete`** needs that a non-empty finite set of
OIDs has a first (well-founded induction of the library), for any number of ports
and repetitions; **`CountersOnlyGrow`** that a stored page is never overtaken, which is
the lock's doing.

### Session

**`ContextIsFresh`** and **`BaseFollowsRunning`** are inductive as they stand.
**`SessionTypeCorrect`** says that no line, typed or loaded, of any role, makes a
candidate the program has no record for; since a text is read by two folds
(`FoldLeft` over its lines, then over its ports), it needs that folds keep a type. The
library states induction with operators for parameters; `SetInduction` states it
for *sets*: among finitely many sets one is minimal, so a set of subsets closed
under adding one element is all of them (`SubsetInduction`), so the function by
which a fold is defined exists and has values in the type (`FoldExists`).
**`HybridPortsAreNeeded`**, **`PortLinesAreLocal`**, **`RejectedLinesKeepVlans`** and
**`AccessAndTrunkPortsAreValid`** are about each single line in each state of the
right type; the first of their lemmas, `MembershipsAre` and `SetMembershipsIs`, say
what `port_vlan_memberships` and `set_port_vlan_memberships` return for any VLAN table.

**`RenderedTextsReadBack`** (`RoundTrip`) and **`TypingTheRunningRestores`**
(`TypingRestores`) are about whole texts, of any number of VLANs, ports and LAGs.
`Leads(F, D, A, text, B)` says that a reader `F` in a state of the set `A` is in a
state of `B` after the lines of `text`; it holds of a text put together of two when
it holds of each (`LeadsThen`), and of the sections of a table, one entry after the
other in the order of the table, when each section adds its entry to those read
already (`LeadsInOrder`, again by `SubsetInduction`; the order of VLAN ids needs
that finitely many numbers can be put in increasing order, `IncreasingEnumerates`).

* For `parse_config` each `A` is a single state, `Sections(c, V, P, G)`: the blank
  configuration with the sections of these VLANs, ports and LAGs of `c` read
  (`VlanSection`, `PortSection`, `LagSection`, `ManagementSection`). The switchport lines
  are carried out afterwards, port by port: `Carried(c, Q)` has the PVIDs and
  memberships of the ports in `Q` and of no others (`PortIsCarriedOut`). When all
  ports have been carried out, it is `c` (`AllAreCarriedOut`), provided that `c` is
  `Printable`: a membership or PVID of a port without a section would be lost.
* For a session that types the text, `A` must hold whatever the candidate was, so it
  is what has been restored so far, `Restored(c, V, P, G)`, and the proof is that no
  later line undoes it: a VLAN section keeps the name of every other VLAN
  (`OnlyVlan`), a port section everything about every other port and all VLAN names
  (`ApartFrom`), a LAG section everything but its LAG. Within a port, `Opened` has its
  settings and `Switched` its VLANs. Here the order of the lines counts: the VLANs
  of the text must be defined before the ports (`Knows`), and the PVID set before
  the memberships. The lines before that may be rejected for what the candidate had:
  `switchport mode access` when its PVID is undefined, say. The lemmas about them
  allow for it (`Became`).

## 5. What is only model-checked

* **Liveness** (`OperationsEnd`, `EveryCommandEnds`, `EveryPortDetailed`,
  `SnmpCatchesUp`, `WalkEnds`, `EventuallyExact`, `CommandsEnd`): it rests on
  fairness, and TLAPS has no ENABLED.
* The **findings**: each violating run is a behaviour, which TLC shows.

## 6. How the modules meet

`Link` is the bottom: what a request may come to. `Http` implements it, `Control` runs on
`Http`; `Commit` and `Daemon` name the same outcomes as faults (`ignore`, `expire`,
`default`, `raise`) without the exchange beneath, `Commit` with one more, an
answer before the effect (`late`), which is the switch's doing and not the
session's. `Snmp` takes from `Daemon` the lock and the two pollers and looks at what
they carry. `Commit` is one client alone with its switch, `Daemon` many sessions with a commit
in three steps. The interface between the two is what `Daemon` assumes of a commit
under the lock: it compares once, then leaves either the candidate or, if it
fails, anything. `Session` shows what a session hands to it: a candidate whose base
is the configuration it shows. `Commit` takes any candidate with any base, so
that nothing depends on how it was edited.

## 7. Plan

Done: planner, commit, daemon, session, SNMP, control program with its files and the HTTP
exchange; every safety property of the passing runs, and both refinements, as
theorems.

What could follow: the liveness properties, with a prover that has ENABLED; and the
start of the daemon from its settings (section 8), which changes none of what is
proved here.

## 8. Not modelled

* Password encoding, probing and capability discovery: they feed no decision of the
  modelled parts. The JavaScript scanner: what its defaults do to `read_state` is in
  `Planner!Defaults`.
* `running.cli`, `base.sha256`: written after `state.json`, never read by the code.
* GET and SET of SNMP, which change nothing, and BER, which is a library's.
* Wording, help, abbreviations, `show` output other than the configuration, the diff.
* SSH authentication and forwarding refusals, TOML profiles and settings, container
  files: configuration of other software, read once.
* `mercswitchctl` beside a running daemon takes no lock; the README of the project
  keeps it for when the daemon is not managing the switch, so `ImplementsSharedSwitch`
  leaves it out. The other administrator of `Daemon` changes the switch at any moment
  but between the drift check of a commit and its writes (`Undisturbed`): nothing
  in the code could notice that.
* Half-written files: every file is replaced atomically (`_atomic_write`).
