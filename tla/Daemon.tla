------------------------------- MODULE Daemon -------------------------------
(***************************************************************************)
(* mercswitchd (daemon.py) once it has started: SSH sessions               *)
(* (ssh_server.py, the CommandSession of command_engine.py) and two        *)
(* pollers share one MercSwitchClient behind io_lock, an asyncio.Lock,     *)
(* which serves its waiters in the order they came.  A step is what a task *)
(* does between two awaits.                                                *)
(*                                                                         *)
(* The phases of a commit are in Commit; here a commit reads the switch,   *)
(* writes, and reads it back.  A configuration is one value; a version     *)
(* tells apart the moments the switch changed, which the code cannot see.  *)
(***************************************************************************)
EXTENDS Integers, SequencesExt

CONSTANTS
  Sessions,    \* SSH sessions of administrators
  Configs,     \* configurations of the switch
  FirstConfigs,  \* those it may have when the daemon starts
  PortCount,   \* its ports
  None,
  FaultKinds,  \* what may go wrong in this instance (AllFaultKinds)
  MaxFaults,   \* BOUND: how many times something goes wrong
  MaxAsked     \* BOUND: how many times a session asks for the switch

AllFaultKinds ==
  {"switch",   \* a request raises
   "disk",     \* a file cannot be written
   "cancel",   \* the task of a session is cancelled
   "outside",  \* another administrator changes the switch, in no write
   "stop"}     \* SIGTERM

ASSUME DaemonConstants ==
  /\ PortCount \in Nat \ {0}
  /\ FaultKinds \subseteq AllFaultKinds
  /\ MaxFaults \in Nat /\ MaxAsked \in Nat
  /\ None \notin Configs /\ FirstConfigs \subseteq Configs
  /\ Sessions \cap {"summary", "detail"} = {}

VARIABLES
  dev,         \* the switch
  queue,       \* io_lock: its holder, then those who wait
  pc,          \* task -> where it is
  pulled,      \* what the summary loop has read and not stored yet
  request,     \* session -> the options of the commit it is in
  running,     \* session.running
  candidate,   \* session.candidate; its base_hash is that of running
  state,       \* daemon.state
  detailed,    \* daemon.metrics: the ports with detail counters
  detail_port,
  snmp,        \* the state the SNMP tree was built from
  health,      \* health.json
  stopped,     \* close() has stopped the pollers
  closed,      \* ... and then closed the client
  faults, asked

sessionVars == <<request, running, candidate, asked>>
pollVars == <<detailed, detail_port, snmp, health>>
stopVars == <<stopped, closed>>
vars == <<dev, queue, pc, pulled, sessionVars, state, pollVars, stopVars, faults>>

Ports == 1..PortCount
Pollers == {"summary", "detail"}
Tasks == Sessions \cup Pollers
Snapshot == [config : Configs, version : Nat]
Options == [check : BOOLEAN, force : BOOLEAN]
NoOptions == [check |-> FALSE, force |-> FALSE]

(* None is a value of its own. *)
ASSUME NoneIsApart == None \notin Snapshot /\ None \notin [base : Configs, force : BOOLEAN]

TypeOK ==
  /\ dev \in Snapshot
  /\ queue \in Seq(Tasks)
  /\ \A s \in Sessions : pc[s] \in {"off", "idle", "commit", "write", "result", "save"}
  /\ pc["summary"] \in {"sleep", "pull", "keep", "metrics", "dead"}
  /\ pc["detail"] \in {"sleep", "detail", "dead"}
  /\ DOMAIN pc = Tasks
  /\ pulled \in Snapshot \cup {None}
  /\ request \in [Sessions -> Options]
  /\ running \in [Sessions -> Snapshot \cup {None}]
  /\ candidate \in [Sessions -> Configs \cup {None}]
  /\ state \in Snapshot /\ snmp \in Snapshot
  /\ detailed \subseteq Ports /\ detail_port \in Ports
  /\ health \in {"ok", "degraded"}
  /\ stopped \in BOOLEAN /\ closed \in BOOLEAN
  /\ faults \in 0..MaxFaults /\ asked \in 0..MaxAsked

(* start() has pulled the state, read the metrics of port 1, and begun to  *)
(* serve.                                                                  *)
Init ==
  /\ \E c \in FirstConfigs : dev = [config |-> c, version |-> 0]
  /\ queue = <<>>
  /\ pc = [t \in Tasks |-> IF t \in Pollers THEN "sleep" ELSE "off"]
  /\ pulled = None
  /\ request = [s \in Sessions |-> NoOptions]
  /\ running = [s \in Sessions |-> None] /\ candidate = [s \in Sessions |-> None]
  /\ state = dev /\ snmp = dev
  /\ detailed = {1} /\ detail_port = 1
  /\ health = "ok"
  /\ stopped = FALSE /\ closed = FALSE
  /\ faults = 0 /\ asked = 0

Happens(kind) == kind \in FaultKinds /\ faults < MaxFaults /\ faults' = faults + 1

----------------------------------------------------------------------------
(* io_lock *)

Acquire(t) == queue' = Append(queue, t)
(* Mutant: whoever asked for the lock goes ahead. *)
HoldsOrWaits(t) == \E i \in DOMAIN queue : queue[i] = t
Holds(t) == queue # <<>> /\ Head(queue) = t
Without(q, t) == IF \E i \in DOMAIN q : q[i] = t
                 THEN RemoveAt(q, CHOOSE i \in DOMAIN q : q[i] = t) ELSE q
Release(t) == queue' = Without(queue, t)

Goto(t, where) == pc' = [pc EXCEPT ![t] = where]

----------------------------------------------------------------------------
(* The commands of a session.  Whatever loads a candidate or edits it, its *)
(* base_hash stays that of session.running.                                *)

Connect(s) ==
  /\ pc[s] = "off" /\ ~stopped
  /\ Goto(s, "idle")
  /\ running' = [running EXCEPT ![s] = state]
  /\ candidate' = [candidate EXCEPT ![s] = state.config]
  /\ UNCHANGED <<dev, queue, pulled, request, asked, state, pollVars, stopVars, faults>>

Disconnect(s) ==
  /\ pc[s] = "idle"
  /\ Goto(s, "off")
  /\ running' = [running EXCEPT ![s] = None]
  /\ candidate' = [candidate EXCEPT ![s] = None]
  /\ UNCHANGED <<dev, queue, pulled, request, asked, state, pollVars, stopVars, faults>>

Edit(s) ==
  /\ pc[s] = "idle"
  /\ \E c \in Configs : candidate' = [candidate EXCEPT ![s] = c]
  /\ UNCHANGED <<dev, queue, pc, pulled, request, running, asked, state, pollVars, stopVars, faults>>

Abort(s) ==
  /\ pc[s] = "idle"
  /\ candidate' = [candidate EXCEPT ![s] = running[s].config]
  /\ UNCHANGED <<dev, queue, pc, pulled, request, running, asked, state, pollVars, stopVars, faults>>

Ask(s, where, options) ==
  /\ pc[s] = "idle"
  /\ asked < MaxAsked /\ asked' = asked + 1
  /\ Goto(s, where)
  /\ request' = [request EXCEPT ![s] = options]
  /\ Acquire(s)
  /\ UNCHANGED <<dev, pulled, running, candidate, state, pollVars, stopVars, faults>>

AskCommit(s) == \E options \in Options : Ask(s, "commit", options)
AskSave(s) == Ask(s, "save", NoOptions)

----------------------------------------------------------------------------
(* What the client does for a session that holds the lock.                 *)

(* The call is over: the lock is released and the session reads its next   *)
(* command.                                                                *)
Answer(s) ==
  /\ Goto(s, "idle")
  /\ Release(s)
  /\ request' = [request EXCEPT ![s] = NoOptions]

(* ... with an exception. *)
Refuse(s) == Answer(s) /\ UNCHANGED <<running, candidate, state>>

(* ... with a result: daemon.state follows, and so does the session unless *)
(* it only asked for a check.                                              *)
DaemonForgets(final) == UNCHANGED state   \* Mutant
DaemonFollows(final) == state' = final

Deliver(s, final) ==
  /\ Answer(s)
  /\ DaemonFollows(final)
  /\ IF request[s].check
     THEN UNCHANGED <<running, candidate>>
     ELSE /\ running' = [running EXCEPT ![s] = final]
          /\ candidate' = [candidate EXCEPT ![s] = final.config]

Fails == \/ closed /\ UNCHANGED faults
         \/ ~closed /\ Happens("switch")
Works == ~closed /\ UNCHANGED faults

Drifted(s) == running[s].config # dev.config /\ ~request[s].force

(* A candidate may also be invalid, or need a confirmation nobody gave. *)
Compare(s) ==
  /\ pc[s] = "commit" /\ Holds(s)
  /\ \/ Fails /\ Refuse(s)
     \/ Works /\ Refuse(s)
     \/ /\ Works /\ ~Drifted(s)
        /\ IF request[s].check \/ candidate[s] = dev.config
           THEN Deliver(s, dev)
           ELSE /\ Goto(s, "write")
                /\ UNCHANGED <<queue, request, running, candidate, state>>
  /\ UNCHANGED <<dev, pulled, asked, pollVars, stopVars>>

(* The switch as it is once its configuration has been set to c. *)
Changed(c) == IF c = dev.config THEN dev ELSE [config |-> c, version |-> dev.version + 1]

Write(s) ==
  /\ pc[s] = "write" /\ Holds(s)
  /\ \/ /\ Works
        /\ dev' = Changed(candidate[s])
        /\ Goto(s, "result")
        /\ UNCHANGED <<queue, request, running, candidate, state>>
     \/ /\ Fails
        /\ IF closed THEN UNCHANGED dev ELSE \E c \in Configs : dev' = Changed(c)
        /\ Refuse(s)
  /\ UNCHANGED <<pulled, asked, pollVars, stopVars>>

Result(s) ==
  /\ pc[s] = "result" /\ Holds(s)
  /\ \/ Works /\ dev.config = candidate[s] /\ Deliver(s, dev)
     \/ Works /\ dev.config # candidate[s] /\ Refuse(s)
     \/ Fails /\ Refuse(s)
  /\ UNCHANGED <<dev, pulled, asked, pollVars, stopVars>>

Save(s) ==
  /\ pc[s] = "save" /\ Holds(s)
  /\ Works \/ Fails
  /\ Refuse(s)
  /\ UNCHANGED <<dev, pulled, asked, pollVars, stopVars>>

(* The task of the session is cancelled where it waits or works. *)
Cancel(s) ==
  /\ pc[s] \notin {"off", "idle"} /\ Happens("cancel")
  /\ Goto(s, "off")
  /\ Release(s)
  /\ request' = [request EXCEPT ![s] = NoOptions]
  /\ running' = [running EXCEPT ![s] = None]
  /\ candidate' = [candidate EXCEPT ![s] = None]
  /\ \/ UNCHANGED dev
     \/ pc[s] = "write" /\ ~closed /\ \E c \in Configs : dev' = Changed(c)
  /\ UNCHANGED <<pulled, asked, state, pollVars, stopVars>>

----------------------------------------------------------------------------
(* The pollers.  Writing health.json may fail inside the try, which sends  *)
(* the loop to its except clause, and there, which ends the task.          *)

Wake(t, where) ==
  /\ pc[t] = "sleep"
  /\ Goto(t, where)
  /\ Acquire(t)
  /\ UNCHANGED <<dev, pulled, sessionVars, state, pollVars, stopVars, faults>>

Healthy(t) ==
  \/ health' = "ok" /\ Goto(t, "sleep") /\ UNCHANGED faults
  \/ /\ Happens("disk")
     /\ \/ health' = "degraded" /\ Goto(t, "sleep")
        \/ UNCHANGED health /\ Goto(t, "dead")

Degraded(t) ==
  \/ health' = "degraded" /\ Goto(t, "sleep")
  \/ "disk" \in FaultKinds /\ UNCHANGED health /\ Goto(t, "dead")

(* Mutant: a loop that fails leaves the lock taken. *)
GivesUpLocked(t, kind) ==
  /\ Happens(kind)
  /\ Degraded(t)
  /\ pulled' = IF t = "summary" THEN None ELSE pulled
  /\ UNCHANGED <<dev, queue, sessionVars, state, detailed, detail_port, snmp, stopVars>>
GivesUp(t, kind) ==
  /\ Happens(kind)
  /\ Release(t)
  /\ Degraded(t)
  /\ pulled' = IF t = "summary" THEN None ELSE pulled
  /\ UNCHANGED <<dev, sessionVars, state, detailed, detail_port, snmp, stopVars>>

Pull ==
  /\ pc["summary"] = "pull" /\ Holds("summary")
  /\ \/ /\ pulled' = dev
        /\ Goto("summary", "keep")
        /\ UNCHANGED <<dev, queue, sessionVars, state, pollVars, stopVars, faults>>
     \/ GivesUp("summary", "switch")

Keep ==
  /\ pc["summary"] = "keep" /\ Holds("summary")
  /\ \/ /\ state' = pulled /\ pulled' = None
        /\ Goto("summary", "metrics")
        /\ UNCHANGED <<dev, queue, sessionVars, pollVars, stopVars, faults>>
     \/ GivesUp("summary", "disk")

SnmpForgotten == UNCHANGED snmp   \* Mutant: the tree is not rebuilt
UpdateSnmp == snmp' = state

(* Fresh metrics take the detail counters of the old ones over. *)
NoDetails == {}   \* Mutant: fresh metrics have none
KeptDetails == detailed

Metrics ==
  /\ pc["summary"] = "metrics" /\ Holds("summary")
  /\ \/ /\ Release("summary")
        /\ detailed' = KeptDetails
        /\ UpdateSnmp
        /\ Healthy("summary")
        /\ UNCHANGED <<dev, pulled, sessionVars, state, detail_port, stopVars>>
     \/ GivesUp("summary", "switch")

(* Mutants: the last port is skipped, and there is no wrapping around. *)
NextPortSkipping == (detail_port % (PortCount - 1)) + 1
NextPortUnbounded == detail_port + 1
NextPort == (detail_port % PortCount) + 1

Detail ==
  /\ pc["detail"] = "detail" /\ Holds("detail")
  /\ \/ /\ Release("detail")
        /\ detailed' = detailed \cup {detail_port}
        /\ detail_port' = NextPort
        /\ UpdateSnmp
        /\ Healthy("detail")
        /\ UNCHANGED <<dev, pulled, sessionVars, state, stopVars>>
     \/ GivesUp("detail", "switch")

----------------------------------------------------------------------------
(* close(), and others who change the switch. *)

StopPollers ==
  /\ ~stopped /\ Happens("stop")
  /\ stopped' = TRUE
  /\ pc' = [t \in Tasks |-> IF t \in Pollers THEN "dead" ELSE pc[t]]
  /\ queue' = Without(Without(queue, "summary"), "detail")
  /\ pulled' = None
  /\ UNCHANGED <<dev, sessionVars, state, pollVars, closed>>

CloseClient ==
  /\ stopped /\ ~closed
  /\ closed' = TRUE
  /\ UNCHANGED <<dev, queue, pc, pulled, sessionVars, state, pollVars, stopped, faults>>

(* Nothing the code does could notice a change between a commit's drift    *)
(* check and its writes; mercswitchctl is for when no daemon manages the   *)
(* switch, so those few requests are assumed to be left alone.             *)
Undisturbed == \A s \in Sessions : pc[s] # "write"

Outside ==
  /\ Happens("outside") /\ Undisturbed
  /\ \E c \in Configs \ {dev.config} : dev' = Changed(c)
  /\ UNCHANGED <<queue, pc, pulled, sessionVars, state, pollVars, stopVars>>

----------------------------------------------------------------------------

Command(s) == Connect(s) \/ Disconnect(s) \/ Edit(s) \/ Abort(s) \/ AskCommit(s) \/ AskSave(s)
Serve(s) == Compare(s) \/ Write(s) \/ Result(s) \/ Save(s)
SummaryLoop == Wake("summary", "pull") \/ Pull \/ Keep \/ Metrics
DetailLoop == Wake("detail", "detail") \/ Detail

Next ==
  \/ \E s \in Sessions : Command(s) \/ Serve(s) \/ Cancel(s)
  \/ SummaryLoop \/ DetailLoop
  \/ StopPollers \/ CloseClient \/ Outside

Spec == Init /\ [][Next]_vars

(* The event loop runs every task that can run; requests are answered or   *)
(* time out.  Users need not give commands, nor others leave the switch    *)
(* alone.                                                                  *)
Fairness ==
  /\ \A s \in Sessions : WF_vars(Serve(s))
  /\ WF_vars(SummaryLoop) /\ WF_vars(DetailLoop)

FairSpec == Spec /\ Fairness

----------------------------------------------------------------------------

(* However the commits of the sessions interleave with each other and with *)
(* the pollers, an unforced one replaces only the configuration its        *)
(* candidate was made from: nobody's change is lost unseen.  This is       *)
(* SharedSwitch, where checking and writing are one step.                  *)
Pending(s) == IF pc[s] \in {"commit", "write"}
              THEN [base |-> running[s].config, force |-> request[s].force] ELSE None

Shared == INSTANCE SharedSwitch WITH
            config <- dev.config, wants <- [s \in Sessions |-> Pending(s)]

ImplementsSharedSwitch == Shared!Spec

(* daemon.state never goes back to an older state of the switch, whoever   *)
(* of the sessions and the summary loop stores what it has read.           *)
StateNeverRegresses == [][state'.version >= state.version]_vars

(* No session has seen more of the switch than the daemon: a session that  *)
(* connects after a commit starts from its result.                         *)
StateNotBehindSessions ==
  \A s \in Sessions : running[s] # None => state.version >= running[s].version

(* Once SNMP shows detail counters of a port, it goes on showing some.     *)
DetailsKept == [][detailed \subseteq detailed']_vars

(* A session that asks for the switch is answered, whatever fails.         *)
EveryCommandEnds == \A s \in Sessions : pc[s] \notin {"off", "idle"} ~> pc[s] \in {"off", "idle"}

(* Every port gets its detail counters while the detail loop lives.        *)
EveryPortDetailed == <>(detailed = Ports \/ pc["detail"] = "dead")

(* What a commit left behind, SNMP shows in the end, while a poller lives. *)
SnmpCatchesUp ==
  []<>(snmp = state \/ \A t \in Pollers : pc[t] = "dead")

(* healthcheck, "stale or unhealthy daemon state": it fails some day after *)
(* the loop that refreshes daemon.state has ended by itself.               *)
DeadPollerShows == (pc["summary"] = "dead" /\ ~stopped) ~> (health # "ok" \/ stopped)
=============================================================================
