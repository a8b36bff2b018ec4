---------------------------- MODULE DaemonProofs ----------------------------
(***************************************************************************)
(* Proofs about Daemon, for any number of sessions, configurations, ports, *)
(* faults and commands.                                                    *)
(***************************************************************************)
EXTENDS Daemon, SequenceTheorems, TLAPS

----------------------------------------------------------------------------
(* The lock.                                                               *)

(* Whoever gives up the lock, or stops waiting for it, leaves the queue    *)
(* with its tasks and the holder, if another, with the lock.               *)
LEMMA RemoveAtType ==
  ASSUME NEW q \in Seq(Tasks), NEW i \in 1..Len(q)
  PROVE  /\ RemoveAt(q, i) \in Seq(Tasks)
         /\ i # 1 => RemoveAt(q, i) # <<>> /\ Head(RemoveAt(q, i)) = Head(q)
<1> DEFINE a == SubSeq(q, 1, i - 1)
           b == SubSeq(q, i + 1, Len(q))
<1>1. a \in Seq(Tasks) /\ b \in Seq(Tasks) /\ Len(a) = i - 1
  <2>1. \A k \in 1..(i - 1) : q[k] \in Tasks
    OBVIOUS
  <2>2. \A k \in (i + 1)..Len(q) : q[k] \in Tasks
    OBVIOUS
  <2> QED
    BY <2>1, <2>2, SubSeqProperties
<1>2. a \o b \in Seq(Tasks)
  BY <1>1
<1>3. ASSUME i # 1 PROVE a \o b # <<>> /\ Head(a \o b) = Head(q)
  <2>1. Len(a) >= 1 /\ a[1] = q[1]
    BY <1>1, <1>3
  <2>2. Len(a \o b) >= 1 /\ (a \o b)[1] = q[1]
    <3>1. Len(a) \in Nat /\ Len(b) \in Nat
      BY <1>1
    <3> HIDE DEF a, b
    <3> QED
      BY <1>1, <2>1, <3>1, ConcatProperties
  <2> DEFINE c == a \o b
  <2>3. c \in Seq(Tasks) /\ Len(c) >= 1 /\ c[1] = q[1]
    BY <1>2, <2>2
  <2> HIDE DEF a, b, c
  <2>4. c # <<>> /\ Head(c) = Head(q)
    BY <2>3
  <2> QED
    BY <2>4 DEF c
<1> QED
  BY <1>2, <1>3 DEF RemoveAt

LEMMA WithoutType ==
  ASSUME NEW q \in Seq(Tasks), NEW t
  PROVE  /\ Without(q, t) \in Seq(Tasks)
         /\ q # <<>> /\ Head(q) # t => Without(q, t) # <<>> /\ Head(Without(q, t)) = Head(q)
<1>1. CASE \E i \in DOMAIN q : q[i] = t
  <2> DEFINE j == CHOOSE i \in DOMAIN q : q[i] = t
  <2>1. j \in 1..Len(q) /\ q[j] = t
    BY <1>1
  <2>2. Without(q, t) = RemoveAt(q, j)
    BY <1>1 DEF Without
  <2> HIDE DEF j
  <2>3. q # <<>> /\ Head(q) # t => j # 1
    BY <2>1
  <2> QED
    BY <2>1, <2>2, <2>3, RemoveAtType
<1>2. CASE ~\E i \in DOMAIN q : q[i] = t
  BY <1>2 DEF Without
<1> QED
  BY <1>1, <1>2

----------------------------------------------------------------------------
(* The invariant: whoever is in the middle of something holds the lock, so *)
(* what it has read still stands when it uses it.                          *)

Exclusive == {"write", "result", "keep", "metrics"}

Mutex == \A t \in Tasks : pc[t] \in Exclusive => Holds(t)

Footing ==
  /\ pc["summary"] = "keep" =>
       pulled # None /\ state.version <= pulled.version /\ pulled.version <= dev.version
  /\ state.version <= dev.version
  /\ \A s \in Sessions :
       /\ pc[s] # "off" => running[s] # None /\ candidate[s] # None
       /\ running[s] # None => running[s].version <= state.version
       /\ pc[s] = "write" => ~Drifted(s)

DaemonInv == TypeOK /\ Mutex /\ Footing

(* A task goes on to where, and asks for the lock, gives it up or neither. *)
Moves(t, where) ==
  /\ Goto(t, where)
  /\ \/ (Acquire(t) \/ Release(t)) /\ where \notin Exclusive
     \/ UNCHANGED queue /\ (where \in Exclusive => Holds(t))

LEMMA TasksAre == Tasks = Sessions \cup {"summary", "detail"} /\ "summary" \notin Sessions
                  /\ "detail" \notin Sessions
BY DaemonConstants DEF Tasks, Pollers, DaemonConstants

LEMMA MovesKeepsLock ==
  ASSUME TypeOK, Mutex, NEW t \in Tasks, NEW where, Moves(t, where)
  PROVE  /\ queue' \in Seq(Tasks) /\ DOMAIN pc' = Tasks
         /\ pc'[t] = where /\ \A u \in Tasks : u # t => pc'[u] = pc[u]
         /\ Mutex'
<1>1. queue \in Seq(Tasks)
  BY DEF TypeOK
<1>2. pc'[t] = where /\ DOMAIN pc' = Tasks /\ \A u \in Tasks : u # t => pc'[u] = pc[u]
  BY DEF Moves, Goto, TypeOK
<1>3. ASSUME Acquire(t) \/ Release(t) \/ UNCHANGED queue
      PROVE  /\ queue' \in Seq(Tasks)
             /\ \A u \in Tasks : u # t /\ Holds(u) => Holds(u)'
  <2>1. CASE Acquire(t)
    <3>1. queue' = Append(queue, t) /\ queue' \in Seq(Tasks)
      BY <1>1, <2>1 DEF Acquire
    <3>2. queue # <<>> => queue' # <<>> /\ Head(queue') = Head(queue)
      BY <1>1, <3>1
    <3> QED
      BY <3>1, <3>2 DEF Holds
  <2>2. CASE Release(t)
    BY <1>1, <2>2, WithoutType DEF Release, Holds
  <2>3. CASE UNCHANGED queue
    BY <1>1, <2>3 DEF Holds
  <2> QED
    BY <1>3, <2>1, <2>2, <2>3
<1>4. where \in Exclusive => Holds(t)'
  BY DEF Moves, Holds
<1>5. Mutex'
  BY <1>2, <1>3, <1>4 DEF Moves, Mutex
<1> QED
  BY <1>2, <1>3, <1>5 DEF Moves

LEMMA OneHolder ==
  ASSUME Mutex, NEW t \in Tasks, Holds(t)
  PROVE  \A u \in Tasks : pc[u] \in Exclusive => u = t
BY DEF Mutex, Holds

LEMMA HappensType ==
  ASSUME TypeOK, NEW kind, Happens(kind)
  PROVE  faults' \in 0..MaxFaults
BY DaemonConstants DEF TypeOK, Happens, DaemonConstants

LEMMA ChangedType ==
  ASSUME TypeOK, NEW c \in Configs
  PROVE  /\ Changed(c) \in Snapshot /\ Changed(c).config = c
         /\ Changed(c).version >= dev.version
BY DEF TypeOK, Changed, Snapshot

LEMMA NoOptionsType == NoOptions \in Options
BY Zenon DEF NoOptions, Options

LEMMA InitInv == Init => DaemonInv
<1> SUFFICES ASSUME Init PROVE DaemonInv
  OBVIOUS
<1>1. PICK c \in FirstConfigs : dev = [config |-> c, version |-> 0]
  BY DEF Init
<1>2. dev \in Snapshot
  BY <1>1, DaemonConstants DEF Snapshot, DaemonConstants
<1>3. stopped \in BOOLEAN /\ closed \in BOOLEAN
  BY Zenon DEF Init
<1>4. /\ DOMAIN pc = Tasks /\ pc["summary"] = "sleep" /\ pc["detail"] = "sleep"
      /\ \A s \in Sessions : pc[s] = "off"
  BY TasksAre DEF Init, Pollers
<1>5. TypeOK
  BY <1>2, <1>3, <1>4, NoOptionsType, DaemonConstants DEF Init, TypeOK, Ports, DaemonConstants
<1>6. Mutex
  BY <1>4, TasksAre DEF Mutex, Exclusive
<1>7. Footing
  BY <1>2, <1>4 DEF Init, Footing, Snapshot
<1> QED
  BY <1>5, <1>6, <1>7 DEF DaemonInv

----------------------------------------------------------------------------
(* What sessions do by themselves. *)

LEMMA CommandKeeps ==
  ASSUME DaemonInv, NEW s \in Sessions, Command(s)
  PROVE  DaemonInv'
<1>0. s \in Tasks /\ TypeOK /\ Mutex /\ Footing /\ state \in Snapshot
  BY DEF Tasks, DaemonInv, TypeOK
<1>1. CASE Connect(s)
  <2>1. Moves(s, "idle")
    BY <1>1 DEF Connect, Moves, Exclusive
  <2>2. /\ queue' \in Seq(Tasks) /\ DOMAIN pc' = Tasks
        /\ pc'[s] = "idle" /\ \A u \in Tasks : u # s => pc'[u] = pc[u]
        /\ Mutex'
    BY <1>0, <2>1, MovesKeepsLock
  <2>3. /\ running' = [running EXCEPT ![s] = state]
        /\ candidate' = [candidate EXCEPT ![s] = state.config]
        /\ UNCHANGED <<dev, pulled, request, asked, state, pollVars, stopVars, faults>>
    BY <1>1 DEF Connect
  <2>4. TypeOK'
    BY <1>0, <2>2, <2>3, TasksAre DEF TypeOK, Snapshot, pollVars, stopVars
  <2>5. Footing'
    BY <1>0, <2>2, <2>3, <2>4, TasksAre, NoneIsApart, DaemonConstants
       DEF Footing, Drifted, TypeOK, Snapshot, DaemonConstants
  <2> QED
    BY <2>2, <2>4, <2>5 DEF DaemonInv
<1>2. CASE Disconnect(s)
  <2>1. Moves(s, "off")
    BY <1>2 DEF Disconnect, Moves, Exclusive
  <2>2. /\ queue' \in Seq(Tasks) /\ DOMAIN pc' = Tasks
        /\ pc'[s] = "off" /\ \A u \in Tasks : u # s => pc'[u] = pc[u]
        /\ Mutex'
    BY <1>0, <2>1, MovesKeepsLock
  <2>3. /\ running' = [running EXCEPT ![s] = None]
        /\ candidate' = [candidate EXCEPT ![s] = None]
        /\ UNCHANGED <<dev, pulled, request, asked, state, pollVars, stopVars, faults>>
    BY <1>2 DEF Disconnect
  <2>4. TypeOK'
    BY <1>0, <2>2, <2>3, TasksAre DEF TypeOK, pollVars, stopVars
  <2>5. Footing'
    BY <1>0, <2>2, <2>3, TasksAre DEF Footing, Drifted, TypeOK
  <2> QED
    BY <2>2, <2>4, <2>5 DEF DaemonInv
<1>3. CASE Edit(s) \/ Abort(s)
  <2>1. PICK c \in Configs : candidate' = [candidate EXCEPT ![s] = c]
    <3>1. CASE Abort(s)
      <4>1. running[s] # None
        BY <1>0, <3>1 DEF Abort, Footing
      <4>2. running[s].config \in Configs
        BY <1>0, <4>1 DEF TypeOK, Snapshot
      <4> QED
        BY <3>1, <4>2 DEF Abort
    <3> QED
      BY <1>3, <3>1 DEF Edit
  <2>2. UNCHANGED <<dev, queue, pc, pulled, request, running, asked, state, pollVars, stopVars,
                    faults>>
    BY <1>3 DEF Edit, Abort
  <2>3. TypeOK' /\ Mutex'
    BY <1>0, <2>1, <2>2 DEF TypeOK, Mutex, Holds, pollVars, stopVars
  <2>4. Footing'
    BY <1>0, <2>1, <2>2, DaemonConstants DEF Footing, Drifted, TypeOK, DaemonConstants
  <2> QED
    BY <2>3, <2>4 DEF DaemonInv
<1>4. ASSUME NEW where \in {"commit", "save"}, NEW options \in Options, Ask(s, where, options)
      PROVE  DaemonInv'
  <2>1. Moves(s, where)
    BY <1>4 DEF Ask, Moves, Exclusive
  <2>2. /\ queue' \in Seq(Tasks) /\ DOMAIN pc' = Tasks
        /\ pc'[s] = where /\ \A u \in Tasks : u # s => pc'[u] = pc[u]
        /\ Mutex'
    BY <1>0, <2>1, MovesKeepsLock
  <2>3. /\ request' = [request EXCEPT ![s] = options] /\ pc[s] = "idle"
        /\ asked' = asked + 1 /\ asked < MaxAsked
        /\ UNCHANGED <<dev, pulled, running, candidate, state, pollVars, stopVars, faults>>
    BY <1>4 DEF Ask
  <2>4. asked' \in 0..MaxAsked
    BY <1>0, <2>3, DaemonConstants DEF TypeOK, DaemonConstants
  <2>5. TypeOK'
    BY <1>0, <1>4, <2>2, <2>3, <2>4, TasksAre DEF TypeOK, pollVars, stopVars
  <2>6. Footing'
    BY <1>0, <2>2, <2>3, TasksAre DEF Footing, Drifted, TypeOK
  <2> QED
    BY <2>2, <2>5, <2>6 DEF DaemonInv
<1> QED
  BY <1>1, <1>2, <1>3, <1>4, NoOptionsType DEF Command, AskCommit, AskSave

----------------------------------------------------------------------------
(* What the client does for a session. *)

(* The switch is left alone, or changed by whoever is writing. *)
Written(s) ==
  \/ UNCHANGED dev
  \/ pc[s] = "write" /\ \E c \in Configs : dev' = Changed(c)

LEMMA WrittenType ==
  ASSUME DaemonInv, NEW s \in Sessions, Written(s)
  PROVE  /\ dev' \in Snapshot /\ dev'.version >= dev.version
         /\ \A u \in Sessions : u # s /\ pc[u] = "write" => dev' = dev
<1>1. dev \in Snapshot /\ dev.version \in Nat
  BY DEF DaemonInv, TypeOK, Snapshot
<1>2. CASE UNCHANGED dev
  BY <1>1, <1>2
<1>3. CASE pc[s] = "write" /\ \E c \in Configs : dev' = Changed(c)
  <2>1. \A u \in Sessions : pc[u] = "write" => u = s
    BY <1>3, OneHolder DEF DaemonInv, Mutex, Exclusive, Tasks
  <2> QED
    BY <1>3, <2>1, ChangedType DEF DaemonInv
<1> QED
  BY <1>2, <1>3 DEF Written

LEMMA RefuseKeeps ==
  ASSUME DaemonInv, NEW s \in Sessions, pc[s] # "off", Refuse(s), Written(s),
         faults' \in 0..MaxFaults,
         UNCHANGED <<pulled, asked, pollVars, stopVars>>
  PROVE  DaemonInv'
<1>0. s \in Tasks /\ TypeOK /\ Mutex /\ Footing
  BY DEF Tasks, DaemonInv
<1>1. Moves(s, "idle")
  BY DEF Refuse, Answer, Moves, Exclusive
<1>2. /\ queue' \in Seq(Tasks) /\ DOMAIN pc' = Tasks
      /\ pc'[s] = "idle" /\ \A u \in Tasks : u # s => pc'[u] = pc[u]
      /\ Mutex'
  BY <1>0, <1>1, MovesKeepsLock
<1>3. /\ request' = [request EXCEPT ![s] = NoOptions]
      /\ UNCHANGED <<running, candidate, state>>
  BY DEF Refuse, Answer
<1>4. TypeOK'
  BY <1>0, <1>2, <1>3, TasksAre, NoOptionsType, WrittenType DEF TypeOK, pollVars, stopVars
<1>5. Footing'
  BY <1>0, <1>2, <1>3, TasksAre, WrittenType DEF Footing, Drifted, TypeOK, Snapshot
<1> QED
  BY <1>2, <1>4, <1>5 DEF DaemonInv

LEMMA DeliverKeeps ==
  ASSUME DaemonInv, NEW s \in Sessions, pc[s] # "off", Holds(s), Deliver(s, dev),
         faults' \in 0..MaxFaults, UNCHANGED <<dev, pulled, asked, pollVars, stopVars>>
  PROVE  DaemonInv'
<1>0. s \in Tasks /\ TypeOK /\ Mutex /\ Footing /\ dev \in Snapshot /\ state \in Snapshot
  BY DEF Tasks, DaemonInv, TypeOK
<1>1. Moves(s, "idle")
  BY DEF Deliver, Answer, Moves, Exclusive
<1>2. /\ queue' \in Seq(Tasks) /\ DOMAIN pc' = Tasks
      /\ pc'[s] = "idle" /\ \A u \in Tasks : u # s => pc'[u] = pc[u]
      /\ Mutex'
  BY <1>0, <1>1, MovesKeepsLock
<1>3. /\ request' = [request EXCEPT ![s] = NoOptions] /\ state' = dev
      /\ \/ UNCHANGED <<running, candidate>>
         \/ /\ running' = [running EXCEPT ![s] = dev]
            /\ candidate' = [candidate EXCEPT ![s] = dev.config]
  BY DEF Deliver, Answer, DaemonFollows
<1>4. TypeOK'
  BY <1>0, <1>2, <1>3, TasksAre, NoOptionsType DEF TypeOK, Snapshot, pollVars, stopVars
<1>5. pc["summary"] # "keep" /\ \A u \in Sessions : pc[u] = "write" => u = s
  BY <1>0, OneHolder, TasksAre DEF Exclusive
<1>6. state'.version >= state.version /\ state.version \in Nat /\ dev.version \in Nat
  BY <1>0, <1>3 DEF Footing, Snapshot
<1>7. ASSUME NEW u \in Sessions
      PROVE  /\ pc'[u] # "off" => running'[u] # None /\ candidate'[u] # None
             /\ running'[u] # None => running'[u].version <= state'.version
             /\ pc'[u] # "write"
  <2>1. u \in Tasks /\ pc'[u] # "write" /\ running[u] \in Snapshot \cup {None}
    BY <1>0, <1>2, <1>5 DEF Tasks, TypeOK
  <2>2. pc'[u] # "off" => pc[u] # "off"
    BY <1>2, <2>1
  <2>3. /\ running'[u] = running[u] \/ (u = s /\ running'[u] = dev)
        /\ candidate'[u] = candidate[u] \/ (u = s /\ candidate'[u] = dev.config)
    BY <1>0, <1>3 DEF TypeOK
  <2>4. dev # None /\ dev.config # None
    BY <1>0, NoneIsApart, DaemonConstants DEF Snapshot, DaemonConstants
  <2>5. running[u] # None => running[u].version <= state.version /\ running[u].version \in Nat
    BY <1>0, <2>1 DEF Footing, Snapshot
  <2>6. running'[u] # None => running'[u].version <= state'.version
    BY <1>3, <1>6, <2>3, <2>5
  <2> QED
    BY <1>0, <2>1, <2>2, <2>3, <2>4, <2>6 DEF Footing
<1>8. Footing'
  BY <1>0, <1>2, <1>3, <1>5, <1>6, <1>7, TasksAre DEF Footing
<1> QED
  BY <1>2, <1>4, <1>8 DEF DaemonInv

LEMMA FailsType == ASSUME TypeOK, Fails \/ Works PROVE faults' \in 0..MaxFaults
BY HappensType DEF TypeOK, Fails, Works

LEMMA ServeKeeps ==
  ASSUME DaemonInv, NEW s \in Sessions, Serve(s)
  PROVE  DaemonInv'
<1>0. s \in Tasks /\ TypeOK /\ Mutex /\ Footing
  BY DEF Tasks, DaemonInv
<1>1. /\ pc[s] # "off" /\ Holds(s) /\ faults' \in 0..MaxFaults
      /\ UNCHANGED <<pulled, asked, pollVars, stopVars>>
  BY <1>0, FailsType DEF Serve, Compare, Write, Result, Save
<1>2. ASSUME Refuse(s), Written(s) PROVE DaemonInv'
  BY <1>1, <1>2, RefuseKeeps
<1>3. ASSUME Deliver(s, dev), UNCHANGED dev PROVE DaemonInv'
  BY <1>1, <1>3, DeliverKeeps
<1>4. ASSUME NEW where \in {"write", "result"}, Goto(s, where), Written(s),
             where = "write" => UNCHANGED dev /\ ~Drifted(s),
             UNCHANGED <<queue, request, running, candidate, state>>
      PROVE  DaemonInv'
  <2>1. Moves(s, where)
    BY <1>1, <1>4 DEF Moves
  <2>2. /\ queue' \in Seq(Tasks) /\ DOMAIN pc' = Tasks
        /\ pc'[s] = where /\ \A u \in Tasks : u # s => pc'[u] = pc[u]
        /\ Mutex'
    BY <1>0, <2>1, MovesKeepsLock
  <2>3. /\ dev' \in Snapshot /\ dev'.version >= dev.version
        /\ \A u \in Sessions : u # s /\ pc[u] = "write" => dev' = dev
    BY <1>4, WrittenType
  <2>4. TypeOK'
    BY <1>0, <1>1, <1>4, <2>2, <2>3, TasksAre DEF TypeOK, pollVars, stopVars
  <2>5. Footing'
    BY <1>0, <1>1, <1>4, <2>2, <2>3, TasksAre DEF Footing, Drifted, TypeOK, Snapshot
  <2> QED
    BY <2>2, <2>4, <2>5 DEF DaemonInv
<1>5. CASE Compare(s)
  BY <1>2, <1>3, <1>4, <1>5 DEF Compare, Written
<1>6. CASE Write(s)
  <2>1. candidate[s] \in Configs
    BY <1>0, <1>1 DEF TypeOK, Footing
  <2>2. Written(s)
    BY <1>6, <2>1 DEF Write, Written
  <2> QED
    BY <1>2, <1>4, <1>6, <2>2 DEF Write
<1>7. CASE Result(s) \/ Save(s)
  BY <1>2, <1>3, <1>7 DEF Result, Save, Written
<1> QED
  BY <1>5, <1>6, <1>7 DEF Serve

LEMMA CancelKeeps ==
  ASSUME DaemonInv, NEW s \in Sessions, Cancel(s)
  PROVE  DaemonInv'
<1>0. s \in Tasks /\ TypeOK /\ Mutex /\ Footing
  BY DEF Tasks, DaemonInv
<1>1. Moves(s, "off") /\ Written(s)
  BY DEF Cancel, Moves, Exclusive, Written
<1>2. /\ queue' \in Seq(Tasks) /\ DOMAIN pc' = Tasks
      /\ pc'[s] = "off" /\ \A u \in Tasks : u # s => pc'[u] = pc[u]
      /\ Mutex'
  BY <1>0, <1>1, MovesKeepsLock
<1>3. /\ request' = [request EXCEPT ![s] = NoOptions]
      /\ running' = [running EXCEPT ![s] = None]
      /\ candidate' = [candidate EXCEPT ![s] = None]
      /\ faults' \in 0..MaxFaults
      /\ UNCHANGED <<pulled, asked, state, pollVars, stopVars>>
  BY <1>0, HappensType DEF Cancel
<1>4. /\ dev' \in Snapshot /\ dev'.version >= dev.version
      /\ \A u \in Sessions : u # s /\ pc[u] = "write" => dev' = dev
  BY <1>1, WrittenType
<1>5. TypeOK'
  BY <1>0, <1>2, <1>3, <1>4, TasksAre, NoOptionsType DEF TypeOK, pollVars, stopVars
<1>6. Footing'
  BY <1>0, <1>2, <1>3, <1>4, TasksAre DEF Footing, Drifted, TypeOK, Snapshot
<1> QED
  BY <1>2, <1>5, <1>6 DEF DaemonInv

----------------------------------------------------------------------------
(* The pollers, the shutdown, and others who change the switch. *)

LEMMA PortsAre == detail_port \in Ports => NextPort \in Ports
BY DaemonConstants DEF Ports, NextPort, DaemonConstants

(* A poller ends its round, in health or not. *)
LEMMA RoundEnds ==
  ASSUME DaemonInv, NEW t \in Pollers, Release(t), Goto(t, "sleep") \/ Goto(t, "dead"),
         health' \in {"ok", "degraded"}, faults' \in 0..MaxFaults,
         snmp' \in {snmp, state}, detailed' \subseteq Ports, detail_port' \in Ports,
         UNCHANGED pulled \/ (t = "summary" /\ pulled' = None),
         UNCHANGED <<dev, sessionVars, state, stopVars>>
  PROVE  DaemonInv'
<1>0. t \in Tasks /\ t \in {"summary", "detail"} /\ t \notin Sessions
      /\ TypeOK /\ Mutex /\ Footing
  BY TasksAre DEF Tasks, Pollers, DaemonInv
<1>1. PICK where \in {"sleep", "dead"} : Moves(t, where)
  BY DEF Moves, Exclusive
<1>2. /\ queue' \in Seq(Tasks) /\ DOMAIN pc' = Tasks
      /\ pc'[t] = where /\ \A u \in Tasks : u # t => pc'[u] = pc[u]
      /\ Mutex'
  BY <1>0, <1>1, MovesKeepsLock
<1>3. TypeOK'
  BY <1>0, <1>2, TasksAre DEF TypeOK, sessionVars, stopVars
<1>4. pc'["summary"] = "keep" => pc["summary"] = "keep" /\ t = "detail"
  BY <1>0, <1>2, TasksAre
<1>5. Footing'
  BY <1>0, <1>2, <1>4, TasksAre DEF Footing, Drifted, TypeOK, sessionVars
<1> QED
  BY <1>2, <1>3, <1>5 DEF DaemonInv

LEMMA GivesUpKeeps ==
  ASSUME DaemonInv, NEW t \in Pollers, NEW kind, GivesUp(t, kind)
  PROVE  DaemonInv'
<1>1. /\ Release(t)
      /\ Goto(t, "sleep") \/ Goto(t, "dead")
      /\ health' \in {"ok", "degraded"}
      /\ UNCHANGED pulled \/ (t = "summary" /\ pulled' = None)
      /\ UNCHANGED <<dev, sessionVars, state, detailed, detail_port, snmp, stopVars>>
  BY DEF GivesUp, Degraded, DaemonInv, TypeOK
<1>2. faults' \in 0..MaxFaults
  BY HappensType DEF GivesUp, DaemonInv
<1>3. detailed' \subseteq Ports /\ detail_port' \in Ports
  BY <1>1 DEF DaemonInv, TypeOK
<1> QED
  BY <1>1, <1>2, <1>3, RoundEnds

LEMMA HealthyType ==
  ASSUME DaemonInv, NEW t, Healthy(t)
  PROVE  /\ Goto(t, "sleep") \/ Goto(t, "dead")
         /\ health' \in {"ok", "degraded"} /\ faults' \in 0..MaxFaults
BY HappensType DEF Healthy, DaemonInv, TypeOK

LEMMA PollersKeep ==
  ASSUME DaemonInv, SummaryLoop \/ DetailLoop
  PROVE  DaemonInv'
<1>0. TypeOK /\ Mutex /\ Footing
  BY DEF DaemonInv
<1>1. ASSUME NEW t \in Pollers, NEW where, Wake(t, where),
             <<t, where>> \in {<<"summary", "pull">>, <<"detail", "detail">>}
      PROVE  DaemonInv'
  <2>1. t \in Tasks /\ t \notin Sessions /\ Moves(t, where)
    BY <1>1, TasksAre DEF Wake, Moves, Exclusive, Tasks
  <2>2. /\ queue' \in Seq(Tasks) /\ DOMAIN pc' = Tasks
        /\ pc'[t] = where /\ \A u \in Tasks : u # t => pc'[u] = pc[u]
        /\ Mutex'
    BY <1>0, <2>1, MovesKeepsLock
  <2>3. UNCHANGED <<dev, pulled, sessionVars, state, pollVars, stopVars, faults>>
    BY <1>1 DEF Wake
  <2>4. TypeOK'
    BY <1>0, <1>1, <2>2, <2>3, TasksAre DEF TypeOK, sessionVars, pollVars, stopVars
  <2>5. Footing'
    BY <1>0, <1>1, <2>2, <2>3, TasksAre DEF Footing, Drifted, TypeOK, sessionVars
  <2> QED
    BY <2>2, <2>4, <2>5 DEF DaemonInv
<1>2. ASSUME NEW where \in {"keep", "metrics"}, Goto("summary", where), Holds("summary"),
             where = "keep" => pulled' = dev /\ UNCHANGED state,
             where = "metrics" => pc["summary"] = "keep" /\ state' = pulled /\ pulled' = None,
             UNCHANGED <<dev, queue, sessionVars, pollVars, stopVars, faults>>
      PROVE  DaemonInv'
  <2>1. "summary" \in Tasks /\ Moves("summary", where)
    BY <1>2, TasksAre DEF Moves
  <2>2. /\ queue' \in Seq(Tasks) /\ DOMAIN pc' = Tasks
        /\ pc'["summary"] = where /\ \A u \in Tasks : u # "summary" => pc'[u] = pc[u]
        /\ Mutex'
    BY <1>0, <2>1, MovesKeepsLock
  <2>3. /\ state' \in Snapshot /\ state'.version >= state.version
        /\ state'.version <= dev.version
        /\ state.version \in Nat /\ state'.version \in Nat /\ dev.version \in Nat
    BY <1>0, <1>2 DEF TypeOK, Footing, Snapshot
  <2>4. pulled' \in Snapshot \cup {None}
    BY <1>0, <1>2 DEF TypeOK
  <2>5. TypeOK'
    BY <1>0, <1>2, <2>2, <2>3, <2>4, TasksAre DEF TypeOK, sessionVars, pollVars, stopVars
  <2>6. ASSUME NEW s \in Sessions
        PROVE  /\ pc'[s] # "off" => running'[s] # None /\ candidate'[s] # None
               /\ running'[s] # None => running'[s].version <= state'.version
               /\ pc'[s] = "write" => ~Drifted(s)'
    <3>1. pc'[s] = pc[s] /\ UNCHANGED <<running, candidate, request, dev>>
      BY <1>2, <2>2, TasksAre DEF sessionVars
    <3>2. running[s] # None => running[s].version \in Nat
      BY <1>0 DEF TypeOK, Snapshot
    <3> QED
      BY <1>0, <2>3, <3>1, <3>2 DEF Footing, Drifted
  <2>7. where = "keep" => pulled' # None /\ state'.version <= pulled'.version
    BY <1>0, <1>2, NoneIsApart DEF TypeOK, Footing
  <2>8. Footing'
    BY <1>2, <2>2, <2>3, <2>6, <2>7 DEF Footing
  <2> QED
    BY <2>2, <2>5, <2>8 DEF DaemonInv
<1>3. ASSUME Pull PROVE DaemonInv'
  BY <1>2, <1>3, GivesUpKeeps DEF Pull, Pollers, pollVars
<1>4. ASSUME Keep PROVE DaemonInv'
  BY <1>2, <1>4, GivesUpKeeps DEF Keep, Pollers, pollVars
<1>5. ASSUME Metrics PROVE DaemonInv'
  <2>1. CASE GivesUp("summary", "switch")
    BY <2>1, GivesUpKeeps DEF Pollers
  <2>2. CASE ~GivesUp("summary", "switch")
    <3>1. /\ Release("summary") /\ detailed' = detailed /\ snmp' = state
          /\ Healthy("summary")
          /\ UNCHANGED <<dev, pulled, sessionVars, state, detail_port, stopVars>>
      BY <1>5, <2>2 DEF Metrics, KeptDetails, UpdateSnmp
    <3>2. detailed' \subseteq Ports /\ detail_port' \in Ports
      BY <1>0, <3>1 DEF TypeOK
    <3> QED
      BY <3>1, <3>2, HealthyType, RoundEnds DEF Pollers
  <2> QED
    BY <2>1, <2>2
<1>6. ASSUME Detail PROVE DaemonInv'
  <2>1. CASE GivesUp("detail", "switch")
    BY <2>1, GivesUpKeeps DEF Pollers
  <2>2. CASE ~GivesUp("detail", "switch")
    <3>1. /\ Release("detail") /\ detailed' = detailed \cup {detail_port}
          /\ detail_port' = NextPort /\ snmp' = state /\ Healthy("detail")
          /\ UNCHANGED <<dev, pulled, sessionVars, state, stopVars>>
      BY <1>6, <2>2 DEF Detail, UpdateSnmp
    <3>2. detailed' \subseteq Ports /\ detail_port' \in Ports
      BY <1>0, <3>1, PortsAre DEF TypeOK
    <3> QED
      BY <3>1, <3>2, HealthyType, RoundEnds DEF Pollers
  <2> QED
    BY <2>1, <2>2
<1> QED
  <2>1. "summary" \in Pollers /\ "detail" \in Pollers
    BY DEF Pollers
  <2> QED
    BY <1>1, <1>3, <1>4, <1>5, <1>6, <2>1 DEF SummaryLoop, DetailLoop

LEMMA AroundKeeps ==
  ASSUME DaemonInv, StopPollers \/ CloseClient \/ Outside \/ UNCHANGED vars
  PROVE  DaemonInv'
<1>0. TypeOK /\ Mutex /\ Footing
  BY DEF DaemonInv
<1>1. ASSUME StopPollers PROVE DaemonInv'
  <2>1. /\ stopped' = TRUE
        /\ pc' = [t \in Tasks |-> IF t \in Pollers THEN "dead" ELSE pc[t]]
        /\ queue' = Without(Without(queue, "summary"), "detail")
        /\ pulled' = None /\ faults' \in 0..MaxFaults
        /\ UNCHANGED <<dev, sessionVars, state, pollVars, closed>>
    BY <1>0, <1>1, HappensType DEF StopPollers
  <2>2. stopped' \in BOOLEAN
    BY <2>1, Zenon
  <2>3. /\ queue' \in Seq(Tasks)
        /\ \A s \in Sessions : Holds(s) => Holds(s)'
    <3> DEFINE q == Without(queue, "summary")
    <3>1. /\ q \in Seq(Tasks)
          /\ queue # <<>> /\ Head(queue) # "summary" => q # <<>> /\ Head(q) = Head(queue)
      BY <1>0, WithoutType DEF TypeOK
    <3> HIDE DEF q
    <3>2. /\ Without(q, "detail") \in Seq(Tasks)
          /\ q # <<>> /\ Head(q) # "detail" =>
               Without(q, "detail") # <<>> /\ Head(Without(q, "detail")) = Head(q)
      BY <3>1, WithoutType
    <3>3. queue' = Without(q, "detail")
      BY <2>1 DEF q
    <3> QED
      BY <3>1, <3>2, <3>3, TasksAre DEF Holds
  <2>4. /\ DOMAIN pc' = Tasks /\ pc'["summary"] = "dead" /\ pc'["detail"] = "dead"
        /\ \A s \in Sessions : pc'[s] = pc[s]
    BY <2>1, TasksAre DEF Pollers
  <2>5. TypeOK'
    BY <1>0, <2>1, <2>2, <2>3, <2>4 DEF TypeOK, sessionVars, pollVars
  <2>6. Mutex'
    BY <1>0, <2>3, <2>4, TasksAre DEF Mutex, Exclusive
  <2>7. Footing'
    BY <1>0, <2>1, <2>4 DEF Footing, Drifted, sessionVars
  <2> QED
    BY <2>5, <2>6, <2>7 DEF DaemonInv
<1>2. ASSUME CloseClient PROVE DaemonInv'
  <2>1. closed' = TRUE
        /\ UNCHANGED <<dev, queue, pc, pulled, sessionVars, state, pollVars, stopped, faults>>
    BY <1>2 DEF CloseClient
  <2>2. closed' \in BOOLEAN
    BY <2>1, Zenon
  <2>3. TypeOK'
    BY <1>0, <2>1, <2>2 DEF TypeOK, sessionVars, pollVars
  <2>4. Mutex' /\ Footing'
    BY <1>0, <2>1 DEF Mutex, Holds, Footing, Drifted, sessionVars
  <2> QED
    BY <2>3, <2>4 DEF DaemonInv
<1>3. ASSUME Outside PROVE DaemonInv'
  <2>1. /\ faults' \in 0..MaxFaults /\ \A s \in Sessions : pc[s] # "write"
        /\ UNCHANGED <<queue, pc, pulled, sessionVars, state, pollVars, stopVars>>
    BY <1>0, <1>3, HappensType DEF Outside, Undisturbed
  <2>2. dev' \in Snapshot /\ dev'.version >= dev.version
    BY <1>0, <1>3, ChangedType DEF Outside
  <2>3. TypeOK' /\ Mutex'
    BY <1>0, <2>1, <2>2 DEF TypeOK, Mutex, Holds, sessionVars, pollVars, stopVars
  <2>4. Footing'
    BY <1>0, <2>1, <2>2 DEF Footing, TypeOK, Snapshot, sessionVars
  <2> QED
    BY <2>3, <2>4 DEF DaemonInv
<1>4. ASSUME UNCHANGED vars PROVE DaemonInv'
  BY <1>0, <1>4 DEF DaemonInv, TypeOK, Mutex, Holds, Footing, Drifted, vars, sessionVars, pollVars,
     stopVars
<1> QED
  BY <1>1, <1>2, <1>3, <1>4

LEMMA DaemonStep == DaemonInv /\ [Next]_vars => DaemonInv'
BY CommandKeeps, ServeKeeps, CancelKeeps, PollersKeep, AroundKeeps DEF Next

LEMMA DaemonInvariant == Spec => []DaemonInv
BY InitInv, DaemonStep, PTL DEF Spec

(* At most one task is between a read of the switch and the use of what it *)
(* read, which is what io_lock is for.                                     *)
OneAtATime == \A t, u \in Tasks : pc[t] \in Exclusive /\ pc[u] \in Exclusive => t = u

(* Every variable of the daemon keeps its type, the queue of the lock      *)
(* included, and tasks that use what they have read do so one at a time.   *)
THEOREM DaemonTypeCorrect == Spec => [](TypeOK /\ OneAtATime)
<1>1. DaemonInv => TypeOK /\ OneAtATime
  BY OneHolder DEF DaemonInv, Mutex, OneAtATime
<1> QED
  BY <1>1, DaemonInvariant, PTL

(* No session is ever ahead of daemon.state: one that connects next starts *)
(* from no older a state than any session has.                             *)
THEOREM DaemonIsUpToDate == Spec => []StateNotBehindSessions
<1>1. DaemonInv => StateNotBehindSessions
  <2>1. DaemonInv => \A s \in Sessions : running[s] # None =>
           running[s].version \in Nat /\ state.version \in Nat
                                      /\ running[s].version <= state.version
    BY DEF DaemonInv, TypeOK, Footing, Snapshot
  <2> QED
    BY <2>1 DEF StateNotBehindSessions
<1> QED
  BY <1>1, DaemonInvariant, PTL

----------------------------------------------------------------------------
(* What a step may never do. *)

(* Whoever stores a state in daemon.state has just read it, or has held    *)
(* the lock since.                                                         *)
LEMMA StateStep ==
  ASSUME DaemonInv, [Next]_vars
  PROVE  state' = state \/ state' = dev \/ (pc["summary"] = "keep" /\ state' = pulled)
<1>1. ASSUME NEW s \in Sessions, Command(s) PROVE state' = state
  BY <1>1 DEF Command, Connect, Disconnect, Edit, Abort, AskCommit, AskSave, Ask
<1>2. ASSUME NEW s \in Sessions, Serve(s) PROVE state' = state \/ state' = dev
  BY <1>2 DEF Serve, Compare, Write, Result, Save, Refuse, Deliver, DaemonFollows
<1>3. ASSUME NEW s \in Sessions, Cancel(s) PROVE state' = state
  BY <1>3 DEF Cancel
<1>4. ASSUME SummaryLoop \/ DetailLoop
      PROVE  state' = state \/ (pc["summary"] = "keep" /\ state' = pulled)
  BY <1>4 DEF SummaryLoop, DetailLoop, Wake, Pull, Keep, Metrics, Detail, GivesUp
<1>5. ASSUME StopPollers \/ CloseClient \/ Outside \/ UNCHANGED vars PROVE state' = state
  BY <1>5 DEF StopPollers, CloseClient, Outside, vars
<1> QED
  BY <1>1, <1>2, <1>3, <1>4, <1>5 DEF Next

(* daemon.state never goes back to an older state of the switch, however   *)
(* the commits of the sessions and the summary loop interleave.            *)
THEOREM StateGoesForward == Spec => StateNeverRegresses
<1>1. DaemonInv /\ [Next]_vars => state'.version >= state.version
  <2> SUFFICES ASSUME DaemonInv, [Next]_vars PROVE state'.version >= state.version
    OBVIOUS
  <2>1. state' = state \/ state' = dev \/ (pc["summary"] = "keep" /\ state' = pulled)
    BY StateStep
  <2>2. state.version \in Nat /\ dev.version \in Nat /\ state.version <= dev.version
    BY DEF DaemonInv, TypeOK, Footing, Snapshot
  <2>3. pc["summary"] = "keep" => pulled.version \in Nat /\ state.version <= pulled.version
    BY DEF DaemonInv, TypeOK, Footing, Snapshot
  <2> QED
    BY <2>1, <2>2, <2>3
<1> QED
  BY <1>1, DaemonInvariant, PTL DEF Spec, StateNeverRegresses

(* Once the daemon has detail counters of a port it goes on having some,   *)
(* though every summary replaces the metrics as a whole.                   *)
THEOREM DetailsAreKept == Spec => DetailsKept
<1>1. [Next]_vars => detailed \subseteq detailed'
  <2> SUFFICES ASSUME [Next]_vars PROVE detailed \subseteq detailed'
    OBVIOUS
  <2>1. ASSUME NEW s \in Sessions, Command(s) \/ Serve(s) \/ Cancel(s)
        PROVE  UNCHANGED detailed
    BY <2>1 DEF Command, Connect, Disconnect, Edit, Abort, AskCommit, AskSave, Ask,
       Serve, Compare, Write, Result, Save, Cancel, pollVars
  <2>2. ASSUME SummaryLoop \/ DetailLoop PROVE detailed \subseteq detailed'
    BY <2>2 DEF SummaryLoop, DetailLoop, Wake, Pull, Keep, Metrics, KeptDetails, Detail, GivesUp,
       pollVars
  <2>3. ASSUME StopPollers \/ CloseClient \/ Outside \/ UNCHANGED vars PROVE UNCHANGED detailed
    BY <2>3 DEF StopPollers, CloseClient, Outside, vars, pollVars
  <2> QED
    BY <2>1, <2>2, <2>3 DEF Next
<1> QED
  BY <1>1, PTL DEF Spec, DetailsKept

----------------------------------------------------------------------------
(* The daemon implements SharedSwitch. *)

Wants == [s \in Sessions |-> Pending(s)]
Same(u) == pc'[u] = pc[u] /\ running'[u] = running[u] /\ request'[u] = request[u]

(* What one session does shows in what that session wants. *)
LEMMA OneWants ==
  ASSUME NEW s \in Sessions, \A u \in Sessions : u # s => Same(u)
  PROVE  /\ Wants' = [Wants EXCEPT ![s] = Pending(s)']
         /\ Pending(s)' = Pending(s) => Wants' = Wants
BY DEF Wants, Pending, Same

LEMMA NothingWanted ==
  ASSUME \A u \in Sessions : Same(u)
  PROVE  Wants' = Wants
BY DEF Wants, Pending, Same

LEMMA PendingIs ==
  ASSUME DaemonInv, NEW s \in Sessions, pc[s] \in {"commit", "write"}
  PROVE  /\ Pending(s) \in [base : Configs, force : BOOLEAN] /\ Pending(s) # None
         /\ Pending(s).base = running[s].config /\ Pending(s).force = request[s].force
<1>1. running[s].config \in Configs
  BY DEF DaemonInv, TypeOK, Footing, Snapshot
<1>2. request[s].force \in BOOLEAN
  BY DEF DaemonInv, TypeOK, Options
<1> QED
  BY <1>1, <1>2, NoneIsApart DEF Pending

(* A session whose call ends has its change turned down, or carried out on *)
(* the configuration it was made from.                                     *)
LEMMA CallEnds ==
  ASSUME DaemonInv, NEW s \in Sessions, Written(s), pc'[s] \notin {"commit", "write"},
         pc[s] \notin {"off", "idle"}, \A u \in Sessions : u # s => Same(u)
  PROVE  [Shared!Next]_<<dev.config, Wants>>
<1>1. dev' \in Snapshot /\ dev'.config \in Configs
  BY WrittenType DEF Snapshot
<1>2. Pending(s)' = None
  BY DEF Pending
<1>3. CASE pc[s] \in {"commit", "write"}
  <2>1. Wants' = [Wants EXCEPT ![s] = None] /\ Wants[s] = Pending(s) /\ Wants[s] # None
    BY <1>2, <1>3, OneWants, PendingIs DEF Wants
  <2>2. CASE UNCHANGED dev
    BY <2>1, <2>2 DEF Shared!Next, Shared!TurnDown, Wants
  <2>3. CASE pc[s] = "write"
    <3>1. Wants[s].force \/ Wants[s].base = dev.config
      BY <1>3, <2>1, <2>3, PendingIs DEF DaemonInv, Footing, Drifted
    <3> QED
      BY <1>1, <2>1, <3>1 DEF Shared!Next, Shared!CarryOut, Wants
  <2> QED
    BY <2>2, <2>3 DEF Written
<1>4. CASE pc[s] \notin {"commit", "write"}
  <2>1. UNCHANGED dev /\ Wants' = Wants
    BY <1>2, <1>4, OneWants DEF Written, Pending
  <2> QED
    BY <2>1
<1> QED
  BY <1>3, <1>4

LEMMA SessionFrame ==
  ASSUME DaemonInv, NEW s \in Sessions, Command(s) \/ Serve(s) \/ Cancel(s)
  PROVE  \A u \in Sessions : u # s => Same(u)
<1>1. \E where : pc' = pc \/ Goto(s, where)
  BY DEF Command, Connect, Disconnect, Edit, Abort, AskCommit, AskSave, Ask, Serve, Compare, Write,
     Result, Save, Refuse, Deliver, Answer, Cancel
<1>2. \/ running' = running
      \/ \E r : running' = [running EXCEPT ![s] = r]
  BY DEF Command, Connect, Disconnect, Edit, Abort, AskCommit, AskSave, Ask, Serve, Compare, Write,
     Result, Save, Refuse, Deliver, Cancel
<1>3. \/ request' = request
      \/ \E r : request' = [request EXCEPT ![s] = r]
  BY DEF Command, Connect, Disconnect, Edit, Abort, AskCommit, AskSave, Ask, Serve, Compare, Write,
     Result, Save, Refuse, Deliver, Answer, Cancel
<1>4. DOMAIN pc = Tasks /\ DOMAIN running = Sessions /\ DOMAIN request = Sessions
      /\ Sessions \subseteq Tasks
  BY DEF DaemonInv, TypeOK, Tasks
<1> QED
  BY <1>1, <1>2, <1>3, <1>4 DEF Goto, Same

LEMMA CommandImplements ==
  ASSUME DaemonInv, NEW s \in Sessions, Command(s)
  PROVE  [Shared!Next]_<<dev.config, Wants>>
<1>0. UNCHANGED dev /\ DOMAIN pc = Tasks /\ s \in Tasks /\ pc[s] \in {"off", "idle"}
  BY DEF Command, Connect, Disconnect, Edit, Abort, AskCommit, AskSave, Ask, DaemonInv, TypeOK,
     Tasks
<1>1. /\ Wants' = [Wants EXCEPT ![s] = Pending(s)']
      /\ Pending(s)' = Pending(s) => Wants' = Wants
  BY SessionFrame, OneWants
<1>2. CASE pc'[s] # "commit"
  <2>1. pc'[s] # "write"
    BY <1>0 DEF Command, Connect, Disconnect, Edit, Abort, AskCommit, AskSave, Ask, Goto
  <2>2. Pending(s) = None /\ Pending(s)' = None
    BY <1>0, <1>2, <2>1 DEF Pending
  <2> QED
    BY <1>0, <1>1, <2>2
<1>3. CASE pc'[s] = "commit"
  <2>1. DaemonInv'
    BY CommandKeeps
  <2>2. Pending(s)' \in [base : Configs, force : BOOLEAN]
    <3>1. running'[s].config \in Configs /\ request'[s].force \in BOOLEAN
      BY <1>3, <2>1 DEF DaemonInv, TypeOK, Footing, Snapshot, Options
    <3> QED
      BY <1>3, <3>1 DEF Pending
  <2>3. Wants[s] = None
    BY <1>0 DEF Wants, Pending
  <2> QED
    BY <1>0, <1>1, <2>2, <2>3 DEF Shared!Next, Shared!HandIn, Shared!Request, Wants
<1> QED
  BY <1>2, <1>3

LEMMA ServeImplements ==
  ASSUME DaemonInv, NEW s \in Sessions, Serve(s) \/ Cancel(s)
  PROVE  [Shared!Next]_<<dev.config, Wants>>
<1>0. DOMAIN pc = Tasks /\ s \in Tasks /\ pc[s] \notin {"off", "idle"}
      /\ \A u \in Sessions : u # s => Same(u)
  BY SessionFrame DEF Serve, Compare, Write, Result, Save, Cancel, DaemonInv, TypeOK, Tasks
<1>1. Written(s)
  <2>1. CASE Write(s)
    <3>1. candidate[s] \in Configs
      BY <2>1 DEF Write, DaemonInv, TypeOK, Footing
    <3> QED
      BY <2>1, <3>1 DEF Write, Written
  <2> QED
    BY <2>1 DEF Serve, Compare, Result, Save, Cancel, Written
<1>2. CASE pc'[s] = "write"
  <2>1. pc[s] = "commit" /\ UNCHANGED <<dev, running, request>>
    BY <1>0, <1>2 DEF Serve, Compare, Write, Result, Save, Refuse, Deliver, Answer, Cancel, Goto
  <2>2. Pending(s)' = Pending(s)
    BY <1>2, <2>1 DEF Pending
  <2> QED
    BY <1>0, <2>1, <2>2, OneWants
<1>3. CASE pc'[s] # "write"
  <2>1. pc'[s] # "commit"
    BY <1>0 DEF Serve, Compare, Write, Result, Save, Refuse, Deliver, Answer, Cancel, Goto
  <2> QED
    BY <1>0, <1>1, <1>3, <2>1, CallEnds
<1> QED
  BY <1>2, <1>3

LEMMA AroundImplements ==
  ASSUME DaemonInv,
         SummaryLoop \/ DetailLoop \/ StopPollers \/ CloseClient \/ Outside \/ UNCHANGED vars
  PROVE  [Shared!Next]_<<dev.config, Wants>>
<1>1. UNCHANGED <<running, request>>
  BY DEF SummaryLoop, DetailLoop, Wake, Pull, Keep, Metrics, Detail, GivesUp, StopPollers,
     CloseClient, Outside, vars, sessionVars
<1>2. \A u \in Sessions : pc'[u] = pc[u]
  <2>1. DOMAIN pc = Tasks
    BY DEF DaemonInv, TypeOK
  <2>2. CASE \E t \in Pollers : \E where : Goto(t, where)
    BY <2>1, <2>2, TasksAre DEF Goto, Pollers
  <2>3. CASE StopPollers \/ UNCHANGED pc
    BY <2>3, TasksAre DEF StopPollers, Pollers
  <2>4. "summary" \in Pollers /\ "detail" \in Pollers
    BY DEF Pollers
  <2> QED
    BY <2>2, <2>3, <2>4 DEF SummaryLoop, DetailLoop, Wake, Pull, Keep, Metrics, Detail, GivesUp,
       Healthy, Degraded, CloseClient, Outside, vars
<1>3. Wants' = Wants
  BY <1>1, <1>2, NothingWanted DEF Same
<1>4. CASE UNCHANGED dev
  BY <1>3, <1>4
<1>5. CASE Outside
  <2>1. dev'.config \in Configs
    BY <1>5, ChangedType DEF Outside, DaemonInv
  <2> QED
    BY <1>3, <2>1 DEF Shared!Next, Shared!Others, Wants
<1> QED
  BY <1>4, <1>5 DEF SummaryLoop, DetailLoop, Wake, Pull, Keep, Metrics, Detail, GivesUp,
     StopPollers, CloseClient, vars

(* However the commits of any number of sessions interleave, with each     *)
(* other, with the pollers and with others, an unforced commit changes the *)
(* switch only from the configuration its candidate was made from: the     *)
(* drift check and the writes are one step under io_lock.                  *)
THEOREM DaemonImplementsSharedSwitch == Spec => ImplementsSharedSwitch
<1>1. Init => Shared!Init
  <2> SUFFICES ASSUME Init PROVE Shared!Init
    OBVIOUS
  <2>1. dev.config \in Configs
    BY DaemonConstants DEF Init, DaemonConstants
  <2>2. \A s \in Sessions : Pending(s) = None
    BY TasksAre DEF Init, Pending, Pollers
  <2> QED
    BY <2>1, <2>2 DEF Shared!Init
<1>2. DaemonInv /\ [Next]_vars => [Shared!Next]_<<dev.config, Wants>>
  BY CommandImplements, ServeImplements, AroundImplements DEF Next
<1> QED
  BY <1>1, <1>2, DaemonInvariant, PTL DEF Spec, ImplementsSharedSwitch, Shared!Spec, Wants
=============================================================================
