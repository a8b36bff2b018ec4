---------------------------- MODULE SharedSwitch ----------------------------
(***************************************************************************)
(* What several command sessions may expect of one switch: a session hands *)
(* in a change together with the configuration it was made from, and the   *)
(* change is carried out only on a switch that still has that              *)
(* configuration, unless the session asked for force.  A change that fails *)
(* on the way may leave any configuration behind.  Others may change the   *)
(* switch between two of these steps.                                      *)
(***************************************************************************)
CONSTANTS Sessions, Configs, None

VARIABLES
  config,   \* the configuration of the switch
  wants     \* what each session has handed in and is not answered yet

Request == [base : Configs, force : BOOLEAN]

Init == config \in Configs /\ wants = [s \in Sessions |-> None]

HandIn(s) ==
  /\ wants[s] = None
  /\ \E r \in Request : wants' = [wants EXCEPT ![s] = r]
  /\ UNCHANGED config

CarryOut(s) ==
  /\ wants[s] # None
  /\ wants[s].force \/ wants[s].base = config
  /\ config' \in Configs
  /\ wants' = [wants EXCEPT ![s] = None]

TurnDown(s) ==
  /\ wants[s] # None
  /\ wants' = [wants EXCEPT ![s] = None]
  /\ UNCHANGED config

Others == config' \in Configs /\ UNCHANGED wants

Next == Others \/ \E s \in Sessions : HandIn(s) \/ CarryOut(s) \/ TurnDown(s)

Spec == Init /\ [][Next]_<<config, wants>>
=============================================================================
