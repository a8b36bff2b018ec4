------------------------------ MODULE MCDaemon ------------------------------
(* Small daemons: one or two sessions, two configurations, two ports.      *)
EXTENDS Daemon

CONSTANTS s1, s2, c1, c2

MCSessions == {s1, s2}
OneSession == {s1}
MCConfigs == {c1, c2}
(* Which of the two it is tells nothing. *)
FirstConfig == {c1}
=============================================================================
