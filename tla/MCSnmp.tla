------------------------------- MODULE MCSnmp -------------------------------
(* Two ports and counters of one bit.                                      *)
EXTENDS Snmp
=============================================================================
