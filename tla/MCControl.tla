----------------------------- MODULE MCControl -----------------------------
(* Two configurations, one of them what a login page reads as.             *)
EXTENDS Control

CONSTANTS c1, c2

MCConfigs == {c1, c2}
=============================================================================
