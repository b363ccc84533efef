---------------------------- MODULE MCWispServer ----------------------------
(* WispServer for TLC: its constants are numbers and model values. *)
EXTENDS WispServer
=============================================================================
