---------------------------- MODULE MCWispClient ----------------------------
(* WispClient for TLC: its constants are numbers and model values. *)
EXTENDS WispClient
=============================================================================
