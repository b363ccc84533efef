---------------------------- MODULE MCSearchStore ----------------------------
(* Small instances of SearchStore for TLC. *)
EXTENDS SearchStore

CONSTANTS q1, q2, noTags
=============================================================================
