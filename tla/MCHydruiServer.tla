--------------------------- MODULE MCHydruiServer ---------------------------
(* Instances of HydruiServer for TLC. *)
EXTENDS HydruiServer
=============================================================================
