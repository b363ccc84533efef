------------------------------ MODULE MCSearchBar ------------------------------
(* An instance of SearchBar for TLC: the server finds a tag for one text.  *)
EXTENDS SearchBar

CONSTANTS t1, sys

MCFound == [t \in Text |-> IF t = t1 THEN {t1} ELSE {}]
===============================================================================
