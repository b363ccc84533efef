------------------------------ MODULE PageView ------------------------------
(***************************************************************************)
(* What the page view of the Hydrui client promises, whatever the loader   *)
(* does: one list of files, and metadata for some of its positions.  The   *)
(* view may start over with another list, fill in metadata of the list it  *)
(* shows, or keep only the files whose metadata it has.  It never shows    *)
(* metadata of another list, and never loses metadata of a list it keeps.  *)
(***************************************************************************)
EXTENDS Naturals

CONSTANT Key
VARIABLES page, list, shown

vars == <<page, list, shown>>

Init == page \in Key /\ list = <<>> /\ shown = <<>>

(* Another list, of the same page or of another one. *)
StartOver == page' \in Key /\ shown' = <<>>

(* Metadata of more of the list, each at the position of its file. *)
Fill ==
  /\ UNCHANGED <<page, list>>
  /\ DOMAIN shown \subseteq DOMAIN shown'
  /\ DOMAIN shown' \subseteq DOMAIN list
  /\ \A i \in DOMAIN shown' : shown'[i] = list[i]

(* The list becomes what was loaded of it, in the order it was loaded in. *)
KeepLoaded ==
  /\ page' = page
  /\ list' = shown'
  /\ \E at \in [DOMAIN shown' -> DOMAIN shown] :
       /\ \A j, k \in DOMAIN shown' : j < k => at[j] < at[k]
       /\ \A i \in DOMAIN shown : \E k \in DOMAIN shown' : at[k] = i
       /\ \A k \in DOMAIN shown' : shown'[k] = shown[at[k]]

Next == StartOver \/ Fill \/ KeepLoaded

Spec == Init /\ [][Next]_vars
=============================================================================
