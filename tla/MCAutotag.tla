------------------------------- MODULE MCAutotag -------------------------------
(* Instances of Autotag, and of the modals it is composed with, for TLC.   *)
EXTENDS Autotag, TLC

CONSTANTS f1, f2, t1, u1, n1, a

\* One of the files has a tag, a URL and a note.
OneFileOfTwo ==
  LET bare == [tags |-> [s \in Service |-> {}], urls |-> {}, notes |-> NoNotes]
  IN  [f \in File |->
        IF f # f1 THEN bare
        ELSE [tags |-> [s \in Service |-> {t1}], urls |-> {u1},
              notes |-> [NoNotes EXCEPT ![n1] = a]]]
===============================================================================
