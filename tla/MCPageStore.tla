----------------------------- MODULE MCPageStore -----------------------------
(* Small instances of PageStore for TLC. *)
EXTENDS PageStore

CONSTANTS f1, f2, f3, search, hydrus, virtual, d1

(* No file, one chunk, two chunks. *)
ShortLists == {<<>>, <<f1>>, <<f2, f1>>}
TwoLists == {<<>>, <<f2, f1>>}

(* Three chunks: the third may be loaded before the second. *)
LongList == {<<>>, <<f2, f1, f3>>}
=============================================================================
