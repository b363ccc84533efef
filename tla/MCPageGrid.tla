------------------------------ MODULE MCPageGrid ------------------------------
(* Instances of PageGrid for TLC: lists that start over shorter, in another *)
(* order, or with nothing.                                                  *)
EXTENDS PageGrid, TLC

CONSTANTS f1, f2, f3

PageLists == {<<>>, <<f1, f2, f3>>, <<f3, f1>>}
===============================================================================
