---------------------------- MODULE MCIndexSync ----------------------------
(***************************************************************************)
(* Finite instances of IndexSync.                                          *)
(***************************************************************************)
EXTENDS IndexSync, TLC

CONSTANTS a, w1, w2, f1, f2

Put(n)  == [path |-> n, present |-> TRUE]
Drop(n) == [path |-> n, present |-> FALSE]

\* A write and a delete; a write alone.
OneNote == {<<Put(a)>>, <<Drop(a)>>}
OnePut  == {<<Put(a)>>}

\* Read paths are interchangeable (used where only invariants are checked).
Interchangeable == Permutations(Flushers) \cup Permutations(Writers)
=============================================================================
