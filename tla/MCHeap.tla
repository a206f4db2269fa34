------------------------------- MODULE MCHeap -------------------------------
(***************************************************************************)
(* A small heap: a table, a weak table, closures, an upvalue, a string.    *)
(***************************************************************************)
EXTENDS Heap

CONSTANTS t1, w, f1, f2, u1, c
=============================================================================
