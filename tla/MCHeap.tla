------------------------------- MODULE MCHeap -------------------------------
(* A heap of a few pages with room for two or three rows each; the third kind
   of row fits on no page. *)
EXTENDS Heap, TLC

MCTupleSize == [a |-> 1, ab |-> 2, long |-> 8]
Symmetry == Permutations(PageIds)
=============================================================================
