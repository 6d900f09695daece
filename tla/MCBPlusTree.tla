---------------------------- MODULE MCBPlusTree ----------------------------
(* A tree of small nodes; one of the keys is stored with two row ids. *)
EXTENDS BPlusTree

MCRidsOf == [k \in Keys |-> IF k = 2 THEN {2, 20} ELSE {k}]
MCRanges == {<<2, 4>>}

\* Bound of the run: a tree that did not get a frame is followed no further.
UntilStarved == ~starved
=============================================================================
