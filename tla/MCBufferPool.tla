---------------------------- MODULE MCBufferPool ----------------------------
(* A small instance of the buffer pool, with symmetric clients. *)
EXTENDS BufferPool, TLC

Symmetry == Permutations(Handles)

\* Bound of the run: a spoiled pool is followed only while every page is still
\* blank; what becomes of its frames and lists does not depend on the words.
SpoiledOnlyBlank ==
  spoiled => /\ \A p \in Pages : latest[p] = Blank /\ disk[p] = Blank
             /\ \A f \in Frames : frame[f].data = Blank
=============================================================================
