--------------------------- MODULE MCIntrusiveList ---------------------------
(* Symmetry for the instances of IntrusiveList. *)
EXTENDS IntrusiveList, TLC

Interchangeable == Permutations(Objects)
=============================================================================
