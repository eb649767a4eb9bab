------------------------------ MODULE MCIntSet ------------------------------
(***************************************************************************)
(* Instances of IntSet and IntSetPgas for TLC.                             *)
(***************************************************************************)
EXTENDS IntSetInv

\* Nothing tells two processes apart, nor two blocks.
Symmetry == Permutations(Procs) \cup Permutations(Spare)
=============================================================================
