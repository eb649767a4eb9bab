------------------------------- MODULE MCSsht -------------------------------
(***************************************************************************)
(* Instances of Ssht for TLC: all words of a small set share one bucket,   *)
(* so that slots are reused and the chain grows.                           *)
(***************************************************************************)
EXTENDS Ssht

OneBucket == [a \in Addrs |-> 0]
=============================================================================
