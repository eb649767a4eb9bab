----------------------------- MODULE MCClients -----------------------------
(***************************************************************************)
(* Instances of Clients for TLC.                                           *)
(***************************************************************************)
EXTENDS Clients

AllProgs == {"bank", "mr", "tm2", "tm3", "tm3_all", "tm4", "tm5", "tm6", "tm7", "tm8", "tm9"}

\* tm2 needs a second round to see the sums of two rounds mixed.
Twice == [g \in AllProgs |-> IF g \in {"tm2", "tm5"} THEN 2 ELSE 1]

\* Two letters and a byte that is none
ThreeBytes == <<1, 1, 2>>
=============================================================================
