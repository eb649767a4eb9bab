---------------------------- MODULE SerialMemory ----------------------------
(***************************************************************************)
(* What TM2C promises to its clients: a memory on which transactions take  *)
(* effect one at a time.  A transaction that commits has read the values   *)
(* of the memory at one instant and replaces, at the same instant, the     *)
(* words it wrote.  Tm2c, the protocol of the application and DSL nodes,   *)
(* implements this specification (Tm2c!Serial).                            *)
(***************************************************************************)
EXTENDS Naturals

CONSTANTS Apps,     \* the application nodes
          Addrs,    \* the words of the shared memory
          Values,   \* what a word can hold
          InitVal   \* what every word holds at the start

VARIABLES amem,     \* the memory
          last      \* the last transaction each node committed

avars == <<amem, last>>

\* A committed transaction: its rank at its node, what it read, what it wrote.
Transaction == [n : Nat, reads : SUBSET (Addrs \X Values),
                writes : SUBSET (Addrs \X Values)]

NoTransaction == [n |-> 0, reads |-> {}, writes |-> {}]

\* Every word t wrote takes the value t gave it, the others keep theirs.
Written(t, m) ==
  [a \in Addrs |-> IF \E w \in t.writes : w[1] = a
                   THEN (CHOOSE w \in t.writes : w[1] = a)[2]
                   ELSE m[a]]

AInit == /\ amem = [a \in Addrs |-> InitVal]
         /\ last = [p \in Apps |-> NoTransaction]

\* Node p commits the transaction last'[p]: all it read is current.
ACommit(p) ==
  /\ last' = [last EXCEPT ![p] = last'[p]]
  /\ last'[p].n = last[p].n + 1
  /\ \A r \in last'[p].reads : amem[r[1]] = r[2]
  /\ amem' = Written(last'[p], amem)

ANext == \E p \in Apps : ACommit(p)

ASpec == AInit /\ [][ANext]_avars
=============================================================================
