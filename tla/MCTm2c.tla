------------------------------- MODULE MCTm2c -------------------------------
(***************************************************************************)
(* Instances of Tm2c for TLC.  A body is written with the operations       *)
(* below; the sets of bodies are chosen so that the transactions conflict. *)
(***************************************************************************)
EXTENDS Tm2cInv

L(a) == [op |-> "LOAD", addr |-> a]
S(a) == [op |-> "STORE", addr |-> a]
X(a) == [op |-> "LOADSTORE", addr |-> a]
Commit(ops) == [ops |-> ops, pub |-> TRUE]
CommitNoPub(ops) == [ops |-> ops, pub |-> FALSE]

\* Words 1, 2, ... are spread over the DSL nodes as ADDR_TO_DSL_SEL=1 does.
Spread == [a \in Addrs |-> a % 2]

All(bs) == [p \in Apps |-> bs]

\* Two words read and written crosswise: write skew if isolation were lost
CrossBodies == All({Commit(<<L(1), S(2)>>), Commit(<<L(2), S(1)>>)})

\* The bank: transfer of two words by TX_LOAD_STORE, check of both
BankBodies == All({CommitNoPub(<<X(1), X(2)>>), CommitNoPub(<<X(2), X(1)>>),
                   Commit(<<L(1), L(2)>>)})

\* Read, write and read back the same word; two words in one commit
MixedBodies == All({Commit(<<L(1), S(1), L(1)>>), Commit(<<S(1), S(2)>>),
                    Commit(<<L(2), L(1)>>)})

=============================================================================
