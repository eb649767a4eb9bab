------------------------------- MODULE MCPgas -------------------------------
(* Instances of Pgas for TLC. *)
EXTENDS Pgas

Spread == [a \in Accounts |-> a % 2]
Build(platform, cm) == [platform |-> platform, cm |-> cm]
MCBuilds == {Build("DEFAULT", "WHOLLY"), Build("XEON", "GREEDY"), Build("OPTERON", "WHOLLY"),
             Build("NIAGARA", "GREEDY"), Build("TILERA", "NOCM"), Build("SCC", "NOCM")}

\* A transfer, a check, and an increment with a store.  Node 3 has the lowest
\* priority at first, so that 1 and 2 can each win against it.
MCBodies == [p \in Apps |->
  CASE p = 1 -> {Transfer(0, 1, 1)}
    [] p = 2 -> {CheckAccs(1, 0)}
    [] OTHER -> {<<Transfer(1, 0, 1)[1], [op |-> "STORE", addr |-> 0, val |-> 5]>>}]
=============================================================================
