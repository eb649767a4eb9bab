---------------------------- MODULE MCLifecycle ----------------------------
(* Instances of Lifecycle for TLC. *)
EXTENDS Lifecycle

\* Every platform; PGAS where the nodes are processes
MCBuilds == ({"DEFAULT", "OPTERON", "NIAGARA"} \X {FALSE}) \cup ({"XEON", "TILERA", "SCC"} \X BOOLEAN)
\* Nothing is left of earlier executions, or the flag of one node
MCLeftovers == {{}, {1}}
=============================================================================
