------------------------------ MODULE SetSpec -------------------------------
(***************************************************************************)
(* What the lists and hash tables of bmarks/microbench promise: a set of   *)
(* integers, on which operations called by several processes take effect   *)
(* one at a time, between call and return.  IntSet, which walks linked     *)
(* nodes in transactions, implements it (IntSet!ImplementsSet).            *)
(***************************************************************************)
EXTENDS Integers, FiniteSetsExt

CONSTANTS Procs,   \* the processes that call
          Keys,    \* the integers
          Calls,   \* the operations they call, each [name, k, k2]
          NoCall

VARIABLES keys,    \* the set
          call,    \* the operation each process is in
          ans      \* what the last one returned to it

svars == <<keys, call, ans>>

Truth(b) == IF b THEN 1 ELSE 0
Without(k) == keys \ {k}

\* The set after operation c, and its result
After(c) ==
  CASE c.name = "add" -> keys \cup {c.k}
    [] c.name = "remove" -> Without(c.k)
    [] c.name = "move_naive" /\ c.k \in keys -> Without(c.k) \cup {c.k2}
    [] c.name = "move" /\ c.k \in keys /\ c.k2 \notin keys -> Without(c.k) \cup {c.k2}
    [] c.name = "rollback" /\ c.k \in keys ->
         IF c.k2 \in Without(c.k) THEN keys ELSE Without(c.k) \cup {c.k2}
    [] OTHER -> keys

Result(c) ==
  CASE c.name = "add" -> Truth(c.k \notin keys)
    [] c.name \in {"contains", "remove", "rollback"} -> Truth(c.k \in keys)
    [] c.name = "move_naive" -> IF c.k \in keys THEN IF c.k2 \in keys THEN 2 ELSE 1 ELSE 0
    [] c.name = "move" -> Truth(c.k \in keys /\ c.k2 \notin keys)
    [] OTHER -> SumSet(keys)

SInit == /\ keys = {}
         /\ call = [p \in Procs |-> NoCall]
         /\ ans = [p \in Procs |-> 0]

\* Before the processes start, one of them fills the set.
Fill == /\ \A p \in Procs : call[p] = NoCall
        /\ \E k \in Keys : keys' = keys \cup {k}
        /\ UNCHANGED <<call, ans>>

Call(p) == /\ call[p] = NoCall
           /\ \E c \in Calls : call' = [call EXCEPT ![p] = c]
           /\ ans' = [ans EXCEPT ![p] = 0]
           /\ UNCHANGED keys

Return(p) == /\ call[p] # NoCall
             /\ call' = [call EXCEPT ![p] = NoCall]
             /\ ans' = [ans EXCEPT ![p] = Result(call[p])]
             /\ keys' = After(call[p])

SNext == Fill \/ \E p \in Procs : Call(p) \/ Return(p)

SSpec == SInit /\ [][SNext]_svars
=============================================================================
