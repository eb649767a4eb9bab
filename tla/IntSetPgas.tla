----------------------------- MODULE IntSetPgas -----------------------------
(***************************************************************************)
(* The list and the hash table of the PGAS build                           *)
(* (bmarks/microbench/linkedlistpgas, hashtablepgas), on the state of      *)
(* IntSet.  A node is one word, val and offset of the next node, in the    *)
(* memory of a DSL node.  Whole nodes are loaded and stored, so that val   *)
(* is protected by the lock of its node, a walk locks one node more than   *)
(* that of the shared build, and a new node is stored by the transaction.  *)
(***************************************************************************)
EXTENDS IntSet

WordEntry(a, word) == [addr |-> a, val |-> word.val, next |-> word.next]

\* TX_LOAD_NODE(prev, set->head)
LoadHead(p) ==
  /\ tx[p].pc = "first" /\ ~tx[p].lost
  /\ tx' = [tx EXCEPT ![p].word = heap[tx[p].prev], ![p].next = heap[tx[p].prev].next,
                      ![p].reads = Append(@, tx[p].prev), ![p].pc = "node"]
  /\ UNCHANGED <<driver, early, heap, free, left, call, mem, n, ans, last, redo>>

\* TX_LOAD_NODE(next, ND(prev.next)), and the loop: prev becomes next, or the walk stops.
LoadNode(p) ==
  /\ tx[p].pc = "node" /\ ~tx[p].lost
  /\ LET t == [tx[p] EXCEPT !.reads = Append(@, tx[p].next)]
         node == heap[t.next]
     IN  tx' = [tx EXCEPT ![p] =
            IF node.val < call[p].k
            THEN [t EXCEPT !.prev = t.next, !.word = node, !.next = node.next]
            ELSE [t EXCEPT !.next1 = node.next, !.sum = node.val, !.pc = "stop"]]
  /\ UNCHANGED <<driver, early, heap, free, left, call, mem, n, ans, last, redo>>

\* Where the walk has stopped: prev with its word, next, next.next (next1), next.val (sum)
Ended(p, name) == tx[p].pc = "stop" /\ call[p].name = name
Hit(p) == tx[p].sum = call[p].k
Finished(p, r, ws) == [Done(tx[p], r) EXCEPT !.ws = ws, !.next1 = Nil, !.sum = 0]

PgasContains(p) ==
  /\ Ended(p, "contains")
  /\ tx' = [tx EXCEPT ![p] = Finished(p, IF Hit(p) THEN 1 ELSE 0, <<>>)]
  /\ UNCHANGED <<free, mem>>

\* Mutant of PgasAdd: the new node is linked in without its next.
PgasAddCut(p) ==
  /\ Ended(p, "add")
  /\ \/ Hit(p) /\ tx' = [tx EXCEPT ![p] = Finished(p, 0, <<>>)] /\ UNCHANGED <<free, mem>>
     \/ ~Hit(p)
        /\ \E b \in free :
             /\ free' = free \ {b}
             /\ mem' = [mem EXCEPT ![p].new = @ \cup {b}]
             /\ tx' = [tx EXCEPT ![p] = Finished(p, 1,
                  <<WordEntry(b, [val |-> call[p].k, next |-> tx[p].next1]),
                    WordEntry(tx[p].prev, [tx[p].word EXCEPT !.next = b])>>)]

\* new_node stores the node, then prev is stored with its offset.
PgasAdd(p) ==
  /\ Ended(p, "add")
  /\ \/ Hit(p) /\ tx' = [tx EXCEPT ![p] = Finished(p, 0, <<>>)] /\ UNCHANGED <<free, mem>>
     \/ ~Hit(p)
        /\ \E b \in free :
             /\ free' = free \ {b}
             /\ mem' = [mem EXCEPT ![p].new = @ \cup {b}]
             /\ tx' = [tx EXCEPT ![p] = Finished(p, 1,
                  <<WordEntry(b, [val |-> call[p].k, next |-> tx[p].next]),
                    WordEntry(tx[p].prev, [tx[p].word EXCEPT !.next = b])>>)]

PgasRemove(p) ==
  /\ Ended(p, "remove")
  /\ \/ Hit(p) /\ Freed(p, tx[p].next)
        /\ tx' = [tx EXCEPT ![p] = Finished(p, 1,
                    <<WordEntry(tx[p].prev, [tx[p].word EXCEPT !.next = tx[p].next1])>>)]
     \/ ~Hit(p) /\ tx' = [tx EXCEPT ![p] = Finished(p, 0, <<>>)] /\ UNCHANGED mem
  /\ UNCHANGED free

PgasOperation(p) ==
  /\ PgasContains(p) \/ PgasAdd(p) \/ PgasRemove(p)
  /\ UNCHANGED <<driver, early, heap, left, call, n, ans, last, redo>>

Next == SharedNext \/ \E p \in Procs : LoadHead(p) \/ LoadNode(p) \/ PgasOperation(p)

Spec == Init /\ [][Next]_vars
=============================================================================
