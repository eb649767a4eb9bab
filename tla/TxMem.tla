------------------------------- MODULE TxMem --------------------------------
(***************************************************************************)
(* Shared memory allocated and freed inside transactions: tm2c_mem.c, the  *)
(* allocator of tm2c_malloc.c, and where tm2c.h and tm2c.c call them.      *)
(*                                                                         *)
(* Every thread allocates from a region of its own, and keeps the blocks   *)
(* it frees in a ring of its own, of which it hands out the oldest as soon *)
(* as there are more than Reserve.  The ring is modelled by the blocks it  *)
(* still holds, oldest first; its length is tm2c_free_num, which wraps, so *)
(* a ring that fills up forgets them.  A transaction notes what it         *)
(* allocates and what it frees: a commit frees the latter, an abort the    *)
(* former.  The transactions are those of a linked structure: a block is   *)
(* linked in by the transaction that allocates it, and freed by one that   *)
(* unlinks it.  Their effect on the structure is atomic, which is what     *)
(* Tm2c shows of the words they load and store.                            *)
(***************************************************************************)
EXTENDS Naturals, SequencesExt

CONSTANTS
  Nodes,      \* application nodes
  Region,     \* bound: blocks in the region of a thread (shmem_init)
  RingMod,    \* entries of tm2c_free_list: 2^w for its w-bit indices
  Reserve,    \* blocks the ring keeps back
  MaxOps,     \* bound: blocks a transaction allocates and frees
  PlainMem    \* whether transactions that allocate are committed by TX_COMMIT as well

Blocks == Nodes \X (1 .. Region)

ASSUME MemAssumption ==
  /\ Region \in Nat /\ RingMod \in Nat \ {0} /\ Reserve \in Nat /\ MaxOps \in Nat
  /\ PlainMem \in BOOLEAN

VARIABLES
  run,        \* whether a transaction of the node is under way
  linked,     \* the blocks in the structure
  fresh,      \* blocks the attempt of the node links in when it commits ...
  cut,        \* ... and those it unlinks
  allocated,  \* mem_info->allocated_shmem, newest first
  freed,      \* mem_info->freed_shmem, newest first
  ring,       \* the blocks of tm2c_free_list, oldest first
  next        \* alloc_next, in blocks

tvars == <<run, linked, fresh, cut>>
infos == <<allocated, freed>>
vars == <<tvars, infos, ring, next>>

Init ==
  /\ run = [p \in Nodes |-> FALSE]
  /\ linked = {}
  /\ fresh = [p \in Nodes |-> {}]
  /\ cut = [p \in Nodes |-> {}]
  /\ allocated = [p \in Nodes |-> <<>>]
  /\ freed = [p \in Nodes |-> <<>>]
  /\ ring = [p \in Nodes |-> <<>>]
  /\ next = [p \in Nodes |-> 0]

-----------------------------------------------------------------------------
\* tm2c_shmalloc: b is the oldest block of the ring, or the next of the region.
Recycle(p, b) ==
  /\ Len(ring[p]) > Reserve /\ b = Head(ring[p])
  /\ ring' = [ring EXCEPT ![p] = Tail(@)]
  /\ UNCHANGED next
Extend(p, b) ==
  /\ Len(ring[p]) <= Reserve /\ next[p] < Region /\ b = <<p, next[p] + 1>>
  /\ next' = [next EXCEPT ![p] = @ + 1]
  /\ UNCHANGED ring

\* Mutant of ShfreeAll: the count of free blocks does not wrap with the ring.
ShfreeAllUncapped(p, list) == ring' = [ring EXCEPT ![p] = @ \o list]

\* tm2c_shfree of the blocks of a list, one after the other
ShfreeAll(p, list) ==
  LET all == ring[p] \o list
      kept == Len(all) % RingMod
  IN  ring' = [ring EXCEPT ![p] = SubSeq(all, Len(all) - kept + 1, Len(all))]

\* TX_START, and the retry after an abort
Begin(p) ==
  /\ ~run[p]
  /\ run' = [run EXCEPT ![p] = TRUE]
  /\ UNCHANGED <<linked, fresh, cut, infos, ring, next>>

MayDoMore(p) == run[p] /\ Cardinality(fresh[p]) + Cardinality(cut[p]) < MaxOps

\* TX_SHMALLOC: stm_shmalloc
Alloc(p) ==
  /\ MayDoMore(p)
  /\ \E b \in Blocks :
       /\ Recycle(p, b) \/ Extend(p, b)
       /\ allocated' = [allocated EXCEPT ![p] = <<b>> \o @]
       /\ fresh' = [fresh EXCEPT ![p] = @ \cup {b}]
  /\ UNCHANGED <<run, linked, cut, freed>>

\* TX_SHFREE: stm_shfree of a block the transaction unlinks
Free(p) ==
  /\ MayDoMore(p)
  /\ \E b \in linked \ cut[p] :
       /\ freed' = [freed EXCEPT ![p] = <<b>> \o @]
       /\ cut' = [cut EXCEPT ![p] = @ \cup {b}]
  /\ UNCHANGED <<run, linked, fresh, allocated, ring, next>>

\* The attempt is over; it can commit only if nobody else has unlinked what it unlinks.
Finish(p) ==
  /\ run[p]
  /\ run' = [run EXCEPT ![p] = FALSE]
  /\ fresh' = [fresh EXCEPT ![p] = {}]
  /\ cut' = [cut EXCEPT ![p] = {}]
TakeEffect(p) == cut[p] \subseteq linked /\ linked' = (linked \ cut[p]) \cup fresh[p]

\* Mutants of OnCommit: the list of allocated blocks is kept; the freed are not freed.
OnCommitKeep(p) ==
  /\ allocated' = allocated
  /\ freed' = [freed EXCEPT ![p] = <<>>]
  /\ ShfreeAll(p, freed[p])
OnCommitForget(p) ==
  /\ allocated' = [allocated EXCEPT ![p] = <<>>]
  /\ freed' = [freed EXCEPT ![p] = <<>>]
  /\ UNCHANGED ring

\* mem_info_on_commit
OnCommit(p) ==
  /\ allocated' = [allocated EXCEPT ![p] = <<>>]
  /\ freed' = [freed EXCEPT ![p] = <<>>]
  /\ ShfreeAll(p, freed[p])

\* mem_info_on_abort
OnAbort(p) ==
  /\ allocated' = [allocated EXCEPT ![p] = <<>>]
  /\ freed' = [freed EXCEPT ![p] = <<>>]
  /\ ShfreeAll(p, allocated[p])

\* TX_COMMIT_MEM
CommitMem(p) == Finish(p) /\ TakeEffect(p) /\ OnCommit(p) /\ UNCHANGED next

\* TX_COMMIT, the macro for transactions without memory management
Commit(p) ==
  /\ Finish(p) /\ TakeEffect(p)
  /\ PlainMem \/ (allocated[p] = <<>> /\ freed[p] = <<>>)
  /\ UNCHANGED <<infos, ring, next>>

\* tm2c_handle_abort
Abort(p) == Finish(p) /\ OnAbort(p) /\ UNCHANGED <<linked, next>>

Next == \E p \in Nodes :
          Begin(p) \/ Alloc(p) \/ Free(p) \/ CommitMem(p) \/ Commit(p) \/ Abort(p)

Spec == Init /\ [][Next]_vars

-----------------------------------------------------------------------------
(* What is checked. *)

\* The variables keep their types; a ring has no more blocks than it can count.
TypeOK ==
  /\ run \in [Nodes -> BOOLEAN]
  /\ linked \subseteq Blocks
  /\ fresh \in [Nodes -> SUBSET Blocks] /\ cut \in [Nodes -> SUBSET Blocks]
  /\ allocated \in [Nodes -> Seq(Blocks)] /\ freed \in [Nodes -> Seq(Blocks)]
  /\ ring \in [Nodes -> Seq(Blocks)] /\ \A p \in Nodes : Len(ring[p]) < RingMod
  /\ next \in [Nodes -> 0 .. Region]

\* Where b is: in the structure, owned by an attempt, in a ring or never handed out
Places(b) ==
  {<<"linked">> : x \in {b} \cap linked}
    \cup {<<"fresh", p>> : p \in {q \in Nodes : b \in fresh[q]}}
    \cup (UNION {{<<"free", p, i>> : i \in {j \in DOMAIN ring[p] : ring[p][j] = b}} : p \in Nodes})
    \cup {<<"region">> : x \in {b} \cap {c \in Blocks : c[2] > next[c[1]]}}

\* No block is handed out twice: memory that is linked, or belongs to an attempt,
\* is on no free list, through any sequence of commits, aborts and retries.
OneOwner == \A b \in Blocks : Cardinality(Places(b)) <= 1

\* No block is lost, unless a ring fills up: memory that an abort or a commit
\* frees can be handed out again.
LostByWrap ==
  [][\A b \in Blocks : (Places(b) # {} /\ Places(b)' = {}) =>
       \E p \in Nodes : Len(ring[p]) + Len(allocated[p]) + Len(freed[p]) >= RingMod]_vars
=============================================================================
