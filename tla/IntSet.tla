------------------------------- MODULE IntSet -------------------------------
(***************************************************************************)
(* The sorted list and the hash table of bmarks/microbench: linked nodes   *)
(* walked and changed in transactions, by the processes of the test        *)
(* programs (linkedlist/test.c, hashtable/test.c).                         *)
(*                                                                         *)
(* A node is a block of shared memory with val and nextp.  The pointers    *)
(* are loaded and stored transactionally; val, and both words of a node    *)
(* that is being built, are read and written directly, so a process that   *)
(* has lost its locks can look into a block that somebody else has freed.  *)
(* Of the transactions only the isolation that Tm2c shows is used: words   *)
(* that are loaded stay locked, a commit that wins a conflict takes the    *)
(* locks of the losers away (lost), and these notice at their next TX      *)
(* operation.                                                              *)
(***************************************************************************)
EXTENDS Integers, SequencesExt

CONSTANTS
  Procs,       \* application nodes
  KeyRange,       \* values are 0 .. KeyRange - 1
  NumBuckets,  \* maxhtlength; a list is a table of one bucket
  Spare,       \* bound: blocks there are for nodes
  Nil,         \* NULL
  Drivers,     \* the programs: "list", "hash", "api", "listpgas", "hashpgas"
  EarlyBuilds, \* the builds of the list: TRUE for one with EARLY_RELEASE
  Alternate,   \* test program option -A
  OnlyUpdates, \* test program option -u 100: nobody searches
  Initial,     \* initial size
  MaxOps       \* bound: operations of a process

Keys == 0 .. KeyRange - 1
ValMin == -1
ValMax == KeyRange
Buckets == 0 .. NumBuckets - 1
MinNode(b) == <<"min", b>>
MaxNode(b) == <<"max", b>>
Ends == {MinNode(b) : b \in Buckets} \cup {MaxNode(b) : b \in Buckets}
Blocks == Ends \cup Spare

ASSUME SetAssumption ==
  /\ KeyRange \in Nat \ {0} /\ NumBuckets \in Nat \ {0} /\ Initial \in 0 .. KeyRange
  /\ Drivers \subseteq {"list", "hash", "api", "listpgas", "hashpgas"}
  /\ {Alternate, OnlyUpdates} \cup EarlyBuilds \subseteq BOOLEAN
  /\ Nil \notin Blocks /\ Spare \cap Ends = {}
  /\ IsFiniteSet(Procs) /\ IsFiniteSet(Spare)

VARIABLES
  driver,  \* the program that runs
  early,   \* whether it is built with EARLY_RELEASE
  heap,    \* what is in the blocks
  free,    \* the blocks nobody has
  left,    \* values that are still to be inserted before the processes start
  call,    \* the operation a process is in
  tx,      \* its attempt: locals, read locks, write set
  mem,     \* mem_info of the process: blocks allocated and freed
  n,       \* the operations it has called
  ans,     \* what its last operation returned
  last,    \* local of test(): the value it has added and not removed, or -1
  redo     \* local of test(): the value a move has removed, or -1

vars == <<driver, early, heap, free, left, call, tx, mem, n, ans, last, redo>>

NoCall == [name |-> "none", k |-> 0, k2 |-> 0]
Op(name, k) == [name |-> name, k |-> k, k2 |-> 0]
Updates == {"add", "remove", "move_naive", "move"}

\* addr = val % maxhtlength
Bucket(k) == k % NumBuckets

\* val2 is random, and increased until it is in another bucket: any value of the other buckets.
MoveCalls == {c \in [name : {"move_naive", "move"}, k : Keys, k2 : Keys] : Bucket(c.k2) # Bucket(c.k)}
RollbackCalls == [name : {"rollback"}, k : Keys, k2 : Keys]
Snapshot == Op("snapshot", 0)
Calls == [name : {"contains", "add", "remove"}, k : Keys, k2 : {0}]
           \cup (IF NumBuckets > 1 THEN MoveCalls ELSE {}) \cup RollbackCalls \cup {Snapshot}

Blank == [val |-> 0, next |-> Nil]

\* Locals of an attempt that is about to load the pointer of block a
At(a) == [pc |-> "load", leg |-> 1, prev |-> a, next |-> Nil, prev1 |-> Nil, next1 |-> Nil,
          word |-> Blank, sum |-> 0, res |-> 0, reads |-> <<>>, ws |-> <<>>, lost |-> FALSE]
NoTx == [At(Nil) EXCEPT !.pc = "idle"]
NoMem == [new |-> {}, gone |-> {}]

-----------------------------------------------------------------------------
\* set_new: a list of two nodes
SetNew(b) ==
  [a \in {MinNode(b), MaxNode(b)} |->
     IF a = MinNode(b) THEN [val |-> ValMin, next |-> MaxNode(b)] ELSE [val |-> ValMax, next |-> Nil]]

\* ht_new: one list to a bucket
HtNew == [a \in Ends |-> SetNew(a[2])[a]]

Init ==
  /\ driver \in Drivers
  /\ early \in EarlyBuilds /\ (early => driver = "list")
  /\ heap = [a \in Blocks |-> IF a \in Ends THEN HtNew[a] ELSE Blank]
  /\ free = Spare
  /\ left = Initial
  /\ call = [p \in Procs |-> NoCall]
  /\ tx = [p \in Procs |-> NoTx]
  /\ mem = [p \in Procs |-> NoMem]
  /\ n = [p \in Procs |-> 0]
  /\ ans = [p \in Procs |-> 0]
  /\ last = [p \in Procs |-> -1]
  /\ redo = [p \in Procs |-> -1]

\* The blocks from a on, following nextp
From(a) ==
  LET reach[s \in SUBSET Blocks] ==
        LET more == s \cup ({heap[b].next : b \in s} \ {Nil})
        IN  IF more = s THEN s ELSE reach[more]
  IN  reach[{a}]

Inner(b) == From(MinNode(b)) \ {MinNode(b), MaxNode(b)}

\* set_size and ht_size: nodes between the ends
SetSize(b) == Cardinality(Inner(b))
HtSize == FoldSet(LAMBDA b, sum : sum + SetSize(b), 0, Buckets)

\* The values in the table
Members == {heap[a].val : a \in UNION {Inner(b) : b \in Buckets}}

\* new_node: the block is filled before anybody else can reach it.
NewNode(b, k, next) == [heap EXCEPT ![b] = [val |-> k, next |-> next]]

\* Mutant of SetSeqAdd: one value too many.
SetSeqAddMore(k) ==
  /\ left >= 0
  /\ k \notin Members
  /\ \E a \in From(MinNode(Bucket(k))), b \in free :
       /\ heap[a].val < k /\ heap[heap[a].next].val > k
       /\ heap' = [NewNode(b, k, heap[a].next) EXCEPT ![a].next = b]
       /\ free' = free \ {b}
       /\ left' = left - 1

\* set_seq_add, by the process that fills the set; values already there do not count.
SetSeqAdd(k) ==
  /\ left > 0
  /\ k \notin Members
  /\ \E a \in From(MinNode(Bucket(k))), b \in free :
       /\ heap[a].val < k /\ heap[heap[a].next].val > k
       /\ heap' = [NewNode(b, k, heap[a].next) EXCEPT ![a].next = b]
       /\ free' = free \ {b}
       /\ left' = left - 1

\* "Populate set" of the test programs
Populate ==
  /\ \E k \in Keys : SetSeqAdd(k)
  /\ UNCHANGED <<driver, early, call, tx, mem, n, ans, last, redo>>

-----------------------------------------------------------------------------
(* The test programs *)

Each(names) == [name : names, k : Keys, k2 : {0}]

\* What test() of linkedlist/test.c does next
ListTest(p) ==
  (IF OnlyUpdates THEN {} ELSE Each({"contains"})) \cup
  (IF last[p] < 0 THEN Each({"add"})
   ELSE IF Alternate THEN {Op("remove", last[p])} ELSE Each({"remove"}))

\* What test() of hashtable/test.c does next; a move starts from last.
HashTest(p) ==
  IF redo[p] >= 0 THEN {Op("add", redo[p])}
  ELSE ListTest(p) \cup {Snapshot}
         \cup {c \in MoveCalls : c.name = "move_naive" /\ last[p] \in {-1, c.k}}

\* Any operation of the interface, by one process that is alone
ApiTest(p) == IF \A q \in Procs \ {p} : call[q] = NoCall THEN Calls ELSE {}

\* What test() of linkedlistpgas/test.c and hashtablepgas/test.c does next: no moves, no snapshots
ListPgasTest(p) == ListTest(p)
HashPgasTest(p) == ListTest(p)

MayCall(p) ==
  CASE driver = "list" -> ListTest(p)
    [] driver = "listpgas" -> ListPgasTest(p)
    [] driver = "hash" -> HashTest(p)
    [] driver = "hashpgas" -> HashPgasTest(p)
    [] driver = "api" -> ApiTest(p)

\* Mutant of ListLast: the value counts as removed whether it was there or not.
ListLastAlways(p, c, r) ==
  CASE c.name = "add" /\ r = 1 -> c.k
    [] c.name = "remove" -> -1
    [] OTHER -> last[p]

\* last after operation c has returned r, in linkedlist/test.c
ListLast(p, c, r) ==
  CASE c.name = "add" /\ r = 1 -> c.k
    [] c.name = "remove" /\ (r = 1 \/ Alternate) -> -1
    [] OTHER -> last[p]

\* ... and in hashtable/test.c
HashLast(p, c, r) ==
  CASE c.name = "add" /\ r = 1 -> c.k
    [] c.name = "remove" /\ r = 1 -> -1
    [] c.name = "move_naive" /\ r # 2 -> -1
    [] OTHER -> last[p]

Answer(p, r) ==
  /\ ans' = [ans EXCEPT ![p] = r]
  /\ last' = [last EXCEPT ![p] = CASE driver \in {"list", "listpgas"} -> ListLast(p, call[p], r)
                                   [] driver \in {"hash", "hashpgas"} -> HashLast(p, call[p], r)
                                   [] OTHER -> @]
  /\ redo' = [redo EXCEPT ![p] = IF driver = "hash" /\ call[p].name = "move_naive" /\ r = 2
                                 THEN call[p].k ELSE -1]

\* Where an operation starts: the head of its bucket
\* (in the PGAS build with the word of the head, by an action of IntSetPgas)
Start(c) == [At(MinNode(IF c.name = "snapshot" THEN 0 ELSE Bucket(c.k))) EXCEPT
               !.pc = IF driver \in {"listpgas", "hashpgas"} THEN "first" ELSE "load"]

\* The call of an operation, and TX_START
Begin(p) ==
  /\ left = 0 /\ call[p] = NoCall /\ n[p] < MaxOps
  /\ n' = [n EXCEPT ![p] = @ + 1]
  /\ \E c \in MayCall(p) : /\ call' = [call EXCEPT ![p] = c]
                           /\ tx' = [tx EXCEPT ![p] = Start(c)]
  /\ ans' = [ans EXCEPT ![p] = 0]
  /\ UNCHANGED <<driver, early, heap, free, left, mem, last, redo>>

-----------------------------------------------------------------------------
(* Transactions *)

\* The pointer of block a as p sees it: the oldest entry of its write set, or memory
Word(p, a) ==
  LET own == SelectInSeq(tx[p].ws, LAMBDA e : e.addr = a)
  IN  IF own # 0 THEN tx[p].ws[own].next ELSE heap[a].next

Owns(p, a) == \E i \in DOMAIN tx[p].ws : tx[p].ws[i].addr = a

\* TX_LOAD of the pointer of a; it fails when the locks are lost.
MayLoad(p, a) == Owns(p, a) \/ ~tx[p].lost
Locking(p, a) == IF Owns(p, a) THEN tx[p].reads ELSE Append(tx[p].reads, a)

\* TX_RRLS: a search keeps the last lock, an update the last two.
Release(p, reads) ==
  LET kept == IF call[p].name = "contains" THEN 1 ELSE 2
  IN  IF early /\ call[p].name \in {"contains", "add", "remove"} /\ Len(reads) > kept
      THEN SubSeq(reads, Len(reads) - kept + 1, Len(reads)) ELSE reads

Entry(a, next) == [addr |-> a, next |-> next]

\* TX_LOAD(&prev->nextp), and the early release of an older pointer
Load(p) ==
  /\ tx[p].pc = "load" /\ MayLoad(p, tx[p].prev)
  /\ tx' = [tx EXCEPT ![p].next = Word(p, tx[p].prev),
                      ![p].reads = Release(p, Locking(p, tx[p].prev)),
                      ![p].pc = "look"]
  /\ UNCHANGED <<driver, early, heap, free, left, call, mem, n, ans, last, redo>>

Target(p) == IF tx[p].leg = 1 THEN call[p].k ELSE call[p].k2

\* v = next->val, read from memory
Value(p) == heap[tx[p].next].val
Found(p) == Value(p) = Target(p)

\* The loop: the value is smaller, walk on.
Walk(p) ==
  /\ tx[p].pc = "look" /\ call[p].name # "snapshot" /\ Value(p) < Target(p)
  /\ tx' = [tx EXCEPT ![p].prev = tx[p].next, ![p].pc = "load"]
  /\ UNCHANGED <<driver, early, heap, free, left, call, mem, n, ans, last, redo>>

\* The loop has ended in an operation of this name.
Stopped(p, name) == tx[p].pc = "look" /\ call[p].name = name /\ Value(p) >= Target(p)

\* The transaction is at its TX_COMMIT with result r.
Done(t, r) == [t EXCEPT !.res = r, !.pc = "commit"]

\* TX_SHMALLOC and new_node, then TX_STORE of the pointer to it into prev
Insert(p, prev, next, t) ==
  \E b \in free :
    /\ heap' = NewNode(b, Target(p), next)
    /\ free' = free \ {b}
    /\ mem' = [mem EXCEPT ![p].new = @ \cup {b}]
    /\ tx' = [tx EXCEPT ![p] = [t EXCEPT !.ws = Append(@, Entry(prev, b))]]

\* TX_SHFREE
Freed(p, a) == mem' = [mem EXCEPT ![p].gone = @ \cup {a}]

SetContains(p) ==
  /\ Stopped(p, "contains")
  /\ tx' = [tx EXCEPT ![p] = Done(@, IF Found(p) THEN 1 ELSE 0)]
  /\ UNCHANGED <<heap, free, mem>>

SetAdd(p) ==
  /\ Stopped(p, "add")
  /\ \/ Found(p) /\ tx' = [tx EXCEPT ![p] = Done(@, 0)] /\ UNCHANGED <<heap, free, mem>>
     \/ ~Found(p) /\ Insert(p, tx[p].prev, tx[p].next, Done(tx[p], 1))

\* Mutant of SetRemove: the pointer of the removed node is read without a lock.
SetRemoveUnlocked(p) ==
  /\ Stopped(p, "remove")
  /\ \/ Found(p) /\ Freed(p, tx[p].next)
        /\ tx' = [tx EXCEPT ![p] = Done([@ EXCEPT !.ws = <<Entry(tx[p].prev, heap[tx[p].next].next)>>], 1)]
     \/ ~Found(p) /\ tx' = [tx EXCEPT ![p] = Done(@, 0)] /\ UNCHANGED mem
  /\ UNCHANGED <<heap, free>>

\* next is loaded, prev made to point to what follows it, and next freed.
Unlink(p, prev, next, t) ==
  /\ MayLoad(p, next)
  /\ tx' = [tx EXCEPT ![p] = [t EXCEPT !.reads = Locking(p, next),
                                       !.ws = Append(@, Entry(prev, Word(p, next)))]]

SetRemove(p) ==
  /\ Stopped(p, "remove")
  /\ \/ Found(p) /\ Unlink(p, tx[p].prev, tx[p].next, Done(tx[p], 1)) /\ Freed(p, tx[p].next)
     \/ ~Found(p) /\ tx' = [tx EXCEPT ![p] = Done(@, 0)] /\ UNCHANGED mem
  /\ UNCHANGED <<heap, free>>

\* The second walk of a move, in the bucket of val2
SecondLeg(p) ==
  [tx[p] EXCEPT !.leg = 2, !.pc = "load", !.prev1 = tx[p].prev, !.next1 = tx[p].next,
                !.prev = MinNode(Bucket(call[p].k2)), !.next = Nil]

\* val1 is removed; then val2 is inserted unless it is there.
HtMoveNaive(p) ==
  /\ Stopped(p, "move_naive")
  /\ \/ tx[p].leg = 1 /\ Found(p)
        /\ Unlink(p, tx[p].prev, tx[p].next, SecondLeg(p)) /\ Freed(p, tx[p].next)
        /\ UNCHANGED <<heap, free>>
     \/ ~Found(p) /\ tx[p].leg = 2 /\ Insert(p, tx[p].prev, tx[p].next, Done(tx[p], 1))
     \/ (tx[p].leg = 2) = Found(p)
        /\ tx' = [tx EXCEPT ![p] = Done(@, IF Found(p) THEN 2 ELSE 0)] /\ UNCHANGED <<heap, free, mem>>

\* Both places are found first; nothing happens unless val1 is there and val2 is not.
HtMove(p) ==
  /\ Stopped(p, "move")
  /\ \/ tx[p].leg = 1 /\ Found(p)
        /\ tx' = [tx EXCEPT ![p] = SecondLeg(p)] /\ UNCHANGED <<heap, free, mem>>
     \/ tx[p].leg = 2 /\ ~Found(p) /\ MayLoad(p, tx[p].next1)
        /\ \E b \in free :
             /\ heap' = NewNode(b, call[p].k2, tx[p].next)
             /\ free' = free \ {b}
             /\ mem' = [mem EXCEPT ![p] = [new |-> @.new \cup {b}, gone |-> @.gone \cup {tx[p].next1}]]
             /\ tx' = [tx EXCEPT ![p] = Done([@ EXCEPT
                  !.reads = Locking(p, tx[p].next1),
                  !.ws = @ \o <<Entry(tx[p].prev1, Word(p, tx[p].next1)), Entry(tx[p].prev, b)>>], 1)]
     \/ (tx[p].leg = 2) = Found(p)
        /\ tx' = [tx EXCEPT ![p] = Done(@, 0)] /\ UNCHANGED <<heap, free, mem>>

\* val1 is removed, and linked in again if val2 is found.
HtMoveOrRollback(p) ==
  /\ Stopped(p, "rollback")
  /\ \/ tx[p].leg = 1 /\ Found(p)
        /\ Unlink(p, tx[p].prev, tx[p].next, SecondLeg(p)) /\ UNCHANGED <<heap, free, mem>>
     \/ tx[p].leg = 2 /\ ~Found(p)
        /\ \E b \in free :
             /\ heap' = NewNode(b, call[p].k2, tx[p].next)
             /\ free' = free \ {b}
             /\ mem' = [mem EXCEPT ![p] = [new |-> @.new \cup {b}, gone |-> @.gone \cup {tx[p].next1}]]
             /\ tx' = [tx EXCEPT ![p] = Done([@ EXCEPT !.ws = Append(@, Entry(tx[p].prev, b))], 1)]
     \/ tx[p].leg = 2 /\ Found(p)
        /\ tx' = [tx EXCEPT ![p] = Done([@ EXCEPT !.ws = Append(@, Entry(tx[p].prev1, tx[p].next1))], 1)]
        /\ UNCHANGED <<heap, free, mem>>
     \/ tx[p].leg = 1 /\ ~Found(p)
        /\ tx' = [tx EXCEPT ![p] = Done(@, 0)] /\ UNCHANGED <<heap, free, mem>>

\* One node of the sum: its nextp and val are read from memory.
HtSnapshot(p) ==
  /\ tx[p].pc = "look" /\ call[p].name = "snapshot"
  /\ LET t == tx[p]
         node == heap[t.next]
     IN  tx' = [tx EXCEPT ![p] =
            IF node.next # Nil THEN [t EXCEPT !.sum = @ + node.val, !.prev = t.next, !.pc = "load"]
            ELSE IF t.leg < NumBuckets THEN [t EXCEPT !.leg = @ + 1, !.prev = MinNode(t.leg), !.pc = "load"]
            ELSE Done(t, t.sum)]
  /\ UNCHANGED <<heap, free, mem>>

Operation(p) ==
  /\ \/ SetContains(p) \/ SetAdd(p) \/ SetRemove(p)
     \/ HtMoveNaive(p) \/ HtMove(p) \/ HtMoveOrRollback(p) \/ HtSnapshot(p)
  /\ UNCHANGED <<driver, early, left, call, n, ans, last, redo>>

Written(p) == {tx[p].ws[i].addr : i \in DOMAIN tx[p].ws}
Read(p) == ToSet(tx[p].reads) \cup (IF tx[p].pc = "load" THEN {tx[p].prev} ELSE {})

\* write_set_persist: entries in order, so that the last one of a word stays
\* (an entry of the PGAS build has the whole node)
Persist(p) ==
  [a \in Blocks |-> IF a \in Written(p)
     THEN LET e == tx[p].ws[SelectLastInSeq(tx[p].ws, LAMBDA x : x.addr = a)]
          IN  [val |-> IF "val" \in DOMAIN e THEN e.val ELSE heap[a].val, next |-> e.next]
     ELSE heap[a]]

\* Mutant of FreesOnCommit: only a removal ends by TX_COMMIT_MEM.
FreesOnCommitRemove(p) == call[p].name = "remove"

\* TX_COMMIT_MEM, of the operations that allocate or free; the others end by TX_COMMIT.
FreesOnCommit(p) == call[p].name \in Updates

\* Mutant of TakeLocks: readers of a word that is written keep their locks.
TakeLocksOfWriters(p) ==
  [q \in Procs |-> IF q # p /\ Written(q) \cap Written(p) # {} THEN [tx[q] EXCEPT !.lost = TRUE]
                   ELSE IF q = p THEN NoTx ELSE tx[q]]

\* The write locks of p are won against those that have read its words.
TakeLocks(p) ==
  [q \in Procs |-> IF q = p THEN NoTx
                   ELSE IF ToSet(tx[q].reads) \cap Written(p) # {} THEN [tx[q] EXCEPT !.lost = TRUE]
                   ELSE tx[q]]

\* A block that is freed keeps its contents.  They do not matter (see LooksAtLinked) but in a
\* build with EARLY_RELEASE, and are left out of the state of the others.
Erased(h, blocks) == IF early THEN h ELSE [a \in Blocks |-> IF a \in blocks THEN Blank ELSE h[a]]

\* The commit: locks, write-back, memory of the transaction; the operation returns.
Commit(p) ==
  /\ tx[p].pc = "commit" /\ ~tx[p].lost
  /\ tx' = TakeLocks(p)
  /\ \/ /\ FreesOnCommit(p)
        /\ free' = free \cup mem[p].gone /\ mem' = [mem EXCEPT ![p] = NoMem]
        /\ heap' = Erased(Persist(p), mem[p].gone)
     \/ ~FreesOnCommit(p) /\ heap' = Persist(p) /\ UNCHANGED <<free, mem>>
  /\ Answer(p, tx[p].res)
  /\ call' = [call EXCEPT ![p] = NoCall]
  /\ UNCHANGED <<driver, early, left, n>>

\* A conflict with another transaction, which p may lose
Conflict(p) == \E q \in Procs \ {p} :
  Read(p) \cap Written(q) # {} \/ Written(p) \cap Read(q) # {}

\* tm2c_handle_abort, and TX_START again
Abort(p) ==
  /\ call[p] # NoCall /\ (tx[p].lost \/ Conflict(p))
  /\ free' = free \cup mem[p].new
  /\ heap' = Erased(heap, mem[p].new)
  /\ mem' = [mem EXCEPT ![p] = NoMem]
  /\ tx' = [tx EXCEPT ![p] = Start(call[p])]
  /\ UNCHANGED <<driver, early, left, call, n, ans, last, redo>>

\* The steps of the shared-memory build; those of the PGAS build are in IntSetPgas.
SharedNext ==
  Populate \/ \E p \in Procs : Begin(p) \/ Load(p) \/ Walk(p) \/ Operation(p) \/ Commit(p) \/ Abort(p)

-----------------------------------------------------------------------------
(* What is checked. *)

\* The variables keep their types.
TypeOK ==
  /\ heap \in [Blocks -> [val : Keys \cup {ValMin, ValMax}, next : Blocks \cup {Nil}]]
  /\ free \subseteq Spare /\ left \in 0 .. Initial
  /\ call \in [Procs -> Calls \cup {NoCall}]
  /\ \A p \in Procs : mem[p].new \cup mem[p].gone \subseteq Spare
  /\ last \in [Procs -> Keys \cup {-1}] /\ redo \in [Procs -> Keys \cup {-1}]

\* Every list is sorted, runs from its first node to its last and holds the values of
\* its bucket only: the check for list integrity of linkedlist/test.c, at every moment.
ListsIntact ==
  \A b \in Buckets :
    /\ MaxNode(b) \in From(MinNode(b))
    /\ \A a \in From(MinNode(b)) \ {MaxNode(b)} : heap[a].val < heap[heap[a].next].val
    /\ \A a \in Inner(b) : a \in Spare /\ Bucket(heap[a].val) = b

\* A block that can be reached is not free, and a block that is neither reachable nor free
\* belongs to an attempt: what is unlinked is freed, once, and what was never linked too.
BlocksAccounted ==
  LET linked == UNION {Inner(b) : b \in Buckets}
  IN  /\ linked \cap free = {}
      /\ \A a \in Spare \ (linked \cup free) : \E p \in Procs : a \in mem[p].new \cup mem[p].gone

\* A process that has its locks looks at linked nodes only, although it reads val
\* without a lock: next cannot be unlinked and freed, nor reused, by anybody else.
LooksAtLinked ==
  \A p \in Procs : (tx[p].pc = "look" /\ ~tx[p].lost) =>
    tx[p].next \in UNION {From(MinNode(b)) : b \in Buckets}

\* "to avoid size variations": without moves the table has its initial size and
\* one value more for every process that has one to remove.  (Not with EARLY_RELEASE: an update
\* keeps the locks of the last two pointers, prev and the one before it.  When that one is unlinked,
\* prev can be unlinked too, and what is then inserted behind prev is lost.)
SizeKept ==
  (driver \in {"list", "listpgas", "hashpgas"} /\ left = 0) => HtSize = Initial + Cardinality({p \in Procs : last[p] # -1})

Abstract == INSTANCE SetSpec WITH keys <- Members

\* The operations take effect on the set one at a time, with the results of a set.
ImplementsSet == Abstract!SSpec
=============================================================================
