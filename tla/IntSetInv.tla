------------------------------ MODULE IntSetInv ------------------------------
(***************************************************************************)
(* The inductive invariant behind the theorems about the lists (see        *)
(* IntSetProofs), for the test programs of the builds without              *)
(* EARLY_RELEASE: what an attempt that has its locks knows of the lists,   *)
(* who has which block, and what every attempt looks like.  Its parts are  *)
(* stated of a memory h, the blocks s[b] of the list of every bucket b,    *)
(* an attempt t at a call c, and the mem_info m of its process.            *)
(***************************************************************************)
EXTENDS IntSetPgas

(* The lists *)

Values == Keys \cup {ValMin, ValMax}
Pointers == Blocks \cup {Nil}
Nodes == [val : Values, next : Pointers]

\* The list of bucket b: linked from its first block to its last, in the order of the values,
\* with no value left out.
IsList(h, b, l) ==
  /\ l \subseteq Blocks /\ MinNode(b) \in l /\ MaxNode(b) \in l
  /\ \A a \in l \ {MinNode(b), MaxNode(b)} : a \in Spare /\ h[a].val \in Keys /\ Bucket(h[a].val) = b
  /\ \A a \in l \ {MaxNode(b)} : /\ h[a].next \in l /\ h[a].val < h[h[a].next].val
                                 /\ \A c \in l : h[c].val <= h[a].val \/ h[c].val >= h[h[a].next].val
  /\ \A a, c \in l : h[a].val = h[c].val => a = c

EndsKept(h) == \A b \in Buckets : h[MinNode(b)].val = ValMin /\ h[MaxNode(b)] = [val |-> ValMax, next |-> Nil]
Shape(h, s) == EndsKept(h) /\ \A b \in Buckets : IsList(h, b, s[b])

Lists == [b \in Buckets |-> From(MinNode(b))]
Linked(s, a) == \E b \in Buckets : a \in s[b]

\* Every block for nodes is linked, in the free blocks f, or allocated by one attempt.
Memory(s, f, m) ==
  /\ \A a \in Spare : Linked(s, a) \/ a \in f \/ \E p \in Procs : a \in m[p].new
  /\ \A a \in f : a \in Spare /\ ~Linked(s, a)
  /\ \A p \in Procs : \A a \in m[p].new :
       a \in Spare /\ ~Linked(s, a) /\ a \notin f /\ \A q \in Procs \ {p} : a \notin m[q].new

(* The attempts *)

Pgas == driver \in {"listpgas", "hashpgas"}
SecondLegOf(t, c) == c.name = "move_naive" /\ t.leg = 2
Walking(t) == t.pc \in {"first", "load", "look", "node", "stop"}
Quiet(t, m) == t.ws = <<>> /\ m = NoMem
Goal(t, c) == IF t.leg = 1 THEN c.k ELSE c.k2
Locks(t) == ToSet(t.reads)

Stores == [addr : Blocks, next : Blocks] \cup [addr : Blocks, val : Values, next : Pointers]
Attempts ==
  [pc : {"idle", "first", "load", "look", "node", "stop", "commit"}, leg : Nat \ {0},
   prev : Pointers, next : Pointers, prev1 : Pointers, next1 : Pointers,
   word : Nodes, sum : Int, res : Int, reads : Seq(Blocks), ws : Seq(Stores), lost : BOOLEAN]

\* What an attempt looks like, also one that has lost its locks (l values are still to be filled in)
Form(t, c, m, l) ==
  /\ (c = NoCall) = (t.pc = "idle")
  /\ c = NoCall => t = NoTx /\ m = NoMem
  /\ l > 0 => c = NoCall
  /\ c.name \in {"none", "contains", "add", "remove", "move_naive", "snapshot"}
  /\ c.name \in {"move_naive", "snapshot"} => driver = "hash"
  /\ t.pc \in {"first", "node", "stop"} => Pgas
  /\ t.pc \in {"load", "look"} => ~Pgas
  /\ Walking(t) /\ ~SecondLegOf(t, c) => Quiet(t, m)
  /\ c.name \in {"contains", "add", "remove"} => t.leg = 1
  /\ c.name = "move_naive" => t.leg \in {1, 2}
  /\ c.name = "snapshot" => t.leg <= NumBuckets
  /\ Walking(t) => t.prev \in Blocks
  /\ t.pc \in {"look", "node", "stop"} => t.next \in Blocks
  /\ t.pc \in {"load", "look"} => \A i \in DOMAIN t.ws : t.ws[i].next \in Blocks
  /\ t.pc = "stop" /\ t.sum \in Keys => t.next \in Spare

\* The locks, and the pointer that is about to be loaded, are on linked blocks; with a block the
\* attempt has the one before it.
Wanted(t) == Locks(t) \cup (IF t.pc = "load" THEN {t.prev} ELSE {})
Guarded(h, s, wanted, locks) ==
  /\ \A a \in wanted : Linked(s, a)
  /\ \A b \in Buckets : \A a \in s[b] : h[a].next \in wanted => a \in locks

\* prev is locked, and next the block after it: the place of value k.
Before(h, s, t, prev, k) == prev \in Locks(t) /\ prev \in s[Bucket(k)] /\ h[prev].val < k
Place(h, s, t, prev, next, k) == Before(h, s, t, prev, k) /\ h[prev].next = next /\ k <= h[next].val

\* prev is in the bucket that a snapshot has come to, and not its last block.
Summing(s, t) == t.prev \in s[t.leg - 1] \ {MaxNode(t.leg - 1)}

Position(h, s, t, c) ==
  LET k == Goal(t, c)
  IN  /\ t.pc = "first" => t.prev = MinNode(Bucket(k)) /\ t.reads = <<>>
      /\ t.pc = "load" /\ c.name # "snapshot" => t.prev \in s[Bucket(k)] /\ h[t.prev].val < k
      /\ t.pc = "load" /\ c.name = "snapshot" => Summing(s, t)
      /\ t.pc = "look" /\ c.name # "snapshot" => Before(h, s, t, t.prev, k) /\ t.next = h[t.prev].next
      /\ t.pc = "look" /\ c.name = "snapshot" => Summing(s, t) /\ t.next = h[t.prev].next /\ t.prev \in Locks(t)
      /\ t.pc \in {"node", "stop"} => /\ Before(h, s, t, t.prev, k)
                                      /\ t.word = h[t.prev] /\ t.next = t.word.next
      /\ t.pc = "stop" => /\ Place(h, s, t, t.prev, t.next, k) /\ t.next \in Locks(t)
                          /\ t.next1 = h[t.next].next /\ t.sum = h[t.next].val
      /\ t.pc = "commit" /\ c.name # "snapshot" => Place(h, s, t, t.prev, t.next, k)

\* The block at next has value k and is locked, with the one before it.
Unlinks(h, s, t, prev, next, k) == Place(h, s, t, prev, next, k) /\ h[next].val = k /\ next \in Locks(t)

\* A store of the pointer of block a, in the PGAS build with its value
EntryOf(h, a, next) == IF Pgas THEN [addr |-> a, val |-> h[a].val, next |-> next] ELSE Entry(a, next)

WritesUnlink(h, t, m, prev, next) ==
  t.ws = <<EntryOf(h, prev, h[next].next)>> /\ m = [new |-> {}, gone |-> {next}]

\* The new block is filled when it is allocated, in the PGAS build when the transaction commits.
Filled(h, t, b, k) == ~Pgas => h[b] = [val |-> k, next |-> t.next]
WritesLink(h, t, m, k) == \E b \in m.new :
  /\ m = [new |-> {b}, gone |-> {}] /\ Filled(h, t, b, k)
  /\ t.ws = IF Pgas THEN <<WordEntry(b, [val |-> k, next |-> t.next]), EntryOf(h, t.prev, b)>>
                    ELSE <<EntryOf(h, t.prev, b)>>
WritesMove(h, t, m, k) == \E b \in m.new :
  /\ m = [new |-> {b}, gone |-> {t.next1}] /\ Filled(h, t, b, k)
  /\ t.ws = <<Entry(t.prev1, h[t.next1].next), Entry(t.prev, b)>>

\* What a transaction that is at its commit writes and returns, of each operation
Ready(h, t, c, m) ==
  LET found == h[t.next].val = Goal(t, c)
  IN  /\ c.name = "contains" => Quiet(t, m) /\ t.res = (IF found THEN 1 ELSE 0)
      /\ c.name = "add" => IF found THEN Quiet(t, m) /\ t.res = 0 ELSE WritesLink(h, t, m, c.k) /\ t.res = 1
      /\ c.name = "remove" => IF found THEN WritesUnlink(h, t, m, t.prev, t.next) /\ t.next \in Locks(t) /\ t.res = 1
                                       ELSE Quiet(t, m) /\ t.res = 0
      /\ c.name = "move_naive" /\ t.leg = 1 => ~found /\ Quiet(t, m) /\ t.res = 0
      /\ SecondLegOf(t, c) => IF found THEN WritesUnlink(h, t, m, t.prev1, t.next1) /\ t.res = 2
                                       ELSE WritesMove(h, t, m, c.k2) /\ t.res = 1
      /\ c.name = "snapshot" => Quiet(t, m)

Writes(h, s, t, c, m) ==
  /\ SecondLegOf(t, c) => Unlinks(h, s, t, t.prev1, t.next1, c.k)
  /\ SecondLegOf(t, c) /\ Walking(t) => WritesUnlink(h, t, m, t.prev1, t.next1)
  /\ t.pc = "commit" => Ready(h, t, c, m)

\* What holds of an attempt as long as it has its locks
Live(h, s, t, c, m) == /\ Guarded(h, s, Wanted(t), Locks(t))
                       /\ Position(h, s, t, c) /\ Writes(h, s, t, c, m)

Setting == ~early /\ driver \in Drivers \ {"api"}

Typed == /\ TypeOK /\ Setting /\ tx \in [Procs -> Attempts]
         /\ mem \in [Procs -> [new : SUBSET Spare, gone : SUBSET Spare]]
         /\ ans \in [Procs -> Int]

IInv == /\ Typed
        /\ Shape(heap, Lists) /\ Memory(Lists, free, mem)
        /\ \A p \in Procs : Form(tx[p], call[p], mem[p], left)
        /\ \A p \in Procs : call[p] # NoCall /\ ~tx[p].lost => Live(heap, Lists, tx[p], call[p], mem[p])

(* The snapshots *)

Has(h, s, k) == \E a \in s[Bucket(k)] : h[a].val = k

\* The walk of a snapshot has come past value v of bucket b.
Reached(h, t, b, v) == b < t.leg - 1 \/ (b = t.leg - 1 /\ v <= h[t.prev].val)

\* Every block the walk has come past is locked, and the sum is that of the values in these blocks;
\* at the commit it is that of all values.
Counted(h, s, t) ==
  /\ t.prev \in s[t.leg - 1] /\ t.prev \in Wanted(t)
  /\ \A b \in Buckets : \A a \in s[b] \ {MaxNode(b), t.prev} : Reached(h, t, b, h[a].val) => a \in Locks(t)
  /\ t.sum = SumSet({k \in Keys : Has(h, s, k) /\ Reached(h, t, Bucket(k), k)})
  /\ t.pc = "commit" => /\ t.leg = NumBuckets /\ h[t.prev].next = MaxNode(t.leg - 1)
                        /\ t.prev \in Locks(t) /\ t.res = t.sum

CountInv == \A p \in Procs : call[p].name = "snapshot" /\ ~tx[p].lost => Counted(heap, Lists, tx[p])

(* The size *)

\* The processes that have a value to remove
Holders(l) == {p \in Procs : l[p] # -1}

\* In the programs without moves (c are the calls, l the locals last, K the values, m are still to be
\* filled in): a process adds when it has no value to remove, and removes when it has one, with -A
\* that one, which is in the set and nobody else's.
Sized(c, l, K, m) ==
  /\ \A p \in Procs : /\ c[p].name = "add" => p \notin Holders(l)
                      /\ c[p].name = "remove" => p \in Holders(l) /\ (Alternate => c[p].k = l[p])
  /\ Alternate => \A p \in Holders(l) : l[p] \in K /\ \A q \in Holders(l) \ {p} : l[q] # l[p]
  /\ Cardinality(K) + m = Initial + Cardinality(Holders(l))

SizeInv == driver \in {"list", "listpgas", "hashpgas"} => Sized(call, last, Members, left)
=============================================================================
