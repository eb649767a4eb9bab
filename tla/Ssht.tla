-------------------------------- MODULE Ssht --------------------------------
(***************************************************************************)
(* The hash table in which one DSL node keeps its locks: ssht.c, ssht.h,   *)
(* ssht_log.h and tm2c_dsl_ht.c, and the entries of the builds with        *)
(* SSHT_BIT_OPTS, rw_entry_ssht.h.                                         *)
(*                                                                         *)
(* A bucket is a chain of slots, PerLine of them to a cache line.  A slot  *)
(* holds the address it stands for, or 0 when it is free, the readers as a *)
(* byte per node and a one-byte count of them, and the writer.  In a build *)
(* with bits the readers are a bitmap and there is no count.  For every    *)
(* node there is a log of the slots it locked; to release a node is to     *)
(* walk its log.  The environment is dsl_service together with the nodes:  *)
(* any node asks for any lock its transaction has not got, and releases    *)
(* everything when its attempt ends.  Who wins a conflict is not decided   *)
(* here but by the priorities: either side may.                            *)
(***************************************************************************)
EXTENDS Naturals, SequencesExt

CONSTANTS
  Nodes,        \* application nodes
  Addrs,        \* words, as numbers above 0
  Buckets,      \* buckets of the table
  Bucket,       \* the bucket of a word: tm2c_ht_get_hash(address) & NUM_OF_BUCKETS_2
  PerLine,      \* ADDR_PER_CL
  NrMod,        \* 2^w for the w-bit reader count
  NoWriter,     \* SSHT_NO_WRITER
  NumUes,       \* NUM_UES: the nodes have the ids below it
  Restores,     \* whether a transaction may lock for writing a word it has locked for writing
  Early,        \* the words whose locks the nodes release early: TX_RRLS, TX_WRLS
  BitOpts,      \* the builds: TRUE with SSHT_BIT_OPTS
  MaxLog        \* bound: log entries of a node, with SSHT_BIT_OPTS

ASSUME TableAssumption ==
  /\ Addrs \subseteq Nat \ {0} /\ Bucket \in [Addrs -> Buckets]
  /\ PerLine \in Nat \ {0} /\ NrMod \in Nat \ {0, 1}
  /\ NumUes \in Nat /\ Nodes \subseteq 0 .. NumUes - 1 /\ NoWriter \notin Nodes
  /\ Restores \in BOOLEAN /\ Early \subseteq Addrs
  /\ BitOpts \subseteq BOOLEAN /\ MaxLog \in Nat

VARIABLES
  bits,     \* whether the build has SSHT_BIT_OPTS
  slots,    \* the chain of slots of each bucket
  log,      \* for each node, the slots it locked: logs
  loaded,   \* the words of Early the attempt of a node was granted to load ...
  stored    \* ... and all it was granted to store, as the node sees it

vars == <<bits, slots, log, loaded, stored>>

Slot == [addr : Addrs \cup {0}, nr : 0 .. NrMod - 1,
         reader : SUBSET Nodes, writer : Nodes \cup {NoWriter}]
FreshSlot == [addr |-> 0, nr |-> 0, reader |-> {}, writer |-> NoWriter]
FreshLine == [i \in 1 .. PerLine |-> FreshSlot]

\* The table as the operations pass it along: the slots and the logs.
Table == [slots |-> slots, log |-> log]

Init == /\ bits \in BitOpts
        /\ slots = [b \in Buckets |-> FreshLine]
        /\ log = [p \in Nodes |-> <<>>]
        /\ loaded = [p \in Nodes |-> {}]
        /\ stored = [p \in Nodes |-> {}]

-----------------------------------------------------------------------------
\* The first slot of a chain that holds a; 0 if there is none.
SlotOf(chain, a) == SelectInSeq(chain, LAMBDA e : e.addr = a)

At(s) == slots[s[1]][s[2]]
Has(a) == SlotOf(slots[Bucket[a]], a) # 0

\* Where bucket_insert_r and bucket_insert_w put a: the slot it has, or the
\* first free one, in a new line when all slots of the chain are taken.
Place(a) ==
  <<Bucket[a], LET chain == slots[Bucket[a]]
                   free == SlotOf(chain, 0)
               IN  IF Has(a) THEN SlotOf(chain, a)
                   ELSE IF free # 0 THEN free ELSE Len(chain) + 1>>
WithPlace(a) ==
  IF Place(a)[2] \in DOMAIN slots[Bucket[a]] THEN Table
  ELSE [Table EXCEPT !.slots[Bucket[a]] = @ \o FreshLine]

\* Mutant of Logged: the index of the slot before the one locked.
LoggedOffByOne(t, p, s) == [t EXCEPT !.log[p] = Append(@, <<s[1], s[2] - 1>>)]

\* ssht_log_set_insert
Logged(t, p, s) == [t EXCEPT !.log[p] = Append(@, s)]

\* The entry without and with reader p.  The count goes down whether p was counted or not.
\* (With bits there is none: nr stays 0.)
LessReader(e, p) == [e EXCEPT !.reader = @ \ {p}, !.nr = IF bits THEN 0 ELSE (@ + NrMod - 1) % NrMod]
PlusReader(e, p) == [e EXCEPT !.reader = @ \cup {p}, !.nr = IF bits THEN 0 ELSE (@ + 1) % NrMod]

\* rw_entry_ssht_is_empty, or nr = 0 and no writer
Unused(e) == e.writer = NoWriter /\ (IF bits THEN e.reader = {} ELSE e.nr = 0)

\* Mutant of RemoveLocked: a slot is freed with its last reader only.
RemoveLockedReader(e, p) ==
  LET f == LessReader(e, p)
  IN  IF e.writer = p THEN [e EXCEPT !.writer = NoWriter]
      ELSE IF Unused(f) THEN [f EXCEPT !.addr = 0] ELSE f

\* The slot without one lock of p, the write lock first; it is free if that was the last one.
RemoveLocked(e, p) ==
  LET f == IF e.writer = p THEN [e EXCEPT !.writer = NoWriter] ELSE LessReader(e, p)
  IN  IF Unused(f) THEN [f EXCEPT !.addr = 0] ELSE f

\* ssht_bucket_remove_index
RemoveIndex(chains, s, p) == [chains EXCEPT ![s[1]][s[2]] = RemoveLocked(@, p)]

\* tm2c_ht_delete_node: the log of p, from its first entry
DeleteNode(t, p) ==
  LET entries == t.log[p]
      walk[n \in 0 .. Len(entries)] ==
        IF n = 0 THEN t.slots ELSE RemoveIndex(walk[n - 1], entries[n], p)
  IN  [slots |-> walk[Len(entries)], log |-> [t.log EXCEPT ![p] = <<>>]]

\* The contention manager's loop over the holders that lost, in node order
DeleteNodes(t, V) ==
  LET loop[n \in 0 .. NumUes] ==
        IF n = 0 THEN t
        ELSE IF n - 1 \in V THEN DeleteNode(loop[n - 1], n - 1) ELSE loop[n - 1]
  IN  loop[NumUes]

\* The slot s becomes e.
Put(t, s, e) == [t EXCEPT !.slots[s[1]][s[2]] = e]

\* Mutants of EnterReader: a node that reads again is counted again; a slot
\* freed by evicting its holders stays unmarked.
EnterReaderAgain(t, p, a, s) ==
  Logged(Put(t, s, PlusReader([t.slots[s[1]][s[2]] EXCEPT !.addr = a], p)), p, s)
EnterReaderUnmarked(t, p, a, s) ==
  LET e == t.slots[s[1]][s[2]]
      marked == IF Has(a) THEN e ELSE [e EXCEPT !.addr = a]
  IN  IF Has(a) /\ p \in e.reader /\ ~bits THEN Put(t, s, marked)
      ELSE Logged(Put(t, s, PlusReader(marked, p)), p, s)

\* The end of bucket_insert_r: the slot s is marked with a, again if evicting
\* its holders has freed it, and counts p as a reader once.  With bits, it is logged once more.
EnterReader(t, p, a, s) ==
  LET e == t.slots[s[1]][s[2]]
      marked == [e EXCEPT !.addr = a]
  IN  IF Has(a) /\ p \in e.reader /\ ~bits THEN Put(t, s, marked)
      ELSE Logged(Put(t, s, PlusReader(marked, p)), p, s)

\* The end of bucket_insert_w
EnterWriter(t, p, a, s) ==
  Logged(Put(t, s, [t.slots[s[1]][s[2]] EXCEPT !.addr = a, !.writer = p]), p, s)

\* The holders with which a request of p for a conflicts, by the entry of a
ReadConflict(a) ==
  LET e == slots[Place(a)[1]][Place(a)[2]]
  IN  IF Has(a) /\ e.writer # NoWriter THEN {e.writer} ELSE {}

\* Mutant of WriteConflicts: a single reader is taken for the writer itself.
WriteConflictsOfMany(p, a) ==
  LET e == slots[Place(a)[1]][Place(a)[2]]
  IN  CASE ~Has(a) -> [any |-> FALSE, who |-> {}]
        [] Has(a) /\ e.writer \notin {NoWriter, p} -> [any |-> TRUE, who |-> {e.writer}]
        [] Has(a) /\ e.writer \in {NoWriter, p} -> [any |-> e.nr > 1, who |-> e.reader \ {p}]

\* rw_entry_ssht_has_readers and not rw_entry_ssht_is_unique_reader, or by the count
OtherReaders(e, p) == IF bits THEN e.reader \notin {{}, {p}} ELSE e.nr > 1 \/ (e.nr = 1 /\ p \notin e.reader)

WriteConflicts(p, a) ==
  LET e == slots[Place(a)[1]][Place(a)[2]]
  IN  CASE ~Has(a) -> [any |-> FALSE, who |-> {}]
        [] Has(a) /\ e.writer \notin {NoWriter, p} -> [any |-> TRUE, who |-> {e.writer}]
        [] Has(a) /\ e.writer \in {NoWriter, p} ->
             [any |-> OtherReaders(e, p), who |-> e.reader \ {p}]

Become(t) == slots' = t.slots /\ log' = t.log /\ UNCHANGED bits

\* The attempt of p is over, as far as p can tell.
EndAttempt(p) == /\ loaded' = [loaded EXCEPT ![p] = {}]
                 /\ stored' = [stored EXCEPT ![p] = {}]

-----------------------------------------------------------------------------
(* The requests.  A word in the write set is not loaded again: tx_load finds *)
(* it there.                                                                 *)

LogBound(p) == bits => Len(log[p]) < MaxLog
MayLoad(p, a) == a \notin stored[p] /\ LogBound(p)
MayStore(p, a) == (Restores \/ a \notin stored[p]) /\ LogBound(p)

\* try_load is granted, at the expense of the writer if there is one.
Load(p, a) ==
  /\ MayLoad(p, a)
  /\ p \notin ReadConflict(a)
  /\ Become(EnterReader(DeleteNodes(WithPlace(a), ReadConflict(a)), p, a, Place(a)))
  /\ loaded' = [loaded EXCEPT ![p] = @ \cup ({a} \cap Early)]
  /\ UNCHANGED stored

\* try_store is granted, at the expense of the writer or of the other readers.
Store(p, a) ==
  /\ MayStore(p, a)
  /\ LET evicted == IF WriteConflicts(p, a).any THEN WriteConflicts(p, a).who ELSE {}
     IN  Become(EnterWriter(DeleteNodes(WithPlace(a), evicted), p, a, Place(a)))
  /\ stored' = [stored EXCEPT ![p] = @ \cup {a}]
  /\ UNCHANGED loaded

\* try_load or try_store meets a conflict and p loses: dsl_service releases p.
Lose(p) ==
  /\ \E a \in Addrs : \/ MayLoad(p, a) /\ ReadConflict(a) # {}
                      \/ MayStore(p, a) /\ WriteConflicts(p, a).any
  /\ Become(DeleteNode(Table, p))
  /\ EndAttempt(p)

\* RMV_NODE
RemoveNode(p) ==
  /\ Become(DeleteNode(Table, p))
  /\ EndAttempt(p)

\* Mutant of DropEntry: the last entry of the log goes, not the one found.
DropEntryLast(entries, j) == Front(entries)

\* The last entry of the log takes the place of the one removed.
DropEntry(entries, j) == Front([entries EXCEPT ![j] = Last(entries)])

\* ssht_remove: the lock of a, found in the log of p by its address.  The slot keeps its address.
RemoveLock(p, a, rw) ==
  LET j == SelectInSeq(log[p], LAMBDA s : At(s).addr = a)
      e == At(log[p][j])
      f == CASE rw = "READ" -> LessReader(e, p)
             [] rw = "WRITE" /\ e.writer = p -> [e EXCEPT !.writer = NoWriter]
             [] OTHER -> e
  IN  IF j = 0 THEN UNCHANGED <<bits, slots, log>>
      ELSE Become([slots |-> [slots EXCEPT ![log[p][j][1]][log[p][j][2]] = f],
                   log |-> [log EXCEPT ![p] = DropEntry(@, j)]])

\* LOAD_RLS
LoadRelease(p, a) ==
  /\ a \in loaded[p] \ stored[p]
  /\ RemoveLock(p, a, "READ")
  /\ loaded' = [loaded EXCEPT ![p] = @ \ {a}]
  /\ UNCHANGED stored

\* STORE_FINISH
StoreRelease(p, a) ==
  /\ a \in stored[p] \cap Early
  /\ RemoveLock(p, a, "WRITE")
  /\ stored' = [stored EXCEPT ![p] = @ \ {a}]
  /\ UNCHANGED loaded

Next == \E p \in Nodes :
          \/ RemoveNode(p) \/ Lose(p)
          \/ \E a \in Addrs : Load(p, a) \/ Store(p, a) \/ LoadRelease(p, a) \/ StoreRelease(p, a)

Spec == Init /\ [][Next]_vars

-----------------------------------------------------------------------------
(* What is checked. *)

\* The variables keep their types.
TypeOK ==
  /\ bits \in BitOpts /\ slots \in [Buckets -> Seq(Slot)]
  /\ log \in [Nodes -> Seq(Buckets \X (Nat \ {0}))]
  /\ loaded \in [Nodes -> SUBSET Early]
  /\ stored \in [Nodes -> SUBSET Addrs]

Places == UNION {{<<b, i>> : i \in DOMAIN slots[b]} : b \in Buckets}

\* The reader count of a slot is the number of its reader bytes that are set,
\* whatever was locked, evicted and released in between: bucket_insert_w
\* decides on the count alone.
CountsReaders == ~bits => \A s \in Places : At(s).nr = Cardinality(At(s).reader)

\* A slot that has a writer has no other reader: what the grant in
\* bucket_insert_w (ssht.c) claims of the case it takes for harmless.
WriterAlone ==
  \A s \in Places : At(s).writer # NoWriter => At(s).reader \subseteq {At(s).writer}

\* The log of a node names each of its locks exactly once, so walking the log
\* releases all of them and touches no lock of another node.  With bits the slot of a lock
\* may be logged again, and releasing it twice does nothing.
LogsMatch ==
  \A p \in Nodes, s \in Places :
    LET entries == Cardinality({j \in DOMAIN log[p] : log[p][j] = s})
        locks == Cardinality({r \in {"R"} : p \in At(s).reader} \cup {w \in {"W"} : At(s).writer = p})
    IN  IF bits THEN entries >= locks ELSE entries = locks

\* A slot nobody uses is free for any word, unless TX_RRLS has emptied it: the
\* table does not grow beyond the words that were locked at the same time.
SlotsReclaimed ==
  \A s \in Places : At(s).addr \notin Early \cup {0} =>
    At(s).reader # {} \/ At(s).writer # NoWriter

\* What a lookup of a finds; the table as a lock table: see LockTable.
Entry(a) == LET found == {e \in ToSet(slots[Bucket[a]]) : e.addr = a}
            IN  IF found = {} THEN FreshSlot ELSE CHOOSE e \in found : TRUE
Readers == [a \in Addrs |-> Entry(a).reader]
Writer == [a \in Addrs |-> Entry(a).writer]
Locks == INSTANCE LockTable WITH readers <- Readers, writer <- Writer
ImplementsLockTable == Locks!TSpec
=============================================================================
