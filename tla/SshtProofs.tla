----------------------------- MODULE SshtProofs -----------------------------
(***************************************************************************)
(* Theorems about the lock hash table of a DSL node, for every number of   *)
(* nodes, words, buckets and slots to a line, with and without             *)
(* SSHT_BIT_OPTS.  They are about a node whose clients lock no word for    *)
(* writing twice (Restores = FALSE), and whose reader count cannot wrap:   *)
(* a byte, against at most 255 application nodes.                          *)
(***************************************************************************)
EXTENDS Ssht, TLAPS, FiniteSetTheorems, SequenceTheorems, WellFoundedInduction

(* The inductive invariant.  It is stated of a table c of chains and a       *)
(* function l of logs, as the operations meet it on their way.               *)

\* A slot holds an address as long as it is used, and after that only if it
\* was released early; its count is the number of its readers; a writer shares it with nobody.
Sound(e) ==
  /\ e \in Slot
  /\ e.addr = 0 => e.reader = {} /\ e.writer = NoWriter
  /\ e.addr \notin Early \cup {0} => e.reader # {} \/ e.writer # NoWriter
  /\ bits => e.nr = 0
  /\ ~bits => e.nr = Cardinality(e.reader)
  /\ e.writer # NoWriter => e.reader \subseteq {e.writer}

\* How many locks of p a slot stands for, and how often a log names a slot
LocksOf(e, p) == (IF p \in e.reader THEN 1 ELSE 0) + (IF e.writer = p THEN 1 ELSE 0)
Entries(entries, s) == {j \in DOMAIN entries : entries[j] = s}
Matches(entries, s, n) ==
  IF bits THEN Cardinality(Entries(entries, s)) >= n ELSE Cardinality(Entries(entries, s)) = n

TableTyped(c, l) == /\ c \in [Buckets -> Seq(Slot)]
                    /\ l \in [Nodes -> Seq(Buckets \X (Nat \ {0}))]
AllSound(c) == \A b \in Buckets : \A i \in DOMAIN c[b] : Sound(c[b][i])
AllMatch(c, l) ==
  \A p \in Nodes, b \in Buckets : \A i \in DOMAIN c[b] : Matches(l[p], <<b, i>>, LocksOf(c[b][i], p))

\* Every log entry names a slot there is.
Placed(c, l) == \A p \in Nodes : \A j \in DOMAIN l[p] : l[p][j][2] \in DOMAIN c[l[p][j][1]]

\* An address is in the chain of its bucket, and in one slot of it.
Addressed(c) ==
  \A b \in Buckets : \A i \in DOMAIN c[b] : c[b][i].addr # 0 =>
    /\ Bucket[c[b][i].addr] = b
    /\ \A k \in DOMAIN c[b] : c[b][k].addr = c[b][i].addr => k = i

TableInv(c, l) == TableTyped(c, l) /\ AllSound(c) /\ AllMatch(c, l) /\ Placed(c, l) /\ Addressed(c)

\* What a node has locked for writing it knows; what it knows to have locked
\* for writing and reads it has locked for writing.
Knows(e, p, st) == /\ e.writer = p => e.addr \in st[p]
                   /\ p \in e.reader /\ e.addr \in st[p] => e.writer = p
Known(c, st) == \A b \in Buckets : \A i \in DOMAIN c[b] : \A p \in Nodes : Knows(c[b][i], p, st)

IInv == /\ bits \in BitOpts
        /\ loaded \in [Nodes -> SUBSET Early] /\ stored \in [Nodes -> SUBSET Addrs]
        /\ TableInv(slots, log) /\ Known(slots, stored)

-----------------------------------------------------------------------------
(* Naturals, sequences and sets of positions.                                *)

\* The first of some positions: SelectInSeq finds it.
LEMMA LeastIn ==
  ASSUME NEW S \in SUBSET Nat, S # {}
  PROVE  Min(S) \in S /\ \A y \in S : Min(S) =< y
<1>1. PICK x \in S : \A y \in S : <<y, x>> \notin OpToRel(<, Nat)
  BY NatLessThanWellFounded, WFMin, Zenon
<1>2. \A y \in S : ~(y < x)
  BY <1>1, Zenon DEF OpToRel
<1>3. \A y \in S : x =< y
  BY <1>2
<1> QED
  BY <1>3 DEF Min

\* What holds of 0, and with n of n + 1, holds of all numbers: the loops of the table.
LEMMA Upwards ==
  ASSUME NEW S, 0 \in S, \A n \in Nat : n \in S => n + 1 \in S
  PROVE  Nat \subseteq S
<1> SUFFICES ASSUME NEW k \in Nat, k \notin S PROVE FALSE
  OBVIOUS
<1> DEFINE B == Nat \ S
<1>1. Min(B) \in B /\ \A y \in B : Min(B) =< y
  BY LeastIn
<1>2. Min(B) # 0 /\ Min(B) - 1 \in Nat
  BY <1>1
<1>3. Min(B) - 1 \in S
  BY <1>1, <1>2
<1> QED
  BY <1>1, <1>2, <1>3

\* The w-bit reader count, one less and one more
LEMMA CountDown ==
  ASSUME NEW m \in Nat \ {0}, NEW k \in 0 .. m - 1
  PROVE  (k + m - 1) % m \in 0 .. m - 1 /\ (k > 0 => (k + m - 1) % m = k - 1)
<1>1. (k + m - 1) % m \in 0 .. m - 1
  OBVIOUS
<1>2. ASSUME k > 0 PROVE (k + m - 1) % m = k - 1
  <2>1. k - 1 \in 0 .. m - 1
    BY <1>2
  <2> QED
    BY <2>1
<1> QED
  BY <1>1, <1>2

LEMMA CountUp ==
  ASSUME NEW m \in Nat \ {0}, NEW k \in 0 .. m - 1
  PROVE  (k + 1) % m \in 0 .. m - 1 /\ (k + 1 < m => (k + 1) % m = k + 1)
<1>1. (k + 1) % m \in 0 .. m - 1
  OBVIOUS
<1>2. ASSUME k + 1 < m PROVE (k + 1) % m = k + 1
  BY <1>2
<1> QED
  BY <1>1, <1>2

LEMMA SeqAsFunction ==
  ASSUME NEW S, NEW n \in Nat, NEW f \in [1 .. n -> S]
  PROVE  f \in Seq(S) /\ Len(f) = n
OBVIOUS

\* SlotOf finds the first slot with an address, if there is one.
LEMMA SlotOfIs ==
  ASSUME NEW chain \in Seq(Slot), NEW a
  PROVE  /\ SlotOf(chain, a) # 0 => SlotOf(chain, a) \in DOMAIN chain /\ chain[SlotOf(chain, a)].addr = a
         /\ SlotOf(chain, a) = 0 => \A i \in DOMAIN chain : chain[i].addr # a
<1> DEFINE I == {i \in 1 .. Len(chain) : chain[i].addr = a}
<1>1. SlotOf(chain, a) = IF I # {} THEN Min(I) ELSE 0
  BY DEF SlotOf, SelectInSeq
<1>2. I \in SUBSET Nat /\ 0 \notin I
  OBVIOUS
<1>3. I # {} => Min(I) \in I
  BY <1>2, LeastIn
<1> QED
  BY <1>1, <1>2, <1>3

\* One slot is written.
LEMMA PutSlot ==
  ASSUME NEW c \in [Buckets -> Seq(Slot)], NEW b \in Buckets, NEW i \in DOMAIN c[b],
         NEW e \in Slot, NEW d, d = [c EXCEPT ![b][i] = e]
  PROVE  /\ d \in [Buckets -> Seq(Slot)]
         /\ \A x \in Buckets : DOMAIN d[x] = DOMAIN c[x]
         /\ d[b][i] = e
         /\ \A x \in Buckets : \A k \in DOMAIN c[x] : x # b \/ k # i => d[x][k] = c[x][k]
<1>1. d = [c EXCEPT ![b] = [c[b] EXCEPT ![i] = e]]
  OBVIOUS
<1>2. c[b] \in Seq(Slot) /\ i \in 1 .. Len(c[b])
  OBVIOUS
<1> DEFINE r == [c[b] EXCEPT ![i] = e]
<1>3. r \in Seq(Slot) /\ Len(r) = Len(c[b])
  BY <1>2, ExceptSeq
<1>4. DOMAIN r = DOMAIN c[b]
  OBVIOUS
<1>5. r[i] = e /\ \A k \in DOMAIN c[b] : k # i => r[k] = c[b][k]
  BY <1>2
<1> HIDE DEF r
<1>6. d = [c EXCEPT ![b] = r]
  BY <1>1 DEF r
<1> QED
  BY <1>3, <1>4, <1>5, <1>6

LEMMA EntriesFinite ==
  ASSUME NEW S, NEW l \in Seq(S), NEW s
  PROVE  /\ IsFiniteSet(Entries(l, s)) /\ Cardinality(Entries(l, s)) \in Nat
         /\ Entries(l, s) \subseteq 1 .. Len(l)
         /\ Cardinality(Entries(l, s)) > 0 => \E j \in DOMAIN l : l[j] = s
         /\ (\E j \in DOMAIN l : l[j] = s) => Cardinality(Entries(l, s)) > 0
<1>1. DOMAIN l = 1 .. Len(l) /\ Len(l) \in Nat
  OBVIOUS
<1>2. Entries(l, s) \subseteq 1 .. Len(l)
  BY <1>1 DEF Entries
<1>3. IsFiniteSet(1 .. Len(l))
  BY <1>1, FS_Interval
<1>4. IsFiniteSet(Entries(l, s))
  BY <1>2, <1>3, FS_Subset
<1>5. Cardinality(Entries(l, s)) \in Nat
  BY <1>4, FS_CardinalityType
<1>6. Cardinality(Entries(l, s)) = 0 <=> Entries(l, s) = {}
  BY <1>4, FS_EmptySet
<1>7. Entries(l, s) = {} <=> ~(\E j \in DOMAIN l : l[j] = s)
  BY DEF Entries
<1> QED
  BY <1>2, <1>4, <1>5, <1>6, <1>7

LEMMA EntriesAppend ==
  ASSUME NEW S, NEW l \in Seq(S), NEW x \in S, NEW s
  PROVE  /\ s = x => Cardinality(Entries(Append(l, x), s)) = Cardinality(Entries(l, s)) + 1
         /\ s # x => Cardinality(Entries(Append(l, x), s)) = Cardinality(Entries(l, s))
<1> DEFINE n == Len(l) + 1
<1>1. /\ Append(l, x) \in Seq(S) /\ DOMAIN Append(l, x) = 1 .. n /\ DOMAIN l = 1 .. n - 1
      /\ \A j \in 1 .. n - 1 : Append(l, x)[j] = l[j]
      /\ Append(l, x)[n] = x /\ n \in Nat
  OBVIOUS
<1>2. IsFiniteSet(Entries(l, s)) /\ n \notin Entries(l, s) /\ Cardinality(Entries(l, s)) \in Nat
  BY <1>1, EntriesFinite
<1>3. CASE s = x
  <2>1. Entries(Append(l, x), s) = Entries(l, s) \cup {n}
    BY <1>1, <1>3 DEF Entries
  <2> QED
    BY <1>2, <1>3, <2>1, FS_AddElement
<1>4. CASE s # x
  <2>1. Entries(Append(l, x), s) = Entries(l, s)
    BY <1>1, <1>4 DEF Entries
  <2> QED
    BY <1>2, <1>4, <2>1
<1> QED
  BY <1>3, <1>4

\* ssht_remove takes one entry out of a log and keeps the others.
LEMMA EntriesDrop ==
  ASSUME NEW S, NEW l \in Seq(S), NEW j \in DOMAIN l
  PROVE  /\ DropEntry(l, j) \in Seq(S)
         /\ \A k \in DOMAIN DropEntry(l, j) : \E i \in DOMAIN l : DropEntry(l, j)[k] = l[i]
         /\ \A s : Cardinality(Entries(DropEntry(l, j), s)) =
                     Cardinality(Entries(l, s)) - (IF s = l[j] THEN 1 ELSE 0)
<1> DEFINE n == Len(l)
           g == [k \in 1 .. n - 1 |-> IF k = j THEN l[n] ELSE l[k]]
<1>1. n \in Nat /\ DOMAIN l = 1 .. n /\ j \in 1 .. n /\ n > 0 /\ n - 1 \in Nat
  OBVIOUS
<1>2. g \in [1 .. n - 1 -> S]
  BY <1>1
<1>3. g \in Seq(S) /\ Len(g) = n - 1
  BY <1>1, <1>2, SeqAsFunction
<1>4. DropEntry(l, j) = g
  <2> DEFINE m == [l EXCEPT ![j] = l[n]]
  <2>1. m \in Seq(S) /\ Len(m) = n /\ \A k \in 1 .. n : m[k] = IF k = j THEN l[n] ELSE l[k]
    BY <1>1, ExceptSeq
  <2>2. DropEntry(l, j) = SubSeq(m, 1, n - 1)
    BY <2>1 DEF DropEntry, Front, Last
  <2> HIDE DEF m
  <2>3. \A i \in 1 .. n - 1 : m[i] \in S
    BY <1>1, <2>1
  <2>4. /\ SubSeq(m, 1, n - 1) \in Seq(S) /\ Len(SubSeq(m, 1, n - 1)) = n - 1
        /\ \A i \in 1 .. n - 1 : SubSeq(m, 1, n - 1)[i] = m[i]
    BY <1>1, <2>3, SubSeqProperties
  <2>5. \A i \in 1 .. n - 1 : SubSeq(m, 1, n - 1)[i] = g[i]
    BY <1>1, <2>1, <2>4
  <2> QED
    BY <1>3, <2>2, <2>4, <2>5, SeqEqual
<1>5. \A k \in DOMAIN g : g[k] \in {l[n], l[k]}
  OBVIOUS
<1>6. ASSUME NEW s
      PROVE  Cardinality(Entries(g, s)) = Cardinality(Entries(l, s)) - (IF s = l[j] THEN 1 ELSE 0)
  <2> DEFINE E == Entries(l, s)
  <2>0. Cardinality(E) \in Nat
    BY EntriesFinite
  <2>1. E = {k \in 1 .. n : l[k] = s} /\ IsFiniteSet(E) /\ Cardinality(E) \in Nat
    BY <1>1, EntriesFinite DEF Entries
  <2>2. Entries(g, s) = {k \in 1 .. n - 1 : g[k] = s}
    BY DEF Entries
  <2>3. CASE l[n] = s
    \* n goes, and j takes its place unless it was there before, or was n.
    <3>1. CASE s = l[j]
      <4>1. Entries(g, s) = E \ {n}
        BY <1>1, <2>1, <2>2, <2>3, <3>1
      <4>2. n \in E
        BY <1>1, <2>1, <2>3
      <4> QED
        BY <2>1, <3>1, <4>1, <4>2, FS_RemoveElement
    <3>2. CASE s # l[j]
      <4>1. Entries(g, s) = (E \ {n}) \cup {j}
        BY <1>1, <2>1, <2>2, <2>3, <3>2
      <4>2. n \in E /\ j \notin E \ {n}
        BY <1>1, <2>1, <2>3, <3>2
      <4>3. IsFiniteSet(E \ {n}) /\ Cardinality(E \ {n}) = Cardinality(E) - 1
        BY <2>1, <4>2, FS_RemoveElement
      <4> QED
        <5>1. Cardinality((E \ {n}) \cup {j}) = Cardinality(E \ {n}) + 1
          BY <4>2, <4>3, FS_AddElement
        <5>2. Cardinality(Entries(g, s)) = Cardinality(E \ {n}) + 1
          BY <4>1, <5>1, Zenon
        <5> HIDE DEF E, g
        <5>3. Cardinality(Entries(g, s)) = Cardinality(E) - 0
          BY <2>0, <4>3, <5>2
        <5> QED
          BY <3>2, <5>3 DEF E
    <3> QED
      BY <3>1, <3>2
  <2>4. CASE l[n] # s
    <3>1. CASE s = l[j]
      <4>1. Entries(g, s) = E \ {j}
        BY <1>1, <2>1, <2>2, <2>4, <3>1
      <4>2. j \in E
        BY <1>1, <2>1, <3>1
      <4> QED
        BY <2>1, <3>1, <4>1, <4>2, FS_RemoveElement
    <3>2. CASE s # l[j]
      <4>1. Entries(g, s) = E
        BY <1>1, <2>1, <2>2, <2>4, <3>2
      <4> QED
        BY <2>0, <3>2, <4>1
    <3> QED
      BY <3>1, <3>2
  <2> QED
    BY <2>3, <2>4
<1> QED
  BY <1>1, <1>3, <1>4, <1>5, <1>6

-----------------------------------------------------------------------------
(* Releasing a node.                                                         *)

\* f is the slot e after locks of nodes in V were released.
Shed(e, f, V) ==
  /\ f.reader \subseteq e.reader /\ e.reader \subseteq f.reader \cup V
  /\ f.writer = e.writer \/ (e.writer \in V /\ f.writer = NoWriter)
  /\ f.addr \in {e.addr, 0}

LEMMA LocksCount ==
  ASSUME NEW e, NEW p
  PROVE  /\ LocksOf(e, p) \in 0 .. 2
         /\ LocksOf(e, p) > 0 <=> p \in e.reader \/ e.writer = p
BY DEF LocksOf

\* ssht_bucket_remove_index takes one lock of the node, and frees the slot with the last.
LEMMA RemoveLockedIs ==
  ASSUME bits \in BOOLEAN, NEW e, Sound(e), NEW p \in Nodes, ~bits => LocksOf(e, p) >= 1,
         NEW f, f = RemoveLocked(e, p)
  PROVE  /\ Sound(f) /\ Shed(e, f, {p})
         /\ LocksOf(f, p) = IF LocksOf(e, p) = 0 THEN 0 ELSE LocksOf(e, p) - 1
<1> DEFINE g == IF e.writer = p THEN [e EXCEPT !.writer = NoWriter] ELSE LessReader(e, p)
<1>0. e \in Slot /\ IsFiniteSet(e.reader) /\ p # NoWriter /\ NrMod \in Nat \ {0, 1}
  <2>1. e \in Slot
    BY DEF Sound
  <2>2. e.reader \subseteq 0 .. NumUes - 1 /\ NumUes \in Nat
    BY <2>1, TableAssumption DEF Slot
  <2>3. IsFiniteSet(0 .. NumUes - 1)
    BY <2>2, FS_Interval
  <2> QED
    BY <2>1, <2>2, <2>3, FS_Subset, TableAssumption
<1>1. g \in Slot /\ g.addr = e.addr
  <2>1. (e.nr + NrMod - 1) % NrMod \in 0 .. NrMod - 1 /\ 0 \in 0 .. NrMod - 1
    BY <1>0, CountDown DEF Slot
  <2> QED
    BY <1>0, <2>1 DEF LessReader, Slot
<1>2. f = IF Unused(g) THEN [g EXCEPT !.addr = 0] ELSE g
  BY DEF RemoveLocked
<1>3. f \in Slot /\ f.reader = g.reader /\ f.writer = g.writer /\ f.nr = g.nr /\ f.addr = IF Unused(g) THEN 0 ELSE e.addr
  BY <1>1, <1>2 DEF Slot
<1>4. e.writer = p => g.reader = e.reader /\ g.writer = NoWriter /\ g.nr = e.nr
  BY <1>0 DEF Slot
<1>5. e.writer # p => g.reader = e.reader \ {p} /\ g.writer = e.writer
  BY <1>0 DEF LessReader, Slot
<1>6. /\ bits => g.nr = 0
      /\ ~bits => g.nr = Cardinality(g.reader)
  <2>1. CASE e.writer = p
    BY <2>1, <1>4 DEF Sound
  <2>2. CASE bits /\ e.writer # p
    BY <2>2, <1>0 DEF LessReader, Slot
  <2>3. CASE ~bits /\ e.writer # p
    <3>1. p \in e.reader
      BY <2>3 DEF LocksOf
    <3>2. Cardinality(g.reader) = Cardinality(e.reader) - 1
      BY <1>0, <1>5, <2>3, <3>1, FS_RemoveElement
    <3>3. e.nr = Cardinality(e.reader) /\ e.nr \in 0 .. NrMod - 1
      BY <1>0, <2>3 DEF Sound, Slot
    <3>4. IsFiniteSet(g.reader)
      BY <1>0, <1>5, <2>3, FS_RemoveElement
    <3>5. Cardinality(g.reader) \in Nat
      BY <3>4, FS_CardinalityType
    <3>7. g.nr = (e.nr + NrMod - 1) % NrMod
      BY <1>0, <2>3 DEF LessReader, Slot
    <3>8. (e.nr + NrMod - 1) % NrMod = e.nr - 1
      <4>1. e.nr \in 0 .. NrMod - 1 /\ e.nr > 0
        BY <1>0, <3>2, <3>3, <3>5
      <4>2. NrMod \in Nat \ {0}
        BY <1>0
      <4>3. e.nr > 0 => (e.nr + NrMod - 1) % NrMod = e.nr - 1
        BY <4>1, <4>2, CountDown, Zenon
      <4> QED
        BY <4>1, <4>3
    <3> QED
      BY <2>3, <3>2, <3>3, <3>7, <3>8
  <2> QED
    BY <2>1, <2>2, <2>3
<1>7. IsFiniteSet(g.reader)
  BY <1>0, <1>4, <1>5, FS_RemoveElement
<1>8. Unused(g) <=> g.writer = NoWriter /\ g.reader = {}
  BY <1>6, <1>7, FS_EmptySet DEF Unused
<1> HIDE DEF g
<1>9. e.writer # NoWriter => e.reader \subseteq {e.writer}
  BY DEF Sound
<1>10. Sound(f)
  BY <1>0, <1>3, <1>4, <1>5, <1>6, <1>8, <1>9 DEF Sound
<1>11. Shed(e, f, {p})
  BY <1>3, <1>4, <1>5 DEF Shed
<1>12. LocksOf(f, p) = IF LocksOf(e, p) = 0 THEN 0 ELSE LocksOf(e, p) - 1
  BY <1>0, <1>3, <1>4, <1>5 DEF LocksOf
<1> QED
  BY <1>10, <1>11, <1>12

\* d is the table after the first n entries of the log es of p were walked, from c: what
\* remains of the log matches the locks p still has.
Rest(es, n, s) == Entries(es, s) \ (1 .. n)
RestMatches(es, n, s, k) ==
  IF bits THEN Cardinality(Rest(es, n, s)) >= k ELSE Cardinality(Rest(es, n, s)) = k
Walked(c, d, es, n, p) ==
  /\ d \in [Buckets -> Seq(Slot)]
  /\ \A b \in Buckets : DOMAIN d[b] = DOMAIN c[b]
  /\ \A b \in Buckets : \A i \in DOMAIN c[b] :
       /\ Sound(d[b][i]) /\ Shed(c[b][i], d[b][i], {p})
       /\ RestMatches(es, n, <<b, i>>, LocksOf(d[b][i], p))

LEMMA RestFinite ==
  ASSUME NEW S, NEW es \in Seq(S), NEW n \in Nat, NEW s
  PROVE  IsFiniteSet(Rest(es, n, s)) /\ Cardinality(Rest(es, n, s)) \in Nat
<1>1. IsFiniteSet(Rest(es, n, s))
  BY EntriesFinite, FS_Subset DEF Rest
<1> QED
  BY <1>1, FS_CardinalityType

LEMMA RestStep ==
  ASSUME NEW S, NEW es \in Seq(S), NEW n \in Nat, n + 1 \in DOMAIN es, NEW s
  PROVE  Cardinality(Rest(es, n + 1, s)) = Cardinality(Rest(es, n, s)) - (IF s = es[n + 1] THEN 1 ELSE 0)
<1>0. /\ IsFiniteSet(Rest(es, n, s)) /\ Cardinality(Rest(es, n, s)) \in Nat
      /\ Entries(es, s) \subseteq Nat
  BY RestFinite, EntriesFinite
<1>1. Rest(es, n + 1, s) = Rest(es, n, s) \ {n + 1}
  BY <1>0 DEF Rest
<1>2. n + 1 \in Rest(es, n, s) <=> s = es[n + 1]
  BY DEF Rest, Entries
<1>3. Cardinality(Rest(es, n + 1, s)) =
        IF n + 1 \in Rest(es, n, s) THEN Cardinality(Rest(es, n, s)) - 1 ELSE Cardinality(Rest(es, n, s))
  BY <1>0, <1>1, FS_RemoveElement
<1> QED
  BY <1>0, <1>2, <1>3

LEMMA ShedTwice ==
  ASSUME NEW e, NEW f, NEW g, NEW V, NEW W, NoWriter \notin V \cup W, Shed(e, f, V), Shed(f, g, W)
  PROVE  Shed(e, g, V \cup W)
BY DEF Shed

LEMMA WalkStep ==
  ASSUME bits \in BOOLEAN, NEW c \in [Buckets -> Seq(Slot)], NEW d, NEW p \in Nodes,
         NEW es \in Seq(Buckets \X (Nat \ {0})), NEW n \in Nat, n + 1 \in DOMAIN es,
         es[n + 1][2] \in DOMAIN c[es[n + 1][1]],
         Walked(c, d, es, n, p)
  PROVE  Walked(c, RemoveIndex(d, es[n + 1], p), es, n + 1, p)
<1> DEFINE s == es[n + 1]
           b == s[1]
           i == s[2]
           r == RemoveIndex(d, s, p)
           e == d[b][i]
           f == RemoveLocked(e, p)
<1>1. s \in Buckets \X (Nat \ {0})
  BY ElementOfSeq
<1>2. b \in Buckets /\ i \in DOMAIN c[b] /\ s = <<b, i>> /\ i \in DOMAIN d[b]
  BY <1>1 DEF Walked
<1>3. r = [d EXCEPT ![b][i] = f]
  BY DEF RemoveIndex
<1>4. Sound(e) /\ Shed(c[b][i], e, {p}) /\ RestMatches(es, n, s, LocksOf(e, p))
  BY <1>2 DEF Walked
<1>5. Cardinality(Rest(es, n, s)) \in Nat /\ Cardinality(Rest(es, n, s)) >= 1
  <2>1. n + 1 \in Rest(es, n, s)
    BY DEF Rest, Entries
  <2> QED
    BY <2>1, RestFinite, FS_EmptySet
<1>6. ~bits => LocksOf(e, p) >= 1
  BY <1>4, <1>5 DEF RestMatches
<1>7. Sound(f) /\ Shed(e, f, {p}) /\ LocksOf(f, p) = IF LocksOf(e, p) = 0 THEN 0 ELSE LocksOf(e, p) - 1
  BY <1>4, <1>6, RemoveLockedIs
<1>8. Shed(c[b][i], f, {p})
  <2>1. NoWriter \notin {p} /\ {p} \cup {p} = {p}
    BY TableAssumption
  <2> QED
    BY <1>4, <1>7, <2>1, ShedTwice
<1>9. RestMatches(es, n + 1, s, LocksOf(f, p))
  <2>1. Cardinality(Rest(es, n + 1, s)) = Cardinality(Rest(es, n, s)) - 1
    BY <1>5, RestStep
  <2>2. LocksOf(e, p) \in 0 .. 2
    BY LocksCount
  <2> QED
    BY <1>4, <1>5, <1>7, <2>1, <2>2 DEF RestMatches
<1>10. f \in Slot
  BY <1>7 DEF Sound
<1>11. /\ r \in [Buckets -> Seq(Slot)] /\ \A x \in Buckets : DOMAIN r[x] = DOMAIN d[x]
       /\ r[b][i] = f
       /\ \A x \in Buckets : \A k \in DOMAIN d[x] : x # b \/ k # i => r[x][k] = d[x][k]
  <2>1. d \in [Buckets -> Seq(Slot)]
    BY DEF Walked
  <2> HIDE DEF f, r, b, i
  <2> QED
    BY <1>2, <1>3, <1>10, <2>1, PutSlot
<1> HIDE DEF r, f, e, b, i, s
<1>12. ASSUME NEW x \in Buckets, NEW k \in DOMAIN c[x]
       PROVE  Sound(r[x][k]) /\ Shed(c[x][k], r[x][k], {p}) /\ RestMatches(es, n + 1, <<x, k>>, LocksOf(r[x][k], p))
  <2>1. CASE x = b /\ k = i
    BY <1>2, <1>7, <1>8, <1>9, <1>11, <2>1
  <2>2. CASE x # b \/ k # i
    <3>1. r[x][k] = d[x][k] /\ Sound(d[x][k]) /\ Shed(c[x][k], d[x][k], {p})
          /\ RestMatches(es, n, <<x, k>>, LocksOf(d[x][k], p))
      BY <1>11, <2>2 DEF Walked
    <3>2. Cardinality(Rest(es, n + 1, <<x, k>>)) = Cardinality(Rest(es, n, <<x, k>>)) - 0
      BY <1>2, <2>2, RestStep DEF s
    <3>3. Cardinality(Rest(es, n, <<x, k>>)) \in Nat
      BY RestFinite
    <3> QED
      BY <3>1, <3>2, <3>3 DEF RestMatches
  <2> QED
    BY <2>1, <2>2
<1>13. Walked(c, r, es, n + 1, p)
  BY <1>11, <1>12 DEF Walked
<1> QED
  BY <1>13 DEF r, s

\* d and m are the chains and logs that remain of c and l when the nodes in V are released.
Evicted(c, l, d, m, V) ==
  /\ TableInv(d, m)
  /\ \A b \in Buckets : DOMAIN d[b] = DOMAIN c[b]
  /\ \A b \in Buckets : \A i \in DOMAIN c[b] :
       Shed(c[b][i], d[b][i], V) /\ \A p \in V : LocksOf(d[b][i], p) = 0
  /\ m = [p \in Nodes |-> IF p \in V THEN <<>> ELSE l[p]]

\* tm2c_ht_delete_node walks the log to its end.
Walks(w, c, es, p, k) == w = [n \in 0 .. k |-> IF n = 0 THEN c ELSE RemoveIndex(w[n - 1], es[n], p)]

LEMMA WalkExists ==
  ASSUME NEW c, NEW p \in Nodes, NEW es \in Seq(Buckets \X (Nat \ {0}))
  PROVE  \E w : Walks(w, c, es, p, Len(es))
<1> DEFINE Walk(w, k) == /\ w = [n \in 0 .. k |-> w[n]]
                         /\ \A n \in 0 .. k : w[n] = IF n = 0 THEN c ELSE RemoveIndex(w[n - 1], es[n], p)
           S == {k \in Nat : \E w : Walk(w, k)}
<1>1. 0 \in S
  <2> DEFINE w == [n \in 0 .. 0 |-> c]
  <2>1. Walk(w, 0)
    OBVIOUS
  <2> HIDE DEF Walk
  <2> QED
    BY <2>1
<1>2. ASSUME NEW k \in Nat, k \in S PROVE k + 1 \in S
  <2>1. PICK w : Walk(w, k)
    BY <1>2
  <2> DEFINE v == [n \in 0 .. k + 1 |-> IF n = k + 1 THEN RemoveIndex(w[k], es[k + 1], p) ELSE w[n]]
  <2>2. \A n \in 0 .. k : v[n] = w[n]
    OBVIOUS
  <2>3. ASSUME NEW n \in 0 .. k + 1
        PROVE  v[n] = IF n = 0 THEN c ELSE RemoveIndex(v[n - 1], es[n], p)
    <3>1. CASE n = k + 1
      <4>1. v[n] = RemoveIndex(w[k], es[k + 1], p) /\ v[n - 1] = w[k] /\ n # 0
        BY <2>2, <3>1
      <4> QED
        BY <3>1, <4>1
    <3>2. CASE n \in 0 .. k
      <4>1. v[n] = w[n] /\ (n # 0 => v[n - 1] = w[n - 1])
        BY <2>2, <3>2
      <4>2. w[n] = IF n = 0 THEN c ELSE RemoveIndex(w[n - 1], es[n], p)
        BY <2>1, <3>2
      <4> QED
        BY <4>1, <4>2
    <3> QED
      BY <3>1, <3>2
  <2>4. v = [n \in 0 .. k + 1 |-> v[n]]
    OBVIOUS
  <2> HIDE DEF v
  <2>5. Walk(v, k + 1)
    BY <2>3, <2>4
  <2> HIDE DEF Walk
  <2> QED
    BY <2>5
<1>3. Nat \subseteq S
  <2> HIDE DEF S
  <2> QED
    BY <1>1, <1>2, Upwards
<1>4. \E w : Walk(w, Len(es))
  BY <1>3
<1>5. ASSUME NEW w, Walk(w, Len(es)) PROVE Walks(w, c, es, p, Len(es))
  BY <1>5 DEF Walks
<1> HIDE DEF Walk
<1> QED
  BY <1>4, <1>5

LEMMA DeleteNodeIs ==
  ASSUME bits \in BOOLEAN, NEW c, NEW l, TableInv(c, l), NEW p \in Nodes,
         NEW t, t = [slots |-> c, log |-> l], NEW u, u = DeleteNode(t, p)
  PROVE  u = [slots |-> u.slots, log |-> u.log] /\ Evicted(c, l, u.slots, u.log, {p})
<1> DEFINE es == t.log[p]
           walk == CHOOSE w : w = [n \in 0 .. Len(es) |-> IF n = 0 THEN t.slots ELSE RemoveIndex(w[n - 1], es[n], p)]
           d == walk[Len(es)]
           m == [t.log EXCEPT ![p] = <<>>]
<1>0. /\ c \in [Buckets -> Seq(Slot)] /\ l \in [Nodes -> Seq(Buckets \X (Nat \ {0}))]
      /\ AllSound(c) /\ AllMatch(c, l) /\ Placed(c, l) /\ Addressed(c)
  BY DEF TableInv, TableTyped
<1>1. es \in Seq(Buckets \X (Nat \ {0})) /\ Len(es) \in Nat /\ DOMAIN es = 1 .. Len(es)
  BY <1>0
<1>2. u = [slots |-> d, log |-> m]
  BY Zenon DEF DeleteNode
<1>3. t.slots = c /\ t.log = l
  OBVIOUS
<1>4. walk = [n \in 0 .. Len(es) |-> IF n = 0 THEN t.slots ELSE RemoveIndex(walk[n - 1], es[n], p)]
  <2>1. \E w : w = [n \in 0 .. Len(es) |-> IF n = 0 THEN t.slots ELSE RemoveIndex(w[n - 1], es[n], p)]
    <3>1. PICK w : Walks(w, t.slots, es, p, Len(es))
      BY <1>1, WalkExists
    <3> QED
      BY <3>1 DEF Walks
  <2> QED
    BY <2>1, Zenon
<1> HIDE DEF walk
<1>5. walk[0] = c /\ \A n \in Nat : n + 1 \in DOMAIN es => walk[n + 1] = RemoveIndex(walk[n], es[n + 1], p)
  <2>1. walk[0] = c
    BY <1>1, <1>3, <1>4
  <2>2. ASSUME NEW n \in Nat, n + 1 \in DOMAIN es PROVE walk[n + 1] = RemoveIndex(walk[n], es[n + 1], p)
    <3>1. n + 1 \in 0 .. Len(es) /\ n + 1 # 0 /\ (n + 1) - 1 = n
      BY <1>1, <2>2
    <3> QED
      BY <1>4, <3>1
  <2> QED
    BY <2>1, <2>2
<1>6. Walked(c, walk[0], es, 0, p)
  <2>1. ASSUME NEW b \in Buckets, NEW i \in DOMAIN c[b]
        PROVE  Sound(c[b][i]) /\ Shed(c[b][i], c[b][i], {p}) /\ RestMatches(es, 0, <<b, i>>, LocksOf(c[b][i], p))
    <3>1. Rest(es, 0, <<b, i>>) = Entries(es, <<b, i>>)
      BY DEF Rest
    <3> QED
      BY <1>0, <1>3, <3>1 DEF AllSound, AllMatch, Shed, Matches, RestMatches
  <2> QED
    BY <1>0, <1>5, <2>1 DEF Walked
<1>7. ASSUME NEW n \in Nat, n + 1 \in DOMAIN es, Walked(c, walk[n], es, n, p)
      PROVE  Walked(c, walk[n + 1], es, n + 1, p)
  <2>1. es[n + 1][2] \in DOMAIN c[es[n + 1][1]]
    BY <1>0, <1>3, <1>7 DEF Placed
  <2>2. walk[n + 1] = RemoveIndex(walk[n], es[n + 1], p)
    BY <1>5, <1>7
  <2> QED
    BY <1>0, <1>1, <1>7, <2>1, <2>2, WalkStep
<1>8. Walked(c, d, es, Len(es), p)
  <2> DEFINE S == {n \in Nat : n <= Len(es) => Walked(c, walk[n], es, n, p)}
  <2>1. 0 \in S
    BY <1>6
  <2>2. ASSUME NEW n \in Nat, n \in S PROVE n + 1 \in S
    BY <1>1, <1>7, <2>2
  <2> HIDE DEF S
  <2>3. Nat \subseteq S
    BY <2>1, <2>2, Upwards
  <2> QED
    BY <1>1, <2>3 DEF S
<1> HIDE DEF d
<1>9. ASSUME NEW b \in Buckets, NEW i \in DOMAIN c[b] PROVE LocksOf(d[b][i], p) = 0
  <2>1. Rest(es, Len(es), <<b, i>>) = {}
    BY <1>1, EntriesFinite DEF Rest
  <2>2. Cardinality(Rest(es, Len(es), <<b, i>>)) = 0
    BY <2>1, FS_EmptySet
  <2>3. RestMatches(es, Len(es), <<b, i>>, LocksOf(d[b][i], p)) /\ LocksOf(d[b][i], p) \in 0 .. 2
    BY <1>8, LocksCount DEF Walked
  <2> QED
    BY <2>2, <2>3 DEF RestMatches
<1>10. m = [q \in Nodes |-> IF q \in {p} THEN <<>> ELSE l[q]]
  BY <1>0, <1>3
<1> HIDE DEF m
<1>11. TableTyped(d, m)
  BY <1>0, <1>8, <1>10 DEF TableTyped, Walked
<1>12. \A b \in Buckets : DOMAIN d[b] = DOMAIN c[b]
  BY <1>8 DEF Walked
<1>13. AllSound(d)
  BY <1>8, <1>12 DEF Walked, AllSound
<1>14. ASSUME NEW b \in Buckets, NEW i \in DOMAIN c[b] PROVE Shed(c[b][i], d[b][i], {p})
  BY <1>8 DEF Walked
<1>15. AllMatch(d, m)
  <2> SUFFICES ASSUME NEW q \in Nodes, NEW b \in Buckets, NEW i \in DOMAIN c[b]
               PROVE  Matches(m[q], <<b, i>>, LocksOf(d[b][i], q))
    BY <1>12 DEF AllMatch
  <2>1. CASE q = p
    <3>1. Entries(<<>>, <<b, i>>) = {}
      BY DEF Entries
    <3>2. m[q] = <<>> /\ LocksOf(d[b][i], q) = 0
      BY <1>9, <1>10, <2>1
    <3>3. Cardinality(Entries(m[q], <<b, i>>)) = 0
      BY <3>1, <3>2, FS_EmptySet, Zenon
    <3> QED
      BY <3>2, <3>3 DEF Matches
  <2>2. CASE q # p
    <3>1. LocksOf(d[b][i], q) = LocksOf(c[b][i], q)
      BY <1>14, <2>2, TableAssumption DEF LocksOf, Shed
    <3> QED
      BY <1>0, <1>10, <2>2, <3>1 DEF AllMatch
  <2> QED
    BY <2>1, <2>2
<1>16. Placed(d, m)
  BY <1>0, <1>10, <1>12 DEF Placed
<1>17. Addressed(d)
  <2> SUFFICES ASSUME NEW b \in Buckets, NEW i \in DOMAIN c[b], d[b][i].addr # 0
               PROVE  /\ Bucket[d[b][i].addr] = b
                      /\ \A k \in DOMAIN c[b] : d[b][k].addr = d[b][i].addr => k = i
    BY <1>12 DEF Addressed
  <2>1. \A k \in DOMAIN c[b] : d[b][k].addr \in {c[b][k].addr, 0}
    BY <1>14 DEF Shed
  <2>2. d[b][i].addr = c[b][i].addr
    BY <2>1
  <2> QED
    BY <1>0, <2>1, <2>2 DEF Addressed
<1>18. TableInv(d, m)
  BY <1>11, <1>13, <1>15, <1>16, <1>17 DEF TableInv
<1>19. Evicted(c, l, d, m, {p})
  BY <1>9, <1>10, <1>12, <1>14, <1>18 DEF Evicted
<1> QED
  BY <1>2, <1>19

LEMMA EvictedTwice ==
  ASSUME NEW c, NEW l, NEW d, NEW m, NEW f, NEW k, NEW V \in SUBSET Nodes, NEW W \in SUBSET Nodes,
         Evicted(c, l, d, m, V), Evicted(d, m, f, k, W)
  PROVE  Evicted(c, l, f, k, V \cup W)
<1>1. TableInv(f, k) /\ \A b \in Buckets : DOMAIN f[b] = DOMAIN c[b]
  BY DEF Evicted
<1>2. k = [p \in Nodes |-> IF p \in V \cup W THEN <<>> ELSE l[p]]
  <2>1. ASSUME NEW p \in Nodes PROVE (IF p \in W THEN <<>> ELSE m[p]) = IF p \in V \cup W THEN <<>> ELSE l[p]
    BY DEF Evicted
  <2> QED
    BY <2>1 DEF Evicted
<1>3. ASSUME NEW b \in Buckets, NEW i \in DOMAIN c[b]
      PROVE  Shed(c[b][i], f[b][i], V \cup W) /\ \A p \in V \cup W : LocksOf(f[b][i], p) = 0
  <2>1. Shed(c[b][i], d[b][i], V) /\ Shed(d[b][i], f[b][i], W)
    BY DEF Evicted
  <2>2. NoWriter \notin V \cup W
    BY TableAssumption
  <2>3. Shed(c[b][i], f[b][i], V \cup W)
    BY <2>1, <2>2, ShedTwice
  <2>4. \A p \in W : LocksOf(f[b][i], p) = 0
    BY DEF Evicted
  <2>5. ASSUME NEW p \in V PROVE LocksOf(f[b][i], p) = 0
    <3>1. LocksOf(d[b][i], p) = 0
      BY DEF Evicted
    <3> QED
      BY <2>1, <2>2, <3>1 DEF LocksOf, Shed
  <2> QED
    BY <2>3, <2>4, <2>5
<1> QED
  BY <1>1, <1>2, <1>3 DEF Evicted

LEMMA EvictedNone ==
  ASSUME NEW c, NEW l, TableInv(c, l)
  PROVE  Evicted(c, l, c, l, {})
BY DEF Evicted, Shed, TableInv, TableTyped

\* The contention manager goes through all nodes.
Loops(w, t, V, k) ==
  w = [n \in 0 .. k |-> IF n = 0 THEN t
                        ELSE IF n - 1 \in V THEN DeleteNode(w[n - 1], n - 1) ELSE w[n - 1]]

LEMMA LoopExists ==
  ASSUME NEW t, NEW V \in SUBSET Nodes
  PROVE  \E w : Loops(w, t, V, NumUes)
<1> DEFINE Step(x, n) == IF n - 1 \in V THEN DeleteNode(x, n - 1) ELSE x
           Loop(w, k) == /\ w = [n \in 0 .. k |-> w[n]]
                         /\ \A n \in 0 .. k : w[n] = IF n = 0 THEN t ELSE Step(w[n - 1], n)
           S == {k \in Nat : \E w : Loop(w, k)}
<1>1. 0 \in S
  <2> DEFINE w == [n \in 0 .. 0 |-> t]
  <2>1. Loop(w, 0)
    OBVIOUS
  <2> HIDE DEF Loop
  <2> QED
    BY <2>1
<1>2. ASSUME NEW k \in Nat, k \in S PROVE k + 1 \in S
  <2> HIDE DEF Step
  <2>1. PICK w : Loop(w, k)
    BY <1>2
  <2> DEFINE v == [n \in 0 .. k + 1 |-> IF n = k + 1 THEN Step(w[k], k + 1) ELSE w[n]]
  <2>2. \A n \in 0 .. k : v[n] = w[n]
    OBVIOUS
  <2>3. ASSUME NEW n \in 0 .. k + 1
        PROVE  v[n] = IF n = 0 THEN t ELSE Step(v[n - 1], n)
    <3>1. CASE n = k + 1
      <4>1. v[n] = Step(w[k], k + 1) /\ v[n - 1] = w[k] /\ n # 0
        BY <2>2, <3>1
      <4> QED
        BY <3>1, <4>1
    <3>2. CASE n \in 0 .. k
      <4>1. v[n] = w[n] /\ (n # 0 => v[n - 1] = w[n - 1])
        BY <2>2, <3>2
      <4>2. w[n] = IF n = 0 THEN t ELSE Step(w[n - 1], n)
        BY <2>1, <3>2
      <4> QED
        BY <4>1, <4>2
    <3> QED
      BY <3>1, <3>2
  <2>4. v = [n \in 0 .. k + 1 |-> v[n]]
    OBVIOUS
  <2> HIDE DEF v
  <2>5. Loop(v, k + 1)
    BY <2>3, <2>4
  <2> HIDE DEF Loop
  <2> QED
    BY <2>5
<1>3. Nat \subseteq S
  <2> HIDE DEF S
  <2> QED
    BY <1>1, <1>2, Upwards
<1>4. \E w : Loop(w, NumUes)
  BY <1>3, TableAssumption
<1>5. ASSUME NEW w, Loop(w, NumUes) PROVE Loops(w, t, V, NumUes)
  BY <1>5 DEF Loops
<1> HIDE DEF Loop
<1> QED
  BY <1>4, <1>5

LEMMA DeleteNodesIs ==
  ASSUME bits \in BOOLEAN, NEW c, NEW l, TableInv(c, l), NEW V \in SUBSET Nodes,
         NEW t, t = [slots |-> c, log |-> l], NEW u, u = DeleteNodes(t, V)
  PROVE  u = [slots |-> u.slots, log |-> u.log] /\ Evicted(c, l, u.slots, u.log, V)
<1> DEFINE loop == CHOOSE w : w = [n \in 0 .. NumUes |->
                     IF n = 0 THEN t
                     ELSE IF n - 1 \in V THEN DeleteNode(w[n - 1], n - 1) ELSE w[n - 1]]
           Done(n) == V \cap (0 .. n - 1)
           Good(n) == /\ loop[n] = [slots |-> loop[n].slots, log |-> loop[n].log]
                      /\ Evicted(c, l, loop[n].slots, loop[n].log, Done(n))
<1>1. u = loop[NumUes]
  BY Zenon DEF DeleteNodes
<1>2. Loops(loop, t, V, NumUes)
  <2>1. PICK w : Loops(w, t, V, NumUes)
    BY LoopExists
  <2> QED
    BY <2>1, Zenon DEF Loops
<1> HIDE DEF loop
<1>3. NumUes \in Nat /\ V \subseteq 0 .. NumUes - 1
  BY TableAssumption
<1>4. Good(0)
  <2>1. loop[0] = t
    BY <1>2, <1>3 DEF Loops
  <2>2. t.slots = c /\ t.log = l /\ Done(0) = {}
    OBVIOUS
  <2> QED
    BY <2>1, <2>2, EvictedNone
<1>5. ASSUME NEW n \in Nat, n + 1 <= NumUes, Good(n) PROVE Good(n + 1)
  <2>1. n + 1 \in 0 .. NumUes /\ n + 1 # 0 /\ (n + 1) - 1 = n
    BY <1>3, <1>5
  <2>2. loop[n + 1] = IF n \in V THEN DeleteNode(loop[n], n) ELSE loop[n]
    BY <1>2, <2>1 DEF Loops
  <2>3. CASE n \in V
    <3>1. loop[n + 1] = DeleteNode(loop[n], n) /\ n \in Nodes
      BY <2>2, <2>3
    <3>2. TableInv(loop[n].slots, loop[n].log)
      BY <1>5 DEF Evicted
    <3>3. /\ loop[n + 1] = [slots |-> loop[n + 1].slots, log |-> loop[n + 1].log]
          /\ Evicted(loop[n].slots, loop[n].log, loop[n + 1].slots, loop[n + 1].log, {n})
      BY <1>5, <3>1, <3>2, DeleteNodeIs
    <3>4. Done(n + 1) = Done(n) \cup {n}
      BY <1>3, <2>3
    <3>5. Evicted(c, l, loop[n + 1].slots, loop[n + 1].log, Done(n) \cup {n})
      <4>1. Done(n) \in SUBSET Nodes /\ {n} \in SUBSET Nodes
        BY <3>1
      <4> HIDE DEF Done
      <4> QED
        BY <1>5, <3>3, <4>1, EvictedTwice
    <3> HIDE DEF Done
    <3> QED
      BY <3>3, <3>4, <3>5
  <2>4. CASE n \notin V
    <3>1. Done(n + 1) = Done(n)
      BY <1>3, <2>4
    <3>2. loop[n + 1] = loop[n]
      BY <2>2, <2>4
    <3> HIDE DEF Done
    <3> QED
      BY <1>5, <3>1, <3>2
  <2> QED
    BY <2>3, <2>4
<1>6. Good(NumUes)
  <2> DEFINE S == {n \in Nat : n <= NumUes => Good(n)}
  <2>1. 0 \in S
    BY <1>4
  <2>2. ASSUME NEW n \in Nat, n \in S PROVE n + 1 \in S
    <3> HIDE DEF Good
    <3> QED
      BY <1>3, <1>5, <2>2
  <2> HIDE DEF S
  <2>3. Nat \subseteq S
    BY <2>1, <2>2, Upwards
  <2> HIDE DEF Good
  <2> QED
    BY <1>3, <2>3 DEF S
<1>7. Done(NumUes) = V
  BY <1>3
<1> HIDE DEF Done
<1> QED
  BY <1>1, <1>6, <1>7

LEMMA EvictedKnown ==
  ASSUME NEW c, NEW l, NEW d, NEW m, NEW V \in SUBSET Nodes, Evicted(c, l, d, m, V),
         NEW st \in [Nodes -> SUBSET Addrs], Known(c, st)
  PROVE  Known(d, st)
<1> SUFFICES ASSUME NEW b \in Buckets, NEW i \in DOMAIN c[b], NEW p \in Nodes
             PROVE  Knows(d[b][i], p, st)
  BY DEF Evicted, Known
<1>1. Shed(c[b][i], d[b][i], V) /\ (p \in V => LocksOf(d[b][i], p) = 0) /\ Sound(d[b][i])
  BY DEF Evicted, TableInv, AllSound
<1>2. Knows(c[b][i], p, st)
  BY DEF Known
<1>3. p # NoWriter /\ 0 \notin st[p]
  BY TableAssumption
<1> QED
  BY <1>1, <1>2, <1>3 DEF Knows, Shed, LocksOf, Sound

-----------------------------------------------------------------------------
(* Entering a lock.                                                          *)

LEMMA FreshSound ==
  /\ FreshSlot \in Slot /\ Sound(FreshSlot) /\ \A p \in Nodes : LocksOf(FreshSlot, p) = 0
  /\ FreshLine \in Seq(Slot) /\ Len(FreshLine) = PerLine /\ \A i \in 1 .. PerLine : FreshLine[i] = FreshSlot
<1>1. FreshSlot \in Slot
  BY TableAssumption DEF FreshSlot, Slot
<1>2. Sound(FreshSlot) /\ \A p \in Nodes : LocksOf(FreshSlot, p) = 0
  BY <1>1, FS_EmptySet, TableAssumption DEF FreshSlot, Sound, LocksOf
<1>3. PerLine \in Nat /\ FreshLine \in [1 .. PerLine -> Slot]
  BY <1>1, TableAssumption DEF FreshLine
<1> QED
  BY <1>1, <1>2, <1>3, SeqAsFunction DEF FreshLine

\* A place for a word: the slot that holds it or a free one, and no other slot holds it.
LEMMA PlaceIs ==
  ASSUME TableInv(slots, log), NEW a \in Addrs, NEW b, b = Bucket[a], NEW k, k = Place(a)[2],
         NEW t, t = WithPlace(a)
  PROVE  /\ b \in Buckets /\ Place(a) = <<b, k>> /\ Place(a)[1] = b
         /\ t = [slots |-> t.slots, log |-> log]
         /\ TableInv(t.slots, log)
         /\ k \in DOMAIN t.slots[b]
         /\ \A x \in Buckets : /\ DOMAIN slots[x] \subseteq DOMAIN t.slots[x]
                               /\ \A i \in DOMAIN slots[x] : t.slots[x][i] = slots[x][i]
                               /\ \A i \in DOMAIN t.slots[x] \ DOMAIN slots[x] : t.slots[x][i] = FreshSlot
         /\ Has(a) => k \in DOMAIN slots[b] /\ slots[b][k].addr = a
         /\ ~Has(a) => /\ t.slots[b][k].addr = 0
                       /\ \A i \in DOMAIN t.slots[b] : t.slots[b][i].addr # a
<1> DEFINE chain == slots[b]
           free == SlotOf(chain, 0)
<1>0. b \in Buckets /\ chain \in Seq(Slot) /\ DOMAIN chain = 1 .. Len(chain) /\ Len(chain) \in Nat /\ a # 0
  BY TableAssumption DEF TableInv, TableTyped
<1>1. Place(a) = <<b, IF Has(a) THEN SlotOf(chain, a) ELSE IF free # 0 THEN free ELSE Len(chain) + 1>>
  BY DEF Place
<1>2. Place(a) = <<b, k>> /\ Place(a)[1] = b /\ k = IF Has(a) THEN SlotOf(chain, a) ELSE IF free # 0 THEN free ELSE Len(chain) + 1
  BY <1>1
<1>3. Has(a) <=> SlotOf(chain, a) # 0
  BY DEF Has
<1>4. Has(a) => k \in DOMAIN chain /\ chain[k].addr = a
  BY <1>0, <1>2, <1>3, SlotOfIs
<1>5. ~Has(a) => \A i \in DOMAIN chain : chain[i].addr # a
  BY <1>0, <1>3, SlotOfIs
<1>6. ~Has(a) /\ free # 0 => k \in DOMAIN chain /\ chain[k].addr = 0
  BY <1>0, <1>2, SlotOfIs
<1>7. ~Has(a) /\ free = 0 => k = Len(chain) + 1 /\ k \notin DOMAIN chain
  BY <1>0, <1>2
<1>8. CASE k \in DOMAIN chain
  <2>1. t = [slots |-> slots, log |-> log] /\ t.slots = slots
    BY <1>8 DEF WithPlace, Table
  <2> QED
    BY <1>0, <1>2, <1>4, <1>5, <1>6, <1>7, <1>8, <2>1
<1>9. CASE k \notin DOMAIN chain
  <2> DEFINE line == chain \o FreshLine
  <2>1. ~Has(a) /\ k = Len(chain) + 1
    BY <1>4, <1>6, <1>7, <1>9
  <2>2. t = [slots |-> [slots EXCEPT ![b] = line], log |-> log] /\ t.slots = [slots EXCEPT ![b] = line]
    BY <1>9 DEF WithPlace, Table
  <2>3. /\ line \in Seq(Slot) /\ Len(line) = Len(chain) + PerLine
        /\ \A i \in 1 .. Len(chain) + PerLine : line[i] = IF i <= Len(chain) THEN chain[i] ELSE FreshLine[i - Len(chain)]
    <3>1. FreshLine \in Seq(Slot) /\ Len(FreshLine) = PerLine /\ chain \in Seq(Slot)
      BY <1>0, FreshSound
    <3> HIDE DEF chain
    <3>2. /\ line \in Seq(Slot) /\ Len(line) = Len(chain) + Len(FreshLine)
          /\ \A i \in 1 .. Len(chain) + Len(FreshLine) : line[i] = IF i <= Len(chain) THEN chain[i] ELSE FreshLine[i - Len(chain)]
      BY <3>1, ConcatProperties
    <3> HIDE DEF line
    <3> QED
      BY <3>1, <3>2
  <2>4. DOMAIN line = 1 .. Len(chain) + PerLine /\ PerLine \in Nat \ {0}
    BY <2>3, TableAssumption
  <2> HIDE DEF line
  <2>5. /\ \A i \in DOMAIN chain : i \in DOMAIN line /\ line[i] = chain[i]
        /\ \A i \in DOMAIN line \ DOMAIN chain : line[i] = FreshSlot
    <3>1. ASSUME NEW i \in DOMAIN line \ DOMAIN chain PROVE line[i] = FreshSlot
      <4>1. i - Len(chain) \in 1 .. PerLine /\ ~(i <= Len(chain)) /\ i \in 1 .. Len(chain) + PerLine
        BY <1>0, <2>4
      <4> QED
        BY <2>3, <4>1, FreshSound
    <3> QED
      BY <1>0, <2>3, <2>4, <3>1
  <2>6. k \in DOMAIN line
    BY <1>0, <2>1, <2>4
  <2>7. slots \in [Buckets -> Seq(Slot)]
    BY DEF TableInv, TableTyped
  <2> DEFINE d == t.slots
  <2>8. d \in [Buckets -> Seq(Slot)] /\ d[b] = line /\ \A x \in Buckets \ {b} : d[x] = slots[x]
    BY <1>0, <2>2, <2>3, <2>7
  <2> HIDE DEF d
  <2>9. \A x \in Buckets : /\ \A i \in DOMAIN slots[x] : i \in DOMAIN d[x] /\ d[x][i] = slots[x][i]
                           /\ \A i \in DOMAIN d[x] \ DOMAIN slots[x] : d[x][i] = FreshSlot
    BY <2>5, <2>8
  <2>10. AllSound(d)
    BY <2>9, FreshSound DEF TableInv, AllSound
  <2>11. Placed(d, log)
    BY <2>9 DEF TableInv, TableTyped, Placed
  <2>12. AllMatch(d, log)
    <3> SUFFICES ASSUME NEW p \in Nodes, NEW x \in Buckets, NEW i \in DOMAIN d[x]
                 PROVE  Matches(log[p], <<x, i>>, LocksOf(d[x][i], p))
      BY DEF AllMatch
    <3>1. CASE i \in DOMAIN slots[x]
      BY <2>9, <3>1 DEF TableInv, AllMatch
    <3>2. CASE i \notin DOMAIN slots[x]
      <4>1. Entries(log[p], <<x, i>>) = {}
        BY <3>2 DEF TableInv, Placed, Entries
      <4>2. LocksOf(d[x][i], p) = 0
        BY <2>9, <3>2, FreshSound
      <4>3. Cardinality(Entries(log[p], <<x, i>>)) = 0
        BY <4>1, FS_EmptySet
      <4> QED
        BY <4>2, <4>3 DEF Matches
    <3> QED
      BY <3>1, <3>2
  <2>13. Addressed(d)
    <3> SUFFICES ASSUME NEW x \in Buckets, NEW i \in DOMAIN d[x], d[x][i].addr # 0
                 PROVE  Bucket[d[x][i].addr] = x /\ \A j \in DOMAIN d[x] : d[x][j].addr = d[x][i].addr => j = i
      BY DEF Addressed
    <3>1. \A j \in DOMAIN d[x] : d[x][j].addr # 0 => j \in DOMAIN slots[x] /\ d[x][j] = slots[x][j]
      BY <2>9 DEF FreshSlot
    <3> QED
      BY <3>1 DEF TableInv, Addressed
  <2>14. TableInv(d, log)
    BY <2>8, <2>10, <2>11, <2>12, <2>13 DEF TableInv, TableTyped
  <2>15. d[b][k].addr = 0 /\ \A i \in DOMAIN d[b] : d[b][i].addr # a
    <3>1. k \in DOMAIN d[b] /\ k \notin DOMAIN slots[b]
      BY <1>9, <2>6, <2>8
    <3>2. d[b][k] = FreshSlot
      BY <1>0, <2>9, <3>1
    <3>3. ASSUME NEW i \in DOMAIN d[b] PROVE d[b][i].addr # a
      <4>1. CASE i \in DOMAIN slots[b]
        BY <1>0, <1>5, <2>1, <2>9, <4>1
      <4>2. CASE i \notin DOMAIN slots[b]
        <5>1. d[b][i] = FreshSlot
          BY <1>0, <2>9, <4>2
        <5> QED
          BY <1>0, <5>1 DEF FreshSlot
      <4> QED
        BY <4>1, <4>2
    <3> QED
      BY <3>2, <3>3 DEF FreshSlot
  <2>16. t = [slots |-> d, log |-> log]
    BY <2>2 DEF d
  <2> QED
    BY <1>0, <1>2, <2>1, <2>6, <2>8, <2>9, <2>14, <2>15, <2>16 DEF d
<1> QED
  BY <1>8, <1>9

\* One write to one slot, and one log entry more
PutAt(c, s, e) == [c EXCEPT ![s[1]][s[2]] = e]
LogAt(l, p, s) == [l EXCEPT ![p] = Append(@, s)]
Pair(c, l) == [slots |-> c, log |-> l]

LEMMA EntriesLogged ==
  ASSUME NEW m \in [Nodes -> Seq(Buckets \X (Nat \ {0}))], NEW p \in Nodes,
         NEW s \in Buckets \X (Nat \ {0}), NEW x
  PROVE  /\ Append(m[p], s) \in Seq(Buckets \X (Nat \ {0}))
         /\ x = s => Cardinality(Entries(Append(m[p], s), x)) = Cardinality(Entries(m[p], x)) + 1
         /\ x # s => Cardinality(Entries(Append(m[p], s), x)) = Cardinality(Entries(m[p], x))
         /\ \A j \in DOMAIN Append(m[p], s) :
              Append(m[p], s)[j] = s \/ \E i \in DOMAIN m[p] : Append(m[p], s)[j] = m[p][i]
<1>1. PICK es : es = m[p]
  OBVIOUS
<1>2. es \in Seq(Buckets \X (Nat \ {0}))
  BY <1>1
<1>3. Append(es, s) \in Seq(Buckets \X (Nat \ {0}))
  BY <1>2
<1>4. /\ x = s => Cardinality(Entries(Append(es, s), x)) = Cardinality(Entries(es, x)) + 1
      /\ x # s => Cardinality(Entries(Append(es, s), x)) = Cardinality(Entries(es, x))
  BY <1>2, EntriesAppend
<1>5. ASSUME NEW j \in DOMAIN Append(es, s)
      PROVE  Append(es, s)[j] = s \/ \E i \in DOMAIN es : Append(es, s)[j] = es[i]
  <2>1. j = Len(es) + 1 \/ j \in DOMAIN es
    BY <1>2
  <2> QED
    BY <1>2, <2>1
<1> QED
  BY <1>1, <1>3, <1>4, <1>5

\* One lock of p is put into the slot for a, and logged.
LEMMA PutLogged ==
  ASSUME bits \in BOOLEAN, NEW d, NEW m, TableInv(d, m), NEW p \in Nodes, NEW a \in Addrs,
         NEW b \in Buckets, b = Bucket[a], NEW k \in DOMAIN d[b], NEW f, Sound(f), f.addr = a,
         \A i \in DOMAIN d[b] : d[b][i].addr = a => i = k,
         \A q \in Nodes \ {p} : LocksOf(f, q) = LocksOf(d[b][k], q),
         LocksOf(f, p) =< LocksOf(d[b][k], p) + 1, ~bits => LocksOf(f, p) = LocksOf(d[b][k], p) + 1,
         NEW s \in Buckets \X (Nat \ {0}), s[1] = b, s[2] = k, NEW c, c = PutAt(d, s, f), NEW l, l = LogAt(m, p, s)
  PROVE  /\ TableInv(c, l)
         /\ \A x \in Buckets : DOMAIN c[x] = DOMAIN d[x]
         /\ c[b][k] = f
         /\ \A x \in Buckets : \A i \in DOMAIN d[x] : x # b \/ i # k => c[x][i] = d[x][i]
<1>0. /\ d \in [Buckets -> Seq(Slot)] /\ m \in [Nodes -> Seq(Buckets \X (Nat \ {0}))]
      /\ AllSound(d) /\ AllMatch(d, m) /\ Placed(d, m) /\ Addressed(d)
  BY DEF TableInv, TableTyped
<1>1. f \in Slot
  BY DEF Sound
<1>2. /\ c \in [Buckets -> Seq(Slot)] /\ \A x \in Buckets : DOMAIN c[x] = DOMAIN d[x]
      /\ c[b][k] = f
      /\ \A x \in Buckets : \A i \in DOMAIN d[x] : x # b \/ i # k => c[x][i] = d[x][i]
  <2>1. c = [d EXCEPT ![b][k] = f]
    BY <1>1 DEF PutAt
  <2> QED
    BY <1>0, <1>1, <2>1, PutSlot
<1>3. /\ l \in [Nodes -> Seq(Buckets \X (Nat \ {0}))]
      /\ l[p] = Append(m[p], s) /\ \A q \in Nodes \ {p} : l[q] = m[q]
  <2>1. Append(m[p], s) \in Seq(Buckets \X (Nat \ {0}))
    BY <1>0, <1>1, EntriesLogged
  <2> QED
    BY <1>0, <2>1 DEF LogAt
<1>4. ASSUME NEW y
      PROVE  /\ y = s => Cardinality(Entries(l[p], y)) = Cardinality(Entries(m[p], y)) + 1
             /\ y # s => Cardinality(Entries(l[p], y)) = Cardinality(Entries(m[p], y))
  <2>1. PICK es : es = m[p]
    OBVIOUS
  <2>2. es \in Seq(Buckets \X (Nat \ {0})) /\ l[p] = Append(es, s)
    BY <1>0, <1>3, <2>1
  <2>3. /\ y = s => Cardinality(Entries(Append(es, s), y)) = Cardinality(Entries(es, y)) + 1
        /\ y # s => Cardinality(Entries(Append(es, s), y)) = Cardinality(Entries(es, y))
    BY <2>2, EntriesAppend
  <2> QED
    BY <2>1, <2>2, <2>3
<1>5. AllSound(c)
  <2> SUFFICES ASSUME NEW x \in Buckets, NEW i \in DOMAIN d[x] PROVE Sound(c[x][i])
    BY <1>2 DEF AllSound
  <2>1. CASE x = b /\ i = k
    BY <1>2, <2>1
  <2>2. CASE x # b \/ i # k
    BY <1>0, <1>2, <2>2 DEF AllSound
  <2> QED
    BY <2>1, <2>2
<1>6. AllMatch(c, l)
  <2> SUFFICES ASSUME NEW q \in Nodes, NEW x \in Buckets, NEW i \in DOMAIN d[x]
               PROVE  Matches(l[q], <<x, i>>, LocksOf(c[x][i], q))
    BY <1>2 DEF AllMatch
  <2>1. Matches(m[q], <<x, i>>, LocksOf(d[x][i], q))
    BY <1>0 DEF AllMatch
  <2>2. CASE q # p
    <3>1. l[q] = m[q]
      BY <1>3, <2>2
    <3>2. LocksOf(c[x][i], q) = LocksOf(d[x][i], q)
      <4>1. CASE x = b /\ i = k
        BY <1>2, <2>2, <4>1
      <4>2. CASE x # b \/ i # k
        BY <1>2, <4>2
      <4> QED
        BY <4>1, <4>2
    <3> QED
      BY <2>1, <3>1, <3>2
  <2>3. CASE q = p
    <3>1. /\ x = b /\ i = k => Cardinality(Entries(l[p], <<x, i>>)) = Cardinality(Entries(m[p], <<x, i>>)) + 1
          /\ x # b \/ i # k => Cardinality(Entries(l[p], <<x, i>>)) = Cardinality(Entries(m[p], <<x, i>>))
      <4>1. PICK y : y = <<x, i>>
        OBVIOUS
      <4>2. y = s <=> x = b /\ i = k
        BY <4>1
      <4> QED
        BY <1>4, <4>1, <4>2
    <3>2. Cardinality(Entries(m[p], <<x, i>>)) \in Nat
      <4>1. m[p] \in Seq(Buckets \X (Nat \ {0}))
        BY <1>0
      <4> QED
        BY <4>1, EntriesFinite
    <3>3. LocksOf(d[x][i], p) \in 0 .. 2 /\ LocksOf(c[x][i], p) \in 0 .. 2
      BY LocksCount
    <3>4. CASE x = b /\ i = k
      <4>1. Cardinality(Entries(l[p], <<x, i>>)) = Cardinality(Entries(m[p], <<x, i>>)) + 1
        BY <3>1, <3>4
      <4>2. /\ LocksOf(c[x][i], p) =< LocksOf(d[x][i], p) + 1
            /\ ~bits => LocksOf(c[x][i], p) = LocksOf(d[x][i], p) + 1
        BY <1>2, <3>4
      <4> QED
        BY <2>1, <2>3, <3>2, <3>3, <4>1, <4>2 DEF Matches
    <3>5. CASE x # b \/ i # k
      <4>1. Cardinality(Entries(l[p], <<x, i>>)) = Cardinality(Entries(m[p], <<x, i>>))
        BY <3>1, <3>5
      <4>2. LocksOf(c[x][i], p) = LocksOf(d[x][i], p)
        BY <1>2, <3>5
      <4> QED
        BY <2>1, <2>3, <3>2, <3>3, <4>1, <4>2 DEF Matches
    <3> QED
      BY <3>4, <3>5
  <2> QED
    BY <2>2, <2>3
<1>7. Placed(c, l)
  <2> SUFFICES ASSUME NEW q \in Nodes, NEW j \in DOMAIN l[q] PROVE l[q][j][2] \in DOMAIN c[l[q][j][1]]
    BY DEF Placed
  <2>1. \A i \in DOMAIN m[q] : m[q][i][1] \in Buckets /\ m[q][i][2] \in DOMAIN d[m[q][i][1]]
    BY <1>0 DEF Placed
  <2>2. l[q][j] = s \/ \E i \in DOMAIN m[q] : l[q][j] = m[q][i]
    <3>1. CASE q # p
      BY <1>3, <3>1
    <3>2. CASE q = p
      <4>1. l[q] = Append(m[p], s)
        BY <1>3, <3>2
      <4>2. \A i \in DOMAIN Append(m[p], s) : Append(m[p], s)[i] = s \/ \E n \in DOMAIN m[p] : Append(m[p], s)[i] = m[p][n]
        BY <1>0, <1>1, EntriesLogged
      <4> QED
        BY <3>2, <4>1, <4>2
    <3> QED
      BY <3>1, <3>2
  <2>3. CASE l[q][j] = s
    BY <1>2, <2>3
  <2>4. ASSUME NEW i \in DOMAIN m[q], l[q][j] = m[q][i] PROVE l[q][j][2] \in DOMAIN c[l[q][j][1]]
    BY <1>2, <2>1, <2>4
  <2> QED
    BY <2>2, <2>3, <2>4
<1>8. Addressed(c)
  <2> SUFFICES ASSUME NEW x \in Buckets, NEW i \in DOMAIN d[x], c[x][i].addr # 0
               PROVE  Bucket[c[x][i].addr] = x /\ \A j \in DOMAIN d[x] : c[x][j].addr = c[x][i].addr => j = i
    BY <1>2 DEF Addressed
  <2>1. CASE x # b
    <3>1. \A j \in DOMAIN d[x] : c[x][j] = d[x][j]
      BY <1>2, <2>1
    <3> QED
      BY <1>0, <3>1 DEF Addressed
  <2>2. CASE x = b
    <3>1. \A j \in DOMAIN d[b] : j # k => c[b][j] = d[b][j]
      BY <1>2
    <3>2. CASE i = k
      BY <1>2, <2>2, <3>1, <3>2
    <3>3. CASE i # k
      <4>1. c[b][i] = d[b][i] /\ d[b][i].addr # a
        BY <2>2, <3>1, <3>3
      <4>2. Bucket[d[b][i].addr] = b /\ \A j \in DOMAIN d[b] : d[b][j].addr = d[b][i].addr => j = i
        BY <1>0, <2>2, <4>1 DEF Addressed
      <4>3. ASSUME NEW j \in DOMAIN d[b], c[b][j].addr = d[b][i].addr PROVE j = i
        BY <1>2, <3>1, <4>1, <4>2, <4>3
      <4> QED
        BY <2>2, <4>1, <4>2, <4>3
    <3> QED
      BY <3>2, <3>3
  <2> QED
    BY <2>1, <2>2
<1>9. TableInv(c, l)
  BY <1>2, <1>3, <1>5, <1>6, <1>7, <1>8 DEF TableInv, TableTyped
<1> QED
  BY <1>2, <1>9

\* The slot <<b, k>> of the table c is the slot f for a, the rest is as in d.
Entered(d, c, b, k, a, readers, writer) ==
  /\ \A x \in Buckets : DOMAIN c[x] = DOMAIN d[x]
  /\ c[b][k].addr = a /\ c[b][k].reader = readers /\ c[b][k].writer = writer
  /\ \A x \in Buckets : \A i \in DOMAIN d[x] : x # b \/ i # k => c[x][i] = d[x][i]

\* The count of the readers has room for all nodes.
LEMMA ReaderCounted ==
  ASSUME bits \in BOOLEAN, NEW e, Sound(e), NEW p \in Nodes, bits \/ p \notin e.reader,
         Cardinality(Nodes) < NrMod
  PROVE  LET f == PlusReader(e, p)
         IN  /\ f \in Slot /\ f.reader = e.reader \cup {p} /\ f.writer = e.writer /\ f.addr = e.addr
             /\ bits => f.nr = 0
             /\ ~bits => f.nr = Cardinality(f.reader)
<1> DEFINE f == PlusReader(e, p)
<1>1. e \in Slot /\ e.reader \subseteq Nodes /\ NrMod \in Nat \ {0} /\ e.nr \in 0 .. NrMod - 1 /\ 0 \in 0 .. NrMod - 1
  BY TableAssumption DEF Sound, Slot
<1>2. IsFiniteSet(Nodes)
  <2>1. IsFiniteSet(0 .. NumUes - 1)
    BY FS_Interval, TableAssumption
  <2> QED
    BY <2>1, FS_Subset, TableAssumption
<1>3. (e.nr + 1) % NrMod \in 0 .. NrMod - 1 /\ (e.nr + 1 < NrMod => (e.nr + 1) % NrMod = e.nr + 1)
  BY <1>1, CountUp
<1>4. f \in Slot /\ f.reader = e.reader \cup {p} /\ f.writer = e.writer /\ f.addr = e.addr
  BY <1>1, <1>3 DEF PlusReader, Slot
<1>5. bits => f.nr = 0
  BY <1>1 DEF PlusReader, Slot
<1>6. ASSUME ~bits PROVE f.nr = Cardinality(f.reader)
  <2>1. IsFiniteSet(e.reader) /\ IsFiniteSet(f.reader)
    BY <1>1, <1>2, <1>4, FS_Subset
  <2>2. Cardinality(f.reader) = Cardinality(e.reader) + 1
    BY <1>4, <1>6, <2>1, FS_AddElement
  <2>3. Cardinality(f.reader) =< Cardinality(Nodes)
    <3>1. f.reader \subseteq Nodes
      BY <1>1, <1>4
    <3> QED
      BY <1>2, <3>1, FS_Subset
  <2>4. Cardinality(f.reader) \in Nat /\ Cardinality(Nodes) \in Nat
    BY <1>2, <2>1, FS_CardinalityType
  <2>5. e.nr = Cardinality(e.reader)
    BY <1>6 DEF Sound
  <2>6. e.nr + 1 < NrMod
    BY <1>1, <2>2, <2>3, <2>4, <2>5
  <2>7. f.nr = (e.nr + 1) % NrMod
    BY <1>1, <1>6 DEF PlusReader, Slot
  <2> QED
    BY <1>3, <2>2, <2>5, <2>6, <2>7
<1> QED
  BY <1>4, <1>5, <1>6

LEMMA PutIn ==
  ASSUME NEW d, NEW m, NEW s, NEW e
  PROVE  Put(Pair(d, m), s, e) = Pair(PutAt(d, s, e), m)
BY DEF Put, Pair, PutAt

LEMMA LoggedIn ==
  ASSUME NEW c, NEW m, NEW p, NEW s
  PROVE  Logged(Pair(c, m), p, s) = Pair(c, LogAt(m, p, s))
BY DEF Logged, Pair, LogAt

LEMMA PairIs ==
  ASSUME NEW c, NEW m
  PROVE  Pair(c, m).slots = c /\ Pair(c, m).log = m
BY DEF Pair

\* The ends of bucket_insert_r and bucket_insert_w
Marked(e, a) == [e EXCEPT !.addr = a]
Owned(e, a, p) == [e EXCEPT !.addr = a, !.writer = p]

\* The slot s = <<b, k>> is ready for a: it has no writer and no other slot holds a.
Ready(d, m, a, b, k, s) ==
  /\ TableInv(d, m) /\ b \in Buckets /\ b = Bucket[a] /\ k \in DOMAIN d[b]
  /\ d[b][k].addr \in {a, 0} /\ d[b][k].writer = NoWriter
  /\ \A i \in DOMAIN d[b] : d[b][i].addr = a => i = k
  /\ s \in Buckets \X (Nat \ {0}) /\ s[1] = b /\ s[2] = k

LEMMA EnterReaderIs ==
  ASSUME NEW d, NEW m, NEW a, NEW b, NEW k, NEW s, NEW p, NEW t, NEW u,
         Ready(d, m, a, b, k, s), t = Pair(d, m), u = EnterReader(t, p, a, s),
         p \in Nodes, a \in Addrs, ~Has(a) => d[b][k].addr = 0,
         bits \in BOOLEAN, Cardinality(Nodes) < NrMod
  PROVE  /\ u = Pair(u.slots, u.log)
         /\ TableInv(u.slots, u.log)
         /\ Entered(d, u.slots, b, k, a, d[b][k].reader \cup {p}, NoWriter)
<1> USE DEF Ready
<1> DEFINE e == d[b][k]
           g == Marked(e, a)
           f == PlusReader(g, p)
<1>0. a # 0 /\ p # NoWriter /\ d \in [Buckets -> Seq(Slot)] /\ m \in [Nodes -> Seq(Buckets \X (Nat \ {0}))]
  BY TableAssumption DEF TableInv, TableTyped
<1>1. Sound(e) /\ e \in Slot
  BY DEF TableInv, AllSound, Sound
<1>2. e.addr = 0 => e.reader = {} /\ e.writer = NoWriter
  BY <1>1 DEF Sound
<1>3. u = IF Has(a) /\ p \in e.reader /\ ~bits THEN Pair(PutAt(d, s, g), m)
          ELSE Pair(PutAt(d, s, f), LogAt(m, p, s))
  <2>1. e = d[s[1]][s[2]]
    OBVIOUS
  <2> HIDE DEF e, g, f
  <2>2. t.slots[s[1]][s[2]] = e
    BY <2>1, PairIs
  <2>3. EnterReader(t, p, a, s) = IF Has(a) /\ p \in e.reader /\ ~bits THEN Put(t, s, g) ELSE Logged(Put(t, s, f), p, s)
    BY <2>2, Zenon DEF EnterReader, Marked, g, f
  <2>4. Put(t, s, g) = Pair(PutAt(d, s, g), m) /\ Put(t, s, f) = Pair(PutAt(d, s, f), m)
    BY PutIn
  <2>5. Logged(Pair(PutAt(d, s, f), m), p, s) = Pair(PutAt(d, s, f), LogAt(m, p, s))
    BY LoggedIn
  <2> QED
    BY <2>3, <2>4, <2>5, Zenon
<1>4. CASE Has(a) /\ p \in e.reader /\ ~bits
  <2>1. e.addr = a
    BY <1>2, <1>4
  <2>2. g = e
    BY <1>1, <2>1 DEF Slot, Marked
  <2>3. PutAt(d, s, e) = d
    <3>1. [d[b] EXCEPT ![k] = e] = d[b]
      <4>1. d[b] \in Seq(Slot) /\ k \in 1 .. Len(d[b])
        BY <1>0
      <4> QED
        BY <1>1, <4>1, ExceptSeq, SeqEqual
    <3>2. [d EXCEPT ![b] = d[b]] = d
      BY <1>0
    <3>3. PutAt(d, s, e) = [d EXCEPT ![b][k] = e]
      BY DEF PutAt
    <3> QED
      BY <3>1, <3>2, <3>3
  <2>4. u = Pair(d, m)
    BY <1>3, <1>4, <2>2, <2>3, Zenon
  <2>5. u.slots = d /\ u.log = m
    BY <2>4, PairIs
  <2>6. e.reader \cup {p} = e.reader
    BY <1>4
  <2> QED
    BY <1>4, <2>1, <2>4, <2>5, <2>6 DEF Entered
<1>5. CASE ~(Has(a) /\ p \in e.reader /\ ~bits)
  <2>0. bits \/ p \notin e.reader
    BY <1>2, <1>5
  <2> DEFINE h == PlusReader(e, p)
  <2>1. /\ h \in Slot /\ h.reader = e.reader \cup {p} /\ h.writer = e.writer /\ h.addr = e.addr
        /\ bits => h.nr = 0
        /\ ~bits => h.nr = Cardinality(h.reader)
    BY <1>1, <2>0, ReaderCounted
  <2>2. f = [h EXCEPT !.addr = a]
    BY <1>1 DEF PlusReader, Slot, Marked
  <2> HIDE DEF h, f
  <2>3. f \in Slot /\ f.addr = a /\ f.reader = e.reader \cup {p} /\ f.writer = NoWriter /\ f.nr = h.nr
    BY <2>1, <2>2 DEF Slot
  <2>4. Sound(f)
    BY <1>0, <2>1, <2>3 DEF Sound
  <2>5. ASSUME NEW q \in Nodes \ {p} PROVE LocksOf(f, q) = LocksOf(e, q)
    BY <2>3 DEF LocksOf
  <2>6. LocksOf(f, p) =< LocksOf(e, p) + 1 /\ (~bits => LocksOf(f, p) = LocksOf(e, p) + 1)
    BY <1>0, <2>0, <2>3 DEF LocksOf
  <2> DEFINE c == PutAt(d, s, f)
             l == LogAt(m, p, s)
  <2>7. u = Pair(c, l)
    BY <1>3, <1>5, Zenon
  <2>8. u.slots = c /\ u.log = l
    BY <2>7, PairIs
  <2>9. c = PutAt(d, s, f) /\ l = LogAt(m, p, s)
    OBVIOUS
  <2> HIDE DEF c, l
  <2>10. /\ TableInv(c, l)
         /\ \A x \in Buckets : DOMAIN c[x] = DOMAIN d[x]
         /\ c[b][k] = f
         /\ \A x \in Buckets : \A i \in DOMAIN d[x] : x # b \/ i # k => c[x][i] = d[x][i]
    BY <2>3, <2>4, <2>5, <2>6, <2>9, PutLogged
  <2> QED
    BY <2>3, <2>7, <2>8, <2>10 DEF Entered
<1> QED
  BY <1>4, <1>5

LEMMA EnterWriterIs ==
  ASSUME NEW d, NEW m, NEW a, NEW b, NEW k, NEW s, NEW p, NEW t, NEW u,
         Ready(d, m, a, b, k, s), t = Pair(d, m), u = EnterWriter(t, p, a, s),
         p \in Nodes, a \in Addrs, d[b][k].reader \subseteq {p}, bits \in BOOLEAN
  PROVE  /\ u = Pair(u.slots, u.log)
         /\ TableInv(u.slots, u.log)
         /\ Entered(d, u.slots, b, k, a, d[b][k].reader, p)
<1> USE DEF Ready
<1> DEFINE e == d[b][k]
           f == Owned(e, a, p)
           c == PutAt(d, s, f)
           l == LogAt(m, p, s)
<1>1. a # 0 /\ p # NoWriter
  BY TableAssumption
<1>2. Sound(e) /\ e \in Slot
  BY DEF TableInv, AllSound, Sound
<1>3. f \in Slot /\ f.addr = a /\ f.reader = e.reader /\ f.writer = p /\ f.nr = e.nr
  BY <1>2 DEF Slot, Owned
<1>4. u = Pair(c, l)
  <2>1. e = d[s[1]][s[2]]
    OBVIOUS
  <2> HIDE DEF e, f
  <2>2. t.slots[s[1]][s[2]] = e
    BY <2>1, PairIs
  <2>3. EnterWriter(t, p, a, s) = Logged(Put(t, s, f), p, s)
    BY <2>2, Zenon DEF EnterWriter, Owned, f
  <2>4. Put(t, s, f) = Pair(PutAt(d, s, f), m)
    BY PutIn
  <2>5. Logged(Pair(PutAt(d, s, f), m), p, s) = Pair(PutAt(d, s, f), LogAt(m, p, s))
    BY LoggedIn
  <2> QED
    BY <2>3, <2>4, <2>5, Zenon DEF c, l
<1>5. c = PutAt(d, s, f) /\ l = LogAt(m, p, s)
  OBVIOUS
<1> HIDE DEF f, c, l
<1>6. u.slots = c /\ u.log = l
  BY <1>4, PairIs
<1>7. Sound(f)
  BY <1>1, <1>2, <1>3 DEF Sound
<1>8. ASSUME NEW q \in Nodes \ {p} PROVE LocksOf(f, q) = LocksOf(e, q)
  BY <1>3, TableAssumption DEF LocksOf
<1>9. LocksOf(f, p) = LocksOf(e, p) + 1 /\ LocksOf(e, p) \in 0 .. 2
  BY <1>1, <1>3, LocksCount DEF LocksOf
<1>10. /\ TableInv(c, l)
       /\ \A x \in Buckets : DOMAIN c[x] = DOMAIN d[x]
       /\ c[b][k] = f
       /\ \A x \in Buckets : \A i \in DOMAIN d[x] : x # b \/ i # k => c[x][i] = d[x][i]
  BY <1>3, <1>5, <1>7, <1>8, <1>9, PutLogged
<1> QED
  BY <1>3, <1>4, <1>6, <1>10 DEF Entered

-----------------------------------------------------------------------------
(* The requests and releases.                                                *)

\* A request for a takes its slot <<b, k>>: t is the table with that slot, u the
\* table when the losers V of a conflict are released.
Requested(a, V, b, k, t, u) == b = Bucket[a] /\ k = Place(a)[2] /\ t = WithPlace(a) /\ u = DeleteNodes(t, V)

\* The table when the losers of a conflict over a are gone: what stands in the slot for a.
LEMMA PlaceCleared ==
  ASSUME NEW a, NEW V, NEW b, NEW k, NEW t, NEW u, Requested(a, V, b, k, t, u),
         a \in Addrs, V \in SUBSET Nodes, ~Has(a) => V = {},
         bits \in BOOLEAN, TableInv(slots, log), stored \in [Nodes -> SUBSET Addrs], Known(slots, stored)
  PROVE  /\ b \in Buckets /\ Place(a) \in Buckets \X (Nat \ {0}) /\ Place(a)[1] = b
         /\ u = Pair(u.slots, u.log) /\ Evicted(t.slots, log, u.slots, u.log, V)
         /\ TableInv(u.slots, u.log) /\ Known(u.slots, stored)
         /\ k \in DOMAIN u.slots[b] /\ u.slots[b][k].addr \in {a, 0}
         /\ \A i \in DOMAIN u.slots[b] : u.slots[b][i].addr = a => i = k
         /\ ~Has(a) => u.slots[b][k].addr = 0 /\ u.slots[b][k].reader = {} /\ u.slots[b][k].writer = NoWriter
         /\ Has(a) => /\ k \in DOMAIN slots[b] /\ slots[b][k].addr = a
                      /\ Shed(slots[b][k], u.slots[b][k], V) /\ \A q \in V : LocksOf(u.slots[b][k], q) = 0
<1> USE DEF Requested
<1>1. /\ b \in Buckets /\ Place(a) = <<b, k>> /\ Place(a)[1] = b
      /\ t = [slots |-> t.slots, log |-> log]
      /\ TableInv(t.slots, log)
      /\ k \in DOMAIN t.slots[b]
  BY PlaceIs
<1>2. \A x \in Buckets : /\ \A i \in DOMAIN slots[x] : t.slots[x][i] = slots[x][i]
                         /\ \A i \in DOMAIN t.slots[x] \ DOMAIN slots[x] : t.slots[x][i] = FreshSlot
  BY PlaceIs
<1>3. /\ Has(a) => k \in DOMAIN slots[b] /\ slots[b][k].addr = a
      /\ ~Has(a) => /\ t.slots[b][k].addr = 0
                    /\ \A i \in DOMAIN t.slots[b] : t.slots[b][i].addr # a
  BY PlaceIs
<1>4. u = [slots |-> u.slots, log |-> u.log] /\ Evicted(t.slots, log, u.slots, u.log, V)
  BY <1>1, DeleteNodesIs
<1>5. Place(a) \in Buckets \X (Nat \ {0})
  <2>1. t.slots[b] \in Seq(Slot)
    BY <1>1 DEF TableInv, TableTyped
  <2>2. k \in Nat \ {0}
    BY <1>1, <2>1
  <2> QED
    BY <1>1, <2>2
<1>6. PICK c : c = t.slots
  OBVIOUS
<1>7. PICK d, m : d = u.slots /\ m = u.log
  OBVIOUS
<1>8. TableInv(c, log) /\ k \in DOMAIN c[b] /\ Evicted(c, log, d, m, V) /\ a # 0
  BY <1>1, <1>4, <1>6, <1>7, TableAssumption
<1>9. TableInv(d, m) /\ \A x \in Buckets : DOMAIN d[x] = DOMAIN c[x]
  BY <1>8 DEF Evicted
<1>10. \A x \in Buckets : \A i \in DOMAIN c[x] : Shed(c[x][i], d[x][i], V) /\ \A q \in V : LocksOf(d[x][i], q) = 0
  BY <1>8 DEF Evicted
<1>11. Known(c, stored)
  <2> SUFFICES ASSUME NEW x \in Buckets, NEW i \in DOMAIN c[x], NEW q \in Nodes PROVE Knows(c[x][i], q, stored)
    BY DEF Known
  <2>1. CASE i \in DOMAIN slots[x]
    BY <1>2, <1>6, <2>1 DEF Known
  <2>2. CASE i \notin DOMAIN slots[x]
    <3>1. c[x][i] = FreshSlot
      BY <1>2, <1>6, <2>2
    <3> QED
      BY <3>1, TableAssumption DEF FreshSlot, Knows
  <2> QED
    BY <2>1, <2>2
<1>12. Known(d, stored)
  BY <1>8, <1>11, EvictedKnown
<1>13. k \in DOMAIN d[b] /\ d[b][k].addr \in {a, 0}
  <2>1. c[b][k].addr \in {a, 0}
    BY <1>1, <1>2, <1>3, <1>6
  <2> QED
    BY <1>1, <1>8, <1>9, <1>10, <2>1 DEF Shed
<1>14. ASSUME NEW i \in DOMAIN d[b], d[b][i].addr = a PROVE i = k
  <2>1. i \in DOMAIN c[b] /\ c[b][i].addr = a
    BY <1>1, <1>8, <1>9, <1>10, <1>14 DEF Shed
  <2>2. c[b][k].addr = a
    BY <1>1, <1>2, <1>3, <1>6, <2>1
  <2> QED
    BY <1>1, <1>8, <2>1, <2>2 DEF TableInv, Addressed
<1>15. ASSUME ~Has(a) PROVE d[b][k].addr = 0 /\ d[b][k].reader = {} /\ d[b][k].writer = NoWriter
  <2>1. c[b][k].addr = 0
    BY <1>3, <1>6, <1>15
  <2>2. d[b][k].addr = 0
    BY <1>1, <1>8, <1>10, <2>1 DEF Shed
  <2>3. Sound(d[b][k])
    BY <1>1, <1>9, <1>13 DEF TableInv, AllSound
  <2> QED
    BY <2>2, <2>3 DEF Sound
<1>16. ASSUME Has(a)
       PROVE  /\ k \in DOMAIN slots[b] /\ slots[b][k].addr = a
              /\ Shed(slots[b][k], d[b][k], V) /\ \A q \in V : LocksOf(d[b][k], q) = 0
  <2>1. c[b][k] = slots[b][k]
    BY <1>1, <1>2, <1>3, <1>6, <1>16
  <2> QED
    BY <1>1, <1>3, <1>8, <1>10, <1>16, <2>1
<1> QED
  BY <1>1, <1>4, <1>5, <1>7, <1>9, <1>12, <1>13, <1>14, <1>15, <1>16 DEF Pair

\* What the lock table shows of a word stays known when its slot is entered.
LEMMA EnteredKnown ==
  ASSUME NEW d, NEW m, NEW a, NEW b, NEW k, NEW s, NEW st, NEW nst, NEW c, NEW readers, NEW writer,
         Ready(d, m, a, b, k, s), Entered(d, c, b, k, a, readers, writer), a \in Addrs, Known(d, st),
         \A q \in Nodes : nst[q] = st[q] \/ nst[q] = st[q] \cup {a},
         \A q \in Nodes : (writer = q => a \in nst[q]) /\ (q \in readers /\ a \in nst[q] => writer = q)
  PROVE  Known(c, nst)
<1> USE DEF Ready
<1> SUFFICES ASSUME NEW x \in Buckets, NEW i \in DOMAIN d[x], NEW q \in Nodes PROVE Knows(c[x][i], q, nst)
  BY DEF Known, Entered
<1>1. CASE x = b /\ i = k
  BY <1>1 DEF Entered, Knows
<1>2. CASE x # b \/ i # k
  <2>1. c[x][i] = d[x][i]
    BY <1>2 DEF Entered
  <2>2. d[x][i].addr # a
    <3>1. CASE d[x][i].addr = a
      <4>1. a # 0
        BY TableAssumption
      <4>2. x = b
        BY <3>1, <4>1 DEF TableInv, Addressed
      <4> QED
        BY <1>2, <3>1, <4>2
    <3> QED
      BY <3>1
  <2>3. Knows(d[x][i], q, st)
    BY DEF Known
  <2>4. nst[q] = st[q] \/ nst[q] = st[q] \cup {a}
    OBVIOUS
  <2> QED
    BY <2>1, <2>2, <2>3, <2>4 DEF Knows
<1> QED
  BY <1>1, <1>2

LEMMA BecomeIs ==
  ASSUME NEW u, Become(u)
  PROVE  slots' = u.slots /\ log' = u.log /\ bits' = bits
BY DEF Become

\* Whom a grant evicts
LEMMA ReadConflictIs ==
  ASSUME TableInv(slots, log), NEW a \in Addrs, NEW b, b = Bucket[a], NEW k, k = Place(a)[2]
  PROVE  /\ ReadConflict(a) \in SUBSET Nodes
         /\ ~Has(a) => ReadConflict(a) = {}
         /\ Has(a) /\ slots[b][k].writer = NoWriter => ReadConflict(a) = {}
         /\ Has(a) /\ slots[b][k].writer # NoWriter => ReadConflict(a) = {slots[b][k].writer}
<1>1. Place(a)[1] = b /\ b \in Buckets /\ (Has(a) => k \in DOMAIN slots[b])
  <2>1. PICK t : t = WithPlace(a)
    OBVIOUS
  <2> QED
    BY <2>1, PlaceIs
<1>2. Has(a) => slots[b][k].writer \in Nodes \cup {NoWriter}
  <2>1. Has(a) => slots[b][k] \in Slot
    BY <1>1 DEF TableInv, AllSound, Sound
  <2> QED
    BY <2>1 DEF Slot
<1> QED
  BY <1>1, <1>2 DEF ReadConflict

LEMMA LoadIs ==
  ASSUME IInv, Cardinality(Nodes) < NrMod, NEW p \in Nodes, NEW a \in Addrs, Load(p, a),
         NEW V, NEW b, NEW k, NEW t, NEW v, Requested(a, V, b, k, t, v), V = ReadConflict(a)
  PROVE  /\ TableInv(slots', log') /\ Known(slots', stored')
         /\ V \in SUBSET Nodes /\ Evicted(t.slots, log, v.slots, v.log, V)
         /\ b \in Buckets /\ k \in DOMAIN v.slots[b] /\ v.slots[b][k].addr \in {a, 0}
         /\ Entered(v.slots, slots', b, k, a, v.slots[b][k].reader \cup {p}, NoWriter)
<1>0. bits \in BOOLEAN /\ TableInv(slots, log) /\ stored \in [Nodes -> SUBSET Addrs] /\ Known(slots, stored)
  BY TableAssumption DEF IInv
<1>1. /\ V \in SUBSET Nodes /\ (~Has(a) => V = {})
      /\ Has(a) /\ slots[b][k].writer = NoWriter => V = {}
      /\ Has(a) /\ slots[b][k].writer # NoWriter => V = {slots[b][k].writer}
  BY <1>0, ReadConflictIs DEF Requested
<1>2. PICK d, m : d = v.slots /\ m = v.log
  OBVIOUS
<1>3. /\ b \in Buckets /\ Place(a) \in Buckets \X (Nat \ {0}) /\ Place(a)[1] = b
      /\ v = Pair(d, m) /\ Evicted(t.slots, log, d, m, V)
      /\ TableInv(d, m) /\ Known(d, stored)
      /\ k \in DOMAIN d[b] /\ d[b][k].addr \in {a, 0}
      /\ \A i \in DOMAIN d[b] : d[b][i].addr = a => i = k
  BY <1>0, <1>1, <1>2, PlaceCleared
<1>4. /\ ~Has(a) => d[b][k].addr = 0 /\ d[b][k].writer = NoWriter
      /\ Has(a) => Shed(slots[b][k], d[b][k], V) /\ \A q \in V : LocksOf(d[b][k], q) = 0
  BY <1>0, <1>1, <1>2, PlaceCleared
<1>5. d[b][k].writer = NoWriter
  <2>1. CASE ~Has(a)
    BY <1>4, <2>1
  <2>2. CASE Has(a) /\ slots[b][k].writer = NoWriter
    BY <1>1, <1>4, <2>2 DEF Shed
  <2>3. CASE Has(a) /\ slots[b][k].writer # NoWriter
    <3>1. LocksOf(d[b][k], slots[b][k].writer) = 0 /\ Shed(slots[b][k], d[b][k], V)
      BY <1>1, <1>4, <2>3
    <3>2. d[b][k].writer # slots[b][k].writer
      BY <3>1 DEF LocksOf
    <3> QED
      BY <3>1, <3>2 DEF Shed
  <2> QED
    BY <2>1, <2>2, <2>3
<1>6. PICK s, u : s = Place(a) /\ u = EnterReader(v, p, a, s)
  OBVIOUS
<1>7. Ready(d, m, a, b, k, s)
  BY <1>3, <1>5, <1>6 DEF Ready, Requested
<1>8. TableInv(u.slots, u.log) /\ Entered(d, u.slots, b, k, a, d[b][k].reader \cup {p}, NoWriter)
  <2>2. ~Has(a) => d[b][k].addr = 0
    BY <1>4
  <2>3. v = Pair(d, m)
    BY <1>3
  <2>4. u = EnterReader(v, p, a, s)
    BY <1>6
  <2> QED
    BY <1>0, <1>7, <2>2, <2>3, <2>4, EnterReaderIs
<1>9. slots' = u.slots /\ log' = u.log /\ stored' = stored /\ a \notin stored[p]
  <2>1. Become(u) /\ stored' = stored /\ a \notin stored[p]
    BY <1>6, Zenon DEF Load, MayLoad, Requested
  <2> QED
    BY <2>1, BecomeIs
<1>10. Known(u.slots, stored)
  <2>1. ASSUME NEW q \in Nodes, q \in d[b][k].reader \cup {p}, a \in stored[q] PROVE FALSE
    <3>1. q \in d[b][k].reader
      BY <1>9, <2>1
    <3>2. Sound(d[b][k]) /\ Knows(d[b][k], q, stored)
      BY <1>3 DEF TableInv, AllSound, Known
    <3>3. d[b][k].addr = a
      BY <1>3, <3>1, <3>2 DEF Sound
    <3> QED
      BY <1>5, <2>1, <3>1, <3>2, <3>3, TableAssumption DEF Knows
  <2>2. \A q \in Nodes : NoWriter # q
    BY TableAssumption
  <2>3. \A q \in Nodes : (NoWriter = q => a \in stored[q]) /\ (q \in d[b][k].reader \cup {p} /\ a \in stored[q] => NoWriter = q)
    BY <2>1, <2>2
  <2>4. PICK R, c : R = d[b][k].reader \cup {p} /\ c = u.slots
    OBVIOUS
  <2> QED
    BY <1>3, <1>8, <1>7, <2>3, <2>4, EnteredKnown
<1> QED
  BY <1>1, <1>2, <1>3, <1>8, <1>9, <1>10

\* The count and the bitmap tell alike whether there are readers besides p.
LEMMA OtherReadersIs ==
  ASSUME NEW e, Sound(e), NEW p \in Nodes
  PROVE  OtherReaders(e, p) <=> e.reader \ {p} # {}
<1>1. IsFiniteSet(e.reader)
  <2>1. e.reader \subseteq 0 .. NumUes - 1 /\ NumUes \in Nat
    BY TableAssumption DEF Sound, Slot
  <2>2. IsFiniteSet(0 .. NumUes - 1)
    BY <2>1, FS_Interval
  <2> QED
    BY <2>1, <2>2, FS_Subset
<1>2. CASE bits
  BY <1>2 DEF OtherReaders
<1>3. CASE ~bits
  <2>1. e.nr = Cardinality(e.reader)
    BY <1>3 DEF Sound
  <2> DEFINE R == e.reader \ {p}
  <2>2. IsFiniteSet(R) /\ Cardinality(R) \in Nat /\ (Cardinality(R) = 0 <=> R = {})
    <3>1. IsFiniteSet(R)
      BY <1>1, FS_Subset
    <3> QED
      BY <3>1, FS_CardinalityType, FS_EmptySet
  <2>3. Cardinality(R) = IF p \in e.reader THEN Cardinality(e.reader) - 1 ELSE Cardinality(e.reader)
    BY <1>1, FS_RemoveElement
  <2>4. Cardinality(e.reader) \in Nat
    BY <1>1, FS_CardinalityType
  <2> HIDE DEF R
  <2>5. (e.nr > 1 \/ (e.nr = 1 /\ p \notin e.reader)) <=> R # {}
    <3>1. PICK n, r : n = Cardinality(e.reader) /\ r = Cardinality(R)
      OBVIOUS
    <3>2. n \in Nat /\ r \in Nat /\ e.nr = n /\ (r = 0 <=> R = {})
      BY <2>1, <2>2, <2>4, <3>1
    <3>3. CASE p \in e.reader
      <4>1. r = n - 1
        BY <2>3, <3>1, <3>3
      <4> QED
        BY <3>2, <3>3, <4>1
    <3>4. CASE p \notin e.reader
      <4>1. r = n
        BY <2>3, <3>1, <3>4
      <4> QED
        BY <3>2, <3>4, <4>1
    <3> QED
      BY <3>3, <3>4
  <2> QED
    BY <1>3, <2>5 DEF OtherReaders, R
<1> QED
  BY <1>2, <1>3

\* Whom a grant of the write lock evicts
Losers(p, a) == IF WriteConflicts(p, a).any THEN WriteConflicts(p, a).who ELSE {}

LEMMA LosersAre ==
  ASSUME NEW p, NEW a, NEW V, V = Losers(p, a),
         NEW b, b = Bucket[a], NEW k, k = Place(a)[2],
         p \in Nodes, a \in Addrs, a \notin stored[p], TableInv(slots, log), Known(slots, stored)
  PROVE  /\ V \in SUBSET Nodes
         /\ ~Has(a) => V = {}
         /\ Has(a) /\ slots[b][k].writer = NoWriter => V = slots[b][k].reader \ {p}
         /\ Has(a) /\ slots[b][k].writer # NoWriter => V = {slots[b][k].writer}
<1>1. Place(a)[1] = b /\ b \in Buckets /\ (Has(a) => k \in DOMAIN slots[b] /\ slots[b][k].addr = a)
  <2>1. PICK t : t = WithPlace(a)
    OBVIOUS
  <2> QED
    BY <2>1, PlaceIs
<1>2. PICK e : e = slots[b][k]
  OBVIOUS
<1>3. Place(a)[2] = k
  OBVIOUS
<1> USE DEF Losers
<1>4. CASE ~Has(a)
  <2>1. WriteConflicts(p, a).any = FALSE
    BY <1>4 DEF WriteConflicts
  <2> QED
    BY <1>4, <2>1
<1>5. CASE Has(a)
  <2>1. Sound(e) /\ e.writer \in Nodes \cup {NoWriter} /\ e.reader \subseteq Nodes
    <3>1. Sound(e)
      BY <1>1, <1>2, <1>5 DEF TableInv, AllSound
    <3> QED
      BY <3>1 DEF Sound, Slot
  <2>2. e.writer # p
    <3>1. Knows(e, p, stored)
      BY <1>1, <1>2, <1>5 DEF Known
    <3> QED
      BY <1>1, <1>2, <1>5, <3>1 DEF Knows
  <2>3. CASE e.writer = NoWriter
    <3>1. WriteConflicts(p, a) = [any |-> OtherReaders(e, p), who |-> e.reader \ {p}]
      BY <1>1, <1>2, <1>3, <1>5, <2>3, Zenon DEF WriteConflicts
    <3>2. WriteConflicts(p, a).any = OtherReaders(e, p) /\ WriteConflicts(p, a).who = e.reader \ {p}
      BY <3>1
    <3>3. OtherReaders(e, p) <=> e.reader \ {p} # {}
      BY <2>1, OtherReadersIs
    <3>4. V = e.reader \ {p}
      BY <3>2, <3>3
    <3> QED
      BY <1>2, <1>5, <2>1, <2>3, <3>4
  <2>4. CASE e.writer # NoWriter
    <3>1. WriteConflicts(p, a) = [any |-> TRUE, who |-> {e.writer}]
      BY <1>1, <1>2, <1>3, <1>5, <2>2, <2>4 DEF WriteConflicts
    <3>2. V = {e.writer}
      BY <3>1
    <3> QED
      BY <1>2, <1>5, <2>1, <2>4, <3>2
  <2> QED
    BY <2>3, <2>4
<1> QED
  BY <1>4, <1>5

LEMMA StoreIs ==
  ASSUME NEW a, NEW V, NEW b, NEW k, NEW t, NEW v, Requested(a, V, b, k, t, v),
         NEW p, V = Losers(p, a),
         p \in Nodes, a \in Addrs, IInv, ~Restores, Store(p, a)
  PROVE  /\ TableInv(slots', log') /\ Known(slots', stored')
         /\ V \in SUBSET Nodes /\ Evicted(t.slots, log, v.slots, v.log, V)
         /\ b \in Buckets /\ k \in DOMAIN v.slots[b] /\ v.slots[b][k].addr \in {a, 0}
         /\ Entered(v.slots, slots', b, k, a, v.slots[b][k].reader, p)
<1>0. bits \in BOOLEAN /\ TableInv(slots, log) /\ stored \in [Nodes -> SUBSET Addrs] /\ Known(slots, stored)
  BY TableAssumption DEF IInv
<1>1. a \notin stored[p]
  BY DEF Store, MayStore
<1>2. /\ V \in SUBSET Nodes /\ (~Has(a) => V = {})
      /\ Has(a) /\ slots[b][k].writer = NoWriter => V = slots[b][k].reader \ {p}
      /\ Has(a) /\ slots[b][k].writer # NoWriter => V = {slots[b][k].writer}
  BY <1>0, <1>1, LosersAre DEF Requested
<1>3. PICK d, m : d = v.slots /\ m = v.log
  OBVIOUS
<1>4. /\ b \in Buckets /\ Place(a) \in Buckets \X (Nat \ {0}) /\ Place(a)[1] = b
      /\ v = Pair(d, m) /\ Evicted(t.slots, log, d, m, V)
      /\ TableInv(d, m) /\ Known(d, stored)
      /\ k \in DOMAIN d[b] /\ d[b][k].addr \in {a, 0}
      /\ \A i \in DOMAIN d[b] : d[b][i].addr = a => i = k
  BY <1>0, <1>2, <1>3, PlaceCleared
<1>5. /\ ~Has(a) => d[b][k].reader = {} /\ d[b][k].writer = NoWriter
      /\ Has(a) => k \in DOMAIN slots[b] /\ Shed(slots[b][k], d[b][k], V) /\ \A q \in V : LocksOf(d[b][k], q) = 0
  BY <1>0, <1>2, <1>3, PlaceCleared
<1>6. d[b][k].writer = NoWriter /\ d[b][k].reader \subseteq {p}
  <2>1. CASE ~Has(a)
    BY <1>5, <2>1
  <2>2. CASE Has(a) /\ slots[b][k].writer = NoWriter
    <3>1. \A q \in V : q \notin d[b][k].reader
      BY <1>5, <2>2 DEF LocksOf
    <3> QED
      BY <1>2, <1>5, <2>2, <3>1 DEF Shed
  <2>3. CASE Has(a) /\ slots[b][k].writer # NoWriter
    <3>1. LocksOf(d[b][k], slots[b][k].writer) = 0 /\ Shed(slots[b][k], d[b][k], V)
      BY <1>2, <1>5, <2>3
    <3>2. slots[b][k].reader \subseteq {slots[b][k].writer}
      BY <1>0, <1>4, <1>5, <2>3 DEF TableInv, AllSound, Sound
    <3>3. d[b][k].writer # slots[b][k].writer /\ slots[b][k].writer \notin d[b][k].reader
      BY <3>1 DEF LocksOf
    <3> QED
      BY <3>1, <3>2, <3>3 DEF Shed
  <2> QED
    BY <2>1, <2>2, <2>3
<1>7. PICK s, u : s = Place(a) /\ u = EnterWriter(v, p, a, s)
  OBVIOUS
<1>8. Ready(d, m, a, b, k, s)
  BY <1>4, <1>6, <1>7 DEF Ready, Requested
<1>9. TableInv(u.slots, u.log) /\ Entered(d, u.slots, b, k, a, d[b][k].reader, p)
  <2>1. v = Pair(d, m)
    BY <1>4
  <2>2. u = EnterWriter(v, p, a, s)
    BY <1>7
  <2> QED
    BY <1>0, <1>6, <1>8, <2>1, <2>2, EnterWriterIs
<1>10. slots' = u.slots /\ log' = u.log /\ stored' = [stored EXCEPT ![p] = @ \cup {a}]
  <2>1. Become(u) /\ stored' = [stored EXCEPT ![p] = @ \cup {a}]
    BY <1>7, Zenon DEF Store, Requested, Losers
  <2> QED
    BY <2>1, BecomeIs
<1>11. Known(u.slots, stored')
  <2>1. PICK R, c, nst : R = d[b][k].reader /\ c = u.slots /\ nst = stored'
    OBVIOUS
  <2>2. \A q \in Nodes : nst[q] = IF q = p THEN stored[q] \cup {a} ELSE stored[q]
    BY <1>0, <1>10, <2>1
  <2>3. \A q \in Nodes : nst[q] = stored[q] \/ nst[q] = stored[q] \cup {a}
    BY <2>2
  <2>4. \A q \in Nodes : (p = q => a \in nst[q]) /\ (q \in R /\ a \in nst[q] => p = q)
    BY <1>6, <2>1, <2>2
  <2> QED
    BY <1>4, <1>8, <1>9, <2>1, <2>3, <2>4, EnteredKnown
<1> QED
  BY <1>2, <1>3, <1>4, <1>9, <1>10, <1>11

\* All locks of p go.
LEMMA DropIs ==
  ASSUME IInv, NEW p \in Nodes, Become(DeleteNode(Table, p)), EndAttempt(p)
  PROVE  TableInv(slots', log') /\ Known(slots', stored') /\ Evicted(slots, log, slots', log', {p})
<1>0. bits \in BOOLEAN /\ TableInv(slots, log) /\ stored \in [Nodes -> SUBSET Addrs] /\ Known(slots, stored)
  BY TableAssumption DEF IInv
<1>1. PICK t, u : t = Table /\ u = DeleteNode(t, p)
  OBVIOUS
<1>2. t = [slots |-> slots, log |-> log]
  BY <1>1 DEF Table
<1>3. Evicted(slots, log, u.slots, u.log, {p})
  BY <1>0, <1>1, <1>2, DeleteNodeIs
<1>4. slots' = u.slots /\ log' = u.log
  BY <1>1, BecomeIs
<1>5. PICK d, m : d = u.slots /\ m = u.log
  OBVIOUS
<1>6. Evicted(slots, log, d, m, {p}) /\ slots' = d /\ log' = m
  BY <1>3, <1>4, <1>5
<1>7. Known(d, stored)
  BY <1>0, <1>6, EvictedKnown
<1>8. stored' = [stored EXCEPT ![p] = {}]
  BY DEF EndAttempt
<1>9. Known(d, stored')
  <2> SUFFICES ASSUME NEW b \in Buckets, NEW i \in DOMAIN d[b], NEW q \in Nodes PROVE Knows(d[b][i], q, stored')
    BY DEF Known
  <2>1. Knows(d[b][i], q, stored)
    BY <1>7 DEF Known
  <2>2. CASE q = p
    <3>1. LocksOf(d[b][i], p) = 0
      BY <1>6 DEF Evicted
    <3>2. d[b][i].writer # p
      BY <3>1 DEF LocksOf
    <3>3. stored'[p] = {}
      BY <1>0, <1>8
    <3> QED
      BY <2>2, <3>2, <3>3 DEF Knows
  <2>3. CASE q # p
    <3>1. stored'[q] = stored[q]
      BY <1>0, <1>8, <2>3
    <3> QED
      BY <2>1, <3>1 DEF Knows
  <2> QED
    BY <2>2, <2>3
<1>10. TableInv(d, m)
  BY <1>6 DEF Evicted
<1> QED
  BY <1>6, <1>9, <1>10

\* The slot <<b, k>> of the table d becomes f, and the log of p loses its entry j, which names the slot.
Removed(d, m, p, j, b, k, f, c, l) ==
  /\ j \in DOMAIN m[p] /\ b = m[p][j][1] /\ k = m[p][j][2]
  /\ c = [d EXCEPT ![b][k] = f] /\ l = [m EXCEPT ![p] = DropEntry(@, j)]

LEMMA DropLogged ==
  ASSUME NEW d, NEW m, NEW p, NEW j, NEW b, NEW k, NEW f, NEW c, NEW l, Removed(d, m, p, j, b, k, f, c, l),
         TableInv(d, m), p \in Nodes, Sound(f), f.addr = d[b][k].addr, \A q \in Nodes \ {p} : LocksOf(f, q) = LocksOf(d[b][k], q),
         LocksOf(f, p) = LocksOf(d[b][k], p) - 1 \/ (bits /\ LocksOf(f, p) = 0), bits \in BOOLEAN
  PROVE  /\ TableInv(c, l) /\ b \in Buckets /\ k \in DOMAIN d[b]
         /\ \A x \in Buckets : DOMAIN c[x] = DOMAIN d[x]
         /\ c[b][k] = f
         /\ \A x \in Buckets : \A i \in DOMAIN d[x] : x # b \/ i # k => c[x][i] = d[x][i]
<1>1. /\ d \in [Buckets -> Seq(Slot)] /\ m \in [Nodes -> Seq(Buckets \X (Nat \ {0}))]
      /\ AllSound(d) /\ AllMatch(d, m) /\ Placed(d, m) /\ Addressed(d)
  BY DEF TableInv, TableTyped
<1>2. PICK s : s = m[p][j]
  OBVIOUS
<1>3. s \in Buckets \X (Nat \ {0}) /\ s[1] = b /\ s[2] = k /\ b \in Buckets /\ k \in DOMAIN d[b]
  <2>1. m[p] \in Seq(Buckets \X (Nat \ {0})) /\ j \in DOMAIN m[p] /\ s[1] = b /\ s[2] = k
    BY <1>1, <1>2 DEF Removed
  <2>2. s \in Buckets \X (Nat \ {0})
    BY <1>2, <2>1
  <2>3. s[2] \in DOMAIN d[s[1]]
    BY <1>1, <1>2, <2>1 DEF Placed
  <2> QED
    BY <2>1, <2>2, <2>3
<1>4. f \in Slot
  BY DEF Sound
<1>5. /\ c \in [Buckets -> Seq(Slot)] /\ \A x \in Buckets : DOMAIN c[x] = DOMAIN d[x]
      /\ c[b][k] = f
      /\ \A x \in Buckets : \A i \in DOMAIN d[x] : x # b \/ i # k => c[x][i] = d[x][i]
  <2>1. c = [d EXCEPT ![b][k] = f]
    BY DEF Removed
  <2> QED
    BY <1>1, <1>3, <1>4, <2>1, PutSlot
<1>6. /\ l \in [Nodes -> Seq(Buckets \X (Nat \ {0}))] /\ \A q \in Nodes \ {p} : l[q] = m[q]
      /\ \A i \in DOMAIN l[p] : \E n \in DOMAIN m[p] : l[p][i] = m[p][n]
      /\ \A y : Cardinality(Entries(l[p], y)) = Cardinality(Entries(m[p], y)) - (IF y = s THEN 1 ELSE 0)
  <2>1. PICK es : es = m[p]
    OBVIOUS
  <2>2. es \in Seq(Buckets \X (Nat \ {0})) /\ j \in DOMAIN es /\ s = es[j]
    BY <1>1, <1>2, <2>1 DEF Removed
  <2>3. /\ DropEntry(es, j) \in Seq(Buckets \X (Nat \ {0}))
        /\ \A i \in DOMAIN DropEntry(es, j) : \E n \in DOMAIN es : DropEntry(es, j)[i] = es[n]
        /\ \A y : Cardinality(Entries(DropEntry(es, j), y)) = Cardinality(Entries(es, y)) - (IF y = es[j] THEN 1 ELSE 0)
    BY <2>2, EntriesDrop
  <2>4. PICK r : r = DropEntry(es, j)
    OBVIOUS
  <2>5. l = [m EXCEPT ![p] = r]
    BY <2>1, <2>4 DEF Removed
  <2>6. l \in [Nodes -> Seq(Buckets \X (Nat \ {0}))] /\ (\A q \in Nodes \ {p} : l[q] = m[q]) /\ l[p] = r
    BY <1>1, <2>3, <2>4, <2>5
  <2> QED
    BY <2>1, <2>2, <2>3, <2>4, <2>6
<1>7. AllSound(c)
  <2> SUFFICES ASSUME NEW x \in Buckets, NEW i \in DOMAIN d[x] PROVE Sound(c[x][i])
    BY <1>5 DEF AllSound
  <2>1. CASE x = b /\ i = k
    BY <1>5, <2>1
  <2>2. CASE x # b \/ i # k
    BY <1>1, <1>5, <2>2 DEF AllSound
  <2> QED
    BY <2>1, <2>2
<1>8. AllMatch(c, l)
  <2> SUFFICES ASSUME NEW q \in Nodes, NEW x \in Buckets, NEW i \in DOMAIN d[x]
               PROVE  Matches(l[q], <<x, i>>, LocksOf(c[x][i], q))
    BY <1>5 DEF AllMatch
  <2>1. Matches(m[q], <<x, i>>, LocksOf(d[x][i], q))
    BY <1>1 DEF AllMatch
  <2>2. x # b \/ i # k => c[x][i] = d[x][i]
    BY <1>5
  <2>3. CASE q # p
    <3>1. l[q] = m[q]
      BY <1>6, <2>3
    <3>2. LocksOf(c[x][i], q) = LocksOf(d[x][i], q)
      BY <1>5, <2>2, <2>3
    <3> QED
      BY <2>1, <3>1, <3>2
  <2>4. CASE q = p
    <3>1. PICK y, n, r : y = <<x, i>> /\ n = Cardinality(Entries(m[p], y)) /\ r = Cardinality(Entries(l[p], y))
      OBVIOUS
    <3>2. n \in Nat /\ r \in Nat
      BY <1>1, <1>6, <3>1, EntriesFinite
    <3>3. y = s <=> x = b /\ i = k
      BY <1>3, <3>1
    <3>4. LocksOf(d[x][i], p) \in 0 .. 2 /\ LocksOf(c[x][i], p) \in 0 .. 2
      BY LocksCount
    <3>5. IF bits THEN n >= LocksOf(d[x][i], p) ELSE n = LocksOf(d[x][i], p)
      BY <2>1, <2>4, <3>1 DEF Matches
    <3>6. CASE x = b /\ i = k
      <4>1. r = n - 1
        BY <1>6, <3>1, <3>3, <3>6
      <4>2. LocksOf(c[x][i], p) = LocksOf(d[x][i], p) - 1 \/ (bits /\ LocksOf(c[x][i], p) = 0)
        BY <1>5, <3>6
      <4>3. IF bits THEN r >= LocksOf(c[x][i], p) ELSE r = LocksOf(c[x][i], p)
        BY <3>2, <3>4, <3>5, <4>1, <4>2
      <4> QED
        BY <2>4, <3>1, <4>3 DEF Matches
    <3>7. CASE x # b \/ i # k
      <4>1. r = n
        <5>1. r = n - 0
          BY <1>6, <3>1, <3>3, <3>7
        <5> QED
          BY <3>2, <5>1
      <4> QED
        BY <2>2, <2>4, <3>1, <3>5, <3>7, <4>1 DEF Matches
    <3> QED
      BY <3>6, <3>7
  <2> QED
    BY <2>3, <2>4
<1>9. Placed(c, l)
  <2> SUFFICES ASSUME NEW q \in Nodes, NEW i \in DOMAIN l[q] PROVE l[q][i][2] \in DOMAIN c[l[q][i][1]]
    BY DEF Placed
  <2>1. PICK n \in DOMAIN m[q] : l[q][i] = m[q][n]
    BY <1>6
  <2>2. m[q][n][1] \in Buckets /\ m[q][n][2] \in DOMAIN d[m[q][n][1]]
    BY <1>1 DEF Placed
  <2>3. m[q][n][2] \in DOMAIN c[m[q][n][1]]
    BY <1>5, <2>2
  <2> QED
    BY <2>1, <2>3
<1>10. Addressed(c)
  <2> SUFFICES ASSUME NEW x \in Buckets, NEW i \in DOMAIN d[x], c[x][i].addr # 0
               PROVE  Bucket[c[x][i].addr] = x /\ \A n \in DOMAIN d[x] : c[x][n].addr = c[x][i].addr => n = i
    BY <1>5 DEF Addressed
  <2>1. \A n \in DOMAIN d[x] : c[x][n].addr = d[x][n].addr
    BY <1>5
  <2>2. Bucket[d[x][i].addr] = x /\ \A n \in DOMAIN d[x] : d[x][n].addr = d[x][i].addr => n = i
    BY <1>1, <2>1 DEF Addressed
  <2> QED
    BY <2>1, <2>2
<1>11. TableInv(c, l)
  BY <1>5, <1>6, <1>7, <1>8, <1>9, <1>10 DEF TableInv, TableTyped
<1> QED
  BY <1>3, <1>5, <1>11

\* One lock of p on a goes, from the slot <<b, k>> of the table c.
Released(c, d, b, k, a, p, rw) ==
  /\ b \in Buckets /\ k \in DOMAIN c[b] /\ c[b][k].addr = a /\ d[b][k].addr = a
  /\ \A x \in Buckets : DOMAIN d[x] = DOMAIN c[x]
  /\ \A x \in Buckets : \A i \in DOMAIN c[x] : x # b \/ i # k => d[x][i] = c[x][i]
  /\ d[b][k].reader = IF rw = "READ" THEN c[b][k].reader \ {p} ELSE c[b][k].reader
  /\ d[b][k].writer = IF rw = "WRITE" /\ c[b][k].writer = p THEN NoWriter ELSE c[b][k].writer

\* The entry of a slot without the lock
LessLock(e, p, rw) == CASE rw = "READ" -> LessReader(e, p)
                        [] rw = "WRITE" /\ e.writer = p -> [e EXCEPT !.writer = NoWriter]
                        [] OTHER -> e

\* p gives back a lock on a, which the slot e stands for: e becomes f.
Withdrawn(e, f, p, a, rw, st) ==
  /\ f = LessLock(e, p, rw) /\ e.addr = a /\ Knows(e, p, st)
  /\ (rw = "READ" /\ a \notin st[p]) \/ (rw = "WRITE" /\ a \in st[p])

LEMMA ReleasedSlot ==
  ASSUME NEW e, NEW p, NEW rw, NEW st, NEW a, NEW f, Withdrawn(e, f, p, a, rw, st),
         Sound(e), p \in Nodes, a \in Early, bits \in BOOLEAN, ~bits => LocksOf(e, p) >= 1
  PROVE  /\ Sound(f) /\ f.addr = a
         /\ f.reader = IF rw = "READ" THEN e.reader \ {p} ELSE e.reader
         /\ f.writer = IF rw = "WRITE" /\ e.writer = p THEN NoWriter ELSE e.writer
         /\ \A q \in Nodes \ {p} : LocksOf(f, q) = LocksOf(e, q)
         /\ LocksOf(f, p) = LocksOf(e, p) - 1 \/ (bits /\ LocksOf(f, p) = 0)
<1>0. e \in Slot /\ IsFiniteSet(e.reader) /\ p # NoWriter /\ NrMod \in Nat \ {0, 1} /\ a # 0 /\ a \in Early
  <2>1. e \in Slot
    BY DEF Sound
  <2>2. e.reader \subseteq 0 .. NumUes - 1 /\ NumUes \in Nat
    BY <2>1, TableAssumption DEF Slot
  <2>3. IsFiniteSet(0 .. NumUes - 1)
    BY <2>2, FS_Interval
  <2>4. IsFiniteSet(e.reader)
    BY <2>2, <2>3, FS_Subset
  <2> QED
    BY <2>1, <2>4, TableAssumption
<1> USE DEF LessLock, Withdrawn
<1>1. LocksOf(e, p) = (IF p \in e.reader THEN 1 ELSE 0) + (IF e.writer = p THEN 1 ELSE 0)
  BY DEF LocksOf
<1>2. CASE rw = "READ" /\ a \notin st[p]
  <2>1. e.writer # p
    BY <1>2 DEF Knows
  <2>2. f = LessReader(e, p)
    BY <1>2
  <2>3. f \in Slot /\ f.addr = a /\ f.writer = e.writer /\ f.reader = e.reader \ {p}
    <3>1. (e.nr + NrMod - 1) % NrMod \in 0 .. NrMod - 1 /\ 0 \in 0 .. NrMod - 1
      BY <1>0, CountDown DEF Slot
    <3> QED
      BY <1>0, <2>2, <3>1 DEF LessReader, Slot
  <2>4. bits => f.nr = 0
    BY <1>0, <2>2 DEF LessReader, Slot
  <2>5. ASSUME ~bits PROVE p \in e.reader /\ f.nr = Cardinality(f.reader)
    <3>1. p \in e.reader
      BY <1>1, <2>1, <2>5
    <3>2. Cardinality(f.reader) = Cardinality(e.reader) - 1 /\ IsFiniteSet(f.reader)
      BY <1>0, <2>3, <3>1, FS_RemoveElement
    <3>3. Cardinality(f.reader) \in Nat
      BY <3>2, FS_CardinalityType
    <3>4. e.nr = Cardinality(e.reader) /\ e.nr \in 0 .. NrMod - 1
      BY <1>0, <2>5 DEF Sound, Slot
    <3>5. f.nr = (e.nr + NrMod - 1) % NrMod
      BY <1>0, <2>2, <2>5 DEF LessReader, Slot
    <3>6. e.nr \in 0 .. NrMod - 1 /\ e.nr > 0 /\ NrMod \in Nat \ {0}
      BY <1>0, <3>2, <3>3, <3>4
    <3>7. (e.nr + NrMod - 1) % NrMod = e.nr - 1
      <4>1. e.nr > 0 => (e.nr + NrMod - 1) % NrMod = e.nr - 1
        BY <3>6, CountDown, Zenon
      <4> QED
        BY <3>6, <4>1
    <3> QED
      BY <3>1, <3>2, <3>4, <3>5, <3>7
  <2>6. Sound(f)
    BY <1>0, <2>3, <2>4, <2>5 DEF Sound
  <2>7. \A q \in Nodes \ {p} : LocksOf(f, q) = LocksOf(e, q)
    BY <2>3 DEF LocksOf
  <2>8. LocksOf(f, p) = LocksOf(e, p) - 1 \/ (bits /\ LocksOf(f, p) = 0)
    BY <1>0, <2>1, <2>3, <2>5 DEF LocksOf
  <2> QED
    BY <1>2, <2>3, <2>6, <2>7, <2>8
<1>3. CASE rw = "WRITE" /\ a \in st[p]
  <2>1. p \in e.reader => e.writer = p
    BY <1>3 DEF Knows
  <2>2. CASE e.writer = p
    <3>1. f = [e EXCEPT !.writer = NoWriter]
      BY <1>3, <2>2
    <3>2. f \in Slot /\ f.addr = a /\ f.writer = NoWriter /\ f.reader = e.reader /\ f.nr = e.nr
      BY <1>0, <3>1 DEF Slot
    <3>3. Sound(f)
      BY <1>0, <3>2 DEF Sound
    <3>4. \A q \in Nodes \ {p} : LocksOf(f, q) = LocksOf(e, q)
      BY <2>2, <3>2, TableAssumption DEF LocksOf
    <3>5. LocksOf(f, p) = LocksOf(e, p) - 1
      BY <1>0, <2>2, <3>2 DEF LocksOf
    <3> QED
      BY <1>3, <2>2, <3>2, <3>3, <3>4, <3>5
  <2>3. CASE e.writer # p
    <3>1. f = e
      BY <1>3, <2>3
    <3>2. LocksOf(e, p) = 0
      BY <1>1, <2>1, <2>3
    <3>3. bits
      BY <3>2
    <3> QED
      BY <1>3, <2>3, <3>1, <3>2, <3>3
  <2> QED
    BY <2>2, <2>3
<1> QED
  BY <1>2, <1>3

LEMMA RemoveLockIs ==
  ASSUME IInv, NEW p \in Nodes, NEW a \in Early, NEW rw, RemoveLock(p, a, rw),
         (rw = "READ" /\ a \notin stored[p]) \/ (rw = "WRITE" /\ a \in stored[p])
  PROVE  /\ TableInv(slots', log') /\ bits' = bits
         /\ \/ slots' = slots /\ \A b \in Buckets : \A i \in DOMAIN slots[b] :
                                   slots[b][i].addr = a => LocksOf(slots[b][i], p) = 0
            \/ \E b, k : Released(slots, slots', b, k, a, p, rw)
<1>0. bits \in BOOLEAN /\ TableInv(slots, log) /\ stored \in [Nodes -> SUBSET Addrs] /\ Known(slots, stored) /\ a # 0
  BY TableAssumption DEF IInv
<1>1. PICK es : es = log[p]
  OBVIOUS
<1>2. es \in Seq(Buckets \X (Nat \ {0})) /\ DOMAIN es = 1 .. Len(es) /\ Len(es) \in Nat
  BY <1>0, <1>1 DEF TableInv, TableTyped
<1> DEFINE I == {i \in 1 .. Len(es) : At(es[i]).addr = a}
<1>3. PICK j : j = SelectInSeq(es, LAMBDA s : At(s).addr = a)
  OBVIOUS
<1>4. j = IF I # {} THEN Min(I) ELSE 0
  BY <1>3 DEF SelectInSeq
<1>5. j # 0 => j \in DOMAIN es /\ At(es[j]).addr = a
  <2>1. I \in SUBSET Nat
    BY <1>2
  <2>2. I # {} => Min(I) \in I
    BY <2>1, LeastIn
  <2> QED
    BY <1>2, <1>4, <2>2
<1>6. j = 0 => \A i \in DOMAIN es : At(es[i]).addr # a
  <2>1. I \in SUBSET Nat /\ 0 \notin I
    BY <1>2
  <2>2. I # {} => Min(I) \in I
    BY <2>1, LeastIn
  <2> QED
    BY <1>2, <1>4, <2>1, <2>2
<1> HIDE DEF I
<1> DEFINE e == At(es[j])
           f == LessLock(e, p, rw)
<1>7. IF j = 0 THEN UNCHANGED <<bits, slots, log>>
      ELSE Become([slots |-> [slots EXCEPT ![es[j][1]][es[j][2]] = f],
                   log |-> [log EXCEPT ![p] = DropEntry(@, j)]])
  BY <1>1, <1>3, Zenon DEF RemoveLock, LessLock
<1>8. CASE j = 0
  <2>1. slots' = slots /\ log' = log /\ bits' = bits
    BY <1>7, <1>8
  <2>2. ASSUME NEW b \in Buckets, NEW i \in DOMAIN slots[b], slots[b][i].addr = a PROVE LocksOf(slots[b][i], p) = 0
    <3>1. Matches(es, <<b, i>>, LocksOf(slots[b][i], p))
      BY <1>0, <1>1 DEF TableInv, AllMatch
    <3>2. ASSUME NEW n \in DOMAIN es, es[n] = <<b, i>> PROVE FALSE
      <4>1. At(es[n]) = slots[b][i]
        BY <3>2 DEF At
      <4> QED
        BY <1>6, <1>8, <2>2, <4>1
    <3>3. Entries(es, <<b, i>>) = {}
      BY <3>2 DEF Entries
    <3>4. Cardinality(Entries(es, <<b, i>>)) = 0
      BY <3>3, FS_EmptySet
    <3>5. LocksOf(slots[b][i], p) \in 0 .. 2
      BY LocksCount
    <3> QED
      BY <3>1, <3>4, <3>5 DEF Matches
  <2>3. TableInv(slots', log')
    BY <1>0, <2>1
  <2> QED
    BY <2>1, <2>2, <2>3
<1>9. CASE j # 0
  <2>1. PICK b, k : b = es[j][1] /\ k = es[j][2]
    OBVIOUS
  <2>2. slots' = [slots EXCEPT ![b][k] = f] /\ log' = [log EXCEPT ![p] = DropEntry(@, j)] /\ bits' = bits
    <3>1. PICK u : u = [slots |-> [slots EXCEPT ![es[j][1]][es[j][2]] = f], log |-> [log EXCEPT ![p] = DropEntry(@, j)]]
      OBVIOUS
    <3>2. Become(u)
      BY <1>7, <1>9, <3>1, Zenon
    <3>3. u.slots = [slots EXCEPT ![b][k] = f] /\ u.log = [log EXCEPT ![p] = DropEntry(@, j)]
      BY <2>1, <3>1
    <3> QED
      BY <3>2, <3>3, BecomeIs
  <2>3. b \in Buckets /\ k \in DOMAIN slots[b] /\ es[j] = <<b, k>> /\ e = slots[b][k] /\ e.addr = a
    <3>1. es[j] \in Buckets \X (Nat \ {0})
      BY <1>2, <1>5, <1>9
    <3>2. es[j][2] \in DOMAIN slots[es[j][1]]
      BY <1>0, <1>1, <1>5, <1>9 DEF TableInv, Placed
    <3> QED
      BY <1>5, <1>9, <2>1, <3>1, <3>2 DEF At
  <2>4. Sound(e) /\ Knows(e, p, stored) /\ (~bits => LocksOf(e, p) >= 1)
    <3>1. Sound(e) /\ Knows(e, p, stored)
      BY <1>0, <2>3 DEF TableInv, AllSound, Known
    <3>2. Matches(es, <<b, k>>, LocksOf(e, p))
      BY <1>0, <1>1, <2>3 DEF TableInv, AllMatch
    <3>3. Cardinality(Entries(es, <<b, k>>)) \in Nat /\ Cardinality(Entries(es, <<b, k>>)) > 0
      BY <1>2, <1>5, <1>9, <2>3, EntriesFinite
    <3>4. LocksOf(e, p) \in 0 .. 2
      BY LocksCount
    <3> QED
      BY <3>1, <3>2, <3>3, <3>4 DEF Matches
  <2>5. PICK g, h, st : g = f /\ h = e /\ st = stored
    OBVIOUS
  <2>6. /\ Sound(g) /\ g.addr = a
        /\ g.reader = IF rw = "READ" THEN h.reader \ {p} ELSE h.reader
        /\ g.writer = IF rw = "WRITE" /\ h.writer = p THEN NoWriter ELSE h.writer
        /\ \A q \in Nodes \ {p} : LocksOf(g, q) = LocksOf(h, q)
        /\ LocksOf(g, p) = LocksOf(h, p) - 1 \/ (bits /\ LocksOf(g, p) = 0)
    <3>1. Withdrawn(h, g, p, a, rw, st)
      BY <2>3, <2>4, <2>5 DEF Withdrawn
    <3>2. Sound(h) /\ (~bits => LocksOf(h, p) >= 1) /\ bits \in BOOLEAN
      BY <1>0, <2>4, <2>5
    <3> QED
      BY <3>1, <3>2, ReleasedSlot
  <2> HIDE DEF f
  <2>7. PICK c, l : c = slots' /\ l = log'
    OBVIOUS
  <2>8. Removed(slots, log, p, j, b, k, g, c, l)
    BY <1>1, <1>5, <1>9, <2>1, <2>2, <2>5, <2>7 DEF Removed
  <2>9. /\ TableInv(c, l)
        /\ \A x \in Buckets : DOMAIN c[x] = DOMAIN slots[x]
        /\ c[b][k] = g
        /\ \A x \in Buckets : \A i \in DOMAIN slots[x] : x # b \/ i # k => c[x][i] = slots[x][i]
    BY <1>0, <2>3, <2>5, <2>6, <2>8, DropLogged
  <2>10. Released(slots, slots', b, k, a, p, rw)
    BY <2>3, <2>5, <2>6, <2>7, <2>9 DEF Released
  <2> QED
    BY <2>2, <2>7, <2>9, <2>10
<1> QED
  BY <1>8, <1>9

-----------------------------------------------------------------------------
(* The invariant.                                                            *)

LEMMA ReleasedKnown ==
  ASSUME NEW c, NEW l, NEW d, NEW b, NEW k, NEW a, NEW p, NEW rw, NEW st, NEW nst,
         Released(c, d, b, k, a, p, rw), TableInv(c, l), Known(c, st), p \in Nodes, a # 0,
         \/ rw = "READ" /\ a \notin st[p] /\ nst = st
         \/ rw = "WRITE" /\ a \in st[p] /\ nst[p] = st[p] \ {a} /\ \A q \in Nodes \ {p} : nst[q] = st[q]
  PROVE  Known(d, nst)
<1> SUFFICES ASSUME NEW x \in Buckets, NEW i \in DOMAIN c[x], NEW q \in Nodes PROVE Knows(d[x][i], q, nst)
  BY DEF Known, Released
<1>1. Knows(c[x][i], q, st) /\ Knows(c[x][i], p, st)
  BY DEF Known
<1>2. q # NoWriter /\ p # NoWriter
  BY TableAssumption
<1>3. CASE x = b /\ i = k
  <2>1. c[x][i].addr = a /\ d[x][i].addr = a
    BY <1>3 DEF Released
  <2>2. CASE rw = "READ" /\ a \notin st[p] /\ nst = st
    <3>1. d[x][i].reader = c[x][i].reader \ {p} /\ d[x][i].writer = c[x][i].writer
      BY <1>3, <2>2 DEF Released
    <3> QED
      BY <1>1, <2>1, <2>2, <3>1 DEF Knows
  <2>3. CASE rw = "WRITE" /\ a \in st[p] /\ nst[p] = st[p] \ {a} /\ \A r \in Nodes \ {p} : nst[r] = st[r]
    <3>1. d[x][i].reader = c[x][i].reader /\ d[x][i].writer = IF c[x][i].writer = p THEN NoWriter ELSE c[x][i].writer
      BY <1>3, <2>3 DEF Released
    <3>2. CASE q = p
      BY <1>1, <1>2, <2>1, <2>3, <3>1, <3>2 DEF Knows
    <3>3. CASE q # p
      BY <1>1, <1>2, <2>1, <2>3, <3>1, <3>3 DEF Knows
    <3> QED
      BY <3>2, <3>3
  <2> QED
    BY <2>2, <2>3
<1>4. CASE x # b \/ i # k
  <2>1. d[x][i] = c[x][i]
    BY <1>4 DEF Released
  <2>2. c[x][i].addr # a
    <3>1. ASSUME c[x][i].addr = a PROVE FALSE
      <4>1. c[b][k].addr = a /\ b \in Buckets /\ k \in DOMAIN c[b]
        BY DEF Released
      <4>2. x = b
        BY <3>1, <4>1 DEF TableInv, Addressed
      <4>3. i = k
        BY <3>1, <4>1, <4>2 DEF TableInv, Addressed
      <4> QED
        BY <1>4, <4>2, <4>3
    <3> QED
      BY <3>1
  <2>3. nst[q] = st[q] \/ nst[q] = st[q] \ {a}
    OBVIOUS
  <2> QED
    BY <1>1, <2>1, <2>2, <2>3 DEF Knows
<1> QED
  BY <1>3, <1>4

LEMMA InvInit ==
  ASSUME Init PROVE IInv
<1>1. slots = [b \in Buckets |-> FreshLine] /\ log = [p \in Nodes |-> <<>>] /\ stored = [p \in Nodes |-> {}]
  BY DEF Init
<1>2. TableTyped(slots, log)
  BY <1>1, FreshSound DEF TableTyped
<1>3. \A b \in Buckets : DOMAIN slots[b] = 1 .. PerLine
  BY <1>1 DEF FreshLine
<1>4. \A b \in Buckets : \A i \in DOMAIN slots[b] : slots[b][i] = FreshSlot
  BY <1>1, <1>3, FreshSound
<1>5. AllSound(slots)
  BY <1>4, FreshSound DEF AllSound
<1>6. \A p \in Nodes : log[p] = <<>> /\ DOMAIN log[p] = {}
  BY <1>1
<1>7. AllMatch(slots, log)
  <2> SUFFICES ASSUME NEW p \in Nodes, NEW b \in Buckets, NEW i \in DOMAIN slots[b]
               PROVE  Matches(log[p], <<b, i>>, LocksOf(slots[b][i], p))
    BY DEF AllMatch
  <2>1. LocksOf(slots[b][i], p) = 0
    BY <1>4, FreshSound
  <2>2. Entries(log[p], <<b, i>>) = {}
    BY <1>6 DEF Entries
  <2>3. Cardinality(Entries(log[p], <<b, i>>)) = 0
    BY <2>2, FS_EmptySet
  <2> QED
    BY <2>1, <2>3 DEF Matches
<1>8. Placed(slots, log)
  BY <1>6 DEF Placed
<1>9. Addressed(slots)
  BY <1>4 DEF Addressed, FreshSlot
<1>10. Known(slots, stored)
  BY <1>4, TableAssumption DEF Known, Knows, FreshSlot
<1> QED
  BY <1>2, <1>5, <1>7, <1>8, <1>9, <1>10 DEF IInv, TableInv, Init

\* What one step does to the table
LEMMA StepInv ==
  ASSUME IInv, Next, ~Restores, Cardinality(Nodes) < NrMod
  PROVE  /\ TableInv(slots', log') /\ Known(slots', stored') /\ bits' = bits
         /\ loaded' \in [Nodes -> SUBSET Early] /\ stored' \in [Nodes -> SUBSET Addrs]
<1>0. /\ TableInv(slots, log) /\ Known(slots, stored) /\ Early \subseteq Addrs
      /\ loaded \in [Nodes -> SUBSET Early] /\ stored \in [Nodes -> SUBSET Addrs]
  BY TableAssumption DEF IInv
<1>1. PICK p \in Nodes : \/ RemoveNode(p) \/ Lose(p)
                         \/ \E a \in Addrs : Load(p, a) \/ Store(p, a) \/ LoadRelease(p, a) \/ StoreRelease(p, a)
  BY DEF Next
<1>2. CASE RemoveNode(p) \/ Lose(p)
  <2>1. Become(DeleteNode(Table, p)) /\ EndAttempt(p)
    BY <1>2 DEF RemoveNode, Lose
  <2>2. TableInv(slots', log') /\ Known(slots', stored')
    BY <2>1, DropIs
  <2>3. bits' = bits /\ loaded' = [loaded EXCEPT ![p] = {}] /\ stored' = [stored EXCEPT ![p] = {}]
    BY <2>1, Zenon DEF EndAttempt, Become
  <2> QED
    BY <1>0, <2>2, <2>3
<1>3. ASSUME NEW a \in Addrs, Load(p, a)
      PROVE  /\ TableInv(slots', log') /\ Known(slots', stored') /\ bits' = bits
             /\ loaded' \in [Nodes -> SUBSET Early] /\ stored' \in [Nodes -> SUBSET Addrs]
  <2>1. PICK V, b, k, t, v : V = ReadConflict(a) /\ Requested(a, V, b, k, t, v)
    BY Zenon DEF Requested
  <2>2. TableInv(slots', log') /\ Known(slots', stored')
    BY <1>3, <2>1, LoadIs
  <2>3. bits' = bits /\ stored' = stored /\ loaded' = [loaded EXCEPT ![p] = @ \cup ({a} \cap Early)]
    BY <1>3, Zenon DEF Load, Become
  <2> QED
    BY <1>0, <2>2, <2>3
<1>4. ASSUME NEW a \in Addrs, Store(p, a)
      PROVE  /\ TableInv(slots', log') /\ Known(slots', stored') /\ bits' = bits
             /\ loaded' \in [Nodes -> SUBSET Early] /\ stored' \in [Nodes -> SUBSET Addrs]
  <2>1. PICK V, b, k, t, v : V = Losers(p, a) /\ Requested(a, V, b, k, t, v)
    BY Zenon DEF Requested
  <2>2. TableInv(slots', log') /\ Known(slots', stored')
    BY <1>4, <2>1, StoreIs
  <2>3. bits' = bits /\ loaded' = loaded /\ stored' = [stored EXCEPT ![p] = @ \cup {a}]
    BY <1>4, Zenon DEF Store, Become
  <2> QED
    BY <1>0, <2>2, <2>3
<1>5. ASSUME NEW a \in Addrs, LoadRelease(p, a)
      PROVE  /\ TableInv(slots', log') /\ Known(slots', stored') /\ bits' = bits
             /\ loaded' \in [Nodes -> SUBSET Early] /\ stored' \in [Nodes -> SUBSET Addrs]
  <2>1. /\ a \in Early /\ a \notin stored[p] /\ RemoveLock(p, a, "READ")
        /\ loaded' = [loaded EXCEPT ![p] = @ \ {a}] /\ stored' = stored
    BY <1>0, <1>5 DEF LoadRelease
  <2>2. /\ TableInv(slots', log') /\ bits' = bits
        /\ slots' = slots \/ \E b, k : Released(slots, slots', b, k, a, p, "READ")
    BY <2>1, RemoveLockIs
  <2>3. Known(slots', stored')
    <3>1. CASE slots' = slots
      BY <1>0, <2>1, <3>1
    <3>2. ASSUME NEW b, NEW k, Released(slots, slots', b, k, a, p, "READ") PROVE Known(slots', stored')
      <4>1. PICK c, d, l, st, nst : c = slots /\ d = slots' /\ l = log /\ st = stored /\ nst = stored'
        OBVIOUS
      <4>2. Released(c, d, b, k, a, p, "READ") /\ TableInv(c, l) /\ Known(c, st) /\ a # 0 /\ a \notin st[p] /\ nst = st
        BY <1>0, <2>1, <3>2, <4>1, TableAssumption
      <4>3. Known(d, nst)
        BY <4>2, ReleasedKnown
      <4> QED
        BY <4>1, <4>3
    <3> QED
      BY <2>2, <3>1, <3>2
  <2> QED
    BY <1>0, <2>1, <2>2, <2>3
<1>6. ASSUME NEW a \in Addrs, StoreRelease(p, a)
      PROVE  /\ TableInv(slots', log') /\ Known(slots', stored') /\ bits' = bits
             /\ loaded' \in [Nodes -> SUBSET Early] /\ stored' \in [Nodes -> SUBSET Addrs]
  <2>1. /\ a \in Early /\ a \in stored[p] /\ RemoveLock(p, a, "WRITE")
        /\ stored' = [stored EXCEPT ![p] = @ \ {a}] /\ loaded' = loaded
    BY <1>0, <1>6 DEF StoreRelease
  <2>2. /\ TableInv(slots', log') /\ bits' = bits
        /\ \/ slots' = slots /\ \A b \in Buckets : \A i \in DOMAIN slots[b] :
                                  slots[b][i].addr = a => LocksOf(slots[b][i], p) = 0
           \/ \E b, k : Released(slots, slots', b, k, a, p, "WRITE")
    BY <2>1, RemoveLockIs
  <2>3. stored'[p] = stored[p] \ {a} /\ \A q \in Nodes \ {p} : stored'[q] = stored[q]
    BY <1>0, <2>1
  <2>4. Known(slots', stored')
    <3>1. CASE slots' = slots /\ \A b \in Buckets : \A i \in DOMAIN slots[b] :
                                   slots[b][i].addr = a => LocksOf(slots[b][i], p) = 0
      <4> SUFFICES ASSUME NEW b \in Buckets, NEW i \in DOMAIN slots[b], NEW q \in Nodes
                   PROVE  Knows(slots[b][i], q, stored')
        BY <3>1 DEF Known
      <4>1. Knows(slots[b][i], q, stored)
        BY <1>0 DEF Known
      <4>2. slots[b][i].addr = a => slots[b][i].writer # p
        BY <3>1 DEF LocksOf
      <4> QED
        BY <2>3, <4>1, <4>2 DEF Knows
    <3>2. ASSUME NEW b, NEW k, Released(slots, slots', b, k, a, p, "WRITE") PROVE Known(slots', stored')
      <4>1. PICK c, d, l, st, nst : c = slots /\ d = slots' /\ l = log /\ st = stored /\ nst = stored'
        OBVIOUS
      <4>2. /\ Released(c, d, b, k, a, p, "WRITE") /\ TableInv(c, l) /\ Known(c, st) /\ a # 0 /\ a \in st[p]
            /\ nst[p] = st[p] \ {a} /\ \A q \in Nodes \ {p} : nst[q] = st[q]
        BY <1>0, <2>1, <2>3, <3>2, <4>1, TableAssumption
      <4>3. Known(d, nst)
        BY <4>2, ReleasedKnown
      <4> QED
        BY <4>1, <4>3
    <3> QED
      BY <2>2, <3>1, <3>2
  <2> QED
    BY <1>0, <2>1, <2>2, <2>4
<1> QED
  BY <1>1, <1>2, <1>3, <1>4, <1>5, <1>6

LEMMA InvNext ==
  ASSUME IInv, [Next]_vars, ~Restores, Cardinality(Nodes) < NrMod
  PROVE  IInv'
<1>1. /\ TableInv(slots', log') /\ Known(slots', stored') /\ bits' = bits
      /\ loaded' \in [Nodes -> SUBSET Early] /\ stored' \in [Nodes -> SUBSET Addrs]
  <2>1. CASE Next
    BY <2>1, StepInv
  <2>2. CASE UNCHANGED vars
    BY <2>2 DEF vars, IInv
  <2> QED
    BY <2>1, <2>2
<1>2. TableTyped(slots, log)' /\ Placed(slots, log)' /\ Addressed(slots)'
  <2>1. TableTyped(slots', log') /\ Placed(slots', log') /\ Addressed(slots')
    BY <1>1 DEF TableInv
  <2>2. TableTyped(slots, log)'
    BY <2>1 DEF TableTyped
  <2>3. Placed(slots, log)'
    BY <2>1 DEF Placed
  <2>4. Addressed(slots)'
    BY <2>1 DEF Addressed
  <2> QED
    BY <2>2, <2>3, <2>4
<1>3. AllSound(slots)'
  <2> SUFFICES ASSUME NEW b \in Buckets, NEW i \in DOMAIN slots[b]' PROVE Sound(slots[b][i])'
    BY DEF AllSound
  <2>1. Sound(slots'[b][i])
    BY <1>1 DEF TableInv, AllSound
  <2> QED
    BY <1>1, <2>1 DEF Sound
<1>4. AllMatch(slots, log)'
  <2> SUFFICES ASSUME NEW p \in Nodes, NEW b \in Buckets, NEW i \in DOMAIN slots[b]'
               PROVE  Matches(log[p], <<b, i>>, LocksOf(slots[b][i], p))'
    BY DEF AllMatch
  <2>1. Matches(log'[p], <<b, i>>, LocksOf(slots'[b][i], p))
    BY <1>1 DEF TableInv, AllMatch
  <2> QED
    BY <1>1, <2>1 DEF Matches
<1>5. TableInv(slots, log)'
  BY <1>2, <1>3, <1>4 DEF TableInv
<1>6. Known(slots, stored)'
  BY <1>1 DEF Known, Knows
<1> QED
  BY <1>1, <1>5, <1>6 DEF IInv

LEMMA InvAlways ==
  ASSUME ~Restores, Cardinality(Nodes) < NrMod
  PROVE  Spec => []IInv
<1>1. Init => IInv
  BY InvInit
<1>2. IInv /\ [Next]_vars => IInv'
  BY InvNext
<1> QED
  BY <1>1, <1>2, PTL DEF Spec

-----------------------------------------------------------------------------
(* What the runs check, for every table.  Restores is FALSE: no client locks *)
(* a word for writing that it has locked for writing, see Ssht.  The reader  *)
(* count is a byte, and there are at most 255 application nodes.             *)

\* The variables keep their types.
THEOREM TypeCorrect ==
  ASSUME ~Restores, Cardinality(Nodes) < NrMod
  PROVE  Spec => []TypeOK
<1>1. IInv => TypeOK
  BY DEF IInv, TableInv, TableTyped, TypeOK
<1> QED
  BY <1>1, InvAlways, PTL

LEMMA PlacesAre ==
  ASSUME NEW s \in Places
  PROVE  \E b \in Buckets : \E i \in DOMAIN slots[b] : s = <<b, i>> /\ At(s) = slots[b][i]
BY DEF Places, At

\* The reader count of a slot is the number of its reader bytes that are set,
\* so bucket_insert_w, which decides on the count, decides on the readers.
THEOREM Counted ==
  ASSUME ~Restores, Cardinality(Nodes) < NrMod
  PROVE  Spec => []CountsReaders
<1>1. IInv => CountsReaders
  BY PlacesAre DEF IInv, TableInv, AllSound, Sound, CountsReaders
<1> QED
  BY <1>1, InvAlways, PTL

\* A slot that has a writer has no other reader, whichever of the two came
\* first and whoever was evicted: the grant in bucket_insert_w is safe.
THEOREM WriterIsAlone ==
  ASSUME ~Restores, Cardinality(Nodes) < NrMod
  PROVE  Spec => []WriterAlone
<1>1. IInv => WriterAlone
  BY PlacesAre DEF IInv, TableInv, AllSound, Sound, WriterAlone
<1> QED
  BY <1>1, InvAlways, PTL

\* A slot whose last lock is gone is free for any word, unless it was emptied early.
THEOREM Reclaimed ==
  ASSUME ~Restores, Cardinality(Nodes) < NrMod
  PROVE  Spec => []SlotsReclaimed
<1>1. IInv => SlotsReclaimed
  BY PlacesAre DEF IInv, TableInv, AllSound, Sound, SlotsReclaimed
<1> QED
  BY <1>1, InvAlways, PTL

\* How LogsMatch counts the locks of a slot
LEMMA LocksCounted ==
  ASSUME NEW e, NEW p
  PROVE  Cardinality({r \in {"R"} : p \in e.reader} \cup {w \in {"W"} : e.writer = p}) = LocksOf(e, p)
<1> DEFINE R == {r \in {"R"} : p \in e.reader}
           W == {w \in {"W"} : e.writer = p}
<1>1. CASE p \in e.reader /\ e.writer = p
  <2>1. R \cup W = {"R", "W"}
    BY <1>1
  <2>2. Cardinality({"R", "W"}) = 2
    <3>1. IsFiniteSet({"R"}) /\ Cardinality({"R"}) = 1 /\ "W" \notin {"R"} /\ {"R", "W"} = {"R"} \cup {"W"}
      BY FS_Singleton
    <3>2. Cardinality({"R"} \cup {"W"}) = Cardinality({"R"}) + 1
      BY <3>1, FS_AddElement
    <3> QED
      BY <3>1, <3>2
  <2> QED
    BY <1>1, <2>1, <2>2 DEF LocksOf
<1>2. CASE p \in e.reader /\ e.writer # p
  <2>1. R \cup W = {"R"}
    BY <1>2
  <2>2. Cardinality({"R"}) = 1
    BY FS_Singleton
  <2> QED
    BY <1>2, <2>1, <2>2 DEF LocksOf
<1>3. CASE p \notin e.reader /\ e.writer = p
  <2>1. R \cup W = {"W"}
    BY <1>3
  <2>2. Cardinality({"W"}) = 1
    BY FS_Singleton
  <2> QED
    BY <1>3, <2>1, <2>2 DEF LocksOf
<1>4. CASE p \notin e.reader /\ e.writer # p
  <2>1. R \cup W = {}
    BY <1>4
  <2> QED
    BY <1>4, <2>1, FS_EmptySet DEF LocksOf
<1> QED
  BY <1>1, <1>2, <1>3, <1>4

\* The log of a node names each of its locks exactly once (with bits, at
\* least once), so tm2c_ht_delete_node releases all locks of a node and none
\* of another.
THEOREM LogsName ==
  ASSUME ~Restores, Cardinality(Nodes) < NrMod
  PROVE  Spec => []LogsMatch
<1>1. IInv => LogsMatch
  <2> SUFFICES ASSUME IInv, NEW p \in Nodes, NEW s \in Places
               PROVE  LET entries == Cardinality({j \in DOMAIN log[p] : log[p][j] = s})
                          locks == Cardinality({r \in {"R"} : p \in At(s).reader} \cup {w \in {"W"} : At(s).writer = p})
                      IN  IF bits THEN entries >= locks ELSE entries = locks
    BY Zenon DEF LogsMatch
  <2>0. PICK b \in Buckets : \E i \in DOMAIN slots[b] : s = <<b, i>> /\ At(s) = slots[b][i]
    BY PlacesAre
  <2>1. PICK i \in DOMAIN slots[b] : s = <<b, i>> /\ At(s) = slots[b][i]
    BY <2>0
  <2>2. Matches(log[p], s, LocksOf(At(s), p))
    BY <2>1 DEF IInv, TableInv, AllMatch
  <2>3. Cardinality({r \in {"R"} : p \in At(s).reader} \cup {w \in {"W"} : At(s).writer = p}) = LocksOf(At(s), p)
    BY LocksCounted
  <2> QED
    BY <2>2, <2>3 DEF Matches, Entries
<1> QED
  BY <1>1, InvAlways, PTL

-----------------------------------------------------------------------------
(* The table implements LockTable.                                           *)

\* Entry, for a table c; c shows what d shows, less the locks of the nodes in V.
Found(c, a) == {e \in ToSet(c[Bucket[a]]) : e.addr = a}
EntryIn(c, a) == IF Found(c, a) = {} THEN FreshSlot ELSE CHOOSE e \in Found(c, a) : TRUE
ShowsLess(c, d, V) ==
  \A a \in Addrs : /\ EntryIn(d, a).reader = EntryIn(c, a).reader \ V
                   /\ EntryIn(d, a).writer = IF EntryIn(c, a).writer \in V THEN NoWriter ELSE EntryIn(c, a).writer

LEMMA EntryInIs ==
  ASSUME NEW c, NEW l, TableInv(c, l), NEW a \in Addrs
  PROVE  /\ \A i \in DOMAIN c[Bucket[a]] : c[Bucket[a]][i].addr = a => EntryIn(c, a) = c[Bucket[a]][i]
         /\ (\A i \in DOMAIN c[Bucket[a]] : c[Bucket[a]][i].addr # a) => EntryIn(c, a) = FreshSlot
<1>1. PICK b, chain : b = Bucket[a] /\ chain = c[b]
  OBVIOUS
<1>2. b \in Buckets /\ a # 0 /\ \A i, k \in DOMAIN chain : chain[i].addr = a /\ chain[k].addr = a => i = k
  <2>1. b \in Buckets /\ a # 0
    BY <1>1, TableAssumption
  <2> QED
    BY <1>1, <2>1 DEF TableInv, Addressed
<1>3. PICK found : found = Found(c, a)
  OBVIOUS
<1>4. EntryIn(c, a) = IF found = {} THEN FreshSlot ELSE CHOOSE e \in found : TRUE
  BY <1>3 DEF EntryIn
<1>5. ToSet(chain) = {chain[i] : i \in DOMAIN chain}
  BY DEF ToSet
<1>6. ASSUME NEW i \in DOMAIN chain, chain[i].addr = a PROVE EntryIn(c, a) = chain[i]
  <2>1. found = {chain[i]}
    BY <1>1, <1>2, <1>3, <1>5, <1>6 DEF Found
  <2>2. (CHOOSE e \in found : TRUE) \in found
    BY <2>1, Zenon
  <2> QED
    BY <1>4, <2>1, <2>2
<1>7. ASSUME \A i \in DOMAIN chain : chain[i].addr # a PROVE EntryIn(c, a) = FreshSlot
  <2>1. found = {}
    BY <1>1, <1>3, <1>5, <1>7 DEF Found
  <2> QED
    BY <1>4, <2>1
<1> QED
  BY <1>1, <1>6, <1>7

LEMMA EvictedShows ==
  ASSUME NEW c, NEW l, NEW d, NEW m, NEW V, Evicted(c, l, d, m, V), V \in SUBSET Nodes, TableInv(c, l)
  PROVE  ShowsLess(c, d, V)
<1> SUFFICES ASSUME NEW a \in Addrs
             PROVE  /\ EntryIn(d, a).reader = EntryIn(c, a).reader \ V
                    /\ EntryIn(d, a).writer = IF EntryIn(c, a).writer \in V THEN NoWriter ELSE EntryIn(c, a).writer
  BY DEF ShowsLess
<1>1. PICK b : b = Bucket[a]
  OBVIOUS
<1>2. b \in Buckets /\ a # 0 /\ NoWriter \notin V
  BY <1>1, TableAssumption
<1>3. TableInv(d, m) /\ DOMAIN d[b] = DOMAIN c[b]
  BY <1>2 DEF Evicted
<1>4. \A i \in DOMAIN c[b] : Shed(c[b][i], d[b][i], V) /\ \A q \in V : LocksOf(d[b][i], q) = 0
  BY <1>2 DEF Evicted
<1>5. CASE \A i \in DOMAIN c[b] : c[b][i].addr # a
  <2>1. EntryIn(c, a) = FreshSlot
    BY <1>1, <1>5, EntryInIs
  <2>2. \A i \in DOMAIN d[b] : d[b][i].addr # a
    BY <1>2, <1>3, <1>4, <1>5 DEF Shed
  <2>3. EntryIn(d, a) = FreshSlot
    BY <1>1, <1>3, <2>2, EntryInIs
  <2> QED
    BY <1>2, <2>1, <2>3 DEF FreshSlot
<1>6. ASSUME NEW i \in DOMAIN c[b], c[b][i].addr = a
      PROVE  /\ EntryIn(d, a).reader = EntryIn(c, a).reader \ V
             /\ EntryIn(d, a).writer = IF EntryIn(c, a).writer \in V THEN NoWriter ELSE EntryIn(c, a).writer
  <2>1. PICK e, f : e = c[b][i] /\ f = d[b][i]
    OBVIOUS
  <2>2. EntryIn(c, a) = e
    BY <1>1, <1>6, <2>1, EntryInIs
  <2>3. Shed(e, f, V) /\ (\A q \in V : LocksOf(f, q) = 0) /\ Sound(f)
    <3>1. Sound(f)
      BY <1>2, <1>3, <2>1 DEF TableInv, AllSound
    <3> QED
      BY <1>4, <2>1, <3>1
  <2>4. f.reader = e.reader \ V /\ f.writer = IF e.writer \in V THEN NoWriter ELSE e.writer
    <3>1. \A q \in V : q \notin f.reader /\ f.writer # q
      BY <2>3 DEF LocksOf
    <3> QED
      BY <2>3, <3>1 DEF Shed
  <2>5. CASE f.addr = a
    <3>1. EntryIn(d, a) = f
      BY <1>1, <1>3, <2>1, <2>5, EntryInIs
    <3> QED
      BY <2>2, <2>4, <3>1
  <2>6. CASE f.addr = 0
    <3>1. \A k \in DOMAIN d[b] : d[b][k].addr # a
      <4> SUFFICES ASSUME NEW k \in DOMAIN d[b], d[b][k].addr = a PROVE FALSE
        OBVIOUS
      <4>1. c[b][k].addr = a
        BY <1>2, <1>3, <1>4 DEF Shed
      <4>2. k = i
        BY <1>2, <1>3, <1>6, <4>1 DEF TableInv, Addressed
      <4> QED
        BY <1>2, <2>1, <2>6, <4>2
    <3>2. EntryIn(d, a) = FreshSlot
      BY <1>1, <1>3, <3>1, EntryInIs
    <3>3. f.reader = {} /\ f.writer = NoWriter
      BY <2>3, <2>6 DEF Sound
    <3> QED
      BY <2>2, <2>4, <3>2, <3>3 DEF FreshSlot
  <2> QED
    <3>1. f.addr \in {a, 0}
      BY <1>6, <2>1, <2>3 DEF Shed
    <3> QED
      BY <2>5, <2>6, <3>1
<1> QED
  BY <1>5, <1>6

\* d[b][k], a's slot or a free one, becomes the entry of a in c.
Fills(d, c, k, a, readers, writer) ==
  /\ Entered(d, c, Bucket[a], k, a, readers, writer)
  /\ k \in DOMAIN d[Bucket[a]] /\ d[Bucket[a]][k].addr \in {a, 0}

LEMMA EnteredShows ==
  ASSUME NEW d, NEW c, NEW k, NEW a, NEW readers, NEW writer, NEW m, NEW l,
         Fills(d, c, k, a, readers, writer), TableInv(d, m), TableInv(c, l), a \in Addrs
  PROVE  /\ EntryIn(c, a).reader = readers /\ EntryIn(c, a).writer = writer
         /\ EntryIn(d, a).reader = d[Bucket[a]][k].reader
         /\ \A x \in Addrs \ {a} : EntryIn(c, x) = EntryIn(d, x)
<1>0. PICK b : b = Bucket[a]
  OBVIOUS
<1>1. /\ b \in Buckets /\ a # 0 /\ Entered(d, c, b, k, a, readers, writer)
      /\ k \in DOMAIN d[b] /\ d[b][k].addr \in {a, 0}
  BY <1>0, TableAssumption DEF Fills
<1>2. /\ DOMAIN c[b] = DOMAIN d[b] /\ c[b][k].addr = a /\ c[b][k].reader = readers /\ c[b][k].writer = writer
      /\ \A i \in DOMAIN d[b] : i # k => c[b][i] = d[b][i]
  BY <1>1 DEF Entered
<1>3. EntryIn(c, a) = c[b][k]
  BY <1>0, <1>1, <1>2, EntryInIs
<1>4. EntryIn(d, a).reader = d[b][k].reader
  <2>1. CASE d[b][k].addr = a
    BY <1>0, <1>1, <2>1, EntryInIs
  <2>2. CASE d[b][k].addr = 0
    <3>1. ASSUME NEW i \in DOMAIN d[b], d[b][i].addr = a PROVE FALSE
      <4>1. i # k /\ c[b][i].addr = a
        BY <1>1, <1>2, <2>2, <3>1
      <4> QED
        BY <1>1, <1>2, <4>1 DEF TableInv, Addressed
    <3>2. EntryIn(d, a) = FreshSlot
      BY <1>0, <3>1, EntryInIs
    <3>3. Sound(d[b][k])
      BY <1>1 DEF TableInv, AllSound
    <3> QED
      BY <2>2, <3>2, <3>3 DEF Sound, FreshSlot
  <2> QED
    BY <1>1, <2>1, <2>2
<1>5. ASSUME NEW x \in Addrs \ {a} PROVE EntryIn(c, x) = EntryIn(d, x)
  <2>1. PICK y : y = Bucket[x]
    OBVIOUS
  <2>2. y \in Buckets /\ x # 0
    BY <2>1, TableAssumption
  <2>3. DOMAIN c[y] = DOMAIN d[y] /\ \A i \in DOMAIN d[y] : y # b \/ i # k => c[y][i] = d[y][i]
    BY <1>1, <2>2 DEF Entered
  <2>4. \A i \in DOMAIN d[y] : (c[y][i].addr = x <=> d[y][i].addr = x) /\ (c[y][i].addr = x => c[y][i] = d[y][i])
    BY <1>1, <1>2, <2>2, <2>3
  <2>5. CASE \A i \in DOMAIN d[y] : d[y][i].addr # x
    <3>1. EntryIn(d, x) = FreshSlot
      BY <2>1, <2>5, EntryInIs
    <3>2. EntryIn(c, x) = FreshSlot
      BY <2>1, <2>3, <2>4, <2>5, EntryInIs
    <3> QED
      BY <3>1, <3>2
  <2>6. ASSUME NEW i \in DOMAIN d[y], d[y][i].addr = x PROVE EntryIn(c, x) = EntryIn(d, x)
    <3>1. EntryIn(d, x) = d[y][i]
      BY <2>1, <2>6, EntryInIs
    <3>2. EntryIn(c, x) = c[y][i]
      BY <2>1, <2>3, <2>4, <2>6, EntryInIs
    <3> QED
      BY <2>4, <2>6, <3>1, <3>2
  <2> QED
    BY <2>5, <2>6
<1> QED
  BY <1>0, <1>2, <1>3, <1>4, <1>5

LEMMA EntryTyped ==
  ASSUME NEW c, NEW l, TableInv(c, l), NEW a \in Addrs
  PROVE  /\ EntryIn(c, a).reader \subseteq Nodes /\ EntryIn(c, a).writer \in Nodes \cup {NoWriter}
         /\ EntryIn(c, a).writer # NoWriter => EntryIn(c, a).reader \subseteq {EntryIn(c, a).writer}
<1>1. PICK b : b = Bucket[a]
  OBVIOUS
<1>2. b \in Buckets
  BY <1>1, TableAssumption
<1>3. CASE \A i \in DOMAIN c[b] : c[b][i].addr # a
  <2>1. EntryIn(c, a) = FreshSlot
    BY <1>1, <1>3, EntryInIs
  <2> QED
    BY <2>1 DEF FreshSlot
<1>4. ASSUME NEW i \in DOMAIN c[b], c[b][i].addr = a
      PROVE  /\ EntryIn(c, a).reader \subseteq Nodes /\ EntryIn(c, a).writer \in Nodes \cup {NoWriter}
             /\ EntryIn(c, a).writer # NoWriter => EntryIn(c, a).reader \subseteq {EntryIn(c, a).writer}
  <2>1. PICK e : e = c[b][i]
    OBVIOUS
  <2>2. EntryIn(c, a) = e
    BY <1>1, <1>4, <2>1, EntryInIs
  <2>3. Sound(e)
    BY <1>2, <2>1 DEF TableInv, AllSound
  <2> QED
    BY <2>2, <2>3 DEF Sound, Slot
<1> QED
  BY <1>3, <1>4

\* A new line of slots shows nothing new.
LEMMA PlaceShows ==
  ASSUME NEW a, NEW t, t = WithPlace(a), TableInv(slots, log), a \in Addrs, NEW x \in Addrs
  PROVE  EntryIn(t.slots, x) = EntryIn(slots, x)
<1>1. PICK b, k, y : b = Bucket[a] /\ k = Place(a)[2] /\ y = Bucket[x]
  OBVIOUS
<1>2. TableInv(t.slots, log) /\ y \in Buckets /\ x # 0
  BY <1>1, PlaceIs, TableAssumption
<1>3. /\ DOMAIN slots[y] \subseteq DOMAIN t.slots[y]
      /\ \A i \in DOMAIN slots[y] : t.slots[y][i] = slots[y][i]
      /\ \A i \in DOMAIN t.slots[y] \ DOMAIN slots[y] : t.slots[y][i] = FreshSlot
  BY <1>1, <1>2, PlaceIs
<1>4. PICK c : c = t.slots
  OBVIOUS
<1>5. CASE \A i \in DOMAIN slots[y] : slots[y][i].addr # x
  <2>1. EntryIn(slots, x) = FreshSlot
    BY <1>1, <1>5, EntryInIs
  <2>2. \A i \in DOMAIN c[y] : c[y][i].addr # x
    BY <1>2, <1>3, <1>4, <1>5 DEF FreshSlot
  <2>3. EntryIn(c, x) = FreshSlot
    BY <1>1, <1>2, <1>4, <2>2, EntryInIs
  <2> QED
    BY <1>4, <2>1, <2>3
<1>6. ASSUME NEW i \in DOMAIN slots[y], slots[y][i].addr = x PROVE EntryIn(t.slots, x) = EntryIn(slots, x)
  <2>1. EntryIn(slots, x) = slots[y][i]
    BY <1>1, <1>6, EntryInIs
  <2>2. i \in DOMAIN c[y] /\ c[y][i].addr = x /\ c[y][i] = slots[y][i]
    BY <1>3, <1>4, <1>6
  <2>3. EntryIn(c, x) = c[y][i]
    BY <1>1, <1>2, <1>4, <2>2, EntryInIs
  <2> QED
    BY <1>4, <2>1, <2>2, <2>3
<1> QED
  BY <1>5, <1>6

\* The word has a slot in the table when its lookup finds one.
LEMMA HasShows ==
  ASSUME TableInv(slots, log), NEW a \in Addrs, NEW b, b = Bucket[a], NEW k, k = Place(a)[2]
  PROVE  /\ ~Has(a) => EntryIn(slots, a) = FreshSlot
         /\ Has(a) => EntryIn(slots, a) = slots[b][k]
<1>1. PICK t : t = WithPlace(a)
  OBVIOUS
<1>2. b \in Buckets
  BY TableAssumption
<1>3. CASE Has(a)
  <2>1. k \in DOMAIN slots[b] /\ slots[b][k].addr = a
    BY <1>1, <1>3, PlaceIs
  <2> QED
    BY <1>3, <2>1, EntryInIs
<1>4. CASE ~Has(a)
  <2>1. /\ \A i \in DOMAIN t.slots[b] : t.slots[b][i].addr # a
        /\ \A x \in Buckets : DOMAIN slots[x] \subseteq DOMAIN t.slots[x] /\ \A i \in DOMAIN slots[x] : t.slots[x][i] = slots[x][i]
    BY <1>1, <1>4, PlaceIs
  <2>2. \A i \in DOMAIN slots[b] : slots[b][i].addr # a
    BY <1>2, <2>1
  <2>3. EntryIn(slots, a) = FreshSlot
    BY <2>2, EntryInIs
  <2> QED
    BY <1>4, <2>3
<1> QED
  BY <1>3, <1>4

\* A request for a, granted at the expense of V: the slot of a ends with the readers R and the writer w.
Granted(a, V, b, k, t, v, n, l, R, w) ==
  /\ Requested(a, V, b, k, t, v) /\ Evicted(t.slots, log, v.slots, v.log, V)
  /\ k \in DOMAIN v.slots[b] /\ v.slots[b][k].addr \in {a, 0}
  /\ Entered(v.slots, n, b, k, a, R, w) /\ TableInv(n, l)

\* What a grant shows: the locks of the losers are gone, and a has its new entry.
LEMMA GrantShows ==
  ASSUME NEW a, NEW V, NEW b, NEW k, NEW t, NEW v, NEW n, NEW l, NEW R, NEW w,
         Granted(a, V, b, k, t, v, n, l, R, w), TableInv(slots, log), a \in Addrs, V \in SUBSET Nodes
  PROVE  /\ EntryIn(n, a).reader = R /\ EntryIn(n, a).writer = w
         /\ v.slots[b][k].reader = EntryIn(slots, a).reader \ V
         /\ \A x \in Addrs \ {a} :
              /\ EntryIn(n, x).reader = EntryIn(slots, x).reader \ V
              /\ EntryIn(n, x).writer = IF EntryIn(slots, x).writer \in V THEN NoWriter ELSE EntryIn(slots, x).writer
<1>1. PICK c, d, m : c = t.slots /\ d = v.slots /\ m = v.log
  OBVIOUS
<1>2. t = WithPlace(a) /\ b = Bucket[a]
  BY DEF Granted, Requested
<1>3. \A x \in Addrs : EntryIn(c, x) = EntryIn(slots, x)
  BY <1>1, <1>2, PlaceShows
<1>4. TableInv(c, log)
  <2>1. PICK j : j = Place(a)[2]
    OBVIOUS
  <2> QED
    BY <1>1, <1>2, <2>1, PlaceIs
<1>5. Evicted(c, log, d, m, V) /\ TableInv(d, m) /\ TableInv(n, l)
  BY <1>1 DEF Granted, Evicted
<1>6. ShowsLess(c, d, V)
  BY <1>4, <1>5, EvictedShows
<1>7. Fills(d, n, k, a, R, w)
  BY <1>1, <1>2 DEF Granted, Fills
<1>8. /\ EntryIn(n, a).reader = R /\ EntryIn(n, a).writer = w
      /\ EntryIn(d, a).reader = d[Bucket[a]][k].reader
      /\ \A x \in Addrs \ {a} : EntryIn(n, x) = EntryIn(d, x)
  BY <1>5, <1>7, EnteredShows
<1> QED
  BY <1>1, <1>2, <1>3, <1>6, <1>8 DEF ShowsLess

\* a's entry changes, and nodes in V lose their locks of the other words.
Changes(c, d, a, V, R, w) ==
  /\ EntryIn(d, a).reader = R /\ EntryIn(d, a).writer = w
  /\ \A x \in Addrs \ {a} :
       /\ EntryIn(d, x).reader = EntryIn(c, x).reader \ V
       /\ EntryIn(d, x).writer = IF EntryIn(c, x).writer \in V THEN NoWriter ELSE EntryIn(c, x).writer

\* A lock of p on a is given back.
GivenBack(c, l, d, m, b, k, a, p, rw) == Released(c, d, b, k, a, p, rw) /\ TableInv(c, l) /\ TableInv(d, m)

LEMMA ReleasedShows ==
  ASSUME NEW c, NEW l, NEW d, NEW m, NEW b, NEW k, NEW a, NEW p, NEW rw,
         GivenBack(c, l, d, m, b, k, a, p, rw), a \in Addrs
  PROVE  /\ rw = "READ" => Changes(c, d, a, {}, EntryIn(c, a).reader \ {p}, EntryIn(c, a).writer)
         /\ rw = "WRITE" => Changes(c, d, a, {}, EntryIn(c, a).reader,
                                    IF EntryIn(c, a).writer = p THEN NoWriter ELSE EntryIn(c, a).writer)
<1>0. Released(c, d, b, k, a, p, rw) /\ TableInv(c, l) /\ TableInv(d, m)
  BY DEF GivenBack
<1>1. /\ b \in Buckets /\ k \in DOMAIN c[b] /\ c[b][k].addr = a /\ d[b][k].addr = a
      /\ \A x \in Buckets : DOMAIN d[x] = DOMAIN c[x]
      /\ \A x \in Buckets : \A i \in DOMAIN c[x] : x # b \/ i # k => d[x][i] = c[x][i]
  BY <1>0 DEF Released
<1>2. Bucket[a] = b
  <2>1. a # 0
    BY TableAssumption
  <2> QED
    BY <1>0, <1>1, <2>1 DEF TableInv, Addressed
<1>3. EntryIn(c, a) = c[b][k] /\ EntryIn(d, a) = d[b][k]
  BY <1>0, <1>1, <1>2, EntryInIs
<1>4. ASSUME NEW x \in Addrs \ {a} PROVE EntryIn(d, x) = EntryIn(c, x)
  <2>1. PICK y : y = Bucket[x]
    OBVIOUS
  <2>2. y \in Buckets
    BY <2>1, TableAssumption
  <2>3. \A i \in DOMAIN c[y] : (d[y][i].addr = x <=> c[y][i].addr = x) /\ (c[y][i].addr = x => d[y][i] = c[y][i])
    BY <1>1, <2>2
  <2>4. DOMAIN d[y] = DOMAIN c[y]
    BY <1>1, <2>2
  <2>5. CASE \A i \in DOMAIN c[y] : c[y][i].addr # x
    <3>1. EntryIn(c, x) = FreshSlot
      BY <1>0, <2>1, <2>5, EntryInIs
    <3>2. EntryIn(d, x) = FreshSlot
      BY <1>0, <2>1, <2>3, <2>4, <2>5, EntryInIs
    <3> QED
      BY <3>1, <3>2
  <2>6. ASSUME NEW i \in DOMAIN c[y], c[y][i].addr = x PROVE EntryIn(d, x) = EntryIn(c, x)
    <3>1. EntryIn(c, x) = c[y][i]
      BY <1>0, <2>1, <2>6, EntryInIs
    <3>2. EntryIn(d, x) = d[y][i]
      BY <1>0, <2>1, <2>3, <2>4, <2>6, EntryInIs
    <3> QED
      BY <2>3, <2>6, <3>1, <3>2
  <2> QED
    BY <2>5, <2>6
<1> QED
  BY <1>0, <1>3, <1>4 DEF Released, Changes

\* What LockTable sees of the table, before and after a step
LEMMA SeenAs ==
  /\ Readers = [x \in Addrs |-> EntryIn(slots, x).reader]
  /\ Writer = [x \in Addrs |-> EntryIn(slots, x).writer]
  /\ Readers' = [x \in Addrs |-> EntryIn(slots', x).reader]
  /\ Writer' = [x \in Addrs |-> EntryIn(slots', x).writer]
<1>1. \A x \in Addrs : Entry(x) = EntryIn(slots, x) /\ Entry(x)' = EntryIn(slots', x)
  BY DEF Entry, EntryIn, Found
<1> QED
  BY <1>1 DEF Readers, Writer

LEMMA DropsSeen ==
  ASSUME NEW p \in Nodes, ShowsLess(slots, slots', {p})
  PROVE  Locks!Drop(p)
BY SeenAs DEF ShowsLess, Locks!Drop, Locks!WriterLess, Locks!ReadersLess

LEMMA GrantReadSeen ==
  ASSUME NEW p \in Nodes, NEW a \in Addrs, NEW V, TableInv(slots, log),
         V = {EntryIn(slots, a).writer} \ {NoWriter}, p \notin V,
         Changes(slots, slots', a, V, (EntryIn(slots, a).reader \ V) \cup {p}, NoWriter)
  PROVE  Locks!GrantRead(p, a)
<1>1. PICK w : w = EntryIn(slots, a).writer
  OBVIOUS
<1>2. w # p /\ V = {w} \ {NoWriter}
  BY <1>1, TableAssumption
<1>3. \A x \in Addrs : EntryIn(slots, x).reader \ V = EntryIn(slots, x).reader \ {w}
  <2>1. \A x \in Addrs : EntryIn(slots, x).reader \subseteq Nodes
    BY EntryTyped
  <2> QED
    BY <1>2, <2>1, TableAssumption
<1>4. \A x \in Addrs : (IF EntryIn(slots, x).writer \in V THEN NoWriter ELSE EntryIn(slots, x).writer)
                         = IF EntryIn(slots, x).writer \in {w} THEN NoWriter ELSE EntryIn(slots, x).writer
  BY <1>2
<1>5. Writer[a] = w
  BY <1>1, SeenAs
<1>6. Writer' = Locks!WriterLess({w})
  BY <1>1, <1>4, SeenAs DEF Changes, Locks!WriterLess
<1>7. Readers' = [Locks!ReadersLess({w}) EXCEPT ![a] = @ \cup {p}]
  BY <1>3, SeenAs DEF Changes, Locks!ReadersLess
<1> QED
  BY <1>2, <1>5, <1>6, <1>7 DEF Locks!GrantRead

LEMMA GrantWriteSeen ==
  ASSUME NEW p \in Nodes, NEW a \in Addrs, NEW V, TableInv(slots, log),
         V = ((EntryIn(slots, a).reader \cup {EntryIn(slots, a).writer}) \ {p}) \ {NoWriter},
         Changes(slots, slots', a, V, EntryIn(slots, a).reader \ V, p)
  PROVE  Locks!GrantWrite(p, a)
<1>1. PICK others : others = (EntryIn(slots, a).reader \cup {EntryIn(slots, a).writer}) \ {p}
  OBVIOUS
<1>2. V = others \ {NoWriter}
  BY <1>1
<1>3. \A x \in Addrs : EntryIn(slots, x).reader \ V = EntryIn(slots, x).reader \ others
  <2>1. \A x \in Addrs : EntryIn(slots, x).reader \subseteq Nodes
    BY EntryTyped
  <2> QED
    BY <1>2, <2>1, TableAssumption
<1>4. \A x \in Addrs : (IF EntryIn(slots, x).writer \in V THEN NoWriter ELSE EntryIn(slots, x).writer)
                         = IF EntryIn(slots, x).writer \in others THEN NoWriter ELSE EntryIn(slots, x).writer
  BY <1>2
<1>5. (Readers[a] \cup {Writer[a]}) \ {p} = others
  BY <1>1, SeenAs
<1>6. Writer' = [Locks!WriterLess(others) EXCEPT ![a] = p]
  BY <1>4, SeenAs DEF Changes, Locks!WriterLess
<1>7. Readers' = Locks!ReadersLess(others)
  BY <1>3, SeenAs DEF Changes, Locks!ReadersLess
<1> QED
  BY <1>5, <1>6, <1>7 DEF Locks!GrantWrite

LEMMA DropReadSeen ==
  ASSUME NEW p, NEW a \in Addrs, Changes(slots, slots', a, {}, EntryIn(slots, a).reader \ {p}, EntryIn(slots, a).writer)
  PROVE  Locks!DropRead(p, a)
BY SeenAs DEF Changes, Locks!DropRead

LEMMA DropWriteSeen ==
  ASSUME NEW p, NEW a \in Addrs,
         Changes(slots, slots', a, {}, EntryIn(slots, a).reader,
                 IF EntryIn(slots, a).writer = p THEN NoWriter ELSE EntryIn(slots, a).writer)
  PROVE  Locks!DropWrite(p, a)
BY SeenAs DEF Changes, Locks!DropWrite

LEMMA LoadImplements ==
  ASSUME IInv, Cardinality(Nodes) < NrMod, NEW p \in Nodes, NEW a \in Addrs, Load(p, a)
  PROVE  Locks!GrantRead(p, a)
<1>1. PICK V, b, k, t, v : V = ReadConflict(a) /\ Requested(a, V, b, k, t, v)
  BY Zenon DEF Requested
<1>2. /\ V \in SUBSET Nodes /\ Evicted(t.slots, log, v.slots, v.log, V) /\ TableInv(slots', log')
      /\ b \in Buckets /\ k \in DOMAIN v.slots[b] /\ v.slots[b][k].addr \in {a, 0}
      /\ Entered(v.slots, slots', b, k, a, v.slots[b][k].reader \cup {p}, NoWriter)
  BY <1>1, LoadIs
<1>3. TableInv(slots, log) /\ p \notin V
  BY <1>1 DEF IInv, Load
<1>4. PICK n, l, R : n = slots' /\ l = log' /\ R = v.slots[b][k].reader \cup {p}
  OBVIOUS
<1>5. Granted(a, V, b, k, t, v, n, l, R, NoWriter)
  BY <1>1, <1>2, <1>4 DEF Granted
<1>6. /\ EntryIn(n, a).reader = R /\ EntryIn(n, a).writer = NoWriter
      /\ v.slots[b][k].reader = EntryIn(slots, a).reader \ V
      /\ \A x \in Addrs \ {a} :
           /\ EntryIn(n, x).reader = EntryIn(slots, x).reader \ V
           /\ EntryIn(n, x).writer = IF EntryIn(slots, x).writer \in V THEN NoWriter ELSE EntryIn(slots, x).writer
  BY <1>2, <1>3, <1>5, GrantShows
<1>7. Changes(slots, slots', a, V, (EntryIn(slots, a).reader \ V) \cup {p}, NoWriter)
  BY <1>4, <1>6 DEF Changes
<1>8. V = {EntryIn(slots, a).writer} \ {NoWriter}
  <2>1. PICK c, j : c = Bucket[a] /\ j = Place(a)[2]
    OBVIOUS
  <2>2. /\ ~Has(a) => V = {} /\ EntryIn(slots, a) = FreshSlot
        /\ Has(a) => EntryIn(slots, a) = slots[c][j]
    BY <1>1, <1>3, <2>1, HasShows, ReadConflictIs
  <2>3. /\ Has(a) /\ slots[c][j].writer = NoWriter => V = {}
        /\ Has(a) /\ slots[c][j].writer # NoWriter => V = {slots[c][j].writer}
    BY <1>1, <1>3, <2>1, ReadConflictIs
  <2> QED
    BY <2>2, <2>3 DEF FreshSlot
<1> QED
  BY <1>3, <1>7, <1>8, GrantReadSeen

LEMMA StoreImplements ==
  ASSUME IInv, ~Restores, NEW p \in Nodes, NEW a \in Addrs, Store(p, a)
  PROVE  Locks!GrantWrite(p, a)
<1>1. PICK V, b, k, t, v : V = Losers(p, a) /\ Requested(a, V, b, k, t, v)
  BY Zenon DEF Requested
<1>2. /\ V \in SUBSET Nodes /\ Evicted(t.slots, log, v.slots, v.log, V) /\ TableInv(slots', log')
      /\ b \in Buckets /\ k \in DOMAIN v.slots[b] /\ v.slots[b][k].addr \in {a, 0}
      /\ Entered(v.slots, slots', b, k, a, v.slots[b][k].reader, p)
  BY <1>1, StoreIs
<1>3. TableInv(slots, log) /\ Known(slots, stored) /\ a \notin stored[p]
  BY DEF IInv, Store, MayStore
<1>4. PICK n, l, R : n = slots' /\ l = log' /\ R = v.slots[b][k].reader
  OBVIOUS
<1>5. Granted(a, V, b, k, t, v, n, l, R, p)
  BY <1>1, <1>2, <1>4 DEF Granted
<1>6. /\ EntryIn(n, a).reader = R /\ EntryIn(n, a).writer = p
      /\ v.slots[b][k].reader = EntryIn(slots, a).reader \ V
      /\ \A x \in Addrs \ {a} :
           /\ EntryIn(n, x).reader = EntryIn(slots, x).reader \ V
           /\ EntryIn(n, x).writer = IF EntryIn(slots, x).writer \in V THEN NoWriter ELSE EntryIn(slots, x).writer
  BY <1>2, <1>3, <1>5, GrantShows
<1>7. Changes(slots, slots', a, V, EntryIn(slots, a).reader \ V, p)
  BY <1>4, <1>6 DEF Changes
<1>8. V = ((EntryIn(slots, a).reader \cup {EntryIn(slots, a).writer}) \ {p}) \ {NoWriter}
  <2>1. PICK c, j : c = Bucket[a] /\ j = Place(a)[2]
    OBVIOUS
  <2>2. /\ ~Has(a) => EntryIn(slots, a) = FreshSlot
        /\ Has(a) => EntryIn(slots, a) = slots[c][j]
    BY <1>3, <2>1, HasShows
  <2>3. /\ ~Has(a) => V = {}
        /\ Has(a) /\ slots[c][j].writer = NoWriter => V = slots[c][j].reader \ {p}
        /\ Has(a) /\ slots[c][j].writer # NoWriter => V = {slots[c][j].writer}
    BY <1>1, <1>3, <2>1, LosersAre
  <2>4. PICK e : e = EntryIn(slots, a)
    OBVIOUS
  <2>5. e.reader \subseteq Nodes /\ (e.writer # NoWriter => e.reader \subseteq {e.writer})
    BY <1>3, <2>4, EntryTyped
  <2>6. CASE ~Has(a)
    BY <2>2, <2>3, <2>6 DEF FreshSlot
  <2>7. CASE Has(a) /\ e.writer = NoWriter
    <3>1. V = e.reader \ {p}
      BY <2>2, <2>3, <2>4, <2>7
    <3> QED
      BY <2>4, <2>5, <2>7, <3>1, TableAssumption
  <2>8. CASE Has(a) /\ e.writer # NoWriter
    <3>1. V = {e.writer}
      BY <2>2, <2>3, <2>4, <2>8
    <3>2. e.writer # p
      <4>1. PICK u : u = WithPlace(a)
        OBVIOUS
      <4>2. c \in Buckets /\ j \in DOMAIN slots[c] /\ slots[c][j].addr = a /\ e = slots[c][j]
        BY <1>3, <2>1, <2>2, <2>4, <2>8, <4>1, PlaceIs
      <4>3. Knows(e, p, stored)
        BY <1>3, <4>2 DEF Known
      <4> QED
        BY <1>3, <4>2, <4>3 DEF Knows
    <3> QED
      BY <2>4, <2>5, <2>8, <3>1, <3>2
  <2> QED
    BY <2>6, <2>7, <2>8
<1> QED
  BY <1>3, <1>7, <1>8, GrantWriteSeen

LEMMA InitImplements ==
  ASSUME Init PROVE Locks!TInit
<1>1. TableInv(slots, log)
  BY InvInit DEF IInv
<1>2. ASSUME NEW a \in Addrs PROVE EntryIn(slots, a) = FreshSlot
  <2>1. PICK b : b = Bucket[a]
    OBVIOUS
  <2>2. b \in Buckets /\ a # 0
    BY <2>1, TableAssumption
  <2>3. slots[b] = FreshLine
    BY <2>2 DEF Init
  <2>4. \A i \in DOMAIN slots[b] : slots[b][i].addr # a
    BY <2>2, <2>3 DEF FreshLine, FreshSlot
  <2> QED
    BY <1>1, <2>1, <2>4, EntryInIs
<1> QED
  BY <1>2, SeenAs DEF Locks!TInit, FreshSlot

LEMMA StepImplements ==
  ASSUME IInv, Next, ~Restores, Cardinality(Nodes) < NrMod
  PROVE  [Locks!TNext]_(Locks!tvars)
<1>0. TableInv(slots, log) /\ Early \subseteq Addrs /\ loaded \in [Nodes -> SUBSET Early]
  BY TableAssumption DEF IInv
<1>1. PICK p \in Nodes : \/ RemoveNode(p) \/ Lose(p)
                         \/ \E a \in Addrs : Load(p, a) \/ Store(p, a) \/ LoadRelease(p, a) \/ StoreRelease(p, a)
  BY DEF Next
<1>2. CASE RemoveNode(p) \/ Lose(p)
  <2>1. Become(DeleteNode(Table, p)) /\ EndAttempt(p)
    BY <1>2 DEF RemoveNode, Lose
  <2>2. Evicted(slots, log, slots', log', {p})
    BY <2>1, DropIs
  <2>3. PICK d, m, V : d = slots' /\ m = log' /\ V = {p}
    OBVIOUS
  <2>4. ShowsLess(slots, d, V)
    BY <1>0, <2>2, <2>3, EvictedShows
  <2>5. Locks!Drop(p)
    BY <2>3, <2>4, DropsSeen
  <2> QED
    BY <2>5 DEF Locks!TNext
<1>3. ASSUME NEW a \in Addrs, Load(p, a) PROVE Locks!TNext
  BY <1>3, LoadImplements DEF Locks!TNext
<1>4. ASSUME NEW a \in Addrs, Store(p, a) PROVE Locks!TNext
  BY <1>4, StoreImplements DEF Locks!TNext
<1>5. ASSUME NEW a \in Addrs, LoadRelease(p, a) PROVE [Locks!TNext]_(Locks!tvars)
  <2>1. a \in Early /\ a \notin stored[p] /\ RemoveLock(p, a, "READ")
    BY <1>0, <1>5 DEF LoadRelease
  <2>2. /\ TableInv(slots', log')
        /\ slots' = slots \/ \E b, k : Released(slots, slots', b, k, a, p, "READ")
    BY <2>1, RemoveLockIs
  <2>3. CASE slots' = slots
    BY <2>3, SeenAs DEF Locks!tvars
  <2>4. ASSUME NEW b, NEW k, Released(slots, slots', b, k, a, p, "READ") PROVE Locks!DropRead(p, a)
    <3>1. PICK c, d, l, m, rw : c = slots /\ d = slots' /\ l = log /\ m = log' /\ rw = "READ"
      OBVIOUS
    <3>2. GivenBack(c, l, d, m, b, k, a, p, rw)
      BY <1>0, <2>2, <2>4, <3>1 DEF GivenBack
    <3>3. Changes(slots, slots', a, {}, EntryIn(slots, a).reader \ {p}, EntryIn(slots, a).writer)
      BY <3>1, <3>2, ReleasedShows
    <3> QED
      BY <3>3, DropReadSeen
  <2> QED
    BY <2>2, <2>3, <2>4 DEF Locks!TNext
<1>6. ASSUME NEW a \in Addrs, StoreRelease(p, a) PROVE [Locks!TNext]_(Locks!tvars)
  <2>1. a \in Early /\ a \in stored[p] /\ RemoveLock(p, a, "WRITE")
    BY <1>0, <1>6 DEF StoreRelease
  <2>2. /\ TableInv(slots', log')
        /\ slots' = slots \/ \E b, k : Released(slots, slots', b, k, a, p, "WRITE")
    BY <2>1, RemoveLockIs
  <2>3. CASE slots' = slots
    BY <2>3, SeenAs DEF Locks!tvars
  <2>4. ASSUME NEW b, NEW k, Released(slots, slots', b, k, a, p, "WRITE") PROVE Locks!DropWrite(p, a)
    <3>1. PICK c, d, l, m, rw : c = slots /\ d = slots' /\ l = log /\ m = log' /\ rw = "WRITE"
      OBVIOUS
    <3>2. GivenBack(c, l, d, m, b, k, a, p, rw)
      BY <1>0, <2>2, <2>4, <3>1 DEF GivenBack
    <3>3. Changes(slots, slots', a, {}, EntryIn(slots, a).reader,
                  IF EntryIn(slots, a).writer = p THEN NoWriter ELSE EntryIn(slots, a).writer)
      BY <3>1, <3>2, ReleasedShows
    <3> QED
      BY <3>3, DropWriteSeen
  <2> QED
    BY <2>2, <2>3, <2>4 DEF Locks!TNext
<1> QED
  BY <1>1, <1>2, <1>3, <1>4, <1>5, <1>6

\* The chains of slots and the logs, with their early releases and evictions,
\* implement the lock table of LockTable: every grant, refusal and release is
\* one of its steps, and words share nothing though they share buckets.
THEOREM Implements ==
  ASSUME ~Restores, Cardinality(Nodes) < NrMod
  PROVE  Spec => ImplementsLockTable
<1>1. Init => Locks!TInit
  BY InitImplements
<1>2. IInv /\ [Next]_vars => [Locks!TNext]_(Locks!tvars)
  <2>1. CASE IInv /\ Next
    BY <2>1, StepImplements
  <2>2. CASE UNCHANGED vars
    BY <2>2, SeenAs DEF vars, Locks!tvars
  <2> QED
    BY <2>1, <2>2
<1> QED
  BY <1>1, <1>2, InvAlways, PTL DEF Spec, ImplementsLockTable, Locks!TSpec
=============================================================================
