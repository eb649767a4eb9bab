----------------------------- MODULE TxMemProofs ----------------------------
(***************************************************************************)
(* Theorems about memory allocated and freed inside transactions, for any  *)
(* number of threads, blocks and operations and any length of the ring.    *)
(* They are about programs that end the transactions which allocate by     *)
(* TX_COMMIT_MEM (PlainMem = FALSE): TxMem's run txmem_plain shows what    *)
(* becomes of the others.                                                  *)
(***************************************************************************)
EXTENDS TxMem, TLAPS, FiniteSetTheorems, SequenceTheorems

(* The inductive invariant. *)

\* No block is twice in a list.
Distinct(list) == \A i, j \in DOMAIN list : list[i] = list[j] => i = j

\* The lists of mem_info are what the attempt links in and unlinks.
Noted ==
  \A p \in Nodes : /\ fresh[p] = ToSet(allocated[p]) /\ Distinct(allocated[p])
                   /\ cut[p] = ToSet(freed[p]) /\ Distinct(freed[p])

\* b has been handed out; the places a block can be in exclude each other.
Handed(b) == b[2] <= next[b[1]]
InRing(b, p) == \E j \in DOMAIN ring[p] : ring[p][j] = b
Apart ==
  /\ \A b \in linked : Handed(b) /\ \A p \in Nodes : b \notin fresh[p] /\ ~InRing(b, p)
  /\ \A p \in Nodes : \A b \in fresh[p] :
       /\ Handed(b)
       /\ \A q \in Nodes : ~InRing(b, q) /\ (b \in fresh[q] => q = p)
  /\ \A p \in Nodes : Distinct(ring[p])
  /\ \A p, q \in Nodes : \A b \in Blocks : InRing(b, p) /\ InRing(b, q) => Handed(b) /\ p = q

MemInv == TypeOK /\ Noted /\ Apart

-----------------------------------------------------------------------------
(* Lists of blocks.                                                          *)

LEMMA Appended ==
  ASSUME NEW S, NEW r \in Seq(S), NEW l \in Seq(S), NEW all, all = r \o l
  PROVE  /\ all \in Seq(S) /\ Len(all) = Len(r) + Len(l)
         /\ \A i \in DOMAIN r : i \in DOMAIN all /\ all[i] = r[i]
         /\ \A i \in DOMAIN l : Len(r) + i \in DOMAIN all /\ all[Len(r) + i] = l[i]
         /\ \A i \in DOMAIN all : (i \in DOMAIN r /\ all[i] = r[i])
                                  \/ (i - Len(r) \in DOMAIN l /\ all[i] = l[i - Len(r)])
OBVIOUS

\* What the ring keeps of the blocks freed: the last ones, none twice.
LEMMA Kept ==
  ASSUME NEW S, NEW all \in Seq(S), NEW k \in 0 .. Len(all),
         NEW r, r = SubSeq(all, Len(all) - k + 1, Len(all))
  PROVE  /\ r \in Seq(S) /\ Len(r) = k
         /\ \A j \in DOMAIN r : Len(all) - k + j \in DOMAIN all /\ r[j] = all[Len(all) - k + j]
<1>1. Len(all) \in Nat /\ DOMAIN all = 1 .. Len(all) /\ Len(all) - k + 1 \in 1 .. Len(all) + 1
  OBVIOUS
<1>2. \A i \in Len(all) - k + 1 .. Len(all) : all[i] \in S
  BY <1>1
<1>3. /\ r \in Seq(S)
      /\ Len(r) = IF Len(all) - k + 1 <= Len(all) THEN Len(all) - (Len(all) - k + 1) + 1 ELSE 0
      /\ \A i \in 1 .. Len(all) - (Len(all) - k + 1) + 1 : r[i] = all[Len(all) - k + 1 + i - 1]
  BY <1>1, <1>2, SubSeqProperties
<1>4. Len(r) = k
  BY <1>1, <1>3
<1>5. DOMAIN r = 1 .. k
  BY <1>3, <1>4
<1> QED
  BY <1>1, <1>3, <1>4, <1>5

\* tm2c_shfree of the blocks of a list that are in no ring
LEMMA Freed ==
  ASSUME TypeOK, NEW p \in Nodes, NEW list \in Seq(Blocks), ShfreeAll(p, list),
         Distinct(list), Distinct(ring[p]), \A i \in DOMAIN list : ~InRing(list[i], p)
  PROVE  /\ ring' \in [Nodes -> Seq(Blocks)] /\ \A q \in Nodes : Len(ring'[q]) < RingMod
         /\ \A q \in Nodes \ {p} : ring'[q] = ring[q]
         /\ Distinct(ring'[p])
         /\ \A j \in DOMAIN ring'[p] : InRing(ring'[p][j], p) \/ ring'[p][j] \in ToSet(list)
         /\ Len(ring[p]) + Len(list) < RingMod => ring'[p] = ring[p] \o list
<1>1. PICK all, kept, n : all = ring[p] \o list /\ kept = Len(all) % RingMod /\ n = Len(all)
  OBVIOUS
<1>2. ring[p] \in Seq(Blocks) /\ ring \in [Nodes -> Seq(Blocks)] /\ RingMod \in Nat \ {0}
  BY MemAssumption DEF TypeOK
<1>3. /\ all \in Seq(Blocks) /\ n = Len(ring[p]) + Len(list)
      /\ \A i \in DOMAIN all : (i \in DOMAIN ring[p] /\ all[i] = ring[p][i])
                               \/ (i - Len(ring[p]) \in DOMAIN list /\ all[i] = list[i - Len(ring[p])])
  <2>1. PICK old : old = ring[p]
    OBVIOUS
  <2>2. old \in Seq(Blocks) /\ all = old \o list
    BY <1>1, <1>2, <2>1
  <2>3. /\ all \in Seq(Blocks) /\ Len(all) = Len(old) + Len(list)
        /\ \A i \in DOMAIN all : (i \in DOMAIN old /\ all[i] = old[i])
                                 \/ (i - Len(old) \in DOMAIN list /\ all[i] = list[i - Len(old)])
    BY <2>2, Appended
  <2> QED
    BY <1>1, <2>1, <2>3
<1>4. kept \in 0 .. n /\ kept < RingMod /\ (n < RingMod => kept = n)
  <2>1. n \in Nat /\ kept = n % RingMod
    BY <1>1, <1>3
  <2> QED
    BY <1>2, <2>1
<1>5. PICK r : r = SubSeq(all, n - kept + 1, n)
  OBVIOUS
<1>6. ring' = [ring EXCEPT ![p] = r]
  BY <1>1, <1>5 DEF ShfreeAll
<1>7. r \in Seq(Blocks) /\ Len(r) = kept /\ \A j \in DOMAIN r : n - kept + j \in DOMAIN all /\ r[j] = all[n - kept + j]
  <2>1. kept \in 0 .. Len(all) /\ r = SubSeq(all, Len(all) - kept + 1, Len(all)) /\ all \in Seq(Blocks)
    BY <1>1, <1>3, <1>4, <1>5
  <2>2. /\ r \in Seq(Blocks) /\ Len(r) = kept
        /\ \A j \in DOMAIN r : Len(all) - kept + j \in DOMAIN all /\ r[j] = all[Len(all) - kept + j]
    BY <2>1, Kept
  <2> QED
    BY <1>1, <2>2
<1>8. Distinct(all)
  <2> SUFFICES ASSUME NEW i \in DOMAIN all, NEW j \in DOMAIN all, all[i] = all[j] PROVE i = j
    BY DEF Distinct
  <2>1. CASE i \in DOMAIN ring[p] /\ all[i] = ring[p][i] /\ j \in DOMAIN ring[p] /\ all[j] = ring[p][j]
    BY <2>1 DEF Distinct
  <2>2. CASE /\ i - Len(ring[p]) \in DOMAIN list /\ all[i] = list[i - Len(ring[p])]
             /\ j - Len(ring[p]) \in DOMAIN list /\ all[j] = list[j - Len(ring[p])]
    <3>1. i - Len(ring[p]) = j - Len(ring[p])
      BY <2>2 DEF Distinct
    <3>2. Len(ring[p]) \in Nat /\ i \in Nat /\ j \in Nat
      BY <1>2, <1>3
    <3> QED
      BY <3>1, <3>2
  <2>3. CASE i \in DOMAIN ring[p] /\ all[i] = ring[p][i] /\ j - Len(ring[p]) \in DOMAIN list /\ all[j] = list[j - Len(ring[p])]
    BY <2>3 DEF InRing
  <2>4. CASE j \in DOMAIN ring[p] /\ all[j] = ring[p][j] /\ i - Len(ring[p]) \in DOMAIN list /\ all[i] = list[i - Len(ring[p])]
    BY <2>4 DEF InRing
  <2> QED
    BY <1>3, <2>1, <2>2, <2>3, <2>4
<1>9. Distinct(r)
  <2> SUFFICES ASSUME NEW i \in DOMAIN r, NEW j \in DOMAIN r, r[i] = r[j] PROVE i = j
    BY DEF Distinct
  <2>1. n - kept + i = n - kept + j
    BY <1>7, <1>8 DEF Distinct
  <2> QED
    BY <1>3, <1>4, <1>7, <2>1
<1>10. \A j \in DOMAIN r : InRing(r[j], p) \/ r[j] \in ToSet(list)
  BY <1>3, <1>7 DEF InRing, ToSet
<1>11. n < RingMod => r = all
  <2> SUFFICES ASSUME n < RingMod PROVE r = all
    OBVIOUS
  <2>1. Len(r) = Len(all) /\ \A j \in 1 .. Len(all) : r[j] = all[j]
    <3>1. n \in Nat /\ kept = n /\ Len(all) = n /\ DOMAIN r = 1 .. n
      BY <1>1, <1>3, <1>4, <1>7
    <3>2. \A j \in 1 .. n : n - n + j = j
      BY <3>1
    <3> QED
      BY <1>7, <3>1, <3>2
  <2> QED
    BY <1>3, <1>7, <2>1, SeqEqual
<1> QED
  BY <1>1, <1>2, <1>3, <1>4, <1>6, <1>7, <1>9, <1>10, <1>11 DEF TypeOK

\* A block is put at the front of a list.
OnTop(r, b, l) == r = <<b>> \o l

LEMMA Pushed ==
  ASSUME NEW r, NEW b, NEW l, OnTop(r, b, l), l \in Seq(Blocks), b \in Blocks
  PROVE  /\ r \in Seq(Blocks) /\ ToSet(r) = ToSet(l) \cup {b}
         /\ Distinct(l) /\ b \notin ToSet(l) => Distinct(r)
<1>1. /\ r \in Seq(Blocks) /\ DOMAIN l = 1 .. Len(l) /\ DOMAIN r = 1 .. Len(l) + 1 /\ Len(l) \in Nat
      /\ r[1] = b /\ \A i \in 1 .. Len(l) : r[i + 1] = l[i]
  BY DEF OnTop
<1>2. \A i \in DOMAIN r : i = 1 \/ (i - 1 \in DOMAIN l /\ r[i] = l[i - 1])
  BY <1>1
<1>3. \A i \in DOMAIN l : i + 1 \in DOMAIN r /\ r[i + 1] = l[i]
  BY <1>1
<1>4. 1 \in DOMAIN r
  BY <1>1
<1>5. ToSet(r) = ToSet(l) \cup {b}
  <2>1. \A i \in DOMAIN r : r[i] = b \/ \E j \in DOMAIN l : r[i] = l[j]
    BY <1>1, <1>2
  <2>2. ToSet(r) \subseteq ToSet(l) \cup {b}
    BY <2>1 DEF ToSet
  <2>3. ToSet(l) \subseteq ToSet(r)
    BY <1>3 DEF ToSet
  <2>4. b \in ToSet(r)
    BY <1>1, <1>4 DEF ToSet
  <2> QED
    BY <2>2, <2>3, <2>4
<1>6. ASSUME Distinct(l), b \notin ToSet(l), NEW i \in DOMAIN r, NEW j \in DOMAIN r, r[i] = r[j]
      PROVE  i = j
  <2>1. CASE i = 1 \/ j = 1
    BY <1>1, <1>2, <1>6, <2>1 DEF ToSet
  <2>2. CASE i # 1 /\ j # 1
    <3>1. i - 1 \in DOMAIN l /\ j - 1 \in DOMAIN l /\ l[i - 1] = l[j - 1]
      BY <1>2, <1>6, <2>2
    <3>2. i - 1 = j - 1
      BY <1>6, <3>1 DEF Distinct
    <3> QED
      BY <1>1, <3>2
  <2> QED
    BY <2>1, <2>2
<1> QED
  BY <1>1, <1>5, <1>6 DEF Distinct

\* The block tm2c_shmalloc hands out was nowhere but in the allocator, and leaves it.
LEMMA HandedOut ==
  ASSUME MemInv, NEW p \in Nodes, NEW b \in Blocks, Recycle(p, b) \/ Extend(p, b)
  PROVE  /\ ring' \in [Nodes -> Seq(Blocks)] /\ next' \in [Nodes -> 0 .. Region]
         /\ \A q \in Nodes : Len(ring'[q]) < RingMod /\ Distinct(ring'[q])
         /\ b \notin linked /\ \A q \in Nodes : b \notin fresh[q] /\ ~InRing(b, q)'
         /\ Handed(b)' /\ \A c \in Blocks : Handed(c) => Handed(c)'
         /\ \A c \in Blocks, q \in Nodes : InRing(c, q)' => InRing(c, q)
<1>0. /\ ring \in [Nodes -> Seq(Blocks)] /\ next \in [Nodes -> 0 .. Region] /\ Region \in Nat
      /\ \A q \in Nodes : Len(ring[q]) < RingMod /\ Distinct(ring[q])
      /\ \A c \in Blocks : c[1] \in Nodes /\ c[2] \in 1 .. Region
      /\ RingMod \in Nat
  BY MemAssumption DEF MemInv, TypeOK, Apart, Blocks
<1>1. \A c \in linked : Handed(c) /\ \A q \in Nodes : ~InRing(c, q)
  BY DEF MemInv, Apart
<1>2. \A q \in Nodes : \A c \in fresh[q] : Handed(c) /\ \A r \in Nodes : ~InRing(c, r)
  BY DEF MemInv, Apart
<1>3. \A q, r \in Nodes : \A c \in Blocks : InRing(c, q) /\ InRing(c, r) => Handed(c) /\ q = r
  BY DEF MemInv, Apart
<1>4. CASE Recycle(p, b)
  <2>1. PICK s, t : s = ring[p] /\ t = Tail(s)
    OBVIOUS
  <2>2. s \in Seq(Blocks) /\ Len(s) > 0 /\ b = s[1] /\ Distinct(s) /\ ring' = [ring EXCEPT ![p] = t] /\ next' = next
    <3>1. Reserve \in Nat /\ Len(s) > Reserve /\ b = Head(s)
      BY <1>4, <2>1, MemAssumption DEF Recycle
    <3> QED
      BY <1>0, <1>4, <2>1, <3>1 DEF Recycle
  <2>3. /\ t \in Seq(Blocks) /\ Len(t) = Len(s) - 1
        /\ \A i \in DOMAIN t : i + 1 \in DOMAIN s /\ i + 1 # 1 /\ t[i] = s[i + 1] /\ i \in Nat
    BY <2>1, <2>2
  <2>4. Distinct(t) /\ \A i \in DOMAIN t : t[i] # b
    <3>1. 1 \in DOMAIN s
      BY <2>2
    <3>2. \A i \in DOMAIN t : t[i] # b
      BY <2>2, <2>3, <3>1 DEF Distinct
    <3>3. ASSUME NEW i \in DOMAIN t, NEW j \in DOMAIN t, t[i] = t[j] PROVE i = j
      <4>1. i + 1 = j + 1
        BY <2>2, <2>3, <3>3 DEF Distinct
      <4> QED
        BY <2>3, <4>1
    <3> QED
      BY <3>2, <3>3 DEF Distinct
  <2>5. /\ ring' \in [Nodes -> Seq(Blocks)] /\ ring'[p] = t
        /\ \A q \in Nodes \ {p} : ring'[q] = ring[q]
    BY <1>0, <2>2, <2>3
  <2>6. \A c \in Blocks, q \in Nodes : InRing(c, q)' => InRing(c, q)
    <3> SUFFICES ASSUME NEW c \in Blocks, NEW q \in Nodes, NEW i \in DOMAIN ring'[q], ring'[q][i] = c
                 PROVE  InRing(c, q)
      BY DEF InRing
    <3>1. CASE q = p
      BY <2>1, <2>3, <2>5, <3>1 DEF InRing
    <3>2. CASE q # p
      BY <2>5, <3>2 DEF InRing
    <3> QED
      BY <3>1, <3>2
  <2>7. InRing(b, p)
    BY <2>1, <2>2 DEF InRing
  <2>8. \A q \in Nodes : ~InRing(b, q)'
    <3> SUFFICES ASSUME NEW q \in Nodes, InRing(b, q)' PROVE FALSE
      OBVIOUS
    <3>1. q = p
      BY <1>3, <2>6, <2>7
    <3> QED
      BY <2>4, <2>5, <3>1 DEF InRing
  <2>9. \A c \in Blocks : Handed(c) => Handed(c)'
    BY <2>2 DEF Handed
  <2>10. \A q \in Nodes : Len(ring'[q]) < RingMod /\ Distinct(ring'[q])
    <3>1. Len(t) < RingMod
      BY <1>0, <2>1, <2>2, <2>3
    <3> QED
      BY <1>0, <2>4, <2>5, <3>1
  <2>11. Handed(b)
    BY <1>3, <2>7
  <2> QED
    BY <1>0, <1>1, <1>2, <2>2, <2>5, <2>6, <2>7, <2>8, <2>9, <2>10, <2>11
<1>5. CASE Extend(p, b)
  <2>1. b[1] = p /\ b[2] = next[p] + 1 /\ next[p] < Region /\ next' = [next EXCEPT ![p] = @ + 1] /\ ring' = ring
    BY <1>5 DEF Extend
  <2>2. ~Handed(b) /\ Handed(b)' /\ next' \in [Nodes -> 0 .. Region]
    <3>1. next[p] \in 0 .. Region /\ next'[p] = next[p] + 1
      BY <1>0, <2>1
    <3> QED
      BY <1>0, <2>1, <3>1 DEF Handed
  <2>3. \A c \in Blocks : Handed(c) => Handed(c)'
    <3> SUFFICES ASSUME NEW c \in Blocks, c[2] <= next[c[1]] PROVE c[2] <= next'[c[1]]
      BY DEF Handed
    <3>1. next'[c[1]] = IF c[1] = p THEN next[p] + 1 ELSE next[c[1]]
      BY <1>0, <2>1
    <3>2. c[2] \in Nat /\ next[c[1]] \in Nat
      BY <1>0
    <3> QED
      BY <3>1, <3>2
  <2>4. \A c \in Blocks, q \in Nodes : InRing(c, q)' <=> InRing(c, q)
    BY <2>1 DEF InRing
  <2> QED
    BY <1>0, <1>1, <1>2, <1>3, <2>1, <2>2, <2>3, <2>4
<1> QED
  BY <1>4, <1>5

-----------------------------------------------------------------------------
(* The invariant. *)

LEMMA MemInit ==
  ASSUME Init PROVE MemInv
<1>1. TypeOK
  <2>1. 0 \in 0 .. Region /\ RingMod > 0
    BY MemAssumption
  <2> QED
    BY <2>1 DEF Init, TypeOK
<1>2. \A p \in Nodes : DOMAIN ring[p] = {} /\ DOMAIN allocated[p] = {} /\ DOMAIN freed[p] = {}
  BY DEF Init
<1>3. Noted
  BY <1>2 DEF Noted, Init, ToSet, Distinct
<1>4. Apart
  BY <1>2 DEF Apart, Init, InRing, Distinct
<1> QED
  BY <1>1, <1>3, <1>4 DEF MemInv

LEMMA AllocStep ==
  ASSUME MemInv, NEW p \in Nodes, Alloc(p) PROVE MemInv'
<1>0. /\ TypeOK /\ Noted /\ Apart
  BY DEF MemInv
<1>1. PICK b \in Blocks : /\ Recycle(p, b) \/ Extend(p, b)
                          /\ allocated' = [allocated EXCEPT ![p] = <<b>> \o @]
                          /\ fresh' = [fresh EXCEPT ![p] = @ \cup {b}]
  BY DEF Alloc
<1>2. UNCHANGED <<run, linked, cut, freed>>
  BY DEF Alloc
<1>3. /\ ring' \in [Nodes -> Seq(Blocks)] /\ next' \in [Nodes -> 0 .. Region]
      /\ \A q \in Nodes : Len(ring'[q]) < RingMod /\ Distinct(ring'[q])
      /\ b \notin linked /\ \A q \in Nodes : b \notin fresh[q] /\ ~InRing(b, q)'
      /\ Handed(b)' /\ \A c \in Blocks : Handed(c) => Handed(c)'
      /\ \A c \in Blocks, q \in Nodes : InRing(c, q)' => InRing(c, q)
  BY <1>1, HandedOut
<1>4. /\ allocated'[p] \in Seq(Blocks) /\ ToSet(allocated'[p]) = ToSet(allocated[p]) \cup {b}
      /\ Distinct(allocated'[p])
  <2>1. PICK l, r : l = allocated[p] /\ r = <<b>> \o l
    OBVIOUS
  <2>2. l \in Seq(Blocks) /\ Distinct(l) /\ b \notin ToSet(l) /\ allocated'[p] = r /\ OnTop(r, b, l)
    BY <1>0, <1>1, <1>3, <2>1 DEF TypeOK, Noted, OnTop
  <2>3. r \in Seq(Blocks) /\ ToSet(r) = ToSet(l) \cup {b} /\ Distinct(r)
    BY <2>2, Pushed
  <2> QED
    BY <2>1, <2>2, <2>3
<1>5. /\ allocated' \in [Nodes -> Seq(Blocks)] /\ fresh' \in [Nodes -> SUBSET Blocks]
      /\ fresh'[p] = fresh[p] \cup {b}
      /\ \A q \in Nodes \ {p} : allocated'[q] = allocated[q] /\ fresh'[q] = fresh[q]
  BY <1>0, <1>1, <1>4 DEF TypeOK
<1>6. TypeOK'
  BY <1>0, <1>2, <1>3, <1>5 DEF TypeOK
<1>7. Noted'
  <2>1. \A q \in Nodes : fresh'[q] = ToSet(allocated'[q]) /\ Distinct(allocated'[q])
    BY <1>0, <1>4, <1>5 DEF Noted
  <2>2. \A q \in Nodes : cut'[q] = ToSet(freed'[q]) /\ Distinct(freed'[q])
    BY <1>0, <1>2 DEF Noted
  <2> QED
    BY <2>1, <2>2 DEF Noted, Distinct
<1>8. Apart'
  <2>1. \A c \in linked' : Handed(c)' /\ \A q \in Nodes : c \notin fresh'[q] /\ ~InRing(c, q)'
    BY <1>0, <1>2, <1>3, <1>5 DEF Apart, TypeOK
  <2>2. ASSUME NEW q \in Nodes, NEW c \in fresh'[q]
        PROVE  Handed(c)' /\ \A r \in Nodes : ~InRing(c, r)' /\ (c \in fresh'[r] => r = q)
    <3>1. CASE c = b
      BY <1>3, <1>5, <2>2, <3>1
    <3>2. CASE c # b
      BY <1>0, <1>3, <1>5, <2>2, <3>2 DEF Apart, TypeOK
    <3> QED
      BY <3>1, <3>2
  <2>3. \A q, r \in Nodes : \A c \in Blocks : InRing(c, q)' /\ InRing(c, r)' => Handed(c)' /\ q = r
    BY <1>0, <1>3 DEF Apart
  <2> QED
    BY <1>3, <2>1, <2>2, <2>3 DEF Apart, Distinct
<1> QED
  BY <1>6, <1>7, <1>8 DEF MemInv

LEMMA FreeStep ==
  ASSUME MemInv, NEW p \in Nodes, Free(p) PROVE MemInv'
<1>0. /\ TypeOK /\ Noted /\ Apart
  BY DEF MemInv
<1>1. PICK b \in linked \ cut[p] : /\ freed' = [freed EXCEPT ![p] = <<b>> \o @]
                                   /\ cut' = [cut EXCEPT ![p] = @ \cup {b}]
  BY DEF Free
<1>2. UNCHANGED <<run, linked, fresh, allocated, ring, next>>
  BY DEF Free
<1>3. freed'[p] \in Seq(Blocks) /\ ToSet(freed'[p]) = ToSet(freed[p]) \cup {b} /\ Distinct(freed'[p])
  <2>1. PICK l, r : l = freed[p] /\ r = <<b>> \o l
    OBVIOUS
  <2>2. l \in Seq(Blocks) /\ Distinct(l) /\ b \notin ToSet(l) /\ b \in Blocks /\ freed'[p] = r /\ OnTop(r, b, l)
    BY <1>0, <1>1, <2>1 DEF TypeOK, Noted, OnTop
  <2>3. r \in Seq(Blocks) /\ ToSet(r) = ToSet(l) \cup {b} /\ Distinct(r)
    BY <2>2, Pushed
  <2> QED
    BY <2>1, <2>2, <2>3
<1>4. /\ freed' \in [Nodes -> Seq(Blocks)] /\ cut' \in [Nodes -> SUBSET Blocks]
      /\ cut'[p] = cut[p] \cup {b}
      /\ \A q \in Nodes \ {p} : freed'[q] = freed[q] /\ cut'[q] = cut[q]
  BY <1>0, <1>1, <1>3 DEF TypeOK
<1>5. TypeOK'
  BY <1>0, <1>2, <1>4 DEF TypeOK
<1>6. Noted'
  <2>1. \A q \in Nodes : cut'[q] = ToSet(freed'[q]) /\ Distinct(freed'[q])
    BY <1>0, <1>3, <1>4 DEF Noted
  <2>2. \A q \in Nodes : fresh'[q] = ToSet(allocated'[q]) /\ Distinct(allocated'[q])
    BY <1>0, <1>2 DEF Noted
  <2> QED
    BY <2>1, <2>2 DEF Noted, Distinct
<1>7. Apart'
  BY <1>0, <1>2 DEF Apart, Handed, InRing, Distinct
<1> QED
  BY <1>5, <1>6, <1>7 DEF MemInv

\* The end of an attempt, whose blocks in list are put into the ring of p.
LEMMA FinishStep ==
  ASSUME MemInv, NEW p \in Nodes, Finish(p), NEW list, list \in {allocated[p], freed[p]}, ShfreeAll(p, list),
         allocated' = [allocated EXCEPT ![p] = <<>>], freed' = [freed EXCEPT ![p] = <<>>], next' = next,
         \/ list = allocated[p] /\ linked' = linked
         \/ list = freed[p] /\ TakeEffect(p)
  PROVE  MemInv'
<1>0. /\ TypeOK /\ Noted /\ Apart
  BY DEF MemInv
<1>1. /\ list \in Seq(Blocks) /\ Distinct(list) /\ \A i \in DOMAIN list : list[i] \in ToSet(list)
      /\ Distinct(ring[p])
  BY <1>0 DEF TypeOK, Noted, Apart, ToSet
<1>2. \/ list = allocated[p] /\ linked' = linked /\ ToSet(list) = fresh[p]
      \/ list = freed[p] /\ ToSet(list) = cut[p] /\ cut[p] \subseteq linked /\ linked' = (linked \ cut[p]) \cup fresh[p]
  BY <1>0 DEF TakeEffect, Noted
<1>3. \A q \in Nodes : \A c \in ToSet(list) : ~InRing(c, q) /\ Handed(c)
  BY <1>0, <1>2 DEF Apart
<1>4. \A i \in DOMAIN list : ~InRing(list[i], p)
  BY <1>1, <1>3
<1>5. /\ ring' \in [Nodes -> Seq(Blocks)] /\ \A q \in Nodes : Len(ring'[q]) < RingMod
      /\ \A q \in Nodes \ {p} : ring'[q] = ring[q]
      /\ Distinct(ring'[p])
      /\ \A j \in DOMAIN ring'[p] : InRing(ring'[p][j], p) \/ ring'[p][j] \in ToSet(list)
  BY <1>0, <1>1, <1>4, Freed
<1>6. \A q \in Nodes : \A c : InRing(c, q)' => InRing(c, q) \/ (q = p /\ c \in ToSet(list))
  <2> SUFFICES ASSUME NEW q \in Nodes, NEW c, NEW j \in DOMAIN ring'[q], ring'[q][j] = c
               PROVE  InRing(c, q) \/ (q = p /\ c \in ToSet(list))
    BY DEF InRing
  <2>1. CASE q = p
    BY <1>5, <2>1
  <2>2. CASE q # p
    BY <1>5, <2>2 DEF InRing
  <2> QED
    BY <2>1, <2>2
<1>7. /\ fresh' = [fresh EXCEPT ![p] = {}] /\ cut' = [cut EXCEPT ![p] = {}] /\ run' = [run EXCEPT ![p] = FALSE]
  BY DEF Finish
<1>8. /\ fresh'[p] = {} /\ cut'[p] = {} /\ allocated'[p] = <<>> /\ freed'[p] = <<>>
      /\ \A q \in Nodes \ {p} : /\ fresh'[q] = fresh[q] /\ cut'[q] = cut[q]
                                /\ allocated'[q] = allocated[q] /\ freed'[q] = freed[q]
  BY <1>0, <1>7 DEF TypeOK
<1>9. linked' \subseteq Blocks
  BY <1>0, <1>2 DEF TypeOK
<1>10. TypeOK'
  BY <1>0, <1>5, <1>7, <1>9 DEF TypeOK
<1>11. Noted'
  <2> SUFFICES ASSUME NEW q \in Nodes
               PROVE  /\ fresh'[q] = ToSet(allocated'[q]) /\ Distinct(allocated'[q])
                      /\ cut'[q] = ToSet(freed'[q]) /\ Distinct(freed'[q])
    BY DEF Noted, Distinct
  <2>1. CASE q = p
    BY <1>8, <2>1 DEF ToSet, Distinct
  <2>2. CASE q # p
    BY <1>0, <1>8, <2>2 DEF Noted
  <2> QED
    BY <2>1, <2>2
<1>12. \A c : Handed(c)' <=> Handed(c)
  BY DEF Handed
<1>13. Apart'
  <2>1. ASSUME NEW c \in linked'
        PROVE  Handed(c)' /\ \A q \in Nodes : c \notin fresh'[q] /\ ~InRing(c, q)'
    <3>1. Handed(c) /\ \A q \in Nodes : ~InRing(c, q)
      BY <1>0, <1>2, <2>1 DEF Apart
    <3>2. c \notin ToSet(list)
      BY <1>0, <1>2, <2>1 DEF Apart
    <3>3. \A q \in Nodes : c \notin fresh'[q]
      BY <1>0, <1>2, <1>8, <2>1 DEF Apart
    <3> QED
      BY <1>6, <1>12, <3>1, <3>2, <3>3
  <2>2. ASSUME NEW q \in Nodes, NEW c \in fresh'[q]
        PROVE  Handed(c)' /\ \A r \in Nodes : ~InRing(c, r)' /\ (c \in fresh'[r] => r = q)
    <3>1. q # p /\ c \in fresh[q]
      BY <1>8, <2>2
    <3>2. Handed(c) /\ \A r \in Nodes : ~InRing(c, r) /\ (c \in fresh[r] => r = q)
      BY <1>0, <3>1 DEF Apart
    <3>3. c \notin ToSet(list)
      BY <1>0, <1>2, <3>1, <3>2 DEF Apart
    <3> QED
      BY <1>6, <1>8, <1>12, <3>2, <3>3
  <2>3. \A q \in Nodes : Distinct(ring'[q])
    BY <1>0, <1>5 DEF Apart
  <2>4. \A q, r \in Nodes : \A c \in Blocks : InRing(c, q)' /\ InRing(c, r)' => Handed(c)' /\ q = r
    BY <1>0, <1>3, <1>6, <1>12 DEF Apart
  <2> QED
    BY <2>1, <2>2, <2>3, <2>4 DEF Apart, Distinct
<1> QED
  BY <1>10, <1>11, <1>13 DEF MemInv

LEMMA MemNext ==
  ASSUME ~PlainMem, MemInv, [Next]_vars PROVE MemInv'
<1>0. TypeOK /\ Noted /\ Apart
  BY DEF MemInv
<1>1. CASE UNCHANGED vars
  <2>1. UNCHANGED <<run, linked, fresh, cut, allocated, freed, ring, next>>
    BY <1>1 DEF vars, tvars, infos
  <2>2. TypeOK'
    BY <1>0, <2>1 DEF TypeOK
  <2>3. Noted' /\ Apart'
    BY <1>0, <2>1 DEF Noted, Apart, Handed, InRing, Distinct
  <2> QED
    BY <2>2, <2>3 DEF MemInv
<1>2. ASSUME NEW p \in Nodes, Begin(p) PROVE MemInv'
  <2>1. UNCHANGED <<linked, fresh, cut, allocated, freed, ring, next>> /\ run' = [run EXCEPT ![p] = TRUE]
    BY <1>2 DEF Begin, infos
  <2>2. TypeOK'
    BY <1>0, <2>1 DEF TypeOK
  <2>3. Noted' /\ Apart'
    BY <1>0, <2>1 DEF Noted, Apart, Handed, InRing, Distinct
  <2> QED
    BY <2>2, <2>3 DEF MemInv
<1>3. ASSUME NEW p \in Nodes, Alloc(p) PROVE MemInv'
  BY <1>3, AllocStep
<1>4. ASSUME NEW p \in Nodes, Free(p) PROVE MemInv'
  BY <1>4, FreeStep
<1>5. ASSUME NEW p \in Nodes, CommitMem(p) PROVE MemInv'
  <2>1. PICK list : list = freed[p]
    OBVIOUS
  <2>2. /\ Finish(p) /\ TakeEffect(p) /\ ShfreeAll(p, list) /\ next' = next
        /\ allocated' = [allocated EXCEPT ![p] = <<>>] /\ freed' = [freed EXCEPT ![p] = <<>>]
    BY <1>5, <2>1 DEF CommitMem, OnCommit
  <2> QED
    BY <2>1, <2>2, FinishStep
<1>6. ASSUME NEW p \in Nodes, Abort(p) PROVE MemInv'
  <2>1. PICK list : list = allocated[p]
    OBVIOUS
  <2>2. /\ Finish(p) /\ linked' = linked /\ ShfreeAll(p, list) /\ next' = next
        /\ allocated' = [allocated EXCEPT ![p] = <<>>] /\ freed' = [freed EXCEPT ![p] = <<>>]
    BY <1>6, <2>1 DEF Abort, OnAbort
  <2> QED
    BY <2>1, <2>2, FinishStep
<1>7. ASSUME NEW p \in Nodes, Commit(p) PROVE MemInv'
  <2>1. /\ allocated[p] = <<>> /\ freed[p] = <<>> /\ UNCHANGED <<allocated, freed, ring, next>>
        /\ Finish(p) /\ TakeEffect(p)
    BY <1>7 DEF Commit, infos
  <2>2. fresh[p] = {} /\ cut[p] = {}
    BY <1>0, <2>1 DEF Noted, ToSet
  <2>3. UNCHANGED <<linked, fresh, cut>> /\ run' = [run EXCEPT ![p] = FALSE]
    BY <1>0, <2>1, <2>2 DEF Finish, TakeEffect, TypeOK
  <2>4. TypeOK'
    BY <1>0, <2>1, <2>3 DEF TypeOK
  <2>5. Noted' /\ Apart'
    BY <1>0, <2>1, <2>3 DEF Noted, Apart, Handed, InRing, Distinct
  <2> QED
    BY <2>4, <2>5 DEF MemInv
<1> QED
  BY <1>1, <1>2, <1>3, <1>4, <1>5, <1>6, <1>7 DEF Next

LEMMA MemAlways ==
  ASSUME ~PlainMem PROVE Spec => []MemInv
<1>1. Init => MemInv
  BY MemInit
<1>2. MemInv /\ [Next]_vars => MemInv'
  BY MemNext
<1> QED
  BY <1>1, <1>2, PTL DEF Spec

-----------------------------------------------------------------------------
(* What the run checks, for any number of threads, blocks and operations.    *)

\* The variables keep their types, and no ring has more blocks than its indices can count.
THEOREM TypeCorrect ==
  ASSUME ~PlainMem PROVE Spec => []TypeOK
<1>1. MemInv => TypeOK
  BY DEF MemInv
<1> QED
  BY <1>1, MemAlways, PTL

\* Where a block is
LEMMA PlacesAre ==
  ASSUME NEW b \in Blocks, NEW x
  PROVE  x \in Places(b) <=> \/ x = <<"linked">> /\ b \in linked
                             \/ \E p \in Nodes : x = <<"fresh", p>> /\ b \in fresh[p]
                             \/ \E p \in Nodes : \E i \in DOMAIN ring[p] : x = <<"free", p, i>> /\ ring[p][i] = b
                             \/ x = <<"region">> /\ b[2] > next[b[1]]
<1>1. x \in {<<"linked">> : y \in {b} \cap linked} <=> x = <<"linked">> /\ b \in linked
  OBVIOUS
<1>2. x \in {<<"fresh", p>> : p \in {q \in Nodes : b \in fresh[q]}}
        <=> \E p \in Nodes : x = <<"fresh", p>> /\ b \in fresh[p]
  OBVIOUS
<1>3. x \in UNION {{<<"free", p, i>> : i \in {j \in DOMAIN ring[p] : ring[p][j] = b}} : p \in Nodes}
        <=> \E p \in Nodes : \E i \in DOMAIN ring[p] : x = <<"free", p, i>> /\ ring[p][i] = b
  OBVIOUS
<1>4. x \in {<<"region">> : y \in {b} \cap {c \in Blocks : c[2] > next[c[1]]}} <=> x = <<"region">> /\ b[2] > next[b[1]]
  OBVIOUS
<1> QED
  BY <1>1, <1>2, <1>3, <1>4, Zenon DEF Places

\* tm2c_shmalloc hands out no block that is linked in, noted by an attempt or free
\* in some ring, after any commits, aborts and retries: a block has one owner.
THEOREM Owned ==
  ASSUME ~PlainMem PROVE Spec => []OneOwner
<1>1. MemInv => OneOwner
  <2> SUFFICES ASSUME MemInv, NEW b \in Blocks PROVE Cardinality(Places(b)) <= 1
    BY DEF OneOwner
  <2>0. TypeOK /\ Apart /\ b[1] \in Nodes /\ b[2] \in Nat
    BY DEF MemInv, Blocks
  <2>1. Handed(b) => ~(b[2] > next[b[1]])
    BY <2>0, MemAssumption DEF Handed, TypeOK
  <2>2. \A p \in Nodes : \A i \in DOMAIN ring[p] : ring[p][i] = b => InRing(b, p)
    BY DEF InRing
  <2>3. ASSUME NEW x \in Places(b), NEW y \in Places(b) PROVE x = y
    <3>1. CASE b \in linked
      <4>1. Handed(b) /\ \A p \in Nodes : b \notin fresh[p] /\ ~InRing(b, p)
        BY <2>0, <3>1 DEF Apart
      <4> QED
        BY <2>1, <2>2, <2>3, <4>1, PlacesAre
    <3>2. ASSUME NEW p \in Nodes, b \in fresh[p] PROVE x = y
      <4>1. Handed(b) /\ b \notin linked /\ \A q \in Nodes : ~InRing(b, q) /\ (b \in fresh[q] => q = p)
        BY <2>0, <3>2 DEF Apart
      <4> QED
        BY <2>1, <2>2, <2>3, <4>1, PlacesAre
    <3>3. ASSUME NEW p \in Nodes, NEW i \in DOMAIN ring[p], ring[p][i] = b PROVE x = y
      <4>1. Handed(b) /\ b \notin linked /\ \A q \in Nodes : b \notin fresh[q] /\ (InRing(b, q) => q = p)
        BY <2>0, <2>2, <3>3 DEF Apart
      <4>2. \A q \in Nodes : \A j \in DOMAIN ring[q] : ring[q][j] = b => q = p /\ j = i
        BY <2>0, <2>2, <3>3, <4>1 DEF Apart, Distinct
      <4> QED
        BY <2>1, <2>3, <4>1, <4>2, PlacesAre
    <3> QED
      BY <2>3, <3>1, <3>2, <3>3, PlacesAre
  <2>4. CASE Places(b) = {}
    BY <2>4, FS_EmptySet
  <2>5. ASSUME NEW x \in Places(b) PROVE Cardinality(Places(b)) <= 1
    <3>1. Places(b) = {x}
      BY <2>3, <2>5
    <3> QED
      BY <3>1, FS_Singleton
  <2> QED
    BY <2>4, <2>5
<1> QED
  BY <1>1, MemAlways, PTL

\* No step loses a block unless it puts blocks into a ring that fills up by them.
LEMMA NothingLost ==
  ASSUME ~PlainMem, MemInv, [Next]_vars, NEW b \in Blocks, Places(b) # {},
         \A p \in Nodes : Len(ring[p]) + Len(allocated[p]) + Len(freed[p]) < RingMod
  PROVE  Places(b)' # {}
<1>0. TypeOK /\ Noted /\ Apart
  BY DEF MemInv
<1> DEFINE Somewhere == \/ b \in linked
                        \/ \E p \in Nodes : b \in fresh[p] \/ InRing(b, p)
                        \/ b[2] > next[b[1]]
<1>1. Somewhere
  BY PlacesAre DEF InRing
<1>2. Somewhere' => Places(b)' # {}
  <2>1. b \in linked' => <<"linked">> \in Places(b)'
    BY DEF Places
  <2>2. \A p \in Nodes : b \in fresh'[p] => <<"fresh", p>> \in Places(b)'
    BY DEF Places
  <2>3. \A p \in Nodes : \A i \in DOMAIN ring'[p] : ring'[p][i] = b => <<"free", p, i>> \in Places(b)'
    BY DEF Places
  <2>4. b[2] > next'[b[1]] => <<"region">> \in Places(b)'
    BY DEF Places
  <2> QED
    BY <2>1, <2>2, <2>3, <2>4 DEF InRing
<1>3. CASE UNCHANGED <<linked, fresh, ring, next>>
  BY <1>1, <1>2, <1>3 DEF InRing
<1>4. ASSUME NEW p \in Nodes, Alloc(p) PROVE Somewhere'
  <2>1. PICK c \in Blocks : (Recycle(p, c) \/ Extend(p, c)) /\ fresh' = [fresh EXCEPT ![p] = @ \cup {c}]
    BY <1>4 DEF Alloc
  <2>2. linked' = linked /\ \A q \in Nodes : fresh[q] \subseteq fresh'[q]
    BY <1>0, <1>4, <2>1 DEF Alloc, TypeOK
  <2>3. c \in fresh'[p]
    BY <1>0, <2>1 DEF TypeOK
  <2>4. CASE Recycle(p, c)
    <3>1. \A q \in Nodes : InRing(b, q) => b = c \/ InRing(b, q)'
      <4>1. PICK s, t : s = ring[p] /\ t = Tail(s)
        OBVIOUS
      <4>2. s \in Seq(Blocks) /\ Len(s) > 0 /\ c = s[1] /\ ring' = [ring EXCEPT ![p] = t]
        <5>1. Reserve \in Nat /\ Len(s) > Reserve /\ c = Head(s)
          BY <2>4, <4>1, MemAssumption DEF Recycle
        <5> QED
          BY <1>0, <2>4, <4>1, <5>1 DEF Recycle, TypeOK
      <4>3. \A i \in DOMAIN s : i = 1 \/ (i - 1 \in DOMAIN t /\ t[i - 1] = s[i])
        BY <4>1, <4>2
      <4>4. ring'[p] = t /\ \A q \in Nodes \ {p} : ring'[q] = ring[q]
        BY <1>0, <4>2 DEF TypeOK
      <4> SUFFICES ASSUME NEW q \in Nodes, NEW i \in DOMAIN ring[q], ring[q][i] = b, b # c PROVE InRing(b, q)'
        BY DEF InRing
      <4>5. CASE q = p
        <5>1. i - 1 \in DOMAIN t /\ t[i - 1] = b
          BY <4>1, <4>2, <4>3, <4>5
        <5> QED
          BY <4>4, <4>5, <5>1 DEF InRing
      <4>6. CASE q # p
        BY <4>4, <4>6 DEF InRing
      <4> QED
        BY <4>5, <4>6
    <3>2. next' = next
      BY <2>4 DEF Recycle
    <3> QED
      BY <1>1, <2>2, <2>3, <3>1, <3>2
  <2>5. CASE Extend(p, c)
    <3>1. ring' = ring /\ next' = [next EXCEPT ![p] = @ + 1] /\ c[1] = p /\ c[2] = next[p] + 1
      BY <2>5 DEF Extend
    <3>2. b[2] > next[b[1]] => b = c \/ b[2] > next'[b[1]]
      <4>1. b[1] \in Nodes /\ b[2] \in Nat /\ next[b[1]] \in Nat /\ b = <<b[1], b[2]>> /\ c = <<c[1], c[2]>>
        BY <1>0, MemAssumption DEF Blocks, TypeOK
      <4>2. next'[b[1]] = IF b[1] = p THEN next[p] + 1 ELSE next[b[1]]
        BY <1>0, <3>1, <4>1 DEF TypeOK
      <4>3. b[1] = p /\ b[2] = next[p] + 1 => b = c
        BY <3>1, <4>1
      <4> QED
        BY <4>1, <4>2, <4>3
    <3>3. \A q \in Nodes : InRing(b, q) => InRing(b, q)'
      BY <3>1 DEF InRing
    <3> QED
      BY <1>1, <2>2, <2>3, <3>2, <3>3
  <2> QED
    BY <2>1, <2>4, <2>5
<1>5. ASSUME NEW p \in Nodes, Finish(p), NEW list, list \in {allocated[p], freed[p]}, ShfreeAll(p, list), next' = next,
             \/ list = allocated[p] /\ linked' = linked
             \/ list = freed[p] /\ TakeEffect(p)
      PROVE  Somewhere'
  <2>1. list \in Seq(Blocks) /\ Distinct(list) /\ Distinct(ring[p]) /\ \A i \in DOMAIN list : list[i] \in ToSet(list)
    BY <1>0, <1>5 DEF TypeOK, Noted, Apart, ToSet
  <2>2. \/ list = allocated[p] /\ linked' = linked /\ ToSet(list) = fresh[p]
        \/ list = freed[p] /\ ToSet(list) = cut[p] /\ cut[p] \subseteq linked /\ linked' = (linked \ cut[p]) \cup fresh[p]
    BY <1>0, <1>5 DEF TakeEffect, Noted
  <2>3. \A q \in Nodes : \A c \in ToSet(list) : ~InRing(c, q)
    BY <1>0, <2>2 DEF Apart
  <2>4. \A i \in DOMAIN list : ~InRing(list[i], p)
    BY <2>1, <2>3
  <2>5. Len(ring[p]) + Len(list) < RingMod
    <3>1. PICK n, k, m : n = Len(ring[p]) /\ k = Len(allocated[p]) /\ m = Len(freed[p])
      OBVIOUS
    <3>2. n \in Nat /\ k \in Nat /\ m \in Nat /\ RingMod \in Nat /\ n + k + m < RingMod
      BY <1>0, <3>1, MemAssumption DEF TypeOK
    <3>3. n + k < RingMod /\ n + m < RingMod
      BY <3>2
    <3>4. Len(list) = k \/ Len(list) = m
      BY <1>5, <3>1
    <3> QED
      BY <3>1, <3>3, <3>4
  <2>6. ring'[p] = ring[p] \o list /\ \A q \in Nodes \ {p} : ring'[q] = ring[q]
    BY <1>0, <1>5, <2>1, <2>4, <2>5, Freed
  <2>7. \A q \in Nodes : InRing(b, q) => InRing(b, q)'
    <3>1. ASSUME NEW i \in DOMAIN ring[p] PROVE i \in DOMAIN ring'[p] /\ ring'[p][i] = ring[p][i]
      BY <1>0, <2>1, <2>6 DEF TypeOK
    <3> QED
      BY <2>6, <3>1 DEF InRing
  <2>8. b \in ToSet(list) => InRing(b, p)'
    <3>1. ASSUME NEW i \in DOMAIN list
          PROVE  Len(ring[p]) + i \in DOMAIN ring'[p] /\ ring'[p][Len(ring[p]) + i] = list[i]
      BY <1>0, <2>1, <2>6 DEF TypeOK
    <3> QED
      BY <3>1 DEF InRing, ToSet
  <2>9. \A q \in Nodes : b \in fresh[q] => b \in fresh'[q] \/ q = p
    BY <1>0, <1>5 DEF Finish, TypeOK
  <2> QED
    BY <1>1, <1>5, <2>2, <2>7, <2>8, <2>9
<1>6. ASSUME NEW p \in Nodes, CommitMem(p) PROVE Somewhere'
  <2>1. PICK list : list = freed[p]
    OBVIOUS
  <2>2. Finish(p) /\ TakeEffect(p) /\ ShfreeAll(p, list) /\ next' = next
    BY <1>6, <2>1 DEF CommitMem, OnCommit
  <2> QED
    BY <1>5, <2>1, <2>2
<1>7. ASSUME NEW p \in Nodes, Abort(p) PROVE Somewhere'
  <2>1. PICK list : list = allocated[p]
    OBVIOUS
  <2>2. Finish(p) /\ linked' = linked /\ ShfreeAll(p, list) /\ next' = next
    BY <1>7, <2>1 DEF Abort, OnAbort
  <2> QED
    BY <1>5, <2>1, <2>2
<1>8. ASSUME NEW p \in Nodes, Commit(p) PROVE UNCHANGED <<linked, fresh, ring, next>>
  <2>1. allocated[p] = <<>> /\ freed[p] = <<>> /\ UNCHANGED <<ring, next>> /\ Finish(p) /\ TakeEffect(p)
    BY <1>8 DEF Commit
  <2>2. fresh[p] = {} /\ cut[p] = {}
    BY <1>0, <2>1 DEF Noted, ToSet
  <2> QED
    BY <1>0, <2>1, <2>2 DEF Finish, TakeEffect, TypeOK
<1>9. ASSUME NEW p \in Nodes, Begin(p) \/ Free(p) PROVE UNCHANGED <<linked, fresh, ring, next>>
  BY <1>9 DEF Begin, Free
<1> HIDE DEF Somewhere
<1> QED
  BY <1>2, <1>3, <1>4, <1>6, <1>7, <1>8, <1>9 DEF Next, vars, tvars

\* A block that a commit or an abort frees can be handed out again, unless a ring fills up by it.
THEOREM Lost ==
  ASSUME ~PlainMem PROVE Spec => LostByWrap
<1>1. MemInv /\ [Next]_vars =>
        \A b \in Blocks : (Places(b) # {} /\ Places(b)' = {}) =>
          \E p \in Nodes : Len(ring[p]) + Len(allocated[p]) + Len(freed[p]) >= RingMod
  <2> SUFFICES ASSUME MemInv, [Next]_vars, NEW b \in Blocks, Places(b) # {}, Places(b)' = {},
                      \A p \in Nodes : ~(Len(ring[p]) + Len(allocated[p]) + Len(freed[p]) >= RingMod)
               PROVE  FALSE
    OBVIOUS
  <2>1. \A p \in Nodes : Len(ring[p]) + Len(allocated[p]) + Len(freed[p]) < RingMod
    BY MemAssumption DEF MemInv, TypeOK
  <2> QED
    BY <2>1, NothingLost
<1> QED
  BY <1>1, MemAlways, PTL DEF Spec, LostByWrap
=============================================================================
