---------------------------- MODULE IntSetRefines ----------------------------
(***************************************************************************)
(* The lists and hash tables implement a set of integers (SetSpec): every  *)
(* operation takes effect at once, at its commit, snapshots included; and  *)
(* the size of the set stays what the test programs say it does.           *)
(* From the invariant of IntSetProofs, for any numbers of processes,       *)
(* buckets and blocks, and any values.                                     *)
(***************************************************************************)
EXTENDS IntSetProofs

-----------------------------------------------------------------------------
(* What a snapshot has counted.                                              *)

Counts(h, s, t) == {k \in Keys : Has(h, s, k) /\ Reached(h, t, Bucket(k), k)}

LEMMA CountedSame ==
  ASSUME NEW h \in Memories, NEW h2 \in Memories, NEW s \in Tables, NEW t, t.leg - 1 \in Buckets,
         Counted(h, s, t), \A a \in Blocks : Linked(s, a) => h2[a] = h[a]
  PROVE  Counted(h2, s, t)
<1>1. \A b \in Buckets : \A a \in s[b] : h2[a] = h[a]
  BY DEF Linked, Tables
<1>2. h2[t.prev] = h[t.prev] /\ t.prev \in s[t.leg - 1]
  BY <1>1 DEF Counted
<1>3. \A b, v : Reached(h2, t, b, v) <=> Reached(h, t, b, v)
  BY <1>2 DEF Reached
<1>4. \A k \in Keys : Has(h2, s, k) <=> Has(h, s, k)
  BY <1>1, KeyFacts DEF Has
<1>5. Counts(h2, s, t) = Counts(h, s, t)
  BY <1>3, <1>4 DEF Counts
<1>6. t.sum = SumSet(Counts(h2, s, t))
  BY <1>5 DEF Counted, Counts
<1>7. \A b \in Buckets : \A a \in s[b] \ {MaxNode(b), t.prev} : Reached(h2, t, b, h2[a].val) => a \in Locks(t)
  BY <1>1, <1>3 DEF Counted
<1> QED
  BY <1>2, <1>6, <1>7 DEF Counted, Counts

\* A block that is not locked, and is not at the end of its list, has not been passed.
LEMMA Ahead ==
  ASSUME NEW h \in Memories, NEW s \in Tables, Shape(h, s), NEW t, t.leg - 1 \in Buckets,
         Counted(h, s, t), NEW b \in Buckets, NEW a \in s[b], a \notin Locks(t), a # MaxNode(b)
  PROVE  /\ \A v \in Int : v > h[a].val => ~Reached(h, t, b, v)
         /\ t.pc # "commit" \/ a # t.prev
<1>0. /\ t.prev \in s[t.leg - 1] /\ h[t.prev].val \in Int /\ h[a].val \in Int /\ t.leg - 1 \in Int /\ b \in Int
      /\ a # t.prev => ~Reached(h, t, b, h[a].val)
  <2>1. t.prev \in s[t.leg - 1]
    BY DEF Counted
  <2> QED
    BY <2>1, ListFacts DEF Counted, Buckets
<1>1. CASE a # t.prev
  BY <1>0, <1>1 DEF Reached
<1>2. CASE a = t.prev
  <2>1. b = t.leg - 1
    BY <1>0, <1>2, OneList
  <2> QED
    BY <2>1, <1>0, <1>2 DEF Reached, Counted
<1> QED
  BY <1>1, <1>2

\* An insertion behind a block that is not locked is ahead of the walk.
LEMMA CountedAdded ==
  ASSUME NEW h \in Memories, NEW s \in Tables, NEW h2, NEW s2, NEW w, NEW t, NEW k \in Keys, Shape(h, s),
         t.leg - 1 \in Buckets, Counted(h, s, t), Adds(h, s, h2, s2, w, k), Locks(t) \cap w = {}
  PROVE  Counted(h2, s2, t)
<1>0. PICK b \in Buckets : b = Bucket(k)
  BY KeyFacts
<1>1. PICK a \in s[b], d \in Spare : /\ a \in w /\ ~Linked(s, d) /\ h[a].val < k /\ k < h[h[a].next].val
                                     /\ h2 = LinkIn(h, a, d, k) /\ s2 = More(s, b, d)
  BY <1>0 DEF Adds
<1>2. a \in Blocks /\ d \in Blocks /\ a # d /\ \A e \in Buckets : d \notin s[e] /\ s[e] \subseteq Blocks
  BY <1>1, BlockFacts DEF Linked, Tables
<1>3. /\ h2[d].val = k /\ \A x \in Blocks \ {d} : h2[x].val = h[x].val
      /\ \A x \in Blocks \ {a, d} : h2[x] = h[x]
  BY <1>1, <1>2 DEF LinkIn, Memories
<1>4. s2[b] = s[b] \cup {d} /\ \A e \in Buckets \ {b} : s2[e] = s[e]
  BY <1>1 DEF More, Tables
<1>5. a # MaxNode(b) /\ a \notin Locks(t) /\ h[a].val \in Int /\ k \in Int
  BY <1>1, ListFacts, KeyFacts
<1>6. ~Reached(h, t, b, k) /\ (t.pc # "commit" \/ a # t.prev)
  BY <1>1, <1>5, Ahead
<1>7. t.prev \in s[t.leg - 1] /\ t.prev \in Blocks \ {d} /\ t.prev \in s2[t.leg - 1]
  BY <1>2, <1>4 DEF Counted
<1>8. \A e, v : Reached(h2, t, e, v) <=> Reached(h, t, e, v)
  BY <1>3, <1>7 DEF Reached
<1>9. ASSUME NEW j \in Keys
      PROVE  Has(h2, s2, j) /\ Reached(h2, t, Bucket(j), j) <=> Has(h, s, j) /\ Reached(h, t, Bucket(j), j)
  BY <1>0, <1>6, <1>8, HasAdded
<1>10. Counts(h2, s2, t) = Counts(h, s, t)
  BY <1>9 DEF Counts
<1>11. ASSUME NEW e \in Buckets, NEW x \in s2[e] \ {MaxNode(e), t.prev}, Reached(h2, t, e, h2[x].val)
       PROVE  x \in Locks(t)
  <2>1. x # d
    <3>1. x = d => e = b
      BY <1>2, <1>4, <1>11
    <3> QED
      BY <3>1, <1>3, <1>6, <1>8, <1>11
  <2>2. x \in s[e] /\ h2[x].val = h[x].val
    BY <2>1, <1>2, <1>3, <1>4, <1>11
  <2> QED
    BY <2>2, <1>8, <1>11 DEF Counted
<1>12. t.pc = "commit" => h2[t.prev].next = h[t.prev].next
  BY <1>3, <1>6, <1>7
<1> QED
  BY <1>7, <1>10, <1>11, <1>12 DEF Counted, Counts

\* So is a removal behind such a block.
LEMMA CountedRemoved ==
  ASSUME NEW h \in Memories, NEW s \in Tables, NEW h2, NEW s2, NEW w, NEW t, NEW k \in Keys, Shape(h, s),
         t.leg - 1 \in Buckets, Counted(h, s, t), Guarded(h, s, Wanted(t), Locks(t)),
         Removes(h, s, h2, s2, w, k), Locks(t) \cap w = {}
  PROVE  Counted(h2, s2, t)
<1>0. PICK b \in Buckets : b = Bucket(k)
  BY KeyFacts
<1>1. PICK a \in s[b], x \in Spare : /\ a \in w /\ h[a].next = x /\ h[x].val = k
                                     /\ h2 = CutOut(h, a, x) /\ s2 = Less(s, b, x)
  BY <1>0 DEF Removes
<1>2. x \in Blocks /\ x # Nil /\ a \in Blocks
  BY <1>1, BlockFacts DEF Tables
<1>3. a # MaxNode(b) /\ x \in s[b] /\ h[a].val < k /\ h[a].val \in Int /\ a \notin Locks(t) /\ k \in Int
  BY <1>1, <1>2, ListFacts, KeyFacts
<1>4. x \notin Wanted(t)
  BY <1>1, <1>3 DEF Guarded
<1>5. /\ a # x /\ \A y \in Blocks \ {x} : h2[y].val = h[y].val
      /\ \A y \in Blocks \ {a, x} : h2[y] = h[y]
  <2>1. a # x
    BY <1>1, <1>3
  <2> QED
    BY <2>1, <1>1, <1>2 DEF CutOut, Memories
<1>6. s2[b] = s[b] \ {x} /\ \A e \in Buckets \ {b} : s2[e] = s[e]
  BY <1>1 DEF Less, Tables
<1>7. ~Reached(h, t, b, k) /\ (t.pc # "commit" \/ a # t.prev)
  BY <1>3, Ahead
<1>8. t.prev \in s[t.leg - 1] /\ t.prev # x /\ t.prev \in Blocks /\ t.prev \in s2[t.leg - 1] /\ t.prev \in Wanted(t)
  BY <1>4, <1>6 DEF Counted, Tables
<1>9. \A e, v : Reached(h2, t, e, v) <=> Reached(h, t, e, v)
  BY <1>5, <1>8 DEF Reached
<1>10. ASSUME NEW j \in Keys
       PROVE  Has(h2, s2, j) /\ Reached(h2, t, Bucket(j), j) <=> Has(h, s, j) /\ Reached(h, t, Bucket(j), j)
  BY <1>0, <1>7, <1>9, HasRemoved
<1>11. Counts(h2, s2, t) = Counts(h, s, t)
  BY <1>10 DEF Counts
<1>12. ASSUME NEW e \in Buckets, NEW y \in s2[e] \ {MaxNode(e), t.prev}, Reached(h2, t, e, h2[y].val)
       PROVE  y \in Locks(t)
  <2>1. y # x
    <3>1. e # b => x \notin s[e]
      BY <1>3, OneList
    <3> QED
      BY <3>1, <1>6, <1>12
  <2>2. y \in s[e] /\ y \in Blocks
    BY <1>6, <1>12 DEF Tables
  <2>3. h2[y].val = h[y].val
    BY <2>1, <2>2, <1>5
  <2> QED
    BY <2>2, <2>3, <1>9, <1>12 DEF Counted
<1>13. t.pc = "commit" => h2[t.prev].next = h[t.prev].next
  BY <1>5, <1>7, <1>8
<1> QED
  BY <1>8, <1>11, <1>12, <1>13 DEF Counted, Counts

\* The first attempt has counted nothing.
LEMMA CountedStart ==
  ASSUME NEW h \in Memories, NEW s \in Tables, Shape(h, s), NEW t, t.pc # "commit", t.leg = 1,
         t.prev = MinNode(0), t.prev \in Wanted(t), t.sum = 0
  PROVE  Counted(h, s, t)
<1>0. 0 \in Buckets /\ t.leg - 1 = 0
  BY SetAssumption DEF Buckets
<1>1. MinNode(0) \in s[0] /\ h[MinNode(0)].val = ValMin
  BY <1>0, ListFacts
<1>2. \A b \in Buckets, k \in Keys : ~Reached(h, t, b, k)
  <2> SUFFICES ASSUME NEW b \in Buckets, NEW k \in Keys PROVE ~Reached(h, t, b, k)
    OBVIOUS
  <2>1. ~(b < 0) /\ ~(k =< ValMin)
    BY KeyFacts DEF Buckets
  <2> QED
    BY <2>1, <1>0, <1>1 DEF Reached
<1>3. Counts(h, s, t) = {}
  BY <1>2, KeyFacts DEF Counts
<1>4. ASSUME NEW b \in Buckets, NEW a \in s[b] \ {MaxNode(b), t.prev}
      PROVE  ~Reached(h, t, b, h[a].val)
  <2>1. CASE a = MinNode(b)
    <3>1. b # 0 /\ ~(b < 0)
      BY <2>1, <1>4 DEF Buckets
    <3> QED
      BY <3>1, <1>0 DEF Reached
  <2>2. CASE a # MinNode(b)
    BY <2>2, <1>2, <1>4, ListFacts
  <2> QED
    BY <2>1, <2>2
<1> QED
  BY <1>0, <1>1, <1>3, <1>4, SumSetEmpty DEF Counted, Counts

\* The pointer of prev is loaded.
LEMMA CountedLoad ==
  ASSUME NEW h, NEW s, NEW t, NEW t2, Counted(h, s, t), t2.pc = "look", t2.leg = t.leg, t2.prev = t.prev,
         t2.sum = t.sum, Locks(t2) = Locks(t) \cup {t.prev}
  PROVE  Counted(h, s, t2)
<1>1. \A b, v : Reached(h, t2, b, v) <=> Reached(h, t, b, v)
  BY DEF Reached
<1>2. Counts(h, s, t2) = Counts(h, s, t)
  BY <1>1 DEF Counts
<1>3. t2.prev \in Wanted(t2)
  BY DEF Wanted
<1> QED
  BY <1>1, <1>2, <1>3 DEF Counted, Counts

\* The next block is one of a value: it is counted.
LEMMA CountedOn ==
  ASSUME NEW h \in Memories, NEW s \in Tables, Shape(h, s), NEW t, NEW t2, t.leg - 1 \in Buckets, t.leg \in Nat,
         Counted(h, s, t), t.prev \in Locks(t), h[t.prev].next # Nil, NEW x, x = h[t.prev].next, h[x].next # Nil,
         t2.pc = "load", t2.leg = t.leg, t2.prev = x, t2.sum = t.sum + h[x].val, Locks(t2) = Locks(t)
  PROVE  Counted(h, s, t2)
<1>1. PICK b \in Buckets : b = t.leg - 1
  OBVIOUS
<1>2. t.prev \in s[b] /\ t.prev # MaxNode(b)
  BY <1>1, ListFacts DEF Counted
<1>3. x \in s[b] /\ h[t.prev].val < h[x].val /\ x # MaxNode(b)
  BY <1>1, <1>2, ListFacts
<1>4. x # MinNode(b)
  <2>1. h[MinNode(b)].val = ValMin
    BY ListFacts
  <2>2. PICK v \in Values : v = h[t.prev].val
    BY <1>2, ListFacts
  <2>3. ValMin =< v /\ v \in Int /\ ValMin \in Int
    BY <2>2, KeyFacts
  <2> QED
    BY <2>1, <2>2, <2>3, <1>3
<1>5. PICK k \in Keys : k = h[x].val /\ Bucket(k) = b
  BY <1>3, <1>4, ListFacts
<1>6. /\ \A a \in s[b] : (h[a].val =< h[t.prev].val \/ h[a].val >= k) /\ h[a].val \in Int
      /\ h[t.prev].val \in Int /\ k \in Int /\ h[t.prev].val < k /\ b \in Int
      /\ \A a \in s[b] : h[a].val = k => a = x
  <2>1. \A a \in s[b] : h[a].val =< h[t.prev].val \/ h[a].val >= h[h[t.prev].next].val
    BY <1>2, ListFacts
  <2>2. \A a \in s[b] : h[a].val \in Int
    BY ListFacts
  <2>3. \A a \in s[b] : h[a].val = h[x].val => a = x
    BY <1>3, ListFacts
  <2>4. h[t.prev].val \in Int /\ h[t.prev].val < k
    BY <2>2, <1>2, <1>3, <1>5
  <2>5. k \in Int /\ b \in Int
    BY KeyFacts DEF Buckets
  <2>6. \A a \in s[b] : h[a].val =< h[t.prev].val \/ h[a].val >= k
    BY <2>1, <1>1, <1>5
  <2>7. \A a \in s[b] : h[a].val = k => a = x
    BY <2>3, <1>5
  <2> QED
    BY <2>2, <2>4, <2>5, <2>6, <2>7
<1>7. ASSUME NEW c \in Buckets, NEW v \in Int, c = b => v =< h[t.prev].val \/ v >= k
      PROVE  Reached(h, t2, c, v) <=> Reached(h, t, c, v) \/ (c = b /\ v = k)
  <2>1. c \in Int /\ b \in Int
    BY DEF Buckets
  <2> QED
    BY <2>1, <1>1, <1>5, <1>6, <1>7 DEF Reached
<1>8. Has(h, s, k) /\ \A j \in Keys : Has(h, s, j) /\ Bucket(j) = b => j =< h[t.prev].val \/ j >= k
  BY <1>3, <1>5, <1>6 DEF Has
<1>9. Counts(h, s, t2) = Counts(h, s, t) \cup {k}
  <2>1. ASSUME NEW j \in Keys, Has(h, s, j)
        PROVE  Reached(h, t2, Bucket(j), j) <=> Reached(h, t, Bucket(j), j) \/ j = k
    <3>1. Bucket(j) \in Buckets /\ j \in Int
      BY KeyFacts
    <3>2. Bucket(j) = b => j =< h[t.prev].val \/ j >= k
      BY <2>1, <1>8
    <3> QED
      BY <3>1, <3>2, <1>5, <1>7
  <2> QED
    BY <2>1, <1>8 DEF Counts
<1>10. k \notin Counts(h, s, t)
  BY <1>1, <1>5, <1>6 DEF Counts, Reached
<1>11. IsFiniteSet(Counts(h, s, t)) /\ Counts(h, s, t) \subseteq Int /\ k \in Int
  <2>1. IsFiniteSet(Keys)
    BY SetAssumption, FS_Interval DEF Keys
  <2>2. Counts(h, s, t) \subseteq Keys
    BY DEF Counts
  <2> QED
    BY <2>1, <2>2, FS_Subset, KeyFacts
<1>12. SumSet(Counts(h, s, t2)) = SumSet(Counts(h, s, t)) + k
  BY <1>9, <1>10, <1>11, SumSetAdd
<1>13. t2.sum = SumSet(Counts(h, s, t2))
  BY <1>5, <1>12 DEF Counted, Counts
<1>14. ASSUME NEW c \in Buckets, NEW a \in s[c] \ {MaxNode(c), t2.prev}, Reached(h, t2, c, h[a].val)
       PROVE  a \in Locks(t2)
  <2>1. h[a].val \in Int
    BY <1>14, ListFacts
  <2>2. c = b => (h[a].val =< h[t.prev].val \/ h[a].val >= k) /\ h[a].val # k
    BY <1>6, <1>14
  <2>3. Reached(h, t, c, h[a].val)
    BY <2>1, <2>2, <1>7, <1>14
  <2> QED
    BY <2>3, <1>14 DEF Counted
<1> QED
  BY <1>1, <1>3, <1>13, <1>14 DEF Counted, Counts, Wanted

\* The next block is the last of the list: there is no value behind prev.
LEMMA LastPassed ==
  ASSUME NEW h \in Memories, NEW s \in Tables, Shape(h, s), NEW b \in Buckets, NEW a \in s[b],
         h[a].next = MaxNode(b)
  PROVE  \A c \in s[b] \ {MaxNode(b)} : h[c].val =< h[a].val
<1>1. a # MaxNode(b)
  BY ListFacts, BlockFacts
<1> SUFFICES ASSUME NEW c \in s[b] \ {MaxNode(b)} PROVE h[c].val =< h[a].val
  OBVIOUS
<1>2. h[c].val < ValMax /\ h[MaxNode(b)].val = ValMax
  BY ListFacts, NextLinked
<1>3. h[c].val =< h[a].val \/ h[c].val >= ValMax
  BY <1>1, <1>2, ListFacts
<1>4. h[c].val \in Int /\ h[a].val \in Int /\ ValMax \in Int
  BY ListFacts, KeyFacts
<1> QED
  BY <1>2, <1>3, <1>4

\* The walk goes on in the next bucket.
LEMMA CountedLeg ==
  ASSUME NEW h \in Memories, NEW s \in Tables, Shape(h, s), NEW t, NEW t2, t.leg - 1 \in Buckets, t.leg \in Nat,
         t.leg \in Buckets, Counted(h, s, t), t.prev \in Locks(t), h[t.prev].next = MaxNode(t.leg - 1),
         t2.pc = "load", t2.leg = t.leg + 1, t2.prev = MinNode(t.leg), t2.sum = t.sum, Locks(t2) = Locks(t)
  PROVE  Counted(h, s, t2)
<1>1. PICK b \in Buckets : b = t.leg - 1
  OBVIOUS
<1>2. t.prev \in s[b] /\ b \in Int /\ t2.leg - 1 = t.leg /\ t.leg \in Int /\ t.leg = b + 1
  BY <1>1 DEF Counted, Buckets
<1>3. \A c \in s[b] \ {MaxNode(b)} : h[c].val =< h[t.prev].val
  BY <1>1, <1>2, LastPassed
<1>4. MinNode(t.leg) \in s[t.leg] /\ h[MinNode(t.leg)].val = ValMin
  BY ListFacts
<1>5. ASSUME NEW c \in Buckets, NEW v \in Int, c = b => v =< h[t.prev].val, v > ValMin
      PROVE  Reached(h, t2, c, v) <=> Reached(h, t, c, v)
  <2>1. c \in Int /\ ValMin \in Int
    BY KeyFacts DEF Buckets
  <2> QED
    BY <2>1, <1>1, <1>2, <1>4, <1>5 DEF Reached
<1>6. Counts(h, s, t2) = Counts(h, s, t)
  <2>1. ASSUME NEW j \in Keys, Has(h, s, j)
        PROVE  Reached(h, t2, Bucket(j), j) <=> Reached(h, t, Bucket(j), j)
    <3>1. Bucket(j) \in Buckets /\ j \in Int /\ j > ValMin /\ ValMin \in Int
      BY KeyFacts
    <3>2. Bucket(j) = b => j =< h[t.prev].val
      <4>1. PICK a \in s[Bucket(j)] : h[a].val = j
        BY <2>1 DEF Has
      <4>2. a # MaxNode(Bucket(j))
        BY <4>1, <3>1, ListFacts, KeyFacts
      <4> QED
        BY <4>1, <4>2, <1>3
    <3> QED
      BY <3>1, <3>2, <1>5
  <2> QED
    BY <2>1 DEF Counts
<1>7. ASSUME NEW c \in Buckets, NEW a \in s[c] \ {MaxNode(c), t2.prev}, Reached(h, t2, c, h[a].val)
      PROVE  a \in Locks(t2)
  <2>1. CASE a = t.prev
    BY <2>1
  <2>2. CASE a = MinNode(c) /\ a # t.prev
    <3>1. c # t.leg
      BY <2>2, <1>7
    <3>2. c =< b /\ c \in Int
      BY <3>1, <1>2, <1>7 DEF Reached, Buckets
    <3>3. h[t.prev].val \in Int /\ h[t.prev].val >= ValMin /\ h[MinNode(c)].val = ValMin
      BY <1>2, ListFacts, KeyFacts
    <3>4. Reached(h, t, c, h[a].val)
      BY <2>2, <3>2, <3>3, <1>1, <1>2 DEF Reached
    <3> QED
      BY <2>2, <3>4, <1>7 DEF Counted
  <2>3. CASE a # MinNode(c) /\ a # t.prev
    <3>1. h[a].val \in Keys
      BY <2>3, <1>7, ListFacts
    <3>2. h[a].val \in Int /\ h[a].val > ValMin /\ ValMin \in Int
      BY <3>1, KeyFacts
    <3>3. Reached(h, t, c, h[a].val)
      BY <3>2, <1>3, <1>5, <1>7
    <3> QED
      BY <2>3, <3>3, <1>7 DEF Counted
  <2> QED
    BY <2>1, <2>2, <2>3
<1> QED
  BY <1>2, <1>4, <1>6, <1>7 DEF Counted, Counts, Wanted

\* The walk is over.
LEMMA CountedEnd ==
  ASSUME NEW h, NEW s, NEW t, NEW t2, Counted(h, s, t), t.prev \in Locks(t), h[t.prev].next = MaxNode(t.leg - 1),
         t.leg = NumBuckets, t2.leg = t.leg, t2.prev = t.prev, t2.sum = t.sum, t2.res = t.sum, Locks(t2) = Locks(t)
  PROVE  Counted(h, s, t2)
<1>1. \A b, v : Reached(h, t2, b, v) <=> Reached(h, t, b, v)
  BY DEF Reached
<1>2. Counts(h, s, t2) = Counts(h, s, t)
  BY <1>1 DEF Counts
<1> QED
  BY <1>1, <1>2 DEF Counted, Counts, Wanted

\* At its commit, the result is the sum of all values.
LEMMA CountedAll ==
  ASSUME NEW h \in Memories, NEW s \in Tables, Shape(h, s), NEW t, Counted(h, s, t), t.pc = "commit"
  PROVE  t.res = SumSet({k \in Keys : Has(h, s, k)})
<1>1. PICK b \in Buckets : b = NumBuckets - 1
  BY SetAssumption DEF Buckets
<1>2. t.leg - 1 = b /\ t.prev \in s[b] /\ h[t.prev].next = MaxNode(b)
  BY <1>1 DEF Counted
<1>3. \A c \in s[b] \ {MaxNode(b)} : h[c].val =< h[t.prev].val
  BY <1>2, LastPassed
<1>4. ASSUME NEW k \in Keys, Has(h, s, k)
      PROVE  Reached(h, t, Bucket(k), k)
  <2>1. PICK a \in s[Bucket(k)] : h[a].val = k
    BY <1>4 DEF Has
  <2>2. Bucket(k) \in Buckets /\ a # MaxNode(Bucket(k))
    BY <2>1, ListFacts, KeyFacts
  <2>3. Bucket(k) < b \/ Bucket(k) = b
    BY <2>2, <1>1, SetAssumption DEF Buckets
  <2> QED
    BY <2>1, <2>2, <2>3, <1>2, <1>3 DEF Reached
<1>5. Counts(h, s, t) = {k \in Keys : Has(h, s, k)}
  BY <1>4 DEF Counts
<1> QED
  BY <1>5 DEF Counted, Counts

-----------------------------------------------------------------------------
(* Every step and the snapshots.                                             *)

\* The operations write nothing but a block that was free.
LEMMA OperationHeap ==
  ASSUME NEW p \in Procs, Operation(p)
  PROVE  heap' = heap \/ \E b \in free : \E node : heap' = [heap EXCEPT ![b] = node]
<1>1. ASSUME NEW prev, NEW next, NEW t, Insert(p, prev, next, t)
      PROVE  \E b \in free : \E node : heap' = [heap EXCEPT ![b] = node]
  BY <1>1, Zenon DEF Insert, NewNode
<1>2. CASE SetContains(p) \/ SetRemove(p) \/ HtSnapshot(p)
  BY <1>2 DEF SetContains, SetRemove, HtSnapshot
<1>3. CASE SetAdd(p)
  BY <1>1, <1>3, Zenon DEF SetAdd
<1>4. CASE HtMoveNaive(p)
  BY <1>1, <1>4, Zenon DEF HtMoveNaive
<1>5. CASE HtMove(p)
  BY <1>5, Zenon DEF HtMove, NewNode
<1>6. CASE HtMoveOrRollback(p)
  BY <1>6, Zenon DEF HtMoveOrRollback, NewNode
<1> QED
  BY <1>2, <1>3, <1>4, <1>5, <1>6 DEF Operation

\* An operation changes the attempt of its process only.
LEMMA OperationTx ==
  ASSUME NEW p \in Procs, Operation(p)
  PROVE  \E t : tx' = [tx EXCEPT ![p] = t]
<1>1. ASSUME NEW prev, NEW next, NEW t, Insert(p, prev, next, t)
      PROVE  \E u : tx' = [tx EXCEPT ![p] = u]
  BY <1>1, Zenon DEF Insert
<1>2. ASSUME NEW prev, NEW next, NEW t, Unlink(p, prev, next, t)
      PROVE  \E u : tx' = [tx EXCEPT ![p] = u]
  BY <1>2, Zenon DEF Unlink
<1>3. CASE SetContains(p)
  BY <1>3, Zenon DEF SetContains
<1>4. CASE SetRemove(p)
  BY <1>2, <1>4, Zenon DEF SetRemove
<1>5. CASE HtSnapshot(p)
  BY <1>5, Zenon DEF HtSnapshot
<1>6. CASE SetAdd(p)
  BY <1>1, <1>6, Zenon DEF SetAdd
<1>7. CASE HtMoveNaive(p)
  BY <1>1, <1>2, <1>7, Zenon DEF HtMoveNaive
<1>8. CASE HtMove(p)
  BY <1>8, Zenon DEF HtMove
<1>9. CASE HtMoveOrRollback(p)
  BY <1>2, <1>9, Zenon DEF HtMoveOrRollback
<1> QED
  BY <1>3, <1>4, <1>5, <1>6, <1>7, <1>8, <1>9 DEF Operation

LEMMA PgasTx ==
  ASSUME NEW p \in Procs, PgasOperation(p)
  PROVE  \E t : tx' = [tx EXCEPT ![p] = t]
<1>1. CASE PgasContains(p)
  BY <1>1, Zenon DEF PgasContains
<1>2. CASE PgasAdd(p)
  BY <1>2, Zenon DEF PgasAdd
<1>3. CASE PgasRemove(p)
  BY <1>3, Zenon DEF PgasRemove
<1> QED
  BY <1>1, <1>2, <1>3 DEF PgasOperation

\* The steps that neither fill the lists nor commit
Still(p) == \/ Begin(p) \/ Load(p) \/ LoadHead(p) \/ Walk(p) \/ LoadNode(p)
            \/ Operation(p) \/ PgasOperation(p) \/ Abort(p)

LEMMA MemoryTypeNext == IInv' => heap' \in Memories
<1>1. IInv => heap \in Memories
  BY InvFacts
<1>2. IInv' => (heap \in Memories)'
  BY <1>1, PTL
<1> QED
  BY <1>2 DEF Memories, Nodes, Values, Pointers

\* They leave the lists as they are, and the attempts of the other processes.
LEMMA StillStep ==
  ASSUME IInv, NEW p \in Procs, Still(p)
  PROVE  /\ IInv' /\ Lists' = Lists /\ heap' \in Memories
         /\ \A a \in Blocks : Linked(Lists, a) => heap'[a] = heap[a]
         /\ \A q \in Procs \ {p} : tx'[q] = tx[q] /\ call'[q] = call[q]
         /\ Begin(p) \/ (call' = call /\ ans' = ans /\ call[p] # NoCall)
<1>0. /\ Typed /\ heap \in Memories /\ Lists \in Tables /\ Memory(Lists, free, mem) /\ ~early
  BY InvFacts
<1>1. IInv' /\ Lists' = Lists
  BY StepBegin, StepLoad, StepLoadHead, StepWalk, StepLoadNode, StepOperation, StepPgas, StepAbort DEF Still
<1>2. heap' \in Memories
  BY <1>1, MemoryTypeNext
<1>3. ASSUME NEW a \in Blocks, Linked(Lists, a)
      PROVE  heap'[a] = heap[a]
  <2>1. CASE Operation(p)
    <3>1. heap' = heap \/ \E b \in free : \E node : heap' = [heap EXCEPT ![b] = node]
      BY <2>1, OperationHeap
    <3>2. a \notin free
      BY <1>0, <1>3 DEF Memory
    <3> QED
      BY <3>1, <3>2, <1>0 DEF Memories
  <2>2. CASE Abort(p)
    <3>1. heap' = [c \in Blocks |-> IF c \in mem[p].new THEN Blank ELSE heap[c]]
      BY <2>2, <1>0, Zenon DEF Abort, Erased
    <3>2. a \notin mem[p].new
      BY <1>0, <1>3 DEF Memory
    <3> QED
      BY <3>1, <3>2
  <2>3. CASE Begin(p) \/ Load(p) \/ LoadHead(p) \/ Walk(p) \/ LoadNode(p) \/ PgasOperation(p)
    <3>1. heap' = heap
      BY <2>3, Zenon DEF Begin, Load, LoadHead, Walk, LoadNode, PgasOperation
    <3> QED
      BY <3>1
  <2> QED
    BY <2>1, <2>2, <2>3 DEF Still
<1>4. ASSUME NEW q \in Procs \ {p}
      PROVE  tx'[q] = tx[q] /\ call'[q] = call[q]
  <2>1. \A t : tx' = [tx EXCEPT ![p] = t] => tx'[q] = tx[q]
    BY <1>0 DEF Typed
  <2>2. CASE Operation(p) \/ PgasOperation(p)
    <3>1. \E t : tx' = [tx EXCEPT ![p] = t]
      BY <2>2, OperationTx, PgasTx
    <3>2. call' = call
      BY <2>2, Zenon DEF Operation, PgasOperation
    <3> QED
      BY <2>1, <3>1, <3>2
  <2>3. CASE Begin(p)
    BY <2>3, <1>0 DEF Begin, Typed, TypeOK
  <2>4. CASE Load(p)
    BY <2>4, <1>0 DEF Load, Typed
  <2>5. CASE LoadHead(p)
    BY <2>5, <1>0 DEF LoadHead, Typed
  <2>6. CASE Walk(p)
    BY <2>6, <1>0 DEF Walk, Typed
  <2>7. CASE LoadNode(p)
    <3>1. \E t : tx' = [tx EXCEPT ![p] = t]
      BY <2>7, Zenon DEF LoadNode
    <3> QED
      BY <2>1, <2>7, <3>1 DEF LoadNode
  <2>8. CASE Abort(p)
    BY <2>8, <1>0 DEF Abort, Typed
  <2> QED
    BY <2>2, <2>3, <2>4, <2>5, <2>6, <2>7, <2>8 DEF Still
<1>5. ASSUME ~Begin(p)
      PROVE  call' = call /\ ans' = ans /\ call[p] # NoCall
  <2>1. call' = call /\ ans' = ans
    BY <1>5, Zenon DEF Still, Load, LoadHead, Walk, LoadNode, Operation, PgasOperation, Abort
  <2>2. CASE Abort(p)
    BY <2>1, <2>2 DEF Abort
  <2>3. CASE ~Abort(p)
    <3>1. Walking(tx[p])
      <4>1. CASE Operation(p)
        BY <4>1 DEF Operation, SetContains, SetAdd, SetRemove, HtMoveNaive, HtMove, HtMoveOrRollback, HtSnapshot,
                    Stopped, Walking
      <4>2. CASE PgasOperation(p)
        BY <4>2 DEF PgasOperation, PgasContains, PgasAdd, PgasRemove, Ended, Walking
      <4>3. CASE Load(p) \/ LoadHead(p) \/ Walk(p) \/ LoadNode(p)
        BY <4>3 DEF Load, LoadHead, Walk, LoadNode, Walking
      <4> QED
        BY <4>1, <4>2, <4>3, <2>3, <1>5 DEF Still
    <3> QED
      BY <2>1, <3>1, WalkingFacts
  <2> QED
    BY <2>2, <2>3
<1> QED
  BY <1>1, <1>2, <1>3, <1>4, <1>5

LEMMA CountNext ==
  ASSUME \A q \in Procs : call'[q].name = "snapshot" /\ ~tx'[q].lost => Counted(heap', Lists', tx'[q])
  PROVE  CountInv'
<1> DEFINE l == Lists
<1>1. PICK l2, h2 : l2 = Lists' /\ h2 = heap'
  OBVIOUS
<1>2. ASSUME NEW q \in Procs, call'[q].name = "snapshot", ~tx'[q].lost
      PROVE  Counted(heap, Lists, tx[q])'
  <2>1. PICK t : t = tx'[q]
    OBVIOUS
  <2>2. Counted(h2, l2, t)
    BY <2>1, <1>1, <1>2
  <2> QED
    BY <2>1, <2>2, <1>1 DEF Counted, Has, Reached, Wanted, Locks, Bucket
<1> QED
  BY <1>2 DEF CountInv

LEMMA SnapshotForm ==
  ASSUME IInv, NEW p \in Procs, call[p].name = "snapshot"
  PROVE  /\ call[p] # NoCall /\ call[p] \in Calls /\ driver = "hash" /\ ~Pgas
         /\ tx[p].leg \in Nat \ {0} /\ tx[p].leg - 1 \in Buckets /\ tx[p].leg =< NumBuckets
         /\ tx[p].pc \in {"load", "look", "commit"}
<1>1. /\ Form(tx[p], call[p], mem[p], left) /\ tx[p] \in Attempts /\ call[p] \in Calls \cup {NoCall}
  BY InvFacts
<1>2. call[p] # NoCall
  BY DEF NoCall
<1>3. tx[p].leg \in Nat \ {0} /\ tx[p].leg =< NumBuckets
  BY <1>1 DEF Form, Attempts
<1>4. tx[p].leg - 1 \in Buckets
  BY <1>3, SetAssumption DEF Buckets
<1>5. driver = "hash" /\ ~Pgas /\ tx[p].pc # "idle"
  BY <1>1, <1>2 DEF Form, Pgas
<1>6. tx[p].pc \in {"load", "look", "commit"}
  BY <1>1, <1>5 DEF Form, Attempts
<1> QED
  BY <1>1, <1>2, <1>3, <1>4, <1>5, <1>6

\* A snapshot that begins, or begins again
LEMMA CountBegun ==
  ASSUME NEW h \in Memories, NEW s \in Tables, Shape(h, s), NEW c, c.name = "snapshot", driver = "hash"
  PROVE  Counted(h, s, Start(c))
<1>1. PICK a, x : a = MinNode(0) /\ x = "load"
  OBVIOUS
<1>2. PICK t : t = Start(c)
  OBVIOUS
<1>3. t = [At(a) EXCEPT !.pc = x]
  BY <1>1, <1>2 DEF Start
<1>4. t.pc = x /\ t.leg = 1 /\ t.prev = a /\ t.sum = 0
  BY <1>3 DEF At
<1>5. t.prev \in Wanted(t)
  BY <1>1, <1>4 DEF Wanted
<1> QED
  BY <1>1, <1>2, <1>4, <1>5, CountedStart

\* One step of a snapshot
LEMMA CountFrame ==
  ASSUME IInv, NEW p \in Procs, call[p].name = "snapshot", HtSnapshot(p)
  PROVE  tx'[p].lost = tx[p].lost /\ tx'[p].leg - 1 \in Buckets
<1>0. /\ Typed /\ tx[p] \in Attempts
      /\ tx[p].leg \in Nat /\ tx[p].leg - 1 \in Buckets /\ tx[p].leg =< NumBuckets /\ NumBuckets \in Nat
  BY StepFacts, SnapshotForm, SetAssumption
<1>1. PICK t \in Attempts : t = tx[p]
  BY <1>0
<1>2. PICK u : /\ tx' = [tx EXCEPT ![p] = u]
               /\ \/ \E v, a : u = [t EXCEPT !.sum = v, !.prev = a, !.pc = "load"]
                  \/ \E a : u = [t EXCEPT !.leg = t.leg + 1, !.prev = a, !.pc = "load"] /\ t.leg < NumBuckets
                  \/ u = Done(t, t.sum)
  BY ZenonT(40), <1>1 DEF HtSnapshot
<1>3. tx'[p] = u
  BY <1>0, <1>2 DEF Typed
<1>4. u.lost = t.lost /\ (u.leg = t.leg \/ (u.leg = t.leg + 1 /\ t.leg < NumBuckets))
  BY <1>1, <1>2 DEF Attempts, Done
<1>5. u.leg - 1 \in Buckets
  BY <1>0, <1>1, <1>4 DEF Buckets
<1> QED
  BY <1>1, <1>3, <1>4, <1>5

LEMMA CountStep ==
  ASSUME IInv, CountInv, NEW p \in Procs, call[p].name = "snapshot", ~tx[p].lost, HtSnapshot(p)
  PROVE  Counted(heap, Lists, tx'[p])
<1>0. /\ Typed /\ heap \in Memories /\ Lists \in Tables /\ Shape(heap, Lists) /\ tx[p] \in Attempts
      /\ call[p] # NoCall /\ ~tx[p].lost => Live(heap, Lists, tx[p], call[p], mem[p])
  BY StepFacts
<1>1. /\ call[p] # NoCall /\ tx[p].leg \in Nat /\ tx[p].leg - 1 \in Buckets /\ tx[p].leg =< NumBuckets
      /\ NumBuckets \in Nat
  BY SnapshotForm, SetAssumption
<1>2. tx[p].pc = "look"
  BY DEF HtSnapshot
<1> DEFINE l == Lists
<1> HIDE DEF l
<1>3. PICK t \in Attempts : t = tx[p]
  BY <1>0
<1>4. l \in Tables /\ Shape(heap, l) /\ Counted(heap, l, t)
  BY <1>0, <1>3 DEF CountInv, l
<1>5. Live(heap, l, t, call[p], mem[p])
  BY <1>0, <1>1, <1>3 DEF l
<1>6. Summing(l, t) /\ t.next = heap[t.prev].next /\ t.prev \in Locks(t)
  BY <1>5, <1>2, <1>3 DEF Live, Position
<1>7. PICK b \in Buckets : b = t.leg - 1 /\ t.prev \in l[b] /\ t.prev # MaxNode(b)
  BY <1>1, <1>3, <1>6 DEF Summing
<1>8. t.next \in l[b] /\ t.next # Nil /\ t.next \in Blocks
  <2>1. t.next \in Blocks /\ t.next \in l[b]
    BY <1>0, <1>4, <1>6, <1>7, NextLinked
  <2> QED
    BY <2>1, BlockFacts
<1>9. PICK node : node = heap[t.next]
  OBVIOUS
<1>10. tx'[p] = IF node.next # Nil THEN [t EXCEPT !.sum = t.sum + node.val, !.prev = t.next, !.pc = "load"]
                ELSE IF t.leg < NumBuckets THEN [t EXCEPT !.leg = t.leg + 1, !.prev = MinNode(t.leg), !.pc = "load"]
                ELSE Done(t, t.sum)
  <2>1. PICK u : /\ tx' = [tx EXCEPT ![p] = u]
                 /\ u = IF node.next # Nil THEN [t EXCEPT !.sum = t.sum + node.val, !.prev = t.next, !.pc = "load"]
                        ELSE IF t.leg < NumBuckets THEN [t EXCEPT !.leg = t.leg + 1, !.prev = MinNode(t.leg), !.pc = "load"]
                        ELSE Done(t, t.sum)
    BY <1>3, <1>9 DEF HtSnapshot
  <2>2. tx'[p] = u
    BY <2>1, <1>0 DEF Typed
  <2> QED
    BY <2>1, <2>2
<1>11. PICK t2 : t2 = tx'[p]
  OBVIOUS
<1>12. node.next = Nil => t.next = MaxNode(b)
  <2>1. t.next # MaxNode(b) => heap[t.next].next \in Blocks
    BY <1>0, <1>4, <1>8, NextLinked
  <2> QED
    BY <2>1, <1>9, BlockFacts
<1>13. CASE node.next # Nil
  <2>1. t2 = [t EXCEPT !.sum = t.sum + node.val, !.prev = t.next, !.pc = "load"]
    BY <1>10, <1>11, <1>13
  <2>2. /\ t2.pc = "load" /\ t2.leg = t.leg /\ t2.prev = t.next /\ t2.sum = t.sum + node.val /\ t2.reads = t.reads
    BY <2>1, <1>3 DEF Attempts
  <2>3. Locks(t2) = Locks(t)
    BY <2>2 DEF Locks
  <2>4. Counted(heap, l, t2)
    BY <2>2, <2>3, <1>0, <1>1, <1>3, <1>4, <1>6, <1>8, <1>9, <1>13, CountedOn
  <2> QED
    BY <2>4, <1>11 DEF l
<1>14. CASE node.next = Nil /\ t.leg < NumBuckets
  <2>1. t2 = [t EXCEPT !.leg = t.leg + 1, !.prev = MinNode(t.leg), !.pc = "load"]
    BY <1>10, <1>11, <1>14
  <2>2. /\ t2.pc = "load" /\ t2.leg = t.leg + 1 /\ t2.prev = MinNode(t.leg) /\ t2.sum = t.sum /\ t2.reads = t.reads
    BY <2>1, <1>3 DEF Attempts
  <2>3. Locks(t2) = Locks(t)
    BY <2>2 DEF Locks
  <2>4. t.leg \in Buckets
    BY <1>1, <1>3, <1>14 DEF Buckets
  <2>5. Counted(heap, l, t2)
    BY <2>2, <2>3, <2>4, <1>0, <1>1, <1>3, <1>4, <1>6, <1>7, <1>12, <1>14, CountedLeg
  <2> QED
    BY <2>5, <1>11 DEF l
<1>15. CASE node.next = Nil /\ ~(t.leg < NumBuckets)
  <2>1. t2 = Done(t, t.sum)
    BY <1>10, <1>11, <1>15
  <2>2. /\ t2.leg = t.leg /\ t2.prev = t.prev /\ t2.sum = t.sum /\ t2.res = t.sum /\ t2.reads = t.reads
    BY <2>1, <1>3 DEF Attempts, Done
  <2>3. Locks(t2) = Locks(t)
    BY <2>2 DEF Locks
  <2>4. t.leg = NumBuckets
    BY <1>1, <1>3, <1>15
  <2>5. Counted(heap, l, t2)
    BY <2>2, <2>3, <2>4, <1>4, <1>6, <1>7, <1>12, <1>15, CountedEnd
  <2> QED
    BY <2>5, <1>11 DEF l
<1> QED
  BY <1>13, <1>14, <1>15

\* The steps that leave the lists as they are
LEMMA CountStill ==
  ASSUME IInv, CountInv, NEW p \in Procs, Still(p)
  PROVE  CountInv'
<1>0. /\ Typed /\ heap \in Memories /\ Lists \in Tables /\ Shape(heap, Lists)
      /\ tx[p] \in Attempts /\ mem[p] \in MemInfos
      /\ call[p] # NoCall /\ ~tx[p].lost => Live(heap, Lists, tx[p], call[p], mem[p])
  BY StepFacts
<1>1. /\ IInv' /\ Lists' = Lists /\ heap' \in Memories
      /\ \A a \in Blocks : Linked(Lists, a) => heap'[a] = heap[a]
      /\ \A q \in Procs \ {p} : tx'[q] = tx[q] /\ call'[q] = call[q]
      /\ Begin(p) \/ call' = call
  BY StillStep
<1> DEFINE l == Lists
<1>2. PICK h2 \in Memories : h2 = heap' /\ \A a \in Blocks : Linked(l, a) => h2[a] = heap[a]
  BY <1>1
<1> HIDE DEF l
<1>3. ASSUME NEW t, t.leg - 1 \in Buckets, Counted(heap, l, t)
      PROVE  Counted(heap', l, t)
  BY <1>0, <1>2, <1>3, CountedSame DEF l
<1>4. ASSUME NEW q \in Procs, q # p, call'[q].name = "snapshot", ~tx'[q].lost
      PROVE  Counted(heap', l, tx'[q])
  <2>1. call[q].name = "snapshot" /\ ~tx[q].lost /\ tx'[q] = tx[q]
    BY <1>1, <1>4
  <2>2. Counted(heap, l, tx[q]) /\ tx[q].leg - 1 \in Buckets
    BY <2>1, SnapshotForm DEF CountInv, l
  <2> QED
    BY <2>1, <2>2, <1>3
<1>5. ASSUME call'[p].name = "snapshot", ~tx'[p].lost
      PROVE  Counted(heap', l, tx'[p])
  <2>0. ASSUME NEW c, c.name = "snapshot", driver = "hash" PROVE Counted(heap, l, Start(c)) /\ Start(c).leg - 1 \in Buckets
    <3>1. PICK x : x = Start(c)
      OBVIOUS
    <3>2. x.leg = 1
      BY <3>1 DEF Start, At
    <3>3. x.leg - 1 \in Buckets
      BY <3>2, SetAssumption DEF Buckets
    <3> QED
      BY <3>1, <3>3, <2>0, <1>0, CountBegun DEF l
  <2>1. CASE Begin(p)
    <3>1. PICK c \in MayCall(p) : call' = [call EXCEPT ![p] = c] /\ tx' = [tx EXCEPT ![p] = Start(c)]
      BY <2>1 DEF Begin
    <3>2. call'[p] = c /\ tx'[p] = Start(c)
      BY <3>1, <1>0 DEF Typed, TypeOK
    <3>3. c.name = "snapshot" => driver = "hash"
      BY <3>1, TestCalls
    <3> QED
      BY <2>0, <3>2, <3>3, <1>3, <1>5
  <2>2. CASE Abort(p)
    <3>1. tx'[p] = Start(call[p]) /\ call' = call
      BY <2>2, <1>0 DEF Abort, Typed
    <3>2. call[p].name = "snapshot" /\ driver = "hash"
      BY <3>1, <1>5, SnapshotForm
    <3> QED
      BY <2>0, <3>1, <3>2, <1>3
  <2>3. CASE ~Begin(p) /\ ~Abort(p)
    <3>1. call[p].name = "snapshot" /\ call[p] # NoCall
      BY <2>3, <1>1, <1>5, SnapshotForm
    <3>2. tx[p].pc \in {"load", "look", "commit"} /\ tx[p].leg - 1 \in Buckets
      BY <3>1, SnapshotForm
    <3>3. Load(p) \/ HtSnapshot(p)
      BY <2>3, <3>1, <3>2 DEF Still, LoadHead, Walk, LoadNode, Operation, SetContains, SetAdd, SetRemove, HtMoveNaive,
        HtMove, HtMoveOrRollback, Stopped, PgasOperation, PgasContains, PgasAdd, PgasRemove, Ended
    <3>4. CASE Load(p)
      <4>1. PICK t \in Attempts : t = tx[p]
        BY <1>0
      <4>2. t.pc = "load" /\ t.reads \in Seq(Blocks) /\ t.prev \in Blocks /\ ~(t.lost /\ ~Owns(p, t.prev)) /\ Walking(t)
        BY <3>4, <4>1, WalkingFacts DEF Load, Walking, MayLoad
      <4>3. PICK x, r : /\ tx' = [tx EXCEPT ![p].next = x, ![p].reads = r, ![p].pc = "look"]
                        /\ r = Release(p, Locking(p, t.prev))
        BY <3>4, <4>1 DEF Load
      <4>4. r = Locking(p, t.prev)
        BY <4>3, InvFacts DEF Release
      <4>5. tx'[p] = [t EXCEPT !.next = x, !.reads = r, !.pc = "look"]
        BY <4>1, <4>3, <1>0 DEF Typed
      <4>6. PICK t2 : t2 = tx'[p]
        OBVIOUS
      <4>7. /\ t2.pc = "look" /\ t2.leg = t.leg /\ t2.prev = t.prev /\ t2.sum = t.sum /\ t2.reads = r
            /\ t2.lost = t.lost
        BY <4>5, <4>6 DEF Attempts
      <4>8. ~tx[p].lost
        BY <4>1, <4>6, <4>7, <1>5
      <4>9. ~Owns(p, t.prev)
        BY <4>1, <4>2, <4>8, <3>1, NotOwned
      <4>10. r = Append(t.reads, t.prev)
        BY <4>1, <4>2, <4>4, <4>9 DEF Locking
      <4>11. Locks(t2) = Locks(t) \cup {t.prev}
        BY <4>2, <4>7, <4>10, ToSetAppend DEF Locks
      <4>12. Counted(heap, l, t)
        BY <4>1, <4>8, <3>1 DEF CountInv, l
      <4>13. Counted(heap, l, t2)
        BY <4>7, <4>11, <4>12, CountedLoad
      <4> QED
        BY <4>1, <4>6, <4>7, <4>13, <3>2, <1>3
    <3>5. CASE HtSnapshot(p)
      <4>1. ~tx[p].lost /\ tx'[p].leg - 1 \in Buckets
        BY <3>1, <3>5, <1>5, CountFrame
      <4>2. Counted(heap, l, tx'[p])
        BY <4>1, <3>1, <3>5, CountStep DEF l
      <4> QED
        BY <4>1, <4>2, <1>3
    <3> QED
      BY <3>3, <3>4, <3>5
  <2> QED
    BY <2>1, <2>2, <2>3
<1>6. \A q \in Procs : call'[q].name = "snapshot" /\ ~tx'[q].lost => Counted(heap', Lists', tx'[q])
  BY <1>1, <1>4, <1>5 DEF l
<1> QED
  BY <1>6, CountNext

\* A removal leads to lists again.
LEMMA RemovedShape ==
  ASSUME NEW h \in Memories, NEW s \in Tables, NEW h2, NEW s2, NEW w, NEW k \in Keys, Shape(h, s),
         Removes(h, s, h2, s2, w, k)
  PROVE  h2 \in Memories /\ s2 \in Tables /\ Shape(h2, s2)
<1>0. PICK b \in Buckets : b = Bucket(k)
  BY KeyFacts
<1>1. PICK a \in s[b], x \in Spare : h[a].next = x /\ h[x].val = k /\ h2 = CutOut(h, a, x) /\ s2 = Less(s, b, x)
  BY <1>0 DEF Removes
<1> QED
  BY <1>1, CutShape

\* A commit against which t keeps its locks changes nothing of what t has counted.
LEMMA CountedEffect ==
  ASSUME NEW h \in Memories, NEW s \in Tables, NEW h2, NEW s2, NEW w, NEW t, NEW c \in Calls, NEW r, Shape(h, s),
         t.leg - 1 \in Buckets, Counted(h, s, t), Guarded(h, s, Wanted(t), Locks(t)),
         Effect(h, s, h2, s2, w, c, r), Locks(t) \cap w = {},
         c.name \in {"contains", "add", "remove", "move_naive", "snapshot"}
  PROVE  Counted(h2, s2, t)
<1>1. c.k \in Keys /\ c.k2 \in Keys
  BY CallFacts
<1>2. \/ h2 = h /\ s2 = s
      \/ Adds(h, s, h2, s2, w, c.k)
      \/ Removes(h, s, h2, s2, w, c.k)
      \/ Moves(h, s, h2, s2, w, c.k, c.k2)
  BY Zenon DEF Effect
<1>3. CASE Adds(h, s, h2, s2, w, c.k)
  BY <1>1, <1>3, CountedAdded
<1>4. CASE Removes(h, s, h2, s2, w, c.k)
  BY <1>1, <1>4, CountedRemoved
<1>5. CASE Moves(h, s, h2, s2, w, c.k, c.k2)
  <2>1. PICK h1 \in Memories, s1 \in Tables : Removes(h, s, h1, s1, w, c.k) /\ Adds(h1, s1, h2, s2, w, c.k2)
    BY <1>5 DEF Moves
  <2>2. Shape(h1, s1)
    BY <1>1, <2>1, RemovedShape
  <2>3. Counted(h1, s1, t)
    BY <1>1, <2>1, CountedRemoved
  <2> QED
    BY <1>1, <2>1, <2>2, <2>3, CountedAdded
<1> QED
  BY <1>2, <1>3, <1>4, <1>5

LEMMA CountCommit ==
  ASSUME IInv, CountInv, NEW p \in Procs, Commit(p)
  PROVE  CountInv'
<1>0. /\ Typed /\ heap \in Memories /\ Lists \in Tables /\ Shape(heap, Lists)
      /\ Form(tx[p], call[p], mem[p], left)
  BY StepFacts
<1>1. /\ call[p] # NoCall /\ call[p] \in Calls /\ tx' = TakeLocks(p) /\ call' = [call EXCEPT ![p] = NoCall]
  BY CommitFacts
<1>2. Effect(heap, Lists, heap', Lists', Written(p), call[p], tx[p].res)
  BY StepCommit
<1>3. call[p].name \in {"contains", "add", "remove", "move_naive", "snapshot"}
  BY <1>0, <1>1, CallFacts DEF Form
<1>4. call'[p] = NoCall /\ \A q \in Procs \ {p} : call'[q] = call[q]
  BY <1>0, <1>1 DEF Typed, TypeOK
<1>5. ASSUME NEW q \in Procs, call'[q].name = "snapshot", ~tx'[q].lost
      PROVE  Counted(heap', Lists', tx'[q])
  <2>1. q # p /\ call[q].name = "snapshot"
    BY <1>4, <1>5 DEF NoCall
  <2>2. \/ tx'[q] = tx[q] /\ Locks(tx[q]) \cap Written(p) = {}
        \/ tx'[q] = [tx[q] EXCEPT !.lost = TRUE]
    BY <2>1, <1>1, Zenon DEF TakeLocks, Locks
  <2>3. tx[q] \in Attempts
    BY <1>0 DEF Typed
  <2>4. tx'[q] = tx[q] /\ Locks(tx[q]) \cap Written(p) = {} /\ ~tx[q].lost
    <3>1. [tx[q] EXCEPT !.lost = TRUE].lost = TRUE
      BY <2>3 DEF Attempts
    <3> QED
      BY <3>1, <2>2, <1>5
  <2>5. call[q] # NoCall /\ tx[q].leg - 1 \in Buckets
    BY <2>1, SnapshotForm
  <2>6. Counted(heap, Lists, tx[q]) /\ Guarded(heap, Lists, Wanted(tx[q]), Locks(tx[q]))
    BY <2>1, <2>4, <2>5, OthersGuarded DEF CountInv
  <2>7. PICK w : w = Written(p)
    OBVIOUS
  <2>8. PICK t : t = tx[q]
    OBVIOUS
  <2> DEFINE l == Lists
  <2>9. PICK l2, h2 : l2 = Lists' /\ h2 = heap'
    OBVIOUS
  <2> HIDE DEF l
  <2>10. Effect(heap, l, h2, l2, w, call[p], tx[p].res) /\ Counted(heap, l, t) /\ Guarded(heap, l, Wanted(t), Locks(t))
    BY <1>2, <2>6, <2>7, <2>8, <2>9 DEF l
  <2>11. l \in Tables /\ Shape(heap, l) /\ Locks(t) \cap w = {} /\ t.leg - 1 \in Buckets
    BY <1>0, <2>4, <2>5, <2>7, <2>8 DEF l
  <2>12. Counted(h2, l2, t)
    BY <2>10, <2>11, <1>0, <1>1, <1>3, CountedEffect
  <2> QED
    BY <2>12, <2>4, <2>8, <2>9
<1> QED
  BY <1>5, CountNext

LEMMA NextCount ==
  ASSUME IInv, CountInv, [Next]_vars
  PROVE  CountInv'
<1>1. CASE UNCHANGED vars
  <2>1. heap' = heap /\ call' = call /\ tx' = tx
    BY <1>1 DEF vars
  <2>2. Lists' = Lists
    BY <2>1 DEF Lists, From, MinNode
  <2>3. ASSUME NEW q \in Procs, call'[q].name = "snapshot", ~tx'[q].lost
        PROVE  Counted(heap', Lists', tx'[q])
    BY <2>1, <2>2, <2>3 DEF CountInv
  <2> QED
    BY <2>3, CountNext
<1>2. CASE Populate
  <2>1. PICK k \in Keys : SetSeqAdd(k)
    BY <1>2 DEF Populate
  <2>2. left > 0 /\ call' = call
    BY <1>2, <2>1 DEF Populate, SetSeqAdd
  <2>3. \A q \in Procs : call'[q] = NoCall
    BY <2>2, NobodyCalls
  <2>4. \A q \in Procs : call'[q].name # "snapshot"
    BY <2>3 DEF NoCall
  <2> QED
    BY <2>4, CountNext
<1>3. ASSUME NEW p \in Procs, Still(p) PROVE CountInv'
  BY <1>3, CountStill
<1>4. ASSUME NEW p \in Procs, Commit(p) PROVE CountInv'
  BY <1>4, CountCommit
<1> QED
  BY <1>1, <1>2, <1>3, <1>4 DEF Next, SharedNext, Still

LEMMA InitCount == Init => CountInv
<1> SUFFICES ASSUME Init PROVE CountInv
  OBVIOUS
<1>1. \A p \in Procs : call[p].name = "none"
  BY DEF Init, NoCall
<1> QED
  BY <1>1 DEF CountInv

-----------------------------------------------------------------------------
(* The refinement of a set.                                                  *)

LEMMA SameSum == \A S : Abstract!SumSet(S) = SumSet(S)
BY Zenon DEF SumSet, FoldSet, MapThenFoldSet, Abstract!SumSet, Abstract!FoldSet, Abstract!MapThenFoldSet

\* The set after a commit, and what it returns, are those of the abstract operation.
LEMMA CommitReturns ==
  ASSUME IInv, CountInv, NEW p \in Procs, Commit(p)
  PROVE  Members' = Abstract!After(call[p]) /\ tx[p].res = Abstract!Result(call[p])
<1>0. /\ Typed /\ heap \in Memories /\ Lists \in Tables /\ Shape(heap, Lists)
      /\ Form(tx[p], call[p], mem[p], left)
  BY StepFacts
<1>1. /\ call[p] # NoCall /\ call[p] \in Calls /\ tx[p].pc = "commit" /\ ~tx[p].lost
  BY CommitFacts
<1>2. IInv' /\ Effect(heap, Lists, heap', Lists', Written(p), call[p], tx[p].res)
  BY StepCommit
<1>3. call[p].name \in {"contains", "add", "remove", "move_naive", "snapshot"}
  BY <1>0, <1>1, CallFacts DEF Form
<1>4. /\ Members = {k \in Keys : Has(heap, Lists, k)}
      /\ Members' = {k \in Keys : Has(heap', Lists', k)}
  BY <1>2, MembersStep
<1> DEFINE l == Lists
<1>5. PICK K : K = Members
  OBVIOUS
<1>6. PICK K2 : K2 = Members'
  OBVIOUS
<1>7. PICK h2, l2, w : h2 = heap' /\ l2 = Lists' /\ w = Written(p)
  OBVIOUS
<1>8. PICK c \in Calls : c = call[p]
  BY <1>1
<1>9. PICK r : r = tx[p].res
  OBVIOUS
<1> HIDE DEF l
<1>10. l \in Tables /\ Shape(heap, l) /\ Effect(heap, l, h2, l2, w, c, r)
  BY <1>0, <1>2, <1>7, <1>8, <1>9 DEF l
<1>11. /\ \A k : k \in K <=> k \in Keys /\ Has(heap, l, k)
       /\ \A k : k \in K2 <=> k \in Keys /\ Has(h2, l2, k)
  BY <1>4, <1>5, <1>6, <1>7 DEF l
<1>12. c.k \in Keys /\ c.k2 \in Keys /\ (c.name = "move_naive" => c.k # c.k2)
  BY <1>8, CallFacts
<1>13. h2 = heap /\ l2 = l => K2 = K
  BY <1>11
<1>14. Adds(heap, l, h2, l2, w, c.k) => K2 = K \cup {c.k}
  BY <1>0, <1>10, <1>11, <1>12, HasAdded
<1>15. Removes(heap, l, h2, l2, w, c.k) => K2 = K \ {c.k}
  BY <1>0, <1>10, <1>11, <1>12, HasRemoved
<1>16. ASSUME Moves(heap, l, h2, l2, w, c.k, c.k2)
       PROVE  K2 = (K \ {c.k}) \cup {c.k2}
  <2>1. PICK h1 \in Memories, s1 \in Tables : Removes(heap, l, h1, s1, w, c.k) /\ Adds(h1, s1, h2, l2, w, c.k2)
    BY <1>16 DEF Moves
  <2>2. ASSUME NEW k \in Keys PROVE Has(h1, s1, k) <=> Has(heap, l, k) /\ k # c.k
    BY <2>1, <1>0, <1>10, <1>12, HasRemoved
  <2>3. ASSUME NEW k \in Keys PROVE Has(h2, l2, k) <=> Has(h1, s1, k) \/ k = c.k2
    BY <2>1, <1>12, HasAdded
  <2> QED
    BY <2>2, <2>3, <1>11, <1>12
<1>17. /\ Has(heap, l, c.k) <=> c.k \in K
       /\ Has(heap, l, c.k2) <=> c.k2 \in K
  BY <1>11, <1>12
<1>18. c.name = "snapshot" => r = SumSet(K)
  <2> SUFFICES ASSUME c.name = "snapshot" PROVE r = SumSet(K)
    OBVIOUS
  <2>1. Counted(heap, Lists, tx[p])
    BY <1>1, <1>8 DEF CountInv
  <2>2. tx[p].res = SumSet({k \in Keys : Has(heap, Lists, k)})
    BY <2>1, <1>0, <1>1, CountedAll
  <2> QED
    BY <2>2, <1>4, <1>5, <1>9
<1>19. K2 = Abstract!After(c)
  <2>1. CASE c.name = "contains" \/ c.name = "snapshot"
    BY <2>1, <1>5, <1>10, <1>13 DEF Effect, Abstract!After
  <2>2. CASE c.name = "add"
    BY <2>2, <1>5, <1>10, <1>13, <1>14, <1>17 DEF Effect, Abstract!After
  <2>3. CASE c.name = "remove"
    BY <2>3, <1>5, <1>10, <1>13, <1>15, <1>17 DEF Effect, Abstract!After, Abstract!Without
  <2>4. CASE c.name = "move_naive"
    BY <2>4, <1>5, <1>10, <1>12, <1>13, <1>15, <1>16, <1>17 DEF Effect, Abstract!After, Abstract!Without
  <2> QED
    BY <2>1, <2>2, <2>3, <2>4, <1>3, <1>8
<1>20. r = Abstract!Result(c)
  <2>1. CASE c.name = "contains"
    BY <2>1, <1>5, <1>10, <1>17 DEF Effect, Abstract!Result, Abstract!Truth
  <2>2. CASE c.name = "add"
    BY <2>2, <1>5, <1>10, <1>17 DEF Effect, Abstract!Result, Abstract!Truth
  <2>3. CASE c.name = "remove"
    BY <2>3, <1>5, <1>10, <1>17 DEF Effect, Abstract!Result, Abstract!Truth
  <2>4. CASE c.name = "move_naive"
    BY <2>4, <1>5, <1>10, <1>17 DEF Effect, Abstract!Result
  <2>5. CASE c.name = "snapshot"
    BY <2>5, <1>5, <1>18, SameSum DEF Abstract!Result
  <2> QED
    BY <2>1, <2>2, <2>3, <2>4, <2>5, <1>3, <1>8
<1> QED
  BY <1>6, <1>8, <1>9, <1>19, <1>20

\* At the beginning the set is empty.
LEMMA InitSet == TestPrograms /\ Init => Abstract!SInit
<1> SUFFICES ASSUME TestPrograms, Init PROVE Abstract!SInit
  OBVIOUS
<1>1. PICK s : s = [b \in Buckets |-> {MinNode(b), MaxNode(b)}]
  OBVIOUS
<1>2. heap \in Memories /\ Shape(heap, s)
  BY <1>1, InitShape
<1>3. \A b \in Buckets : From(MinNode(b)) = {MinNode(b), MaxNode(b)}
  BY <1>1, <1>2, FromIs
<1>4. \A b \in Buckets : Inner(b) = {}
  BY <1>3 DEF Inner
<1>5. Members = {}
  BY <1>4 DEF Members
<1> QED
  BY <1>5 DEF Init, Abstract!SInit

\* A value that is filled in is in the set.
LEMMA FilledIn ==
  ASSUME IInv, NEW k \in Keys, SetSeqAdd(k), UNCHANGED <<driver, early, call, tx, mem, n, ans, last, redo>>
  PROVE  IInv' /\ Members' = Members \cup {k} /\ left > 0
<1>1. /\ IInv' /\ Adds(heap, Lists, heap', Lists', Blocks, k) /\ left > 0
  BY StepPopulate
<1>2. /\ Members = {j \in Keys : Has(heap, Lists, j)}
      /\ Members' = {j \in Keys : Has(heap', Lists', j)}
  BY <1>1, MembersStep
<1>3. heap \in Memories /\ Lists \in Tables
  BY InvFacts
<1>4. ASSUME NEW j \in Keys PROVE Has(heap', Lists', j) <=> Has(heap, Lists, j) \/ j = k
  <2> DEFINE l == Lists
  <2>1. PICK l2, h2 : l2 = Lists' /\ h2 = heap'
    OBVIOUS
  <2> HIDE DEF l
  <2>2. l \in Tables /\ Adds(heap, l, h2, l2, Blocks, k)
    BY <1>1, <1>3, <2>1 DEF l
  <2>3. Has(h2, l2, j) <=> Has(heap, l, j) \/ j = k
    BY <2>2, <1>3, HasAdded
  <2> QED
    BY <2>1, <2>3 DEF l
<1> QED
  BY <1>1, <1>2, <1>4

\* Every step is one of the abstract set, or changes nothing of it.
LEMMA NextSet ==
  ASSUME IInv, CountInv, [Next]_vars
  PROVE  [Abstract!SNext]_(Abstract!svars)
<1>1. CASE UNCHANGED vars
  <2>1. heap' = heap /\ call' = call /\ ans' = ans
    BY <1>1 DEF vars
  <2>2. Members' = Members
    BY <2>1 DEF Members, Inner, From, MinNode, MaxNode
  <2> QED
    BY <2>1, <2>2 DEF Abstract!svars
<1>2. CASE Populate
  <2>1. PICK k \in Keys : SetSeqAdd(k)
    BY <1>2 DEF Populate
  <2>2. Members' = Members \cup {k} /\ left > 0
    BY <1>2, <2>1, FilledIn DEF Populate
  <2>3. \A q \in Procs : call[q] = NoCall
    BY <2>2, NobodyCalls
  <2>4. UNCHANGED <<call, ans>>
    BY <1>2 DEF Populate
  <2>5. Abstract!Fill
    BY <2>2, <2>3, <2>4 DEF Abstract!Fill
  <2> QED
    BY <2>5 DEF Abstract!SNext
<1>3. ASSUME NEW p \in Procs, Still(p)
      PROVE  [Abstract!SNext]_(Abstract!svars)
  <2>1. /\ IInv' /\ Lists' = Lists /\ \A a \in Blocks : Linked(Lists, a) => heap'[a] = heap[a]
        /\ Begin(p) \/ (call' = call /\ ans' = ans)
    BY <1>3, StillStep
  <2>2. Members' = Members
    BY <2>1, MembersSame
  <2>3. CASE Begin(p)
    <3>1. PICK c \in MayCall(p) : call' = [call EXCEPT ![p] = c]
      BY <2>3 DEF Begin
    <3>2. c \in Calls
      BY <3>1, TestCalls
    <3>3. call[p] = NoCall /\ ans' = [ans EXCEPT ![p] = 0]
      BY <2>3 DEF Begin
    <3>4. Abstract!Call(p)
      BY <3>1, <3>2, <3>3, <2>2 DEF Abstract!Call
    <3> QED
      BY <3>4 DEF Abstract!SNext
  <2>4. CASE call' = call /\ ans' = ans
    BY <2>2, <2>4 DEF Abstract!svars
  <2> QED
    BY <2>1, <2>3, <2>4
<1>4. ASSUME NEW p \in Procs, Commit(p)
      PROVE  Abstract!SNext
  <2>1. call[p] # NoCall /\ call' = [call EXCEPT ![p] = NoCall] /\ ans' = [ans EXCEPT ![p] = tx[p].res]
    BY <1>4, CommitFacts
  <2>2. Members' = Abstract!After(call[p]) /\ tx[p].res = Abstract!Result(call[p])
    BY <1>4, CommitReturns
  <2>3. Abstract!Return(p)
    BY <2>1, <2>2 DEF Abstract!Return
  <2> QED
    BY <2>3 DEF Abstract!SNext
<1> QED
  BY <1>1, <1>2, <1>3, <1>4 DEF Next, SharedNext, Still

\* The lists and the hash table are a set: the operations of the processes take effect one at a
\* time, each at its commit, with the results of a set; a snapshot returns the sum of the set.
THEOREM Implements == TestPrograms => (Spec => ImplementsSet)
<1> SUFFICES ASSUME TestPrograms PROVE Spec => ImplementsSet
  OBVIOUS
<1>1. Init => IInv /\ CountInv /\ Abstract!SInit
  BY InitInv, InitCount, InitSet
<1>2. IInv /\ CountInv /\ [Next]_vars => IInv' /\ CountInv'
  BY NextInv, NextCount
<1>3. IInv /\ CountInv /\ [Next]_vars => [Abstract!SNext]_(Abstract!svars)
  BY NextSet
<1> QED
  BY <1>1, <1>2, <1>3, PTL DEF Spec, ImplementsSet, Abstract!SSpec

-----------------------------------------------------------------------------
(* How many values there are.                                                *)

In(b) == {k \in Members : Bucket(k) = b}
HtStep(f) == f = [s \in SUBSET Buckets |-> IF s = {} THEN 0 ELSE LET x == CHOOSE x \in s : TRUE IN f[s \ {x}] + SetSize(x)]

LEMMA HtUnfold == HtSize = (CHOOSE f : HtStep(f))[Buckets]
BY Zenon DEF HtSize, FoldSet, MapThenFoldSet, HtStep

\* As many as blocks in the lists, which is what set_size counts
LEMMA SizeOf ==
  ASSUME IInv, NEW b \in Buckets
  PROVE  SetSize(b) = Cardinality(In(b))
<1>0. heap \in Memories /\ Lists \in Tables /\ Shape(heap, Lists)
  BY InvFacts
<1> DEFINE l == Lists
<1>1. Members = {k \in Keys : Has(heap, l, k)}
  BY <1>0, MembersAre
<1>2. PICK S, T : S = Inner(b) /\ T = In(b)
  OBVIOUS
<1>3. S = l[b] \ {MinNode(b), MaxNode(b)}
  BY <1>2 DEF Inner, Lists
<1> HIDE DEF l
<1>4. l \in Tables /\ IsList(heap, b, l[b])
  BY <1>0 DEF l, Shape
<1>5. \A a \in S : a \in l[b] /\ a \in Spare /\ heap[a].val \in Keys /\ Bucket(heap[a].val) = b
  BY <1>3, <1>4 DEF IsList
<1>6. \A k : k \in T <=> k \in Keys /\ Has(heap, l, k) /\ Bucket(k) = b
  BY <1>1, <1>2 DEF In
<1>7. \A a \in S : heap[a].val \in T
  BY <1>5, <1>6 DEF Has
<1>8. ASSUME NEW k \in T PROVE \E a \in S : heap[a].val = k
  <2>1. PICK a \in l[b] : heap[a].val = k
    BY <1>6, <1>8 DEF Has
  <2>2. a # MinNode(b) /\ a # MaxNode(b)
    BY <2>1, <1>0, <1>6, <1>8, KeyFacts DEF Shape, EndsKept
  <2> QED
    BY <2>1, <2>2, <1>3
<1>9. \A a, c \in S : heap[a].val = heap[c].val => a = c
  BY <1>4, <1>5 DEF IsList
<1>10. PICK f : f = [a \in S |-> heap[a].val]
  OBVIOUS
<1>11. f \in Bijection(S, T)
  <2>1. f \in [S -> T]
    BY <1>7, <1>10
  <2>2. IsInjective(f)
    BY <1>9, <1>10 DEF IsInjective
  <2>3. \A t \in T : \E a \in S : f[a] = t
    BY <1>8, <1>10
  <2> QED
    BY <2>1, <2>2, <2>3, Zenon DEF Bijection, Injection, Surjection
<1>12. IsFiniteSet(S)
  BY <1>5, FS_Subset, SetAssumption
<1>13. Cardinality(S) = Cardinality(T)
  BY <1>11, <1>12, FS_Bijection DEF ExistsBijection
<1> QED
  BY <1>2, <1>13 DEF SetSize

LEMMA MembersFinite ==
  ASSUME IInv
  PROVE  Members \in SUBSET Keys /\ IsFiniteSet(Members)
<1>1. Members \in SUBSET Keys
  BY InvFacts, MembersAre
<1>2. IsFiniteSet(Keys)
  BY FS_Interval, SetAssumption DEF Keys
<1> QED
  BY <1>1, <1>2, FS_Subset

\* ht_size, which adds up the sizes of the lists, is the number of values.
LEMMA SizeIs ==
  ASSUME IInv
  PROVE  HtSize = Cardinality(Members)
<1>1. PICK K \in SUBSET Keys : K = Members /\ IsFiniteSet(K)
  BY MembersFinite
<1> DEFINE Part(s) == {k \in K : Bucket(k) \in s}
<1>2. PICK g : g = [b \in Buckets |-> SetSize(b)]
  OBVIOUS
<1>3. PICK f : f = [s \in SUBSET Buckets |-> Cardinality(Part(s))]
  OBVIOUS
<1>4. \A s : IsFiniteSet(Part(s)) /\ Cardinality(Part(s)) \in Nat
  BY <1>1, FS_Subset, FS_CardinalityType
<1>5. \A s \in SUBSET Buckets : f[s] = Cardinality(Part(s)) /\ \A b : f[s \ {b}] = Cardinality(Part(s \ {b}))
  BY <1>3
<1>6. \A b \in Buckets : g[b] = Cardinality(Part({b}))
  <2> SUFFICES ASSUME NEW b \in Buckets PROVE g[b] = Cardinality(Part({b}))
    OBVIOUS
  <2>1. SetSize(b) = Cardinality(In(b))
    BY SizeOf
  <2>2. In(b) = Part({b})
    BY <1>1 DEF In
  <2> QED
    BY <2>1, <2>2, <1>2
<1>7. ASSUME NEW s \in SUBSET Buckets, NEW b \in s
      PROVE  f[s] = g[b] + f[s \ {b}]
  <2>1. PICK X, Y, Z : X = Part({b}) /\ Y = Part(s \ {b}) /\ Z = Part(s)
    OBVIOUS
  <2>2. X \cap Y = {} /\ X \cup Y = Z
    BY <2>1, <1>7
  <2>3. IsFiniteSet(X) /\ IsFiniteSet(Y) /\ Cardinality(X) \in Nat /\ Cardinality(Y) \in Nat
    BY <2>1, <1>4
  <2>4. Cardinality(X \cup Y) = Cardinality(X) + Cardinality(Y) - Cardinality(X \cap Y)
    BY <2>3, FS_Union
  <2>5. Cardinality({}) = 0
    BY FS_EmptySet
  <2>6. f[s] = Cardinality(Z) /\ f[s \ {b}] = Cardinality(Y) /\ g[b] = Cardinality(X)
    BY <2>1, <1>5, <1>6
  <2>7. PICK x \in Nat, y \in Nat : x = Cardinality(X) /\ y = Cardinality(Y)
    BY <2>3
  <2>8. Cardinality(Z) = x + y
    <3>1. Cardinality(X \cap Y) = 0
      BY <2>2, <2>5
    <3>2. Cardinality(X \cup Y) = x + y - 0
      BY <2>4, <2>7, <3>1
    <3>3. x + y - 0 = x + y
      OBVIOUS
    <3> QED
      BY <3>2, <3>3, <2>2
  <2> HIDE DEF Part
  <2>9. f[s \ {b}] = y /\ g[b] = x /\ f[s] = x + y
    BY <2>6, <2>7, <2>8
  <2> QED
    BY <2>9
<1>8. f[{}] = 0
  <2>1. Part({}) = {}
    OBVIOUS
  <2> QED
    BY <2>1, <1>5, FS_EmptySet
<1> HIDE DEF Part
<1>9. \A s \in SUBSET Buckets : f[s] \in Nat
  BY <1>4, <1>5
<1>10. \A b \in Buckets : g[b] = SetSize(b) /\ g[b] \in Nat
  BY <1>2, <1>4, <1>6
<1>11. HtStep(f)
  <2>1. ASSUME NEW s \in SUBSET Buckets
        PROVE  f[s] = IF s = {} THEN 0 ELSE LET x == CHOOSE x \in s : TRUE IN f[s \ {x}] + SetSize(x)
    <3>1. CASE s = {}
      BY <3>1, <1>8
    <3>2. CASE s # {}
      <4>1. PICK c : c = CHOOSE x \in s : TRUE
        OBVIOUS
      <4>2. c \in s
        BY <3>2, <4>1
      <4>3. f[s] = g[c] + f[s \ {c}]
        BY <4>2, <1>7
      <4>4. f[s \ {c}] \in Nat /\ g[c] \in Nat /\ g[c] = SetSize(c)
        BY <4>2, <1>9, <1>10
      <4>5. f[s] = f[s \ {c}] + SetSize(c)
        BY <4>3, <4>4
      <4> QED
        BY <3>2, <4>1, <4>5
    <3> QED
      BY <3>1, <3>2
  <2> QED
    BY <2>1, <1>3 DEF HtStep
<1>12. PICK h : h = CHOOSE f2 : HtStep(f2)
  OBVIOUS
<1>13. HtStep(h)
  BY <1>11, <1>12, Zenon
<1>14. ASSUME NEW s \in SUBSET Buckets, s # {}
       PROVE  \E x \in s : h[s \ {x}] = f[s \ {x}] => h[s] = f[s]
  <2>1. PICK c : c = CHOOSE x \in s : TRUE
    OBVIOUS
  <2>2. c \in s
    BY <1>14, <2>1
  <2>3. h[s] = h[s \ {c}] + SetSize(c)
    BY <1>13, <1>14, <2>1 DEF HtStep
  <2>4. f[s] = f[s \ {c}] + SetSize(c)
    BY <1>11, <1>14, <2>1 DEF HtStep
  <2> QED
    BY <2>2, <2>3, <2>4
<1>15. h[{}] = f[{}]
  BY <1>11, <1>13 DEF HtStep
<1>16. IsFiniteSet(Buckets)
  BY FS_Interval, SetAssumption DEF Buckets
<1>17. h[Buckets] = f[Buckets]
  BY <1>14, <1>15, <1>16, SameFold
<1>18. Part(Buckets) = K
  BY <1>1, KeyFacts DEF Part
<1> QED
  BY <1>1, <1>5, <1>12, <1>17, <1>18, HtUnfold

-----------------------------------------------------------------------------
(* The size stays what it was, but for the values that are still to be removed. *)

LEMMA HoldersFinite ==
  ASSUME NEW l
  PROVE  IsFiniteSet(Holders(l)) /\ Cardinality(Holders(l)) \in Nat
BY FS_Subset, FS_CardinalityType, SetAssumption DEF Holders

\* A process has added a value, which it is now to remove.
LEMMA SizedAdded ==
  ASSUME NEW c, NEW l \in [Procs -> Keys \cup {-1}], NEW K \in SUBSET Keys, IsFiniteSet(K), NEW m \in Nat,
         Sized(c, l, K, m), NEW p \in Procs, c[p].name = "add", NEW k \in Keys, k \notin K,
         NEW c2, c2[p].name = "none", \A q \in Procs \ {p} : c2[q] = c[q],
         NEW l2 \in [Procs -> Keys \cup {-1}], l2 = [l EXCEPT ![p] = k]
  PROVE  Sized(c2, l2, K \cup {k}, m)
<1>1. PICK H : H = Holders(l) /\ IsFiniteSet(H)
  BY HoldersFinite
<1>2. p \notin H
  BY <1>1 DEF Sized
<1>3. k # -1
  BY KeyFacts DEF ValMin
<1>4. Holders(l2) = H \cup {p}
  BY <1>1, <1>3 DEF Holders
<1>5. Cardinality(K) + m = Initial + Cardinality(H)
  BY <1>1 DEF Sized
<1>6. Cardinality(H \cup {p}) = Cardinality(H) + 1 /\ Cardinality(K \cup {k}) = Cardinality(K) + 1
  BY <1>1, <1>2, FS_AddElement
<1>7. PICK x \in Nat, y \in Nat, i \in Nat : x = Cardinality(H) /\ y = Cardinality(K) /\ i = Initial
  BY <1>1, FS_CardinalityType, SetAssumption
<1>8. Cardinality(K \cup {k}) + m = Initial + Cardinality(Holders(l2))
  <2>1. y + m = i + x
    BY <1>5, <1>7
  <2>2. (y + 1) + m = i + (x + 1)
    BY <2>1
  <2> QED
    BY <2>2, <1>4, <1>6, <1>7
<1>9. \A q \in Procs : /\ c2[q].name = "add" => q \notin Holders(l2)
                       /\ c2[q].name = "remove" => q \in Holders(l2) /\ (Alternate => c2[q].k = l2[q])
  BY <1>1, <1>4 DEF Sized
<1>10. ASSUME Alternate, NEW q \in Holders(l2)
       PROVE  l2[q] \in K \cup {k} /\ \A r \in Holders(l2) \ {q} : l2[r] # l2[q]
  <2>1. \A r \in H : l[r] \in K /\ l2[r] = l[r] /\ \A s \in H \ {r} : l[s] # l[r]
    BY <1>1, <1>2, <1>10 DEF Sized, Holders
  <2>2. l2[p] = k /\ Holders(l2) = H \cup {p}
    BY <1>4
  <2>3. \A r \in H : l2[r] \in K /\ \A s \in H \ {r} : l2[s] # l2[r]
    BY <2>1
  <2>4. CASE q = p
    <3>1. \A r \in Holders(l2) \ {q} : l2[r] \in K
      BY <2>2, <2>3, <2>4
    <3>2. l2[q] = k
      BY <2>2, <2>4
    <3> QED
      BY <3>1, <3>2
  <2>5. CASE q # p
    BY <2>2, <2>3, <2>5, <1>10
  <2> QED
    BY <2>4, <2>5
<1> QED
  BY <1>8, <1>9, <1>10 DEF Sized

\* A process has removed a value.
LEMMA SizedRemoved ==
  ASSUME NEW c, NEW l \in [Procs -> Keys \cup {-1}], NEW K \in SUBSET Keys, IsFiniteSet(K), NEW m \in Nat,
         Sized(c, l, K, m), NEW p \in Procs, c[p].name = "remove", NEW k \in K, k = c[p].k,
         NEW c2, c2[p].name = "none", \A q \in Procs \ {p} : c2[q] = c[q],
         NEW l2 \in [Procs -> Keys \cup {-1}], l2 = [l EXCEPT ![p] = -1]
  PROVE  Sized(c2, l2, K \ {k}, m)
<1>1. PICK H : H = Holders(l) /\ IsFiniteSet(H)
  BY HoldersFinite
<1>2. p \in H /\ (Alternate => k = l[p])
  BY <1>1 DEF Sized
<1>4. Holders(l2) = H \ {p}
  BY <1>1 DEF Holders
<1>5. Cardinality(K) + m = Initial + Cardinality(H)
  BY <1>1 DEF Sized
<1>6. Cardinality(H \ {p}) = Cardinality(H) - 1 /\ Cardinality(K \ {k}) = Cardinality(K) - 1
  BY <1>1, <1>2, FS_RemoveElement
<1>7. PICK x \in Nat, y \in Nat, i \in Nat : x = Cardinality(H) /\ y = Cardinality(K) /\ i = Initial
  BY <1>1, FS_CardinalityType, SetAssumption
<1>8. Cardinality(K \ {k}) + m = Initial + Cardinality(Holders(l2))
  <2>1. y + m = i + x
    BY <1>5, <1>7
  <2>2. (y - 1) + m = i + (x - 1)
    BY <2>1
  <2> QED
    BY <2>2, <1>4, <1>6, <1>7
<1>9. \A q \in Procs : /\ c2[q].name = "add" => q \notin Holders(l2)
                       /\ c2[q].name = "remove" => q \in Holders(l2) /\ (Alternate => c2[q].k = l2[q])
  BY <1>1, <1>4 DEF Sized
<1>10. ASSUME Alternate, NEW q \in Holders(l2)
       PROVE  l2[q] \in K \ {k} /\ \A r \in Holders(l2) \ {q} : l2[r] # l2[q]
  <2>1. \A r \in H : l[r] \in K /\ \A s \in H \ {r} : l[s] # l[r]
    BY <1>1, <1>10 DEF Sized
  <2>2. \A r \in H \ {p} : l2[r] = l[r]
    BY <1>1 DEF Holders
  <2> QED
    BY <2>1, <2>2, <1>2, <1>4, <1>10
<1> QED
  BY <1>8, <1>9, <1>10 DEF Sized

\* A process that has done neither returns, and keeps what it has.
LEMMA SizedReturned ==
  ASSUME NEW c, NEW l, NEW K, NEW m, Sized(c, l, K, m),
         NEW p \in Procs, NEW c2, c2[p].name = "none", \A q \in Procs \ {p} : c2[q] = c[q]
  PROVE  Sized(c2, l, K, m)
BY DEF Sized

\* What a process calls goes with what it has.
LEMMA SizedCalled ==
  ASSUME NEW c, NEW l, NEW K, NEW m, Sized(c, l, K, m),
         NEW p \in Procs, NEW c2, \A q \in Procs \ {p} : c2[q] = c[q],
         c2[p].name = "add" => l[p] = -1,
         c2[p].name = "remove" => l[p] # -1 /\ (Alternate => c2[p].k = l[p])
  PROVE  Sized(c2, l, K, m)
<1>1. \A q \in Procs : q \in Holders(l) <=> l[q] # -1
  BY DEF Holders
<1> QED
  BY <1>1 DEF Sized

LEMMA InitSize == Init => SizeInv
<1> SUFFICES ASSUME Init PROVE Sized(call, last, Members, left)
  BY DEF SizeInv
<1>1. PICK s : s = [b \in Buckets |-> {MinNode(b), MaxNode(b)}]
  OBVIOUS
<1>2. heap \in Memories /\ Shape(heap, s)
  BY <1>1, InitShape
<1>3. \A b \in Buckets : From(MinNode(b)) = {MinNode(b), MaxNode(b)}
  BY <1>1, <1>2, FromIs
<1>4. \A b \in Buckets : Inner(b) = {}
  BY <1>3 DEF Inner
<1>5. Members = {}
  BY <1>4 DEF Members
<1>6. Holders(last) = {}
  BY DEF Init, Holders
<1>7. \A p \in Procs : call[p].name = "none"
  BY DEF Init, NoCall
<1>8. Cardinality({}) = 0 /\ left = Initial /\ Initial \in Nat
  BY FS_EmptySet, SetAssumption DEF Init
<1>9. Cardinality({}) + left = Initial + Cardinality({})
  BY <1>8
<1> QED
  BY <1>5, <1>6, <1>7, <1>9 DEF Sized

LEMMA SizePopulate ==
  ASSUME IInv, SizeInv, Populate
  PROVE  SizeInv'
<1>1. PICK k \in Keys : SetSeqAdd(k)
  BY DEF Populate
<1>2. k \notin Members /\ left > 0 /\ left' = left - 1 /\ left \in Nat
  BY <1>1, InvFacts DEF SetSeqAdd
<1>3. Members' = Members \cup {k} /\ IInv'
  BY <1>1, FilledIn DEF Populate
<1>4. UNCHANGED <<driver, call, last>>
  BY DEF Populate
<1> SUFFICES ASSUME Sized(call, last, Members, left) PROVE Sized(call, last, Members', left')
  BY <1>4 DEF SizeInv
<1>5. \A p \in Procs : call[p].name = "none"
  BY <1>2, NobodyCalls DEF NoCall
<1>6. Cardinality(Members') = Cardinality(Members) + 1 /\ Cardinality(Members) \in Nat
  BY <1>2, <1>3, MembersFinite, FS_AddElement, FS_CardinalityType
<1>7. Cardinality(Members) + left = Initial + Cardinality(Holders(last))
  BY DEF Sized
<1>8. Cardinality(Members') + left' = Initial + Cardinality(Holders(last))
  <2>1. PICK x \in Nat, y \in Nat : x = Cardinality(Members) /\ y = left
    BY <1>2, <1>6
  <2>2. (x + 1) + (y - 1) = x + y
    OBVIOUS
  <2> QED
    BY <2>1, <2>2, <1>2, <1>6, <1>7
<1>9. Alternate => \A p \in Holders(last) : last[p] \in Members' /\ \A q \in Holders(last) \ {p} : last[q] # last[p]
  BY <1>3 DEF Sized
<1> QED
  BY <1>5, <1>8, <1>9 DEF Sized

LEMMA SizeBegin ==
  ASSUME IInv, SizeInv, NEW p \in Procs, Begin(p)
  PROVE  SizeInv'
<1>1. IInv' /\ Members' = Members
  BY StillStep, MembersSame DEF Still
<1>2. PICK c \in MayCall(p) : call' = [call EXCEPT ![p] = c]
  BY DEF Begin
<1>3. UNCHANGED <<driver, last, left>>
  BY DEF Begin
<1> SUFFICES ASSUME driver \in {"list", "listpgas", "hashpgas"}, Sized(call, last, Members, left)
             PROVE  Sized(call', last, Members, left)
  BY <1>1, <1>3 DEF SizeInv
<1>4. call \in [Procs -> Calls \cup {NoCall}] /\ last \in [Procs -> Keys \cup {-1}]
  BY InvFacts DEF Typed, TypeOK
<1>5. call'[p] = c /\ \A q \in Procs \ {p} : call'[q] = call[q]
  BY <1>2, <1>4
<1>6. c \in ListTest(p)
  BY <1>2 DEF MayCall, ListPgasTest, HashPgasTest
<1>7. \A k \in Keys : k \in Int /\ k >= 0 /\ k # -1
  BY SetAssumption DEF Keys
<1>8. last[p] < 0 <=> last[p] = -1
  BY <1>4, <1>7
<1>9. /\ c.name = "add" => last[p] = -1
      /\ c.name = "remove" => last[p] # -1 /\ (Alternate => c.k = last[p])
  <2>1. CASE c \in Each({"contains"})
    BY <2>1 DEF Each
  <2>2. CASE last[p] < 0 /\ c \in Each({"add"})
    BY <2>2, <1>8 DEF Each
  <2>3. CASE ~(last[p] < 0) /\ Alternate /\ c = Op("remove", last[p])
    BY <2>3, <1>8 DEF Op
  <2>4. CASE ~(last[p] < 0) /\ ~Alternate /\ c \in Each({"remove"})
    BY <2>4, <1>8 DEF Each
  <2> QED
    BY <2>1, <2>2, <2>3, <2>4, <1>6, Zenon DEF ListTest
<1> QED
  BY <1>5, <1>9, SizedCalled

LEMMA LastNext == IInv' => last' \in [Procs -> Keys \cup {-1}]
<1>1. IInv => last \in [Procs -> Keys \cup {-1}]
  BY InvFacts DEF Typed, TypeOK
<1>2. IInv' => (last \in [Procs -> Keys \cup {-1}])'
  BY <1>1, PTL
<1> QED
  BY <1>2 DEF Keys

LEMMA SizeStill ==
  ASSUME IInv, SizeInv, NEW p \in Procs, Still(p), ~Begin(p)
  PROVE  SizeInv'
<1>1. IInv' /\ Members' = Members /\ call' = call
  BY StillStep, MembersSame
<1>2. UNCHANGED <<driver, last, left>>
  BY Zenon DEF Still, Load, LoadHead, Walk, LoadNode, Operation, PgasOperation, Abort
<1> QED
  BY <1>1, <1>2 DEF SizeInv, Sized, Holders

\* A commit adds and removes what the process then has, and no longer has, to remove.
LEMMA SizeCommit ==
  ASSUME IInv, CountInv, SizeInv, NEW p \in Procs, Commit(p)
  PROVE  SizeInv'
<1>1. /\ call[p] \in Calls /\ call' = [call EXCEPT ![p] = NoCall] /\ UNCHANGED <<driver, left>>
  BY CommitFacts
<1>2. Members' = Abstract!After(call[p]) /\ tx[p].res = Abstract!Result(call[p])
  BY CommitReturns
<1> SUFFICES ASSUME driver \in {"list", "listpgas", "hashpgas"}, Sized(call, last, Members, left)
             PROVE  Sized(call', last', Members', left)
  BY <1>1 DEF SizeInv
<1>3. IInv' /\ call \in [Procs -> Calls \cup {NoCall}] /\ last \in [Procs -> Keys \cup {-1}] /\ left \in Nat
  BY StepCommit, InvFacts DEF Typed, TypeOK
<1>4. last' \in [Procs -> Keys \cup {-1}]
  BY <1>3, LastNext
<1>5. PICK c \in Calls : c = call[p]
  BY <1>1
<1>6. c.name \in {"contains", "add", "remove"} /\ c.k \in Keys
  <2>1. c.name \in {"none", "contains", "add", "remove", "move_naive", "snapshot"}
        /\ (c.name \in {"move_naive", "snapshot"} => driver = "hash")
    BY <1>5, InvFacts DEF Form
  <2> QED
    BY <2>1, CallFacts
<1>7. PICK K \in SUBSET Keys : K = Members /\ IsFiniteSet(K)
  BY MembersFinite
<1>8. PICK K2 : K2 = Members'
  OBVIOUS
<1>9. PICK c2, l2 : c2 = call' /\ l2 = last'
  OBVIOUS
<1>10. c2[p].name = "none" /\ \A q \in Procs \ {p} : c2[q] = call[q]
  BY <1>1, <1>3, <1>9 DEF NoCall
<1>11. PICK r : r = tx[p].res
  OBVIOUS
<1>12. PICK v : v = (IF driver \in {"list", "listpgas"} THEN ListLast(p, c, r) ELSE HashLast(p, c, r))
  OBVIOUS
<1>13. l2 = [last EXCEPT ![p] = v]
  BY <1>5, <1>9, <1>11, <1>12 DEF Commit, Answer
<1>14. K2 = Abstract!After(c) /\ r = Abstract!Result(c)
  BY <1>2, <1>5, <1>8, <1>11
<1>15. Sized(call, last, K, left)
  BY <1>7
<1>16. Sized(c2, l2, K2, left)
  <2>1. CASE c.name = "contains"
    <3>1. K2 = K
      BY <2>1, <1>7, <1>14 DEF Abstract!After
    <3>2. v = last[p]
      BY <2>1, <1>12 DEF ListLast, HashLast
    <3>3. l2 = last
      BY <3>2, <1>3, <1>13
    <3> QED
      BY <3>1, <3>3, <1>10, <1>15, SizedReturned
  <2>2. CASE c.name = "add" /\ c.k \notin K
    <3>1. K2 = K \cup {c.k} /\ r = 1
      BY <2>2, <1>7, <1>14 DEF Abstract!After, Abstract!Result, Abstract!Truth
    <3>2. v = c.k
      BY <2>2, <3>1, <1>12 DEF ListLast, HashLast
    <3>3. PICK k \in Keys : k = c.k
      BY <1>6
    <3>4. /\ call[p].name = "add" /\ k \notin K /\ IsFiniteSet(K) /\ left \in Nat
          /\ last \in [Procs -> Keys \cup {-1}] /\ l2 \in [Procs -> Keys \cup {-1}] /\ l2 = [last EXCEPT ![p] = k]
      BY <2>2, <3>2, <3>3, <1>3, <1>4, <1>5, <1>7, <1>9, <1>13
    <3>5. Sized(c2, l2, K \cup {k}, left)
      BY <3>4, <1>10, <1>15, SizedAdded
    <3> QED
      BY <3>1, <3>3, <3>5
  <2>3. CASE c.name = "add" /\ c.k \in K
    <3>1. K2 = K /\ r = 0
      BY <2>3, <1>7, <1>14 DEF Abstract!After, Abstract!Result, Abstract!Truth
    <3>2. v = last[p]
      BY <2>3, <3>1, <1>12 DEF ListLast, HashLast
    <3>3. l2 = last
      BY <3>2, <1>3, <1>13
    <3> QED
      BY <3>1, <3>3, <1>10, <1>15, SizedReturned
  <2>4. CASE c.name = "remove" /\ c.k \in K
    <3>1. K2 = K \ {c.k} /\ r = 1
      BY <2>4, <1>7, <1>14 DEF Abstract!After, Abstract!Result, Abstract!Truth, Abstract!Without
    <3>2. v = -1
      BY <2>4, <3>1, <1>12 DEF ListLast, HashLast
    <3>3. PICK k \in K : k = c.k
      BY <2>4
    <3>4. /\ call[p].name = "remove" /\ k = call[p].k /\ IsFiniteSet(K) /\ left \in Nat
          /\ last \in [Procs -> Keys \cup {-1}] /\ l2 \in [Procs -> Keys \cup {-1}] /\ l2 = [last EXCEPT ![p] = -1]
      BY <2>4, <3>2, <3>3, <1>3, <1>4, <1>5, <1>7, <1>9, <1>13
    <3>5. Sized(c2, l2, K \ {k}, left)
      BY <3>4, <1>10, <1>15, SizedRemoved
    <3> QED
      BY <3>1, <3>3, <3>5
  <2>5. CASE c.name = "remove" /\ c.k \notin K
    <3>1. K2 = K /\ r = 0
      BY <2>5, <1>7, <1>14 DEF Abstract!After, Abstract!Result, Abstract!Truth, Abstract!Without
    <3>2. ~Alternate
      BY <2>5, <1>5, <1>15 DEF Sized
    <3>3. v = last[p]
      BY <2>5, <3>1, <3>2, <1>12 DEF ListLast, HashLast
    <3>4. l2 = last
      BY <3>3, <1>3, <1>13
    <3> QED
      BY <3>1, <3>4, <1>10, <1>15, SizedReturned
  <2> QED
    BY <2>1, <2>2, <2>3, <2>4, <2>5, <1>6
<1> QED
  BY <1>8, <1>9, <1>16

LEMMA NextSize ==
  ASSUME IInv, CountInv, SizeInv, [Next]_vars
  PROVE  SizeInv'
<1>1. CASE UNCHANGED vars
  <2>1. Members' = Members
    BY <1>1 DEF vars, Members, Inner, From, MinNode, MaxNode
  <2> QED
    BY <1>1, <2>1 DEF vars, SizeInv, Sized, Holders
<1>2. ASSUME NEW p \in Procs, Still(p)
      PROVE  SizeInv'
  BY <1>2, SizeBegin, SizeStill
<1> QED
  BY <1>1, <1>2, SizePopulate, SizeCommit DEF Next, SharedNext, Still

\* "to avoid size variations": the size of the list or table is the initial one and what the processes
\* have still to remove, whatever fails and is repeated.
THEOREM Sizes == TestPrograms => (Spec => []SizeKept)
<1> SUFFICES ASSUME TestPrograms PROVE Spec => []SizeKept
  OBVIOUS
<1>1. Init => IInv /\ CountInv /\ SizeInv
  BY InitInv, InitCount, InitSize
<1>2. IInv /\ CountInv /\ SizeInv /\ [Next]_vars => IInv' /\ CountInv' /\ SizeInv'
  BY NextInv, NextCount, NextSize
<1>3. IInv /\ SizeInv => SizeKept
  <2> SUFFICES ASSUME IInv, SizeInv, driver \in {"list", "listpgas", "hashpgas"}, left = 0
               PROVE  HtSize = Initial + Cardinality(Holders(last))
    BY DEF SizeKept, Holders
  <2>1. HtSize = Cardinality(Members) /\ Cardinality(Members) \in Nat
    BY SizeIs, MembersFinite, FS_CardinalityType
  <2>2. Cardinality(Members) + left = Initial + Cardinality(Holders(last))
    BY DEF SizeInv, Sized
  <2> QED
    BY <2>1, <2>2
<1> QED
  BY <1>1, <1>2, <1>3, PTL DEF Spec
=============================================================================
