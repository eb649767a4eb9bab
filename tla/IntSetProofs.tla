---------------------------- MODULE IntSetProofs ----------------------------
(***************************************************************************)
(* Theorems about the sorted list and the hash table, for every number of  *)
(* processes, values, buckets, blocks and operations, and for the shared   *)
(* and the PGAS build.  They are about the test programs in the builds     *)
(* without EARLY_RELEASE (with it the lists break, see SizeKept).          *)
(***************************************************************************)
EXTENDS IntSetInv, Sums, SequenceTheorems

\* The test programs, in the builds without early release
TestPrograms == "api" \notin Drivers /\ EarlyBuilds \subseteq {FALSE}

-----------------------------------------------------------------------------
(* Extreme values.                                                           *)

\* Among some blocks, one has the greatest value.
LEMMA Greatest ==
  ASSUME NEW h \in [Blocks -> Nodes], NEW S \in SUBSET Blocks, S # {}
  PROVE  \E a \in S : \A c \in S : h[c].val =< h[a].val
<1> DEFINE D == {KeyRange - h[a].val : a \in S}
<1>1. \A a \in S : h[a].val \in Int /\ h[a].val =< KeyRange
  BY SetAssumption DEF Nodes, Values, Keys, ValMin, ValMax
<1>2. D \in SUBSET Nat /\ D # {}
  BY <1>1, SetAssumption
<1>3. PICK d \in D : \A e \in D : d =< e
  BY <1>2, LeastIn
<1>4. PICK a \in S : d = KeyRange - h[a].val
  BY <1>3
<1>5. \A c \in S : h[c].val =< h[a].val
  <2> SUFFICES ASSUME NEW c \in S PROVE h[c].val =< h[a].val
    OBVIOUS
  <2>1. KeyRange - h[a].val =< KeyRange - h[c].val
    BY <1>3, <1>4
  <2> QED
    BY <2>1, <1>1, SetAssumption
<1> QED
  BY <1>5

-----------------------------------------------------------------------------
(* Values and blocks.                                                        *)

LEMMA KeyFacts ==
  /\ Keys \subseteq Int /\ Values \subseteq Int /\ ValMin \in Int /\ ValMax \in Int
  /\ \A k \in Keys : Bucket(k) \in Buckets /\ ValMin < k /\ k < ValMax
  /\ \A v \in Values : ValMin =< v /\ v =< ValMax
  /\ ValMin < ValMax /\ {ValMin, ValMax} \cap Keys = {}
BY SetAssumption DEF Keys, Values, ValMin, ValMax, Buckets, Bucket

LEMMA BlockFacts ==
  /\ \A b \in Buckets : MinNode(b) \in Ends /\ MaxNode(b) \in Ends
  /\ \A b, c \in Buckets : MinNode(b) # MaxNode(c)
  /\ \A b, c \in Buckets : MinNode(b) = MinNode(c) => b = c
  /\ \A b, c \in Buckets : MaxNode(b) = MaxNode(c) => b = c
  /\ Ends \subseteq Blocks /\ Spare \subseteq Blocks /\ Spare \cap Ends = {} /\ Nil \notin Blocks
BY SetAssumption DEF MinNode, MaxNode, Ends, Blocks

LEMMA BlocksFinite == IsFiniteSet(Blocks)
<1>1. IsFiniteSet(Buckets)
  BY SetAssumption, FS_Interval DEF Buckets
<1>2. \A f : f \in [Buckets -> Ends] => IsFiniteSet({f[b] : b \in Buckets})
  <2> SUFFICES ASSUME NEW f \in [Buckets -> Ends] PROVE IsFiniteSet({f[b] : b \in Buckets})
    OBVIOUS
  <2>1. f \in Surjection(Buckets, {f[b] : b \in Buckets})
    BY DEF Surjection
  <2> QED
    BY <1>1, <2>1, FS_Surjection
<1> DEFINE low == [b \in Buckets |-> MinNode(b)]
           high == [b \in Buckets |-> MaxNode(b)]
<1>3. low \in [Buckets -> Ends] /\ high \in [Buckets -> Ends]
  BY BlockFacts
<1>4. Ends = {low[b] : b \in Buckets} \cup {high[b] : b \in Buckets}
  BY DEF Ends
<1>5. IsFiniteSet(Ends)
  BY <1>2, <1>3, <1>4, FS_Union
<1> QED
  BY <1>5, FS_Union, SetAssumption DEF Blocks

-----------------------------------------------------------------------------
(* Sorted lists.                                                             *)

Memories == [Blocks -> Nodes]
Tables == [Buckets -> SUBSET Blocks]

\* The parts of IsList, one by one
LEMMA ListFacts ==
  ASSUME NEW h \in Memories, NEW s, NEW b \in Buckets, Shape(h, s)
  PROVE  /\ s[b] \subseteq Blocks /\ MinNode(b) \in s[b] /\ MaxNode(b) \in s[b]
         /\ h[MinNode(b)].val = ValMin /\ h[MaxNode(b)].val = ValMax /\ h[MaxNode(b)].next = Nil
         /\ \A a \in s[b] \ {MinNode(b), MaxNode(b)} : a \in Spare /\ h[a].val \in Keys /\ Bucket(h[a].val) = b
         /\ \A a \in s[b] \ {MaxNode(b)} : h[a].next \in s[b] /\ h[a].val < h[h[a].next].val
         /\ \A a \in s[b] \ {MaxNode(b)}, c \in s[b] : h[c].val =< h[a].val \/ h[c].val >= h[h[a].next].val
         /\ \A a, c \in s[b] : h[a].val = h[c].val => a = c
         /\ \A a \in s[b] : h[a] \in Nodes /\ h[a].val \in Values /\ h[a].val \in Int
<1>1. IsList(h, b, s[b]) /\ EndsKept(h)
  BY DEF Shape
<1>2. \A a \in s[b] : h[a] \in Nodes /\ h[a].val \in Values /\ h[a].val \in Int
  BY <1>1, KeyFacts DEF IsList, Memories, Nodes
<1> QED
  BY <1>1, <1>2 DEF IsList, EndsKept

\* A block is in one list only.
LEMMA OneList ==
  ASSUME NEW h \in Memories, NEW s, Shape(h, s), NEW b \in Buckets, NEW c \in Buckets,
         NEW a, a \in s[b], a \in s[c]
  PROVE  b = c
<1>1. CASE a \in Ends
  <2>1. a \in {MinNode(b), MaxNode(b)} /\ a \in {MinNode(c), MaxNode(c)}
    BY <1>1, ListFacts, BlockFacts
  <2> QED
    BY <2>1, BlockFacts
<1>2. CASE a \notin Ends
  <2>1. a \notin {MinNode(b), MaxNode(b), MinNode(c), MaxNode(c)}
    BY <1>2, BlockFacts
  <2>2. Bucket(h[a].val) = b
    BY <2>1, ListFacts
  <2>3. Bucket(h[a].val) = c
    BY <2>1, ListFacts
  <2> QED
    BY <2>2, <2>3
<1> QED
  BY <1>1, <1>2

\* The next of a linked block is in the same list, or NULL.
LEMMA NextLinked ==
  ASSUME NEW h \in Memories, NEW s, Shape(h, s), NEW b \in Buckets, NEW a \in s[b]
  PROVE  /\ h[a].next \in Blocks <=> a # MaxNode(b)
         /\ a # MaxNode(b) => h[a].next \in s[b]
         /\ h[a].val < ValMax <=> a # MaxNode(b)
<1>1. CASE a = MaxNode(b)
  BY <1>1, ListFacts, BlockFacts, KeyFacts
<1>2. CASE a # MaxNode(b)
  <2>1. h[a].next \in s[b] /\ h[a].next \in Blocks /\ h[a].val < h[h[a].next].val
    BY <1>2, ListFacts
  <2>2. h[h[a].next].val =< ValMax /\ h[h[a].next].val \in Int /\ h[a].val \in Int /\ ValMax \in Int
    BY <2>1, ListFacts, KeyFacts
  <2>3. h[a].val < ValMax
    BY <2>1, <2>2
  <2> QED
    BY <1>2, <2>1, <2>3
<1> QED
  BY <1>1, <1>2

\* No two linked blocks have the same next.
LEMMA OneBefore ==
  ASSUME NEW h \in Memories, NEW s, Shape(h, s), NEW b \in Buckets, NEW c \in Buckets,
         NEW a, a \in s[b], NEW d, d \in s[c], h[a].next = h[d].next, h[a].next \in Blocks
  PROVE  a = d /\ b = c
<1>1. a # MaxNode(b) /\ d # MaxNode(c) /\ h[a].next \in s[b] /\ h[a].next \in s[c]
  BY NextLinked
<1>2. b = c
  BY <1>1, OneList
<1>3. /\ h[d].val =< h[a].val \/ h[d].val >= h[h[a].next].val
      /\ h[a].val =< h[d].val \/ h[a].val >= h[h[d].next].val
      /\ h[a].val < h[h[a].next].val /\ h[d].val < h[h[d].next].val
      /\ h[a].val \in Int /\ h[d].val \in Int /\ h[h[a].next].val \in Int
  BY <1>1, <1>2, ListFacts
<1>4. h[a].val = h[d].val
  BY <1>3
<1> QED
  BY <1>2, <1>4, ListFacts

-----------------------------------------------------------------------------
(* What From finds.                                                          *)

Follow(h, t) == t \cup ({h[a].next : a \in t} \ {Nil})

\* The blocks that have to be in every set that has t and what follows its blocks
Closure(h, t) == {x \in Blocks : \A c \in SUBSET Blocks : t \subseteq c /\ Follow(h, c) = c => x \in c}

IsReach(h, f) == f = [t \in SUBSET Blocks |-> IF Follow(h, t) = t THEN t ELSE f[Follow(h, t)]]

LEMMA FollowType ==
  ASSUME NEW h \in Memories, NEW t \in SUBSET Blocks
  PROVE  t \subseteq Follow(h, t) /\ Follow(h, t) \in SUBSET Blocks
BY DEF Memories, Nodes, Pointers, Follow

\* There is a function that is defined as reach is in From.
LEMMA ReachExists ==
  ASSUME NEW h \in Memories
  PROVE  \E f : IsReach(h, f)
<1> DEFINE f == [t \in SUBSET Blocks |-> Closure(h, t)]
<1>1. ASSUME NEW t \in SUBSET Blocks, Follow(h, t) = t
      PROVE  Closure(h, t) = t
  BY <1>1 DEF Closure
<1>2. ASSUME NEW t \in SUBSET Blocks
      PROVE  Closure(h, t) = Closure(h, Follow(h, t))
  <2>1. \A c \in SUBSET Blocks : Follow(h, c) = c => (t \subseteq c <=> Follow(h, t) \subseteq c)
    BY DEF Follow
  <2> QED
    BY <2>1, Zenon DEF Closure
<1>3. f = [t \in SUBSET Blocks |-> IF Follow(h, t) = t THEN t ELSE f[Follow(h, t)]]
  BY <1>1, <1>2, FollowType
<1> HIDE DEF f
<1> QED
  BY <1>3, Zenon DEF IsReach

\* In a list, the blocks that are reached from some of them with the first are all of it.
LEMMA AllReached ==
  ASSUME NEW h \in Memories, NEW s, Shape(h, s), NEW b \in Buckets,
         NEW t \in SUBSET s[b], MinNode(b) \in t, Follow(h, t) = t
  PROVE  t = s[b]
<1> SUFFICES ASSUME NEW x \in s[b], x \notin t PROVE FALSE
  OBVIOUS
<1> DEFINE B == {a \in t : h[a].val < h[x].val}
<1>0. s[b] \subseteq Blocks /\ \A a \in s[b] : h[a].val \in Values /\ h[a].val \in Int
  BY ListFacts
<1>1. B \in SUBSET Blocks /\ MinNode(b) \in B
  <2>1. ValMin =< h[x].val /\ h[MinNode(b)].val = ValMin /\ ValMin \in Int
    BY <1>0, KeyFacts, ListFacts
  <2>2. h[MinNode(b)].val # h[x].val
    BY ListFacts
  <2> QED
    BY <1>0, <2>1, <2>2
<1>2. PICK a \in B : \A c \in B : h[c].val =< h[a].val
  BY <1>1, Greatest DEF Memories
<1>3. a \in s[b] /\ a \in t /\ h[a].val < h[x].val
  BY <1>2
<1>4. a # MaxNode(b)
  <2>1. h[x].val =< ValMax /\ h[MaxNode(b)].val = ValMax /\ ValMax \in Int
    BY <1>0, KeyFacts, ListFacts
  <2> QED
    BY <2>1, <1>0, <1>3
<1>5. PICK d : d = h[a].next
  OBVIOUS
<1>6. d \in s[b] /\ d \in Blocks /\ h[a].val < h[d].val /\ h[d].val =< h[x].val
  BY <1>0, <1>3, <1>4, <1>5, ListFacts
<1>7. d \in t
  BY <1>3, <1>5, <1>6, BlockFacts DEF Follow
<1>8. ~(h[d].val < h[x].val)
  <2> SUFFICES ASSUME h[d].val < h[x].val PROVE FALSE
    OBVIOUS
  <2>1. d \in B
    BY <1>7
  <2>2. h[d].val =< h[a].val
    BY <2>1, <1>2
  <2> QED
    BY <2>2, <1>6, <1>3, <1>0
<1>9. h[d].val = h[x].val
  BY <1>6, <1>8, <1>0
<1> QED
  BY <1>9, <1>6, <1>7, ListFacts

LEMMA ReachList ==
  ASSUME NEW h \in Memories, NEW s, Shape(h, s), NEW b \in Buckets,
         NEW f, IsReach(h, f)
  PROVE  f[{MinNode(b)}] = s[b]
<1> DEFINE Size(t) == Cardinality(s[b] \ t)
           Parts == {t \in SUBSET s[b] : MinNode(b) \in t}
           Good == {i \in Nat : \A t \in Parts : Size(t) =< i => f[t] = s[b]}
<1>0. /\ s[b] \subseteq Blocks /\ IsFiniteSet(s[b])
      /\ \A t \in Parts : IsFiniteSet(s[b] \ t) /\ Size(t) \in Nat
  <2>1. s[b] \subseteq Blocks
    BY ListFacts
  <2>2. IsFiniteSet(s[b])
    BY <2>1, BlocksFinite, FS_Subset
  <2>3. \A t \in Parts : IsFiniteSet(s[b] \ t)
    BY <2>2, FS_Difference
  <2> QED
    BY <2>1, <2>2, <2>3, FS_CardinalityType
<1>1. ASSUME NEW t \in Parts
      PROVE  f[t] = IF Follow(h, t) = t THEN t ELSE f[Follow(h, t)]
  <2>1. t \in SUBSET Blocks
    BY <1>0
  <2> HIDE DEF Parts
  <2> QED
    BY <2>1, Zenon DEF IsReach
<1>2. ASSUME NEW t \in Parts
      PROVE  Follow(h, t) \in Parts /\ t \subseteq Follow(h, t)
  <2>1. \A a \in t : h[a].next = Nil \/ h[a].next \in s[b]
    BY ListFacts, NextLinked
  <2> QED
    BY <2>1 DEF Follow
<1>3. 0 \in Good
  <2> SUFFICES ASSUME NEW t \in Parts, Size(t) =< 0 PROVE f[t] = s[b]
    OBVIOUS
  <2>1. s[b] \ t = {}
    BY <1>0, FS_EmptySet
  <2>2. Follow(h, t) = t
    BY <2>1, <1>2
  <2> QED
    BY <1>1, <2>1, <2>2
<1>4. ASSUME NEW i \in Nat, i \in Good PROVE i + 1 \in Good
  <2> SUFFICES ASSUME NEW t \in Parts, Size(t) =< i + 1 PROVE f[t] = s[b]
    OBVIOUS
  <2>1. CASE Follow(h, t) = t
    BY <2>1, <1>1, AllReached
  <2>2. CASE Follow(h, t) # t
    <3>1. PICK x : x \in Follow(h, t) /\ x \notin t /\ x \in s[b]
      BY <2>2, <1>2
    <3>2. Size(Follow(h, t)) < Size(t)
      <4>1. s[b] \ Follow(h, t) \in SUBSET ((s[b] \ t) \ {x})
        BY <3>1, <1>2
      <4>2. IsFiniteSet((s[b] \ t) \ {x}) /\ Cardinality((s[b] \ t) \ {x}) = Size(t) - 1
        BY <3>1, <1>0, FS_RemoveElement
      <4>3. Size(Follow(h, t)) =< Size(t) - 1
        BY <4>1, <4>2, FS_Subset
      <4> QED
        BY <4>3, <1>0, <1>2
    <3>3. Size(Follow(h, t)) =< i
      <4>1. Size(t) \in Nat /\ Size(Follow(h, t)) \in Nat
        BY <1>0, <1>2
      <4> HIDE DEF Size
      <4> QED
        BY <3>2, <4>1
    <3>4. f[Follow(h, t)] = s[b]
      BY <3>3, <1>2, <1>4
    <3> QED
      BY <3>4, <2>2, <1>1
  <2> QED
    BY <2>1, <2>2
<1>5. Nat \subseteq Good
  <2> HIDE DEF Good
  <2> QED
    BY <1>3, <1>4, Upwards
<1>6. {MinNode(b)} \in Parts
  BY ListFacts
<1>7. Size({MinNode(b)}) \in Good
  BY <1>5, <1>6, <1>0
<1> QED
  BY <1>6, <1>7, <1>0

\* From(MinNode(b)) is the list of bucket b.
LEMMA FromIs ==
  ASSUME NEW s, NEW b \in Buckets
  PROVE  heap \in Memories /\ Shape(heap, s) => From(MinNode(b)) = s[b]
<1> SUFFICES ASSUME heap \in Memories, Shape(heap, s) PROVE From(MinNode(b)) = s[b]
  OBVIOUS
<1> DEFINE reach == CHOOSE f : IsReach(heap, f)
<1>1. IsReach(heap, reach)
  BY ReachExists, Zenon
<1>2. From(MinNode(b)) = reach[{MinNode(b)}]
  BY DEF From, IsReach, Follow
<1> QED
  BY <1>1, <1>2, ReachList

LEMMA FromIsNext ==
  ASSUME NEW s, NEW b \in Buckets
  PROVE  (heap \in Memories /\ Shape(heap, s))' => (From(MinNode(b)) = s[b])'
BY FromIs, PTL

-----------------------------------------------------------------------------
(* One block less, and one more.                                             *)

\* What a removal does to memory: a is made to point past x, and x is freed.
CutOut(h, a, x) == [h EXCEPT ![a] = [val |-> h[a].val, next |-> h[x].next], ![x] = Blank]

\* What an insertion does: d is filled with k, and linked in behind a.
LinkIn(h, a, d, k) == [h EXCEPT ![d] = [val |-> k, next |-> h[a].next],
                                ![a] = [val |-> h[a].val, next |-> d]]

Less(s, b, x) == [s EXCEPT ![b] = @ \ {x}]
More(s, b, d) == [s EXCEPT ![b] = @ \cup {d}]

\* A list stays one when none of its blocks changes.
LEMMA SameList ==
  ASSUME NEW h, NEW h2, NEW b \in Buckets, NEW l, IsList(h, b, l), \A a \in l : h2[a] = h[a]
  PROVE  IsList(h2, b, l)
<1>1. \A a \in l \ {MaxNode(b)} : h[a].next \in l
  BY DEF IsList
<1> QED
  BY <1>1 DEF IsList

\* The first block of a list has none before it.
LEMMA NoneBefore ==
  ASSUME NEW h \in Memories, NEW s, Shape(h, s), NEW b \in Buckets, NEW c \in Buckets,
         NEW a \in s[b]
  PROVE  h[a].next # MinNode(c)
<1> SUFFICES ASSUME h[a].next = MinNode(c) PROVE FALSE
  OBVIOUS
<1>1. a # MaxNode(b) /\ h[a].next \in s[b]
  BY NextLinked, BlockFacts
<1>2. c = b
  BY <1>1, OneList, ListFacts
<1>3. h[a].val < ValMin /\ h[a].val \in Values
  BY <1>1, <1>2, ListFacts
<1>4. ValMin =< h[a].val /\ h[a].val \in Int /\ ValMin \in Int
  BY <1>3, KeyFacts
<1> QED
  BY <1>3, <1>4

\* What follows a block in a list, and is not the last block, is a block for nodes.
LEMMA NextSpare ==
  ASSUME NEW h \in Memories, NEW s, Shape(h, s), NEW b \in Buckets, NEW a \in s[b],
         h[a].next \in Blocks, h[h[a].next].val \in Keys
  PROVE  h[a].next \in Spare
<1>1. PICK x : x = h[a].next
  OBVIOUS
<1>2. x \in s[b] /\ x # MinNode(b)
  BY <1>1, NextLinked, NoneBefore
<1>3. x # MaxNode(b)
  BY <1>1, ListFacts, KeyFacts
<1> QED
  BY <1>1, <1>2, <1>3, ListFacts

LEMMA CutShape ==
  ASSUME NEW h \in Memories, NEW s \in Tables, Shape(h, s), NEW b \in Buckets,
         NEW a \in s[b], NEW x \in Spare, h[a].next = x
  PROVE  /\ CutOut(h, a, x) \in Memories /\ Less(s, b, x) \in Tables
         /\ Shape(CutOut(h, a, x), Less(s, b, x))
         /\ x \in s[b] /\ a # x /\ a \in Blocks
<1>1. PICK h2 : h2 = CutOut(h, a, x)
  OBVIOUS
<1>2. PICK y : y = h[x].next
  OBVIOUS
<1>3. /\ s[b] \subseteq Blocks /\ x \in Blocks /\ x \notin Ends /\ a # MaxNode(b) /\ x \in s[b]
  BY BlockFacts, ListFacts, NextLinked
<1>4. /\ h[a].val < h[x].val /\ a # x /\ x # MaxNode(b) /\ a \in Blocks
      /\ h[a].val \in Int /\ h[x].val \in Int
  BY <1>3, ListFacts, BlockFacts
<1>5. y \in s[b] /\ h[x].val < h[y].val /\ h[y].val \in Int /\ y # x
  BY <1>2, <1>3, <1>4, ListFacts
<1>6. /\ h2[a] = [val |-> h[a].val, next |-> y] /\ h2[x] = Blank
      /\ \A c \in Blocks \ {a, x} : h2[c] = h[c]
  BY <1>1, <1>2, <1>3, <1>4 DEF CutOut, Memories
<1>7. h2 \in Memories
  <2>1. Blank \in Nodes
    BY SetAssumption DEF Blank, Nodes, Values, Keys, Pointers
  <2>2. [val |-> h[a].val, next |-> y] \in Nodes
    BY <1>3, <1>4, <1>5 DEF Memories, Nodes, Pointers
  <2> QED
    BY <1>1, <1>2, <2>1, <2>2 DEF CutOut, Memories
<1>8. PICK s2 : s2 = Less(s, b, x)
  OBVIOUS
<1>9. s2 \in Tables /\ s2[b] = s[b] \ {x} /\ \A c \in Buckets \ {b} : s2[c] = s[c]
  BY <1>8 DEF Less, Tables
<1>10. EndsKept(h2)
  <2> SUFFICES ASSUME NEW c \in Buckets
               PROVE  h2[MinNode(c)].val = ValMin /\ h2[MaxNode(c)] = [val |-> ValMax, next |-> Nil]
    BY DEF EndsKept
  <2>1. EndsKept(h) /\ MinNode(c) # x /\ MaxNode(c) # x /\ MinNode(c) \in Blocks /\ MaxNode(c) \in Blocks
    BY <1>3, BlockFacts DEF Shape
  <2>2. MaxNode(c) # a
    BY <1>3, OneList, ListFacts
  <2> QED
    BY <2>1, <2>2, <1>6 DEF EndsKept
<1>11. ASSUME NEW c \in Buckets, c # b
       PROVE  IsList(h2, c, s2[c])
  <2>1. \A d \in s[c] : d # a /\ d # x /\ d \in Blocks
    BY <1>3, <1>11, OneList, ListFacts
  <2>2. IsList(h, c, s[c])
    BY DEF Shape
  <2>3. IsList(h2, c, s[c])
    BY <2>1, <2>2, <1>6, SameList
  <2> QED
    BY <2>3, <1>9, <1>11
<1>12. IsList(h2, b, s2[b])
  <2>1. \A c \in s2[b] : h2[c].val = h[c].val /\ c \in s[b] /\ c # x /\ c \in Blocks /\ h[c].val \in Int
    BY <1>3, <1>6, <1>9, ListFacts
  <2>2. \A c \in s2[b] : c # a => h2[c] = h[c]
    BY <2>1, <1>6
  <2>3. s2[b] \subseteq Blocks /\ MinNode(b) \in s2[b] /\ MaxNode(b) \in s2[b]
    BY <1>3, <1>9, ListFacts, BlockFacts
  <2>4. \A c \in s2[b] \ {MinNode(b), MaxNode(b)} : c \in Spare /\ h2[c].val \in Keys /\ Bucket(h2[c].val) = b
    BY <2>1, ListFacts
  <2>5. \A c, d \in s2[b] : h2[c].val = h2[d].val => c = d
    BY <2>1, ListFacts
  <2>6. ASSUME NEW c \in s2[b] \ {MaxNode(b)}
        PROVE  /\ h2[c].next \in s2[b] /\ h2[c].val < h2[h2[c].next].val
               /\ \A d \in s2[b] : h2[d].val =< h2[c].val \/ h2[d].val >= h2[h2[c].next].val
    <3>1. CASE c = a
      <4>1. h2[c].next = y /\ y \in s2[b] /\ h2[y].val = h[y].val /\ h2[c].val = h[a].val
        BY <3>1, <1>5, <1>6, <1>9, <2>1
      <4>2. \A d \in s2[b] : h[d].val =< h[a].val \/ h[d].val >= h[y].val
        <5> SUFFICES ASSUME NEW d \in s2[b] PROVE h[d].val =< h[a].val \/ h[d].val >= h[y].val
          OBVIOUS
        <5>1. d \in s[b] /\ d # x /\ h[d].val \in Int /\ h[d].val # h[x].val
          BY <2>1, <1>3, ListFacts
        <5>2. h[d].val =< h[a].val \/ h[d].val >= h[x].val
          BY <5>1, <1>3, ListFacts
        <5>3. h[d].val =< h[x].val \/ h[d].val >= h[y].val
          BY <5>1, <1>2, <1>3, <1>4, ListFacts
        <5> QED
          BY <5>1, <5>2, <5>3, <1>4, <1>5
      <4>3. h[a].val < h[y].val
        BY <1>4, <1>5
      <4> QED
        BY <4>1, <4>2, <4>3, <2>1
    <3>2. CASE c # a
      <4>1. h2[c] = h[c] /\ c \in s[b]
        BY <3>2, <2>1, <2>2
      <4>2. h[c].next \in s[b] /\ h[c].next \in Blocks
        BY <4>1, <1>3, NextLinked
      <4>3. h[c].next # x
        BY <4>1, <4>2, <3>2, <1>3, OneBefore
      <4>4. h[c].next \in s2[b] /\ h2[h[c].next].val = h[h[c].next].val
        BY <4>2, <4>3, <1>9, <2>1
      <4>5. h[c].val < h[h[c].next].val /\ \A d \in s[b] : h[d].val =< h[c].val \/ h[d].val >= h[h[c].next].val
        BY <4>1, ListFacts
      <4> QED
        BY <4>1, <4>4, <4>5, <2>1
    <3> QED
      BY <3>1, <3>2
  <2> QED
    BY <2>3, <2>4, <2>5, <2>6 DEF IsList
<1>13. Shape(h2, s2)
  BY <1>10, <1>11, <1>12 DEF Shape
<1> QED
  BY <1>1, <1>3, <1>4, <1>7, <1>8, <1>9, <1>13

LEMMA LinkShape ==
  ASSUME NEW h \in Memories, NEW s \in Tables, Shape(h, s), NEW k \in Keys,
         NEW a \in s[Bucket(k)], h[a].val < k, k < h[h[a].next].val,
         NEW d \in Spare, ~Linked(s, d)
  PROVE  /\ LinkIn(h, a, d, k) \in Memories /\ More(s, Bucket(k), d) \in Tables
         /\ Shape(LinkIn(h, a, d, k), More(s, Bucket(k), d))
         /\ a # d /\ a \in Blocks
<1>0. PICK b \in Buckets : b = Bucket(k)
  BY KeyFacts
<1>1. PICK h2 : h2 = LinkIn(h, a, d, k)
  OBVIOUS
<1>2. PICK y : y = h[a].next
  OBVIOUS
<1>3. /\ s[b] \subseteq Blocks /\ a \in s[b] /\ a \in Blocks /\ d \in Blocks /\ d \notin Ends
      /\ d \notin s[b] /\ a # d /\ k \in Int
  BY <1>0, BlockFacts, ListFacts, KeyFacts DEF Linked
<1>4. a # MaxNode(b) /\ y \in s[b] /\ y # d /\ y \in Blocks
  <2>1. h[a].val < ValMax
    BY <1>3, KeyFacts, ListFacts
  <2> QED
    BY <2>1, <1>2, <1>3, NextLinked
<1>5. h[a].val < k /\ k < h[y].val /\ h[a].val \in Int /\ h[y].val \in Int /\ y # a
  BY <1>2, <1>3, <1>4, ListFacts
<1>6. /\ h2[a] = [val |-> h[a].val, next |-> d] /\ h2[d] = [val |-> k, next |-> y]
      /\ \A c \in Blocks \ {a, d} : h2[c] = h[c]
  BY <1>1, <1>2, <1>3 DEF LinkIn, Memories
<1>7. h2 \in Memories
  <2>1. [val |-> k, next |-> y] \in Nodes
    BY <1>4 DEF Nodes, Values, Pointers
  <2>2. [val |-> h[a].val, next |-> d] \in Nodes
    BY <1>3 DEF Memories, Nodes, Pointers
  <2> QED
    BY <1>1, <1>2, <2>1, <2>2 DEF LinkIn, Memories
<1>8. PICK s2 : s2 = More(s, b, d)
  OBVIOUS
<1>9. s2 \in Tables /\ s2[b] = s[b] \cup {d} /\ \A c \in Buckets \ {b} : s2[c] = s[c]
  BY <1>3, <1>8 DEF More, Tables
<1>10. EndsKept(h2)
  <2> SUFFICES ASSUME NEW c \in Buckets
               PROVE  h2[MinNode(c)].val = ValMin /\ h2[MaxNode(c)] = [val |-> ValMax, next |-> Nil]
    BY DEF EndsKept
  <2>1. EndsKept(h) /\ MinNode(c) # d /\ MaxNode(c) # d /\ MinNode(c) \in Blocks /\ MaxNode(c) \in Blocks
    BY <1>3, BlockFacts DEF Shape
  <2>2. MaxNode(c) # a
    BY <1>3, <1>4, OneList, ListFacts
  <2> QED
    BY <2>1, <2>2, <1>6 DEF EndsKept
<1>11. ASSUME NEW c \in Buckets, c # b
       PROVE  IsList(h2, c, s2[c])
  <2>1. \A e \in s[c] : e # a /\ e # d /\ e \in Blocks
    BY <1>3, <1>11, OneList, ListFacts DEF Linked
  <2>2. IsList(h, c, s[c])
    BY DEF Shape
  <2>3. IsList(h2, c, s[c])
    BY <2>1, <2>2, <1>6, SameList
  <2> QED
    BY <2>3, <1>9, <1>11
<1>12. IsList(h2, b, s2[b])
  <2>1. \A c \in s[b] : /\ h2[c].val = h[c].val /\ c \in s2[b] /\ c # d /\ c \in Blocks /\ h[c].val \in Int
                        /\ h[c].val # k
    <3> SUFFICES ASSUME NEW c \in s[b] PROVE h2[c].val = h[c].val /\ h[c].val \in Int /\ h[c].val # k
      BY <1>3, <1>9
    <3>1. h[c].val =< h[a].val \/ h[c].val >= h[y].val
      BY <1>2, <1>3, <1>4, ListFacts
    <3>2. h2[c].val = h[c].val /\ h[c].val \in Int
      BY <1>3, <1>6, ListFacts
    <3> QED
      BY <3>1, <3>2, <1>3, <1>5
  <2>2. \A c \in s[b] : c # a => h2[c] = h[c]
    BY <2>1, <1>6
  <2>3. s2[b] \subseteq Blocks /\ MinNode(b) \in s2[b] /\ MaxNode(b) \in s2[b] /\ h2[d].val = k
    BY <1>3, <1>6, <1>9, ListFacts, BlockFacts
  <2>4. \A c \in s2[b] \ {MinNode(b), MaxNode(b)} : c \in Spare /\ h2[c].val \in Keys /\ Bucket(h2[c].val) = b
    BY <1>0, <1>9, <2>1, <2>3, ListFacts
  <2>5. \A c, e \in s2[b] : h2[c].val = h2[e].val => c = e
    BY <1>9, <2>1, <2>3, ListFacts
  <2>6. ASSUME NEW c \in s2[b] \ {MaxNode(b)}
        PROVE  /\ h2[c].next \in s2[b] /\ h2[c].val < h2[h2[c].next].val
               /\ \A e \in s2[b] : h2[e].val =< h2[c].val \/ h2[e].val >= h2[h2[c].next].val
    <3>0. \A e \in s[b] : h[e].val =< h[a].val \/ h[e].val >= h[y].val
      BY <1>2, <1>3, <1>4, ListFacts
    <3>1. CASE c = a
      <4>1. h2[c].next = d /\ d \in s2[b] /\ h2[c].val = h[a].val
        BY <3>1, <1>6, <1>9
      <4>2. \A e \in s2[b] : h2[e].val =< h[a].val \/ h2[e].val >= k
        <5> SUFFICES ASSUME NEW e \in s[b] PROVE h[e].val =< h[a].val \/ h[e].val >= k
          BY <1>3, <1>9, <2>1, <2>3
        <5> QED
          BY <3>0, <2>1, <1>3, <1>5
      <4> QED
        BY <4>1, <4>2, <2>3, <1>5
    <3>2. CASE c = d
      <4>1. h2[c].next = y /\ y \in s2[b] /\ h2[c].val = k /\ h2[y].val = h[y].val
        BY <3>2, <1>4, <1>6, <2>1
      <4>2. \A e \in s2[b] : h2[e].val =< k \/ h2[e].val >= h[y].val
        <5> SUFFICES ASSUME NEW e \in s[b] PROVE h[e].val =< k \/ h[e].val >= h[y].val
          BY <1>3, <1>9, <2>1, <2>3
        <5> QED
          BY <3>0, <2>1, <1>3, <1>5
      <4> QED
        BY <4>1, <4>2, <1>5
    <3>3. CASE c # a /\ c # d
      <4>1. h2[c] = h[c] /\ c \in s[b] /\ c # MaxNode(b)
        BY <3>3, <1>9, <2>2
      <4>2. PICK z : z = h[c].next
        OBVIOUS
      <4>3. /\ z \in s[b] /\ h[c].val < h[z].val
            /\ \A e \in s[b] : h[e].val =< h[c].val \/ h[e].val >= h[z].val
        BY <4>1, <4>2, ListFacts
      <4>4. z \in s2[b] /\ h2[z].val = h[z].val /\ h[z].val \in Int /\ h[c].val \in Int
        BY <4>1, <4>3, <2>1
      <4>5. z # y
        BY <4>1, <4>2, <3>3, <1>2, <1>3, <1>4, OneBefore
      <4>6. k =< h[c].val \/ k >= h[z].val
        <5>1. h[c].val =< h[a].val \/ h[c].val >= h[y].val
          BY <3>0, <4>1
        <5>2. h[a].val =< h[c].val \/ h[a].val >= h[z].val
          BY <4>3, <1>3
        <5>3. h[c].val # h[a].val
          BY <4>1, <3>3, <1>3, ListFacts
        <5> QED
          BY <5>1, <5>2, <5>3, <4>4, <1>3, <1>5
      <4>7. \A e \in s2[b] : h2[e].val =< h[c].val \/ h2[e].val >= h[z].val
        <5>1. \A e \in s[b] : h2[e].val =< h[c].val \/ h2[e].val >= h[z].val
          BY <4>3, <2>1
        <5> QED
          BY <5>1, <4>6, <2>3, <1>9
      <4> QED
        BY <4>1, <4>2, <4>3, <4>4, <4>7
    <3> QED
      BY <3>1, <3>2, <3>3
  <2> QED
    BY <2>3, <2>4, <2>5, <2>6 DEF IsList
<1>13. Shape(h2, s2)
  BY <1>10, <1>11, <1>12 DEF Shape
<1> QED
  BY <1>0, <1>1, <1>3, <1>7, <1>8, <1>9, <1>13

-----------------------------------------------------------------------------
(* What an attempt knows stays so, as long as nobody writes what it has      *)
(* locked.                                                                   *)

\* From memory h to h2 and from the lists s to s2, nothing changes for an attempt.
Kept(h, s, h2, s2, wanted, locks) ==
  /\ \A a \in wanted : h2[a].val = h[a].val /\ \A b \in Buckets : a \in s[b] => a \in s2[b]
  /\ \A a \in locks : h2[a] = h[a] /\ (h[a].next \in Blocks => h2[h[a].next].val = h[h[a].next].val)
  /\ Guarded(h2, s2, wanted, locks)

LEMMA KeptSame ==
  ASSUME NEW h \in Memories, NEW h2 \in Memories, NEW s \in Tables, Shape(h, s),
         NEW wanted \in SUBSET Blocks, NEW locks \in SUBSET wanted, Guarded(h, s, wanted, locks),
         \A a \in Blocks : Linked(s, a) => h2[a] = h[a]
  PROVE  Kept(h, s, h2, s, wanted, locks)
<1>1. \A a \in wanted : Linked(s, a) /\ h2[a] = h[a]
  BY DEF Guarded
<1>2. ASSUME NEW a \in locks, h[a].next \in Blocks
      PROVE  h2[h[a].next].val = h[h[a].next].val
  <2>1. PICK b \in Buckets : a \in s[b]
    BY <1>1 DEF Linked
  <2>2. h[a].next \in s[b]
    BY <1>2, <2>1, NextLinked
  <2> QED
    BY <2>2, <1>2 DEF Linked
<1>3. \A b \in Buckets : \A a \in s[b] : h2[a] = h[a]
  BY DEF Linked, Tables
<1>4. Guarded(h2, s, wanted, locks)
  BY <1>3 DEF Guarded
<1> QED
  BY <1>1, <1>2, <1>4 DEF Kept

LEMMA KeptTwice ==
  ASSUME NEW h, NEW h1, NEW h2, NEW s, NEW s1, NEW s2, NEW wanted, NEW locks,
         Kept(h, s, h1, s1, wanted, locks), Kept(h1, s1, h2, s2, wanted, locks)
  PROVE  Kept(h, s, h2, s2, wanted, locks)
BY DEF Kept

LEMMA KeptCut ==
  ASSUME NEW h \in Memories, NEW s \in Tables, Shape(h, s), NEW b \in Buckets,
         NEW a \in s[b], NEW x \in Spare, h[a].next = x,
         NEW wanted \in SUBSET Blocks, NEW locks \in SUBSET wanted, Guarded(h, s, wanted, locks),
         a \notin locks
  PROVE  Kept(h, s, CutOut(h, a, x), Less(s, b, x), wanted, locks) /\ x \notin wanted
<1>1. PICK h2 : h2 = CutOut(h, a, x)
  OBVIOUS
<1>2. PICK s2 : s2 = Less(s, b, x)
  OBVIOUS
<1>3. x \in s[b] /\ a # x /\ a \in Blocks /\ x \in Blocks /\ a # MaxNode(b) /\ x # MaxNode(b)
  BY CutShape, NextLinked, BlockFacts
<1>4. x \notin wanted
  BY DEF Guarded
<1>5. /\ h2[a] = [val |-> h[a].val, next |-> h[x].next] /\ h2[x] = Blank
      /\ \A c \in Blocks \ {a, x} : h2[c] = h[c]
  BY <1>1, <1>3 DEF CutOut, Memories
<1>6. s2[b] = s[b] \ {x} /\ \A c \in Buckets \ {b} : s2[c] = s[c]
  BY <1>2 DEF Less, Tables
<1>7. ASSUME NEW c \in wanted
      PROVE  h2[c].val = h[c].val /\ \A e \in Buckets : c \in s[e] => c \in s2[e]
  BY <1>3, <1>4, <1>5, <1>6
<1>8. ASSUME NEW c \in locks
      PROVE  h2[c] = h[c] /\ (h[c].next \in Blocks => h2[h[c].next].val = h[h[c].next].val)
  <2>1. c # a /\ c # x /\ c \in Blocks
    BY <1>4
  <2>2. PICK e \in Buckets : c \in s[e]
    BY DEF Guarded, Linked
  <2>3. h[c].next # x
    BY <1>3, <2>1, <2>2, OneBefore
  <2> QED
    BY <1>5, <2>1, <2>3
<1>9. ASSUME NEW e \in Buckets, NEW c \in s2[e], h2[c].next \in wanted
      PROVE  c \in locks
  <2>1. c \in s[e] /\ c # x /\ c \in Blocks
    <3>1. CASE e = b
      BY <3>1, <1>6, ListFacts
    <3>2. CASE e # b
      BY <3>2, <1>3, <1>6, OneList, ListFacts
    <3> QED
      BY <3>1, <3>2
  <2>2. CASE c = a
    <3>1. h[x].next \in wanted
      BY <1>5, <1>9, <2>2
    <3>2. x \in locks
      BY <3>1, <1>3 DEF Guarded
    <3> QED
      BY <3>2, <1>4
  <2>3. CASE c # a
    BY <2>1, <2>3, <1>5, <1>9 DEF Guarded
  <2> QED
    BY <2>2, <2>3
<1>10. Guarded(h2, s2, wanted, locks)
  <2>1. \A c \in wanted : Linked(s2, c)
    BY <1>7 DEF Guarded, Linked
  <2> QED
    BY <2>1, <1>9 DEF Guarded
<1> QED
  BY <1>1, <1>2, <1>4, <1>7, <1>8, <1>10 DEF Kept

LEMMA KeptLink ==
  ASSUME NEW h \in Memories, NEW s \in Tables, Shape(h, s), NEW k \in Keys,
         NEW a \in s[Bucket(k)], h[a].val < k, k < h[h[a].next].val,
         NEW d \in Spare, ~Linked(s, d),
         NEW wanted \in SUBSET Blocks, NEW locks \in SUBSET wanted, Guarded(h, s, wanted, locks),
         a \notin locks
  PROVE  Kept(h, s, LinkIn(h, a, d, k), More(s, Bucket(k), d), wanted, locks)
<1>0. PICK b \in Buckets : b = Bucket(k)
  BY KeyFacts
<1>1. PICK h2 : h2 = LinkIn(h, a, d, k)
  OBVIOUS
<1>2. PICK s2 : s2 = More(s, b, d)
  OBVIOUS
<1>3. a # d /\ a \in Blocks /\ d \in Blocks /\ a \in s[b] /\ d \notin s[b]
  BY <1>0, LinkShape, BlockFacts DEF Linked
<1>4. d \notin wanted
  BY DEF Guarded
<1>5. /\ h2[a] = [val |-> h[a].val, next |-> d] /\ h2[d] = [val |-> k, next |-> h[a].next]
      /\ \A c \in Blocks \ {a, d} : h2[c] = h[c]
  BY <1>1, <1>3 DEF LinkIn, Memories
<1>6. s2[b] = s[b] \cup {d} /\ \A c \in Buckets \ {b} : s2[c] = s[c]
  BY <1>2 DEF More, Tables
<1>7. ASSUME NEW c \in wanted
      PROVE  h2[c].val = h[c].val /\ \A e \in Buckets : c \in s[e] => c \in s2[e]
  BY <1>3, <1>4, <1>5, <1>6
<1>8. ASSUME NEW c \in locks
      PROVE  h2[c] = h[c] /\ (h[c].next \in Blocks => h2[h[c].next].val = h[h[c].next].val)
  <2>1. c # a /\ c # d /\ c \in Blocks
    BY <1>4
  <2>2. PICK e \in Buckets : c \in s[e]
    BY DEF Guarded, Linked
  <2>3. h[c].next # d
    BY <1>3, <2>1, <2>2, NextLinked DEF Linked
  <2> QED
    BY <1>5, <2>1, <2>3
<1>9. ASSUME NEW e \in Buckets, NEW c \in s2[e], h2[c].next \in wanted
      PROVE  c \in locks
  <2>1. CASE c = a
    BY <2>1, <1>4, <1>5, <1>9
  <2>2. CASE c = d
    <3>1. h[a].next \in wanted
      BY <2>2, <1>5, <1>9
    <3> QED
      BY <3>1, <1>3 DEF Guarded
  <2>3. CASE c # a /\ c # d
    <3>1. c \in s[e] /\ c \in Blocks
      BY <2>3, <1>6, ListFacts
    <3> QED
      BY <3>1, <2>3, <1>5, <1>9 DEF Guarded
  <2> QED
    BY <2>1, <2>2, <2>3
<1>10. Guarded(h2, s2, wanted, locks)
  <2>1. \A c \in wanted : Linked(s2, c)
    BY <1>7 DEF Guarded, Linked
  <2> QED
    BY <2>1, <1>9 DEF Guarded
<1> QED
  BY <1>0, <1>1, <1>2, <1>7, <1>8, <1>10 DEF Kept

LEMMA CallFacts ==
  ASSUME NEW c \in Calls
  PROVE  /\ c.name \in {"contains", "add", "remove", "move_naive", "move", "rollback", "snapshot"}
         /\ c.k \in Keys /\ c.k2 \in Keys
         /\ c.name = "move_naive" => Bucket(c.k2) # Bucket(c.k)
         /\ c # NoCall
<1>1. 0 \in Keys
  BY SetAssumption DEF Keys
<1>2. CASE c \in [name : {"contains", "add", "remove"}, k : Keys, k2 : {0}]
  BY <1>1, <1>2 DEF NoCall
<1>3. CASE c \in MoveCalls
  BY <1>3 DEF MoveCalls, NoCall
<1>4. CASE c \in RollbackCalls
  BY <1>4 DEF RollbackCalls, NoCall
<1>5. CASE c = Snapshot
  BY <1>1, <1>5 DEF Snapshot, Op, NoCall
<1> QED
  BY <1>2, <1>3, <1>4, <1>5, Zenon DEF Calls

LEMMA GoalType ==
  ASSUME NEW c \in Calls, NEW t
  PROVE  Goal(t, c) \in Keys
BY CallFacts DEF Goal

LEMMA LocksType ==
  ASSUME NEW t \in Attempts
  PROVE  Locks(t) \in SUBSET Blocks /\ Locks(t) \subseteq Wanted(t)
BY DEF Attempts, Locks, Wanted, ToSet

\* The place of a value is between two linked blocks.
LEMMA PlaceFacts ==
  ASSUME NEW h \in Memories, NEW s \in Tables, Shape(h, s), NEW t, NEW prev, NEW k \in Keys,
         prev \in s[Bucket(k)], h[prev].val < k
  PROVE  /\ prev \in Blocks /\ prev # MaxNode(Bucket(k)) /\ Bucket(k) \in Buckets
         /\ h[prev].next \in s[Bucket(k)] /\ h[prev].next \in Blocks
<1>1. Bucket(k) \in Buckets /\ k < ValMax /\ k \in Int /\ ValMax \in Int
  BY KeyFacts
<1>2. prev \in Blocks /\ h[prev].val \in Int
  BY <1>1, ListFacts
<1>3. h[prev].val < ValMax
  BY <1>1, <1>2
<1> QED
  BY <1>1, <1>2, <1>3, NextLinked

LEMMA LiveKept ==
  ASSUME NEW h \in Memories, NEW h2 \in Memories, NEW s \in Tables, NEW s2 \in Tables, Shape(h, s),
         NEW t \in Attempts, NEW c \in Calls, NEW m, c.name = "snapshot" => t.leg =< NumBuckets,
         Live(h, s, t, c, m), Kept(h, s, h2, s2, Wanted(t), Locks(t)),
         \A b \in m.new : h2[b] = h[b]
  PROVE  Live(h2, s2, t, c, m)
<1>1. Locks(t) \in SUBSET Blocks /\ Locks(t) \subseteq Wanted(t)
  BY LocksType
<1>2. /\ \A a \in Wanted(t) : h2[a].val = h[a].val /\ \A b \in Buckets : a \in s[b] => a \in s2[b]
      /\ \A a \in Locks(t) : h2[a] = h[a] /\ (h[a].next \in Blocks => h2[h[a].next].val = h[h[a].next].val)
      /\ Guarded(h2, s2, Wanted(t), Locks(t))
  BY DEF Kept
<1>3. ASSUME NEW prev, NEW k \in Keys, Before(h, s, t, prev, k)
      PROVE  /\ Before(h2, s2, t, prev, k) /\ h2[prev] = h[prev]
             /\ h2[h[prev].next].val = h[h[prev].next].val
  <2>1. prev \in Locks(t) /\ prev \in s[Bucket(k)] /\ h[prev].val < k
    BY <1>3 DEF Before
  <2>2. h[prev].next \in Blocks /\ Bucket(k) \in Buckets
    BY <2>1, PlaceFacts
  <2> QED
    BY <2>1, <2>2, <1>1, <1>2 DEF Before
<1>4. ASSUME NEW prev, NEW next, NEW k \in Keys, Place(h, s, t, prev, next, k)
      PROVE  /\ Place(h2, s2, t, prev, next, k) /\ h2[prev] = h[prev] /\ h2[next].val = h[next].val
  BY <1>3, <1>4 DEF Place
<1>5. Goal(t, c) \in Keys /\ c.k \in Keys /\ c.k2 \in Keys /\ c.name # "none"
  BY GoalType, CallFacts
<1>6. Position(h2, s2, t, c)
  <2>0. Position(h, s, t, c)
    BY DEF Live
  <2>1. t.pc = "first" => t.prev = MinNode(Bucket(Goal(t, c))) /\ t.reads = <<>>
    BY <2>0 DEF Position
  <2>2. t.pc = "load" => t.prev \in Wanted(t)
    BY DEF Wanted
  <2>3. t.pc = "load" /\ c.name # "snapshot" => t.prev \in s2[Bucket(Goal(t, c))] /\ h2[t.prev].val < Goal(t, c)
    BY <2>0, <2>2, <1>2, <1>5, KeyFacts DEF Position
  <2>4. c.name = "snapshot" /\ t.pc \in {"load", "look"} => Summing(s2, t)
    <3> SUFFICES ASSUME c.name = "snapshot", t.pc \in {"load", "look"} PROVE Summing(s2, t)
      OBVIOUS
    <3>1. Summing(s, t) /\ t.prev \in Wanted(t)
      BY <2>0, <2>2, <1>1 DEF Position
    <3>2. t.leg - 1 \in Buckets
      BY SetAssumption DEF Buckets, Attempts
    <3> QED
      BY <3>1, <3>2, <1>2 DEF Summing
  <2>5. t.pc = "look" /\ c.name # "snapshot" => Before(h2, s2, t, t.prev, Goal(t, c)) /\ t.next = h2[t.prev].next
    BY <2>0, <1>3, <1>5 DEF Position
  <2>6. t.pc = "look" /\ c.name = "snapshot" => t.next = h2[t.prev].next /\ t.prev \in Locks(t)
    BY <2>0, <1>2 DEF Position
  <2>7. t.pc \in {"node", "stop"} => /\ Before(h2, s2, t, t.prev, Goal(t, c))
                                     /\ t.word = h2[t.prev] /\ t.next = t.word.next
    BY <2>0, <1>3, <1>5 DEF Position
  <2>8. t.pc = "stop" => /\ Place(h2, s2, t, t.prev, t.next, Goal(t, c)) /\ t.next \in Locks(t)
                         /\ t.next1 = h2[t.next].next /\ t.sum = h2[t.next].val
    BY <2>0, <1>2, <1>4, <1>5 DEF Position
  <2>9. t.pc = "commit" /\ c.name # "snapshot" => Place(h2, s2, t, t.prev, t.next, Goal(t, c))
    BY <2>0, <1>4, <1>5 DEF Position
  <2> QED
    BY <2>1, <2>3, <2>4, <2>5, <2>6, <2>7, <2>8, <2>9 DEF Position
<1>7. Writes(h2, s2, t, c, m)
  <2>0. Writes(h, s, t, c, m)
    BY DEF Live
  <2>1. SecondLegOf(t, c) => Unlinks(h2, s2, t, t.prev1, t.next1, c.k)
    BY <2>0, <1>2, <1>4, <1>5 DEF Writes, Unlinks
  <2>2. ASSUME NEW prev \in Locks(t), NEW next \in Locks(t), WritesUnlink(h, t, m, prev, next)
        PROVE  WritesUnlink(h2, t, m, prev, next)
    BY <2>2, <1>2 DEF WritesUnlink, EntryOf
  <2>3. SecondLegOf(t, c) => t.prev1 \in Locks(t) /\ t.next1 \in Locks(t)
    BY <2>0 DEF Writes, Unlinks, Place, Before
  <2>4. SecondLegOf(t, c) /\ Walking(t) => WritesUnlink(h2, t, m, t.prev1, t.next1)
    BY <2>0, <2>2, <2>3 DEF Writes
  <2>5. ASSUME t.pc = "commit" PROVE Ready(h2, t, c, m)
    <3>0. Ready(h, t, c, m)
      BY <2>0, <2>5 DEF Writes
    <3>1. CASE c.name = "snapshot"
      BY <3>0, <3>1 DEF Ready, SecondLegOf
    <3>2. CASE c.name # "snapshot"
      <4>1. Place(h, s, t, t.prev, t.next, Goal(t, c))
        BY <2>5, <3>2 DEF Live, Position
      <4>2. h2[t.prev] = h[t.prev] /\ h2[t.next].val = h[t.next].val /\ t.prev \in Locks(t)
        BY <4>1, <1>4, <1>5 DEF Place, Before
      <4>3. \A b \in m.new, k \in Keys : Filled(h, t, b, k) => Filled(h2, t, b, k)
        BY DEF Filled
      <4>4. \A k \in Keys : WritesLink(h, t, m, k) => WritesLink(h2, t, m, k)
        BY <4>2, <4>3 DEF WritesLink, EntryOf
      <4>5. SecondLegOf(t, c) => h2[t.next1] = h[t.next1]
        BY <2>3, <1>2
      <4>6. SecondLegOf(t, c) /\ WritesMove(h, t, m, c.k2) => WritesMove(h2, t, m, c.k2)
        BY <4>3, <4>5, <1>5 DEF WritesMove
      <4> QED
        BY <3>0, <4>2, <4>4, <4>6, <2>2, <2>3, <1>5 DEF Ready
    <3> QED
      BY <3>1, <3>2
  <2> QED
    BY <2>1, <2>4, <2>5 DEF Writes
<1> QED
  BY <1>2, <1>6, <1>7 DEF Live

LEMMA GuardedType ==
  ASSUME NEW h, NEW s \in Tables, NEW wanted, NEW locks, Guarded(h, s, wanted, locks)
  PROVE  wanted \in SUBSET Blocks
BY DEF Guarded, Linked, Tables

\* The same when only blocks that are not linked change
LEMMA LiveSame ==
  ASSUME NEW h \in Memories, NEW h2 \in Memories, NEW s \in Tables, Shape(h, s),
         NEW t \in Attempts, NEW c \in Calls, NEW m, c.name = "snapshot" => t.leg =< NumBuckets,
         Live(h, s, t, c, m), \A a \in Blocks : Linked(s, a) => h2[a] = h[a],
         \A b \in m.new : h2[b] = h[b]
  PROVE  Live(h2, s, t, c, m)
<1>1. PICK w : w = Wanted(t)
  OBVIOUS
<1>2. PICK k : k = Locks(t)
  OBVIOUS
<1>3. Guarded(h, s, w, k) /\ k \in SUBSET w
  BY <1>1, <1>2 DEF Live, Wanted
<1>4. w \in SUBSET Blocks
  BY <1>3, GuardedType
<1>5. Kept(h, s, h2, s, w, k)
  BY <1>3, <1>4, KeptSame
<1> QED
  BY <1>1, <1>2, <1>5, LiveKept

-----------------------------------------------------------------------------
(* The words of an attempt.                                                  *)

LEMMA ToSetAppend ==
  ASSUME NEW S, NEW r \in Seq(S), NEW a \in S
  PROVE  Append(r, a) \in Seq(S) /\ ToSet(Append(r, a)) = ToSet(r) \cup {a}
<1>1. PICK r2 : r2 = Append(r, a)
  OBVIOUS
<1>2. r2 \in Seq(S) /\ Len(r2) = Len(r) + 1 /\ DOMAIN r2 = 1 .. Len(r) + 1 /\ DOMAIN r = 1 .. Len(r)
  BY <1>1
<1>3. r2[Len(r) + 1] = a /\ \A i \in DOMAIN r : r2[i] = r[i]
  BY <1>1
<1>4. ToSet(r2) \subseteq ToSet(r) \cup {a}
  BY <1>2, <1>3 DEF ToSet
<1>5. ToSet(r) \subseteq ToSet(r2)
  BY <1>2, <1>3 DEF ToSet
<1>6. Len(r) + 1 \in DOMAIN r2
  BY <1>2
<1>7. a \in ToSet(r2)
  BY <1>3, <1>6 DEF ToSet
<1> QED
  BY <1>1, <1>2, <1>4, <1>5, <1>7

\* An attempt that does not store to a reads it from memory, and locks it.
LEMMA WordFromMemory ==
  ASSUME Typed, NEW p \in Procs, NEW a \in Blocks, ~Owns(p, a)
  PROVE  /\ Word(p, a) = heap[a].next
         /\ Locking(p, a) = Append(tx[p].reads, a) /\ MayLoad(p, a) = ~tx[p].lost
<1>1. tx[p].ws \in Seq(Stores)
  BY DEF Typed, Attempts
<1>2. {i \in 1 .. Len(tx[p].ws) : tx[p].ws[i].addr = a} = {}
  BY <1>1 DEF Owns
<1>3. Word(p, a) = heap[a].next
  BY <1>2, Zenon DEF Word, SelectInSeq
<1>4. tx[p].lost \in BOOLEAN
  BY DEF Typed, Attempts
<1> QED
  BY <1>3, <1>4, Zenon DEF Locking, MayLoad

\* Otherwise it reads one of its stores.
LEMMA WordFromStore ==
  ASSUME Typed, NEW p \in Procs, NEW a \in Blocks, Owns(p, a)
  PROVE  /\ \E i \in DOMAIN tx[p].ws : Word(p, a) = tx[p].ws[i].next
         /\ Locking(p, a) = tx[p].reads
<1>1. tx[p].ws \in Seq(Stores)
  BY DEF Typed, Attempts
<1> DEFINE I == {i \in 1 .. Len(tx[p].ws) : tx[p].ws[i].addr = a}
<1>2. DOMAIN tx[p].ws = 1 .. Len(tx[p].ws) /\ I # {} /\ I \in SUBSET Nat
  BY <1>1 DEF Owns
<1>3. \E x \in I : \A y \in I : x =< y
  <2> HIDE DEF I
  <2> QED
    BY <1>2, LeastIn
<1>4. Min(I) \in I
  <2> HIDE DEF I
  <2> QED
    BY <1>3, Zenon DEF Min
<1>5. Min(I) # 0 /\ Min(I) \in DOMAIN tx[p].ws
  BY <1>2, <1>4
<1>6. Word(p, a) = tx[p].ws[Min(I)].next
  BY <1>2, <1>5, Zenon DEF Word, SelectInSeq
<1> QED
  BY <1>5, <1>6, Zenon DEF Locking

LEMMA WordType ==
  ASSUME Typed, NEW p \in Procs, NEW a \in Blocks
  PROVE  Word(p, a) \in Pointers /\ Locking(p, a) \in Seq(Blocks)
<1>1. tx[p] \in Attempts /\ heap \in Memories /\ tx[p].reads \in Seq(Blocks) /\ tx[p].ws \in Seq(Stores)
  BY DEF Typed, TypeOK, Memories, Nodes, Values, Pointers, Attempts
<1>2. CASE Owns(p, a)
  <2>1. \A i \in DOMAIN tx[p].ws : tx[p].ws[i] \in Stores
    BY <1>1
  <2>2. \A i \in DOMAIN tx[p].ws : tx[p].ws[i].next \in Pointers
    BY <2>1 DEF Stores, Pointers
  <2> QED
    BY <1>1, <1>2, <2>2, WordFromStore
<1>3. CASE ~Owns(p, a)
  <2>1. heap[a].next \in Pointers
    BY <1>1 DEF Memories, Nodes
  <2> QED
    BY <1>1, <1>3, <2>1, WordFromMemory, ToSetAppend
<1> QED
  BY <1>2, <1>3

-----------------------------------------------------------------------------
(* From a step to the invariant.                                             *)

\* What the invariant says, taken apart
LEMMA InvFacts ==
  ASSUME IInv
  PROVE  /\ Typed /\ heap \in Memories /\ Lists \in Tables /\ Shape(heap, Lists) /\ Memory(Lists, free, mem)
         /\ driver \in Drivers \ {"api"} /\ ~early
         /\ driver \in {"list", "hash", "listpgas", "hashpgas"}
         /\ free \subseteq Spare /\ left \in 0 .. Initial
         /\ \A p \in Procs : /\ tx[p] \in Attempts /\ call[p] \in Calls \cup {NoCall}
                             /\ mem[p] \in [new : SUBSET Spare, gone : SUBSET Spare]
                             /\ Form(tx[p], call[p], mem[p], left)
                             /\ call[p] # NoCall /\ ~tx[p].lost => Live(heap, Lists, tx[p], call[p], mem[p])
<1>1. heap \in Memories
  BY DEF IInv, Typed, TypeOK, Memories, Nodes, Values, Pointers
<1>2. Lists \in Tables
  <2>1. \A b \in Buckets : Lists[b] \in SUBSET Blocks
    BY Zenon DEF IInv, Shape, IsList
  <2> QED
    BY <2>1 DEF Lists, Tables
<1>3. \A p \in Procs : /\ tx[p] \in Attempts /\ call[p] \in Calls \cup {NoCall}
                       /\ mem[p] \in [new : SUBSET Spare, gone : SUBSET Spare]
  BY DEF IInv, Typed, TypeOK
<1>4. /\ driver \in Drivers \ {"api"} /\ ~early
      /\ driver \in {"list", "hash", "listpgas", "hashpgas"}
      /\ free \subseteq Spare /\ left \in 0 .. Initial
  BY SetAssumption DEF IInv, Typed, TypeOK, Setting
<1> QED
  BY <1>1, <1>2, <1>3, <1>4, Zenon DEF IInv

LEMMA LiveNext ==
  ASSUME NEW h, NEW s, NEW t, NEW c, NEW m, NEW l, driver' = driver
  PROVE  Live(h, s, t, c, m)' = Live(h, s, t, c, m) /\ Form(t, c, m, l)' = Form(t, c, m, l)
<1>1. Pgas' = Pgas
  BY DEF Pgas
<1>2. Form(t, c, m, l)' = Form(t, c, m, l)
  BY <1>1, Zenon DEF Form, Walking, SecondLegOf, Quiet
<1>3. \A a, next : EntryOf(h, a, next)' = EntryOf(h, a, next)
  BY <1>1, Zenon DEF EntryOf, Entry
<1>4. \A prev, next : WritesUnlink(h, t, m, prev, next)' = WritesUnlink(h, t, m, prev, next)
  BY <1>3, Zenon DEF WritesUnlink
<1>5. \A k : WritesLink(h, t, m, k)' = WritesLink(h, t, m, k)
  BY <1>1, <1>3, SMT DEF WritesLink, Filled, WordEntry
<1>6. \A k : WritesMove(h, t, m, k)' = WritesMove(h, t, m, k)
  BY <1>1, SMT DEF WritesMove, Filled, Entry
<1>7. Ready(h, t, c, m)' = Ready(h, t, c, m)
  BY <1>4, <1>5, <1>6, Zenon DEF Ready, Quiet, Goal, Locks, SecondLegOf
<1>8. Writes(h, s, t, c, m)' = Writes(h, s, t, c, m)
  BY <1>4, <1>7, Zenon DEF Writes, SecondLegOf, Unlinks, Place, Before, Walking, Locks
<1>9. Position(h, s, t, c)' = Position(h, s, t, c)
  BY Zenon DEF Position, Place, Before, Summing, Locks, Goal
<1>10. Live(h, s, t, c, m)' = Live(h, s, t, c, m)
  BY <1>8, <1>9, Zenon DEF Live, Guarded, Wanted, Locks
<1> QED
  BY <1>2, <1>10

\* The invariant of the next state, from lists s2 that are in its memory
LEMMA Assemble ==
  ASSUME Typed', driver' = driver, NEW s2 \in Tables, Shape(heap', s2), Memory(s2, free', mem'),
         \A p \in Procs : Form(tx'[p], call'[p], mem'[p], left'),
         \A p \in Procs : call'[p] # NoCall /\ ~tx'[p].lost => Live(heap', s2, tx'[p], call'[p], mem'[p])
  PROVE  IInv' /\ Lists' = s2
<1>1. heap' \in Memories
  BY DEF Typed, TypeOK, Memories, Nodes, Values, Pointers
<1>2. Shape(heap, s2)'
  BY DEF Shape, EndsKept, IsList
<1>3. \A b \in Buckets : From(MinNode(b))' = s2[b]
  BY <1>1, <1>2, FromIsNext DEF MinNode
<1>4. Lists' = s2
  BY <1>3 DEF Lists, Tables
<1> HIDE DEF Lists
<1>5. Shape(heap, Lists)' /\ Memory(Lists, free, mem)'
  BY <1>2, <1>4 DEF Memory, Shape, EndsKept, IsList, Linked
<1>6. \A p \in Procs : Form(tx[p], call[p], mem[p], left)'
  <2> SUFFICES ASSUME NEW p \in Procs PROVE Form(tx[p], call[p], mem[p], left)'
    OBVIOUS
  <2>1. Form(tx'[p], call'[p], mem'[p], left')
    OBVIOUS
  <2> QED
    BY <2>1, LiveNext
<1>7. ASSUME NEW p \in Procs, call'[p] # NoCall, ~tx'[p].lost
      PROVE  Live(heap, Lists, tx[p], call[p], mem[p])'
  <2>1. Live(heap', s2, tx'[p], call'[p], mem'[p])
    BY <1>7
  <2> QED
    BY <2>1, <1>4, LiveNext
<1> QED
  BY <1>4, <1>5, <1>6, <1>7 DEF IInv

MemInfos == [new : SUBSET Spare, gone : SUBSET Spare]

\* A step of an attempt that changes neither the lists nor who has which block
LEMMA LocalStep ==
  ASSUME IInv, NEW p \in Procs, NEW t2 \in Attempts, NEW m2 \in MemInfos,
         tx' = [tx EXCEPT ![p] = t2], mem' = [mem EXCEPT ![p] = m2], m2.new = mem[p].new,
         call[p] # NoCall, Form(t2, call[p], m2, left),
         ~t2.lost => Live(heap, Lists, t2, call[p], m2),
         UNCHANGED <<driver, early, heap, free, left, call, n, ans, last, redo>>
  PROVE  IInv' /\ Lists' = Lists
<1>0. /\ Typed /\ heap \in Memories /\ Lists \in Tables /\ Shape(heap, Lists) /\ Memory(Lists, free, mem)
      /\ \A q \in Procs : /\ Form(tx[q], call[q], mem[q], left)
                          /\ call[q] # NoCall /\ ~tx[q].lost => Live(heap, Lists, tx[q], call[q], mem[q])
  BY InvFacts
<1>1. tx'[p] = t2 /\ mem'[p] = m2 /\ \A q \in Procs : q # p => tx'[q] = tx[q] /\ mem'[q] = mem[q]
  BY <1>0 DEF Typed
<1>2. TypeOK'
  <2>1. \A q \in Procs : mem'[q].new \cup mem'[q].gone \subseteq Spare
    BY <1>0, <1>1 DEF Typed, TypeOK, MemInfos
  <2> QED
    BY <1>0, <2>1 DEF Typed, TypeOK
<1>3. tx' \in [Procs -> Attempts] /\ mem' \in [Procs -> MemInfos]
  BY <1>0 DEF Typed, MemInfos
<1>4. Typed'
  BY <1>0, <1>2, <1>3 DEF Typed, Setting, MemInfos
<1> DEFINE l == Lists
<1> HIDE DEF l
<1>5. l \in Tables /\ Shape(heap', l)
  BY <1>0 DEF l
<1>6. Memory(l, free', mem')
  <2>1. \A q \in Procs : mem'[q].new = mem[q].new
    BY <1>1
  <2> QED
    BY <1>0, <2>1 DEF Memory, l
<1>7. \A q \in Procs : Form(tx'[q], call'[q], mem'[q], left')
  BY <1>0, <1>1
<1>8. \A q \in Procs : call'[q] # NoCall /\ ~tx'[q].lost => Live(heap', l, tx'[q], call'[q], mem'[q])
  BY <1>0, <1>1 DEF l
<1>9. IInv' /\ Lists' = l
  BY <1>4, <1>5, <1>6, <1>7, <1>8, Assemble
<1> QED
  BY <1>9 DEF l

\* A step that takes block b for a new node, and fills it with node
LEMMA FillStep ==
  ASSUME IInv, NEW p \in Procs, NEW t2 \in Attempts, NEW m2 \in MemInfos,
         NEW b \in free, NEW node \in Nodes,
         tx' = [tx EXCEPT ![p] = t2], mem' = [mem EXCEPT ![p] = m2], m2.new = mem[p].new \cup {b},
         heap' = [heap EXCEPT ![b] = node], free' = free \ {b},
         call[p] # NoCall, Form(t2, call[p], m2, left),
         ~t2.lost => Live([heap EXCEPT ![b] = node], Lists, t2, call[p], m2),
         UNCHANGED <<driver, early, left, call, n, ans, last, redo>>
  PROVE  IInv' /\ Lists' = Lists
<1>0. /\ Typed /\ heap \in Memories /\ Lists \in Tables /\ Shape(heap, Lists) /\ Memory(Lists, free, mem)
      /\ \A q \in Procs : /\ Form(tx[q], call[q], mem[q], left) /\ tx[q] \in Attempts
                          /\ call[q] \in Calls \cup {NoCall}
                          /\ call[q] # NoCall /\ ~tx[q].lost => Live(heap, Lists, tx[q], call[q], mem[q])
  BY InvFacts
<1>1. tx'[p] = t2 /\ mem'[p] = m2 /\ \A q \in Procs : q # p => tx'[q] = tx[q] /\ mem'[q] = mem[q]
  BY <1>0 DEF Typed
<1>2. b \in Spare /\ b \in Blocks /\ ~Linked(Lists, b) /\ \A q \in Procs : b \notin mem[q].new
  BY <1>0, BlockFacts DEF Memory
<1>3. /\ heap' \in Memories /\ heap'[b] = node
      /\ \A a \in Blocks : a # b => heap'[a] = heap[a]
  BY <1>0, <1>2 DEF Memories
<1>4. TypeOK'
  <2>1. \A q \in Procs : mem'[q].new \cup mem'[q].gone \subseteq Spare
    BY <1>0, <1>1 DEF Typed, TypeOK, MemInfos
  <2> QED
    BY <1>0, <1>3, <2>1 DEF Typed, TypeOK, Memories, Nodes, Values, Pointers
<1>5. tx' \in [Procs -> Attempts] /\ mem' \in [Procs -> MemInfos]
  BY <1>0 DEF Typed, MemInfos
<1>6. Typed'
  BY <1>0, <1>4, <1>5 DEF Typed, Setting, MemInfos
<1> DEFINE l == Lists
<1> HIDE DEF l
<1>7. l \in Tables /\ Shape(heap, l) /\ Memory(l, free, mem) /\ ~Linked(l, b)
  BY <1>0, <1>2 DEF l
<1>8. Shape(heap', l)
  <2>1. \A c \in Buckets : IsList(heap, c, l[c]) /\ \A a \in l[c] : heap'[a] = heap[a]
    BY <1>3, <1>7, ListFacts DEF Shape, Linked
  <2>2. \A c \in Buckets : IsList(heap', c, l[c])
    BY <2>1, SameList
  <2>3. EndsKept(heap')
    BY <1>2, <1>3, <1>7, BlockFacts DEF Shape, EndsKept
  <2> QED
    BY <2>2, <2>3 DEF Shape
<1>9. Memory(l, free', mem')
  <2>1. mem'[p].new = mem[p].new \cup {b} /\ \A q \in Procs : q # p => mem'[q].new = mem[q].new
    BY <1>1, Zenon
  <2>2. ASSUME NEW a \in Spare, ~Linked(l, a), a \notin free'
        PROVE  \E q \in Procs : a \in mem'[q].new
    <3>1. CASE a = b
      BY <3>1, <2>1
    <3>2. CASE a # b
      <4>1. a \notin free
        BY <3>2, <2>2
      <4>2. PICK q \in Procs : a \in mem[q].new
        BY <4>1, <2>2, <1>7 DEF Memory
      <4> QED
        BY <4>2, <2>1
    <3> QED
      BY <3>1, <3>2
  <2>3. \A a \in free' : a \in Spare /\ ~Linked(l, a)
    BY <1>7 DEF Memory
  <2>4. ASSUME NEW q \in Procs, NEW a \in mem'[q].new
        PROVE  a \in Spare /\ ~Linked(l, a) /\ a \notin free' /\ \A r \in Procs \ {q} : a \notin mem'[r].new
    <3>1. CASE a = b
      BY <3>1, <1>2, <1>7, <2>1, <2>4
    <3>2. CASE a # b
      BY <3>2, <1>7, <2>1, <2>4 DEF Memory
    <3> QED
      BY <3>1, <3>2
  <2> QED
    BY <2>2, <2>3, <2>4 DEF Memory
<1>10. \A q \in Procs : Form(tx'[q], call'[q], mem'[q], left')
  BY <1>0, <1>1
<1>11. ASSUME NEW q \in Procs, call'[q] # NoCall, ~tx'[q].lost
       PROVE  Live(heap', l, tx'[q], call'[q], mem'[q])
  <2>1. CASE q = p
    BY <1>1, <1>11, <2>1 DEF l
  <2>2. CASE q # p
    <3>1. /\ tx[q] \in Attempts /\ call[q] \in Calls /\ Live(heap, l, tx[q], call[q], mem[q])
          /\ Form(tx[q], call[q], mem[q], left)
      BY <1>0, <1>1, <1>11, <2>2 DEF l
    <3>4. \A a \in Blocks : Linked(l, a) => heap'[a] = heap[a]
      BY <1>3, <1>7
    <3>6. \A a \in mem[q].new : heap'[a] = heap[a]
      BY <1>2, <1>3, <1>7, BlockFacts DEF Memory
    <3>7. call[q].name = "snapshot" => tx[q].leg =< NumBuckets
      BY <3>1 DEF Form
    <3>8. Live(heap', l, tx[q], call[q], mem[q])
      BY <3>1, <3>4, <3>6, <3>7, <1>0, <1>3, <1>7, LiveSame
    <3> QED
      BY <3>8, <1>1, <2>2
  <2> QED
    BY <2>1, <2>2
<1>12. IInv' /\ Lists' = l
  BY <1>6, <1>7, <1>8, <1>9, <1>10, <1>11, Assemble
<1> QED
  BY <1>12 DEF l

-----------------------------------------------------------------------------
(* The walks.                                                                *)

LEMMA WalkingFacts ==
  ASSUME IInv, NEW p \in Procs, Walking(tx[p])
  PROVE  /\ call[p] # NoCall /\ call[p] \in Calls /\ tx[p].prev \in Blocks
         /\ call[p].name \in {"contains", "add", "remove", "move_naive", "snapshot"}
         /\ ~SecondLegOf(tx[p], call[p]) => Quiet(tx[p], mem[p])
         /\ tx[p].pc \in {"look", "node", "stop"} => tx[p].next \in Blocks
         /\ tx[p].reads \in Seq(Blocks) /\ tx[p].ws \in Seq(Stores) /\ tx[p].lost \in BOOLEAN
<1>1. /\ Form(tx[p], call[p], mem[p], left) /\ call[p] \in Calls \cup {NoCall} /\ tx[p] \in Attempts
  BY InvFacts
<1>2. tx[p].pc # "idle"
  BY DEF Walking
<1>3. call[p] # NoCall
  BY <1>1, <1>2 DEF Form
<1>4. call[p] \in Calls
  BY <1>1, <1>3
<1>5. call[p].name # "none"
  BY <1>4, CallFacts
<1> QED
  BY <1>1, <1>3, <1>4, <1>5 DEF Form, Attempts

\* From one place of the walk to another
LEMMA WalkForm ==
  ASSUME NEW t \in Attempts, NEW t2 \in Attempts, NEW c, NEW m, NEW l, Form(t, c, m, l),
         Walking(t), Walking(t2), t2.leg = t.leg, t2.ws = t.ws,
         t.pc \in {"load", "look"} <=> t2.pc \in {"load", "look"},
         t2.prev \in Blocks, t2.pc \in {"look", "node", "stop"} => t2.next \in Blocks,
         t2.pc = "stop" /\ t2.sum \in Keys => t2.next \in Spare
  PROVE  Form(t2, c, m, l)
<1>1. t.pc # "idle" /\ t2.pc # "idle"
  BY DEF Walking
<1>2. t.pc \in {"first", "node", "stop"} <=> t2.pc \in {"first", "node", "stop"}
  BY DEF Walking
<1>3. c # NoCall
  BY <1>1 DEF Form
<1>4. SecondLegOf(t2, c) = SecondLegOf(t, c) /\ Quiet(t2, m) = Quiet(t, m)
  BY DEF SecondLegOf, Quiet
<1> QED
  BY <1>1, <1>2, <1>3, <1>4 DEF Form

LEMMA WalkWrites ==
  ASSUME NEW h, NEW s, NEW t, NEW t2, NEW c, NEW m, Writes(h, s, t, c, m),
         Walking(t), Walking(t2), t2.leg = t.leg, t2.ws = t.ws, t2.prev1 = t.prev1, t2.next1 = t.next1,
         Locks(t) \subseteq Locks(t2)
  PROVE  Writes(h, s, t2, c, m)
<1>1. SecondLegOf(t2, c) = SecondLegOf(t, c) /\ t2.pc # "commit"
  BY DEF SecondLegOf, Walking
<1>2. Unlinks(h, s, t, t.prev1, t.next1, c.k) => Unlinks(h, s, t2, t2.prev1, t2.next1, c.k)
  BY DEF Unlinks, Place, Before
<1>3. WritesUnlink(h, t, m, t.prev1, t.next1) => WritesUnlink(h, t2, m, t2.prev1, t2.next1)
  BY DEF WritesUnlink
<1> QED
  BY <1>1, <1>2, <1>3 DEF Writes

\* An attempt that walks has not stored to the block it has come to.
LEMMA NotOwned ==
  ASSUME IInv, NEW p \in Procs, Walking(tx[p]), ~tx[p].lost,
         NEW a, call[p].name # "snapshot" => a \in Lists[Bucket(Goal(tx[p], call[p]))]
  PROVE  ~Owns(p, a)
<1>0. /\ Live(heap, Lists, tx[p], call[p], mem[p]) /\ heap \in Memories /\ Shape(heap, Lists)
  BY WalkingFacts, InvFacts
<1>1. CASE ~SecondLegOf(tx[p], call[p])
  BY <1>1, WalkingFacts DEF Quiet, Owns
<1>2. CASE SecondLegOf(tx[p], call[p])
  <2>1. /\ Before(heap, Lists, tx[p], tx[p].prev1, call[p].k)
        /\ tx[p].ws = <<EntryOf(heap, tx[p].prev1, heap[tx[p].next1].next)>>
    BY <1>0, <1>2 DEF Live, Writes, Unlinks, Place, WritesUnlink
  <2>2. Goal(tx[p], call[p]) = call[p].k2 /\ call[p].name # "snapshot"
    BY <1>2 DEF SecondLegOf, Goal
  <2>3. /\ Bucket(call[p].k2) # Bucket(call[p].k)
        /\ Bucket(call[p].k2) \in Buckets /\ Bucket(call[p].k) \in Buckets
    BY <1>2, WalkingFacts, CallFacts, KeyFacts DEF SecondLegOf
  <2>4. tx[p].prev1 # a
    BY <2>1, <2>2, <2>3, <1>0, OneList DEF Before
  <2>5. EntryOf(heap, tx[p].prev1, heap[tx[p].next1].next).addr = tx[p].prev1
    BY DEF EntryOf, Entry
  <2> QED
    BY <2>1, <2>4, <2>5 DEF Owns
<1> QED
  BY <1>1, <1>2

LEMMA StepLoad ==
  ASSUME IInv, NEW p \in Procs, Load(p)
  PROVE  IInv' /\ Lists' = Lists
<1>0. /\ Typed /\ heap \in Memories /\ Lists \in Tables /\ Shape(heap, Lists) /\ ~early
      /\ tx[p] \in Attempts /\ mem[p] \in MemInfos /\ Form(tx[p], call[p], mem[p], left)
      /\ call[p] # NoCall /\ ~tx[p].lost => Live(heap, Lists, tx[p], call[p], mem[p])
  BY InvFacts DEF MemInfos
<1>1. tx[p].pc = "load" /\ Walking(tx[p]) /\ MayLoad(p, tx[p].prev)
  BY DEF Load, Walking
<1>2. /\ call[p] # NoCall /\ call[p] \in Calls /\ tx[p].prev \in Blocks
      /\ tx[p].reads \in Seq(Blocks) /\ tx[p].ws \in Seq(Stores)
  BY <1>1, WalkingFacts
<1>3. PICK t2 : t2 = [tx[p] EXCEPT !.next = Word(p, tx[p].prev), !.reads = Locking(p, tx[p].prev), !.pc = "look"]
  OBVIOUS
<1>4. t2 \in Attempts
  BY <1>0, <1>2, <1>3, WordType DEF Attempts
<1>5. tx' = [tx EXCEPT ![p] = t2]
  BY <1>0, <1>3 DEF Load, Release, Typed
<1>6. /\ t2.pc = "look" /\ t2.prev = tx[p].prev /\ t2.next = Word(p, tx[p].prev) /\ t2.leg = tx[p].leg
      /\ t2.ws = tx[p].ws /\ t2.prev1 = tx[p].prev1 /\ t2.next1 = tx[p].next1 /\ t2.lost = tx[p].lost
      /\ t2.reads = Locking(p, tx[p].prev) /\ Walking(t2)
  BY <1>0, <1>3 DEF Attempts, Walking
<1> DEFINE k == Goal(tx[p], call[p])
<1>7. k \in Keys /\ Goal(t2, call[p]) = k
  BY <1>2, <1>6, GoalType DEF Goal
<1>8. ASSUME ~tx[p].lost
      PROVE  /\ call[p].name # "snapshot" => tx[p].prev \in Lists[Bucket(k)] /\ heap[tx[p].prev].val < k
             /\ call[p].name = "snapshot" => Summing(Lists, tx[p])
             /\ heap[tx[p].prev].next \in Blocks /\ ~Owns(p, tx[p].prev)
  <2>1. Position(heap, Lists, tx[p], call[p])
    BY <1>0, <1>2, <1>8 DEF Live
  <2>2. call[p].name # "snapshot" => tx[p].prev \in Lists[Bucket(k)] /\ heap[tx[p].prev].val < k
    BY <2>1, <1>1 DEF Position
  <2>3. call[p].name = "snapshot" => Summing(Lists, tx[p]) /\ tx[p].leg - 1 \in Buckets
    BY <2>1, <1>0, <1>1, SetAssumption DEF Position, Form, Buckets, Attempts
  <2>4. heap[tx[p].prev].next \in Blocks
    <3>1. CASE call[p].name = "snapshot"
      BY <3>1, <2>3, <1>0, NextLinked DEF Summing
    <3>2. CASE call[p].name # "snapshot"
      BY <3>2, <2>2, <1>0, <1>7, PlaceFacts
    <3> QED
      BY <3>1, <3>2
  <2>5. ~Owns(p, tx[p].prev)
    BY <2>2, <1>1, <1>8, NotOwned
  <2> QED
    BY <2>2, <2>3, <2>4, <2>5
<1>9. t2.next \in Blocks
  <2>1. CASE Owns(p, tx[p].prev)
    <3>1. PICK i \in DOMAIN tx[p].ws : Word(p, tx[p].prev) = tx[p].ws[i].next
      BY <2>1, <1>0, <1>2, WordFromStore
    <3>2. tx[p].ws[i].next \in Blocks
      BY <1>0, <1>1 DEF Form
    <3> QED
      BY <3>1, <3>2, <1>6
  <2>2. CASE ~Owns(p, tx[p].prev)
    BY <2>2, <1>0, <1>1, <1>2, <1>6, <1>8, WordFromMemory
  <2> QED
    BY <2>1, <2>2
<1>10. Form(t2, call[p], mem[p], left)
  BY <1>0, <1>1, <1>2, <1>4, <1>6, <1>9, WalkForm
<1>11. ASSUME ~t2.lost
       PROVE  Live(heap, Lists, t2, call[p], mem[p])
  <2>1. Live(heap, Lists, tx[p], call[p], mem[p]) /\ ~tx[p].lost
    BY <1>0, <1>2, <1>6, <1>11
  <2>2. t2.next = heap[tx[p].prev].next /\ t2.reads = Append(tx[p].reads, tx[p].prev)
    BY <2>1, <1>0, <1>2, <1>6, <1>8, WordFromMemory
  <2>3. Locks(t2) = Locks(tx[p]) \cup {tx[p].prev}
    BY <2>2, <1>2, ToSetAppend DEF Locks
  <2>4. Wanted(t2) = Wanted(tx[p]) /\ Locks(tx[p]) \subseteq Locks(t2) /\ t2.prev \in Locks(t2)
    BY <2>3, <1>1, <1>6 DEF Wanted
  <2>5. Guarded(heap, Lists, Wanted(t2), Locks(t2))
    BY <2>1, <2>4 DEF Live, Guarded
  <2>6. Position(heap, Lists, t2, call[p])
    BY <2>1, <2>2, <2>4, <1>6, <1>7, <1>8 DEF Position, Before, Summing
  <2>7. Writes(heap, Lists, t2, call[p], mem[p])
    BY <2>1, <2>4, <1>1, <1>6, WalkWrites DEF Live
  <2> QED
    BY <2>5, <2>6, <2>7 DEF Live
<1>12. mem' = [mem EXCEPT ![p] = mem[p]]
  BY <1>0 DEF Load, Typed
<1> QED
  BY <1>0, <1>2, <1>4, <1>5, <1>10, <1>11, <1>12, LocalStep DEF Load

\* The next of a locked block can be wanted, and locked; so can the first block of a list.
LEMMA GuardNext ==
  ASSUME NEW h \in Memories, NEW s, Shape(h, s), NEW locks, Guarded(h, s, locks, locks),
         NEW b \in Buckets, NEW a \in s[b], a \in locks, h[a].next \in Blocks
  PROVE  /\ Guarded(h, s, locks \cup {h[a].next}, locks)
         /\ Guarded(h, s, locks \cup {h[a].next}, locks \cup {h[a].next})
<1>1. Linked(s, h[a].next)
  BY NextLinked DEF Linked
<1>2. ASSUME NEW c \in Buckets, NEW d \in s[c], h[d].next \in locks \cup {h[a].next}
      PROVE  d \in locks
  BY <1>2, OneBefore DEF Guarded
<1> QED
  BY <1>1, <1>2 DEF Guarded

LEMMA GuardFirst ==
  ASSUME NEW h \in Memories, NEW s, Shape(h, s), NEW locks, Guarded(h, s, locks, locks),
         NEW b \in Buckets
  PROVE  /\ Guarded(h, s, locks \cup {MinNode(b)}, locks)
         /\ Guarded(h, s, locks \cup {MinNode(b)}, locks \cup {MinNode(b)})
<1>1. Linked(s, MinNode(b))
  BY ListFacts DEF Linked
<1>2. \A c \in Buckets : \A d \in s[c] : h[d].next # MinNode(b)
  BY NoneBefore
<1> QED
  BY <1>1, <1>2 DEF Guarded

\* How an attempt starts out in the proofs of its steps
LEMMA StepFacts ==
  ASSUME IInv, NEW p \in Procs
  PROVE  /\ Typed /\ heap \in Memories /\ Lists \in Tables /\ Shape(heap, Lists) /\ ~early
         /\ Memory(Lists, free, mem)
         /\ tx[p] \in Attempts /\ mem[p] \in MemInfos /\ Form(tx[p], call[p], mem[p], left)
         /\ call[p] \in Calls \cup {NoCall}
         /\ call[p] # NoCall /\ ~tx[p].lost => Live(heap, Lists, tx[p], call[p], mem[p])
         /\ mem = [mem EXCEPT ![p] = mem[p]]
BY InvFacts DEF MemInfos, Typed

LEMMA StepWalk ==
  ASSUME IInv, NEW p \in Procs, Walk(p)
  PROVE  IInv' /\ Lists' = Lists
<1>0. /\ Typed /\ heap \in Memories /\ Lists \in Tables /\ Shape(heap, Lists)
      /\ tx[p] \in Attempts /\ mem[p] \in MemInfos /\ Form(tx[p], call[p], mem[p], left)
      /\ call[p] # NoCall /\ ~tx[p].lost => Live(heap, Lists, tx[p], call[p], mem[p])
      /\ mem = [mem EXCEPT ![p] = mem[p]]
  BY StepFacts
<1>1. tx[p].pc = "look" /\ Walking(tx[p]) /\ call[p].name # "snapshot"
  BY DEF Walk, Walking
<1>2. call[p] # NoCall /\ call[p] \in Calls /\ tx[p].next \in Blocks
  BY <1>1, WalkingFacts
<1>3. PICK t2 : t2 = [tx[p] EXCEPT !.prev = tx[p].next, !.pc = "load"]
  OBVIOUS
<1>4. t2 \in Attempts
  BY <1>0, <1>3 DEF Attempts
<1>5. tx' = [tx EXCEPT ![p] = t2]
  BY <1>0, <1>3 DEF Walk, Typed
<1>6. /\ t2.pc = "load" /\ t2.prev = tx[p].next /\ t2.leg = tx[p].leg /\ t2.reads = tx[p].reads
      /\ t2.ws = tx[p].ws /\ t2.prev1 = tx[p].prev1 /\ t2.next1 = tx[p].next1 /\ t2.lost = tx[p].lost
      /\ Walking(t2) /\ Locks(t2) = Locks(tx[p])
  BY <1>0, <1>3 DEF Attempts, Walking, Locks
<1>7. Form(t2, call[p], mem[p], left)
  BY <1>0, <1>1, <1>2, <1>4, <1>6, WalkForm
<1>8. ASSUME ~t2.lost
      PROVE  Live(heap, Lists, t2, call[p], mem[p])
  <2> DEFINE k == Goal(tx[p], call[p])
  <2>1. Live(heap, Lists, tx[p], call[p], mem[p])
    BY <1>0, <1>2, <1>6, <1>8
  <2>2. k \in Keys /\ Goal(t2, call[p]) = k /\ heap[tx[p].next].val < k
    BY <1>2, <1>6, GoalType DEF Goal, Walk, Value, Target
  <2>3. /\ tx[p].prev \in Locks(tx[p]) /\ tx[p].prev \in Lists[Bucket(k)] /\ heap[tx[p].prev].val < k
        /\ tx[p].next = heap[tx[p].prev].next
    BY <2>1, <1>1 DEF Live, Position, Before
  <2>4. tx[p].next \in Lists[Bucket(k)] /\ Bucket(k) \in Buckets
    BY <2>2, <2>3, <1>0, PlaceFacts
  <2>5. Guarded(heap, Lists, Locks(tx[p]), Locks(tx[p]))
    BY <2>1, <1>1 DEF Live, Wanted
  <2>6. Guarded(heap, Lists, Locks(tx[p]) \cup {tx[p].next}, Locks(tx[p]))
    BY <2>3, <2>4, <2>5, <1>0, <1>2, GuardNext
  <2>7. Guarded(heap, Lists, Wanted(t2), Locks(t2))
    BY <2>6, <1>6 DEF Wanted
  <2>8. Position(heap, Lists, t2, call[p])
    BY <2>2, <2>4, <1>1, <1>6 DEF Position
  <2>9. Writes(heap, Lists, t2, call[p], mem[p])
    BY <2>1, <1>1, <1>6, WalkWrites DEF Live
  <2> QED
    BY <2>7, <2>8, <2>9 DEF Live
<1> QED
  BY <1>0, <1>2, <1>4, <1>5, <1>7, <1>8, LocalStep DEF Walk

\* A snapshot walks on, goes to the next bucket, or is done.
LEMMA StepSnapshot ==
  ASSUME IInv, NEW p \in Procs, HtSnapshot(p), UNCHANGED <<driver, early, left, call, n, ans, last, redo>>
  PROVE  IInv' /\ Lists' = Lists
<1>0. /\ Typed /\ heap \in Memories /\ Lists \in Tables /\ Shape(heap, Lists)
      /\ tx[p] \in Attempts /\ mem[p] \in MemInfos /\ Form(tx[p], call[p], mem[p], left)
      /\ call[p] # NoCall /\ ~tx[p].lost => Live(heap, Lists, tx[p], call[p], mem[p])
      /\ mem = [mem EXCEPT ![p] = mem[p]]
  BY StepFacts
<1>1. tx[p].pc = "look" /\ Walking(tx[p]) /\ call[p].name = "snapshot"
  BY DEF HtSnapshot, Walking
<1>2. /\ call[p] # NoCall /\ call[p] \in Calls /\ tx[p].next \in Blocks /\ Quiet(tx[p], mem[p])
      /\ ~SecondLegOf(tx[p], call[p])
  BY <1>1, WalkingFacts DEF SecondLegOf
<1>3. PICK node : node = heap[tx[p].next]
  OBVIOUS
<1>4. node \in Nodes /\ node.val \in Int /\ node.next \in Pointers
  BY <1>0, <1>2, <1>3, KeyFacts DEF Memories, Nodes
<1>5. tx[p].leg \in Nat \ {0} /\ tx[p].leg =< NumBuckets /\ tx[p].leg - 1 \in Buckets
  BY <1>0, <1>1, SetAssumption DEF Form, Buckets, Attempts
<1>6. \/ /\ node.next # Nil
         /\ tx' = [tx EXCEPT ![p] = [tx[p] EXCEPT !.sum = tx[p].sum + node.val, !.prev = tx[p].next, !.pc = "load"]]
      \/ /\ tx[p].leg < NumBuckets
         /\ tx' = [tx EXCEPT ![p] = [tx[p] EXCEPT !.leg = tx[p].leg + 1, !.prev = MinNode(tx[p].leg), !.pc = "load"]]
      \/ tx' = [tx EXCEPT ![p] = Done(tx[p], tx[p].sum)]
  BY <1>3 DEF HtSnapshot
<1>7. ASSUME ~tx[p].lost
      PROVE  /\ Live(heap, Lists, tx[p], call[p], mem[p])
             /\ tx[p].next \in Lists[tx[p].leg - 1] /\ Guarded(heap, Lists, Locks(tx[p]), Locks(tx[p]))
             /\ Guarded(heap, Lists, Locks(tx[p]) \cup {tx[p].next}, Locks(tx[p]))
  <2>1. Live(heap, Lists, tx[p], call[p], mem[p])
    BY <1>0, <1>2, <1>7
  <2>2. /\ tx[p].prev \in Lists[tx[p].leg - 1] /\ tx[p].prev # MaxNode(tx[p].leg - 1)
        /\ tx[p].next = heap[tx[p].prev].next /\ tx[p].prev \in Locks(tx[p])
    BY <2>1, <1>1 DEF Live, Position, Summing
  <2>3. Guarded(heap, Lists, Locks(tx[p]), Locks(tx[p]))
    BY <2>1, <1>1 DEF Live, Wanted
  <2>4. tx[p].next \in Lists[tx[p].leg - 1]
    BY <2>2, <1>0, <1>5, NextLinked
  <2>5. Guarded(heap, Lists, Locks(tx[p]) \cup {tx[p].next}, Locks(tx[p]))
    BY <2>2, <2>3, <1>0, <1>2, <1>5, GuardNext
  <2> QED
    BY <2>1, <2>3, <2>4, <2>5
<1>8. ASSUME node.next # Nil, NEW t2,
             t2 = [tx[p] EXCEPT !.sum = tx[p].sum + node.val, !.prev = tx[p].next, !.pc = "load"]
      PROVE  /\ t2 \in Attempts /\ Form(t2, call[p], mem[p], left)
             /\ ~t2.lost => Live(heap, Lists, t2, call[p], mem[p])
  <2>1. t2 \in Attempts
    <3>1. PICK v \in Int : v = tx[p].sum + node.val
      BY <1>0, <1>4 DEF Attempts
    <3>2. t2 = [tx[p] EXCEPT !.sum = v, !.prev = tx[p].next, !.pc = "load"]
      BY <1>8, <3>1, Zenon
    <3> QED
      BY <1>0, <3>2 DEF Attempts
  <2>2. /\ t2.pc = "load" /\ t2.prev = tx[p].next /\ t2.leg = tx[p].leg /\ t2.reads = tx[p].reads
        /\ t2.ws = tx[p].ws /\ t2.prev1 = tx[p].prev1 /\ t2.next1 = tx[p].next1 /\ t2.lost = tx[p].lost
        /\ Walking(t2) /\ Locks(t2) = Locks(tx[p])
    BY <1>0, <1>8 DEF Attempts, Walking, Locks
  <2>3. Form(t2, call[p], mem[p], left)
    BY <1>0, <1>1, <1>2, <2>1, <2>2, WalkForm
  <2>4. ASSUME ~t2.lost
        PROVE  Live(heap, Lists, t2, call[p], mem[p])
    <3>1. Guarded(heap, Lists, Wanted(t2), Locks(t2))
      BY <1>7, <2>2, <2>4 DEF Wanted
    <3>2. tx[p].next # MaxNode(tx[p].leg - 1)
      <4>1. PICK b \in Buckets : b = tx[p].leg - 1
        BY <1>5
      <4>2. heap[MaxNode(b)].next = Nil
        BY <1>0, ListFacts
      <4> QED
        BY <4>1, <4>2, <1>3, <1>8
    <3>3. Position(heap, Lists, t2, call[p])
      BY <3>2, <1>1, <1>7, <2>2, <2>4 DEF Position, Summing
    <3>4. Writes(heap, Lists, t2, call[p], mem[p])
      BY <1>1, <1>7, <2>2, <2>4, WalkWrites DEF Live
    <3> QED
      BY <3>1, <3>3, <3>4 DEF Live
  <2> QED
    BY <2>1, <2>3, <2>4
<1>9. ASSUME tx[p].leg < NumBuckets, NEW t2,
             t2 = [tx[p] EXCEPT !.leg = tx[p].leg + 1, !.prev = MinNode(tx[p].leg), !.pc = "load"]
      PROVE  /\ t2 \in Attempts /\ Form(t2, call[p], mem[p], left)
             /\ ~t2.lost => Live(heap, Lists, t2, call[p], mem[p])
  <2>1. tx[p].leg \in Buckets /\ MinNode(tx[p].leg) \in Blocks /\ tx[p].leg + 1 =< NumBuckets
    BY <1>5, <1>9, SetAssumption, BlockFacts DEF Buckets
  <2>2. t2 \in Attempts
    <3>1. PICK v \in Nat \ {0} : v = tx[p].leg + 1
      BY <1>5
    <3>2. PICK a \in Pointers : a = MinNode(tx[p].leg)
      BY <2>1 DEF Pointers
    <3>3. t2 = [tx[p] EXCEPT !.leg = v, !.prev = a, !.pc = "load"]
      BY <1>9, <3>1, <3>2, Zenon
    <3> QED
      BY <1>0, <3>3 DEF Attempts
  <2>3. /\ t2.pc = "load" /\ t2.prev = MinNode(tx[p].leg) /\ t2.leg = tx[p].leg + 1 /\ t2.reads = tx[p].reads
        /\ t2.ws = tx[p].ws /\ t2.prev1 = tx[p].prev1 /\ t2.next1 = tx[p].next1 /\ t2.lost = tx[p].lost
        /\ Walking(t2) /\ Locks(t2) = Locks(tx[p])
    BY <1>0, <1>9 DEF Attempts, Walking, Locks
  <2>4. Form(t2, call[p], mem[p], left)
    BY <1>0, <1>1, <1>2, <2>1, <2>3 DEF Form, SecondLegOf, Walking, Quiet
  <2>5. ASSUME ~t2.lost
        PROVE  Live(heap, Lists, t2, call[p], mem[p])
    <3>1. Guarded(heap, Lists, Wanted(t2), Locks(t2))
      BY <1>0, <1>7, <2>1, <2>3, <2>5, GuardFirst DEF Wanted
    <3>2. MinNode(tx[p].leg) \in Lists[tx[p].leg] /\ MinNode(tx[p].leg) # MaxNode(tx[p].leg) /\ t2.leg - 1 = tx[p].leg
      BY <1>0, <1>5, <2>1, <2>3, ListFacts, BlockFacts
    <3>3. Position(heap, Lists, t2, call[p])
      BY <3>2, <1>1, <2>3 DEF Position, Summing
    <3>4. Writes(heap, Lists, t2, call[p], mem[p])
      BY <1>1, <2>3 DEF Writes, SecondLegOf
    <3> QED
      BY <3>1, <3>3, <3>4 DEF Live
  <2> QED
    BY <2>2, <2>4, <2>5
<1>10. ASSUME NEW t2, t2 = Done(tx[p], tx[p].sum)
       PROVE  /\ t2 \in Attempts /\ Form(t2, call[p], mem[p], left)
              /\ ~t2.lost => Live(heap, Lists, t2, call[p], mem[p])
  <2>1. t2 \in Attempts
    BY <1>0, <1>10 DEF Attempts, Done
  <2>2. /\ t2.pc = "commit" /\ t2.leg = tx[p].leg /\ t2.reads = tx[p].reads
        /\ t2.ws = tx[p].ws /\ t2.lost = tx[p].lost /\ Locks(t2) = Locks(tx[p])
    BY <1>0, <1>10 DEF Attempts, Done, Locks
  <2>3. Form(t2, call[p], mem[p], left)
    BY <1>0, <1>1, <1>2, <2>2 DEF Form, SecondLegOf, Walking
  <2>4. ASSUME ~t2.lost
        PROVE  Live(heap, Lists, t2, call[p], mem[p])
    <3>1. Guarded(heap, Lists, Wanted(t2), Locks(t2))
      BY <1>7, <2>2, <2>4 DEF Wanted
    <3>2. Position(heap, Lists, t2, call[p])
      BY <1>1, <2>2 DEF Position
    <3>3. Writes(heap, Lists, t2, call[p], mem[p])
      BY <1>1, <1>2, <2>2 DEF Writes, Ready, SecondLegOf, Quiet
    <3> QED
      BY <3>1, <3>2, <3>3 DEF Live
  <2> QED
    BY <2>1, <2>3, <2>4
<1>11. \E t2 \in Attempts : /\ tx' = [tx EXCEPT ![p] = t2] /\ Form(t2, call[p], mem[p], left)
                            /\ ~t2.lost => Live(heap, Lists, t2, call[p], mem[p])
  BY <1>6, <1>8, <1>9, <1>10, Zenon
<1>12. UNCHANGED <<driver, early, heap, free, left, call, n, ans, last, redo>> /\ mem' = [mem EXCEPT ![p] = mem[p]]
  BY <1>0 DEF HtSnapshot
<1> QED
  BY <1>0, <1>2, <1>11, <1>12, LocalStep

\* In the PGAS build there are no moves and no snapshots: the value is k.
LEMMA PgasGoal ==
  ASSUME IInv, NEW p \in Procs, tx[p].pc \in {"first", "node", "stop"}
  PROVE  /\ Walking(tx[p]) /\ Pgas /\ tx[p].leg = 1 /\ Goal(tx[p], call[p]) = call[p].k
         /\ call[p].name \in {"contains", "add", "remove"} /\ call[p].k \in Keys
         /\ call[p] # NoCall /\ call[p] \in Calls
         /\ Quiet(tx[p], mem[p]) /\ ~SecondLegOf(tx[p], call[p])
<1>1. Walking(tx[p])
  BY DEF Walking
<1>2. /\ call[p] # NoCall /\ call[p] \in Calls /\ call[p].k \in Keys
      /\ call[p].name \in {"contains", "add", "remove", "move_naive", "snapshot"}
      /\ ~SecondLegOf(tx[p], call[p]) => Quiet(tx[p], mem[p])
  BY <1>1, WalkingFacts, CallFacts
<1>3. Form(tx[p], call[p], mem[p], left)
  BY StepFacts
<1>4. Pgas /\ call[p].name \in {"contains", "add", "remove"}
  BY <1>2, <1>3 DEF Form, Pgas
<1>5. tx[p].leg = 1
  BY <1>3, <1>4 DEF Form
<1> QED
  BY <1>1, <1>2, <1>4, <1>5 DEF Goal, SecondLegOf

LEMMA StepLoadHead ==
  ASSUME IInv, NEW p \in Procs, LoadHead(p)
  PROVE  IInv' /\ Lists' = Lists
<1>0. /\ Typed /\ heap \in Memories /\ Lists \in Tables /\ Shape(heap, Lists)
      /\ tx[p] \in Attempts /\ mem[p] \in MemInfos /\ Form(tx[p], call[p], mem[p], left)
      /\ call[p] # NoCall /\ ~tx[p].lost => Live(heap, Lists, tx[p], call[p], mem[p])
      /\ mem = [mem EXCEPT ![p] = mem[p]]
  BY StepFacts
<1>1. tx[p].pc = "first" /\ ~tx[p].lost
  BY DEF LoadHead
<1>2. /\ Walking(tx[p]) /\ tx[p].leg = 1 /\ Goal(tx[p], call[p]) = call[p].k
      /\ call[p].name \in {"contains", "add", "remove"} /\ call[p].k \in Keys
      /\ call[p] # NoCall /\ call[p] \in Calls /\ ~SecondLegOf(tx[p], call[p])
  BY <1>1, PgasGoal
<1>3. tx[p].prev \in Blocks /\ tx[p].reads \in Seq(Blocks)
  BY <1>2, WalkingFacts
<1> DEFINE a == tx[p].prev
           k == call[p].k
<1>4. /\ a = MinNode(Bucket(k)) /\ tx[p].reads = <<>>
      /\ Live(heap, Lists, tx[p], call[p], mem[p])
  BY <1>0, <1>1, <1>2 DEF Live, Position
<1>5. /\ Bucket(k) \in Buckets /\ a \in Lists[Bucket(k)] /\ heap[a].val < k
      /\ heap[a].next \in Blocks /\ heap[a] \in Nodes
  <2>1. Bucket(k) \in Buckets /\ ValMin < k
    BY <1>2, KeyFacts
  <2>2. a \in Lists[Bucket(k)] /\ heap[a].val = ValMin
    BY <2>1, <1>0, <1>4, ListFacts
  <2>3. heap[a].val < k
    BY <2>1, <2>2
  <2> QED
    BY <2>1, <2>2, <2>3, <1>0, <1>2, <1>3, PlaceFacts DEF Memories
<1>6. PICK t2 : t2 = [tx[p] EXCEPT !.word = heap[a], !.next = heap[a].next,
                                   !.reads = Append(tx[p].reads, a), !.pc = "node"]
  OBVIOUS
<1>7. Append(tx[p].reads, a) \in Seq(Blocks) /\ ToSet(Append(tx[p].reads, a)) = ToSet(tx[p].reads) \cup {a}
  BY <1>3, ToSetAppend
<1>8. t2 \in Attempts
  BY <1>0, <1>5, <1>6, <1>7 DEF Attempts, Pointers
<1>9. tx' = [tx EXCEPT ![p] = t2]
  BY <1>0, <1>6 DEF LoadHead, Typed
<1>10. /\ t2.pc = "node" /\ t2.prev = a /\ t2.next = heap[a].next /\ t2.word = heap[a] /\ t2.leg = tx[p].leg
       /\ t2.ws = tx[p].ws /\ t2.prev1 = tx[p].prev1 /\ t2.next1 = tx[p].next1 /\ t2.lost = tx[p].lost
       /\ Walking(t2) /\ Locks(t2) = Locks(tx[p]) \cup {a}
  BY <1>0, <1>6, <1>7 DEF Attempts, Walking, Locks
<1>11. Form(t2, call[p], mem[p], left)
  BY <1>0, <1>1, <1>2, <1>3, <1>5, <1>8, <1>10, WalkForm
<1>12. Live(heap, Lists, t2, call[p], mem[p])
  <2>1. Locks(tx[p]) = {}
    BY <1>4 DEF Locks, ToSet
  <2>2. Guarded(heap, Lists, Locks(tx[p]), Locks(tx[p]))
    BY <2>1 DEF Guarded
  <2>3. Guarded(heap, Lists, Wanted(t2), Locks(t2))
    <3>1. Guarded(heap, Lists, Locks(tx[p]) \cup {a}, Locks(tx[p]) \cup {a})
      BY <2>2, <1>0, <1>4, <1>5, GuardFirst
    <3>2. Wanted(t2) = Locks(tx[p]) \cup {a}
      BY <1>10 DEF Wanted
    <3> QED
      BY <3>1, <3>2, <1>10
  <2>4. Goal(t2, call[p]) = k
    BY <1>2, <1>10 DEF Goal
  <2>5. Position(heap, Lists, t2, call[p])
    BY <2>4, <1>5, <1>10 DEF Position, Before
  <2>6. Writes(heap, Lists, t2, call[p], mem[p])
    BY <1>2, <1>4, <1>10, WalkWrites DEF Live
  <2> QED
    BY <2>3, <2>5, <2>6 DEF Live
<1> QED
  BY <1>0, <1>2, <1>8, <1>9, <1>11, <1>12, LocalStep DEF LoadHead

LEMMA StepLoadNode ==
  ASSUME IInv, NEW p \in Procs, LoadNode(p)
  PROVE  IInv' /\ Lists' = Lists
<1>0. /\ Typed /\ heap \in Memories /\ Lists \in Tables /\ Shape(heap, Lists)
      /\ tx[p] \in Attempts /\ mem[p] \in MemInfos /\ Form(tx[p], call[p], mem[p], left)
      /\ call[p] # NoCall /\ ~tx[p].lost => Live(heap, Lists, tx[p], call[p], mem[p])
      /\ mem = [mem EXCEPT ![p] = mem[p]]
  BY StepFacts
<1>1. tx[p].pc = "node" /\ ~tx[p].lost
  BY DEF LoadNode
<1>2. /\ Walking(tx[p]) /\ tx[p].leg = 1 /\ Goal(tx[p], call[p]) = call[p].k
      /\ call[p].name \in {"contains", "add", "remove"} /\ call[p].k \in Keys
      /\ call[p] # NoCall /\ call[p] \in Calls /\ ~SecondLegOf(tx[p], call[p])
  BY <1>1, PgasGoal
<1>3. tx[p].prev \in Blocks /\ tx[p].next \in Blocks /\ tx[p].reads \in Seq(Blocks)
  BY <1>1, <1>2, WalkingFacts
<1> DEFINE k == call[p].k
<1>4. PICK x \in Blocks : x = tx[p].next
  BY <1>3
<1>5. PICK node \in Nodes : node = heap[x]
  BY <1>0 DEF Memories
<1>6. node.val \in Int /\ node.next \in Pointers /\ k \in Int
  BY <1>2, KeyFacts DEF Nodes
<1>7. Live(heap, Lists, tx[p], call[p], mem[p])
  BY <1>0, <1>1, <1>2
<1>8. /\ Bucket(k) \in Buckets /\ tx[p].prev \in Lists[Bucket(k)] /\ heap[tx[p].prev].val < k
      /\ tx[p].prev \in Locks(tx[p]) /\ tx[p].word = heap[tx[p].prev] /\ heap[tx[p].prev].next = x
  <2>1. Before(heap, Lists, tx[p], tx[p].prev, k) /\ tx[p].word = heap[tx[p].prev] /\ tx[p].next = tx[p].word.next
    BY <1>1, <1>2, <1>7 DEF Live, Position
  <2> QED
    BY <2>1, <1>2, <1>4, KeyFacts DEF Before
<1>9. x \in Lists[Bucket(k)]
  BY <1>0, <1>2, <1>8, PlaceFacts
<1>10. Guarded(heap, Lists, Locks(tx[p]) \cup {x}, Locks(tx[p]) \cup {x})
  <2>1. Guarded(heap, Lists, Locks(tx[p]), Locks(tx[p]))
    BY <1>1, <1>7 DEF Live, Wanted
  <2> QED
    BY <2>1, <1>0, <1>8, GuardNext
<1>11. PICK r \in Seq(Blocks) : r = Append(tx[p].reads, x) /\ ToSet(r) = ToSet(tx[p].reads) \cup {x}
  BY ZenonT(40), <1>3, ToSetAppend
<1>12. tx' = [tx EXCEPT ![p] =
          IF node.val < k
          THEN [tx[p] EXCEPT !.reads = r, !.prev = x, !.word = node, !.next = node.next]
          ELSE [tx[p] EXCEPT !.reads = r, !.next1 = node.next, !.sum = node.val, !.pc = "stop"]]
  <2>1. PICK t : t = [tx[p] EXCEPT !.reads = Append(@, tx[p].next)]
    OBVIOUS
  <2>2. t = [tx[p] EXCEPT !.reads = r]
    BY <2>1, <1>4, <1>11
  <2>3. t.next = x /\ heap[t.next] = node
    BY <2>2, <1>0, <1>4, <1>5 DEF Attempts
  <2>4. tx' = [tx EXCEPT ![p] =
          IF heap[t.next].val < k
          THEN [t EXCEPT !.prev = t.next, !.word = heap[t.next], !.next = heap[t.next].next]
          ELSE [t EXCEPT !.next1 = heap[t.next].next, !.sum = heap[t.next].val, !.pc = "stop"]]
    BY <2>1 DEF LoadNode
  <2>5. tx' = [tx EXCEPT ![p] =
          IF node.val < k
          THEN [t EXCEPT !.prev = x, !.word = node, !.next = node.next]
          ELSE [t EXCEPT !.next1 = node.next, !.sum = node.val, !.pc = "stop"]]
    BY <2>3, <2>4, Zenon
  <2> QED
    BY <2>2, <2>5, <1>0 DEF Attempts
<1>13. ASSUME node.val < k, NEW t2,
              t2 = [tx[p] EXCEPT !.reads = r, !.prev = x, !.word = node, !.next = node.next]
       PROVE  /\ t2 \in Attempts /\ Form(t2, call[p], mem[p], left)
              /\ Live(heap, Lists, t2, call[p], mem[p])
  <2>1. t2 \in Attempts
    BY <1>0, <1>6, <1>13 DEF Attempts, Pointers
  <2>2. /\ t2.pc = "node" /\ t2.prev = x /\ t2.next = node.next /\ t2.word = node /\ t2.leg = tx[p].leg
        /\ t2.ws = tx[p].ws /\ t2.prev1 = tx[p].prev1 /\ t2.next1 = tx[p].next1 /\ t2.lost = tx[p].lost
        /\ Walking(t2) /\ Locks(t2) = Locks(tx[p]) \cup {x} /\ Goal(t2, call[p]) = k
    BY <1>0, <1>1, <1>2, <1>11, <1>13 DEF Attempts, Walking, Locks, Goal
  <2>3. node.next \in Blocks
    BY <1>0, <1>2, <1>5, <1>9, <1>13, PlaceFacts
  <2>4. Form(t2, call[p], mem[p], left)
    BY <1>0, <1>1, <1>2, <1>3, <2>1, <2>2, <2>3, WalkForm
  <2>5. Guarded(heap, Lists, Wanted(t2), Locks(t2))
    BY <1>10, <2>2 DEF Wanted
  <2>6. Position(heap, Lists, t2, call[p])
    BY <2>2, <1>5, <1>9, <1>13 DEF Position, Before
  <2>7. Writes(heap, Lists, t2, call[p], mem[p])
    BY <1>2, <1>7, <2>2, WalkWrites DEF Live
  <2> QED
    BY <2>1, <2>4, <2>5, <2>6, <2>7 DEF Live
<1>14. ASSUME ~(node.val < k), NEW t2,
              t2 = [tx[p] EXCEPT !.reads = r, !.next1 = node.next, !.sum = node.val, !.pc = "stop"]
       PROVE  /\ t2 \in Attempts /\ Form(t2, call[p], mem[p], left)
              /\ Live(heap, Lists, t2, call[p], mem[p])
  <2>1. t2 \in Attempts
    BY <1>0, <1>6, <1>14 DEF Attempts
  <2>2. /\ t2.pc = "stop" /\ t2.prev = tx[p].prev /\ t2.next = x /\ t2.word = tx[p].word /\ t2.leg = tx[p].leg
        /\ t2.ws = tx[p].ws /\ t2.next1 = node.next /\ t2.sum = node.val
        /\ t2.lost = tx[p].lost
        /\ Walking(t2) /\ Locks(t2) = Locks(tx[p]) \cup {x} /\ Goal(t2, call[p]) = k
    BY <1>0, <1>1, <1>2, <1>4, <1>11, <1>14 DEF Attempts, Walking, Locks, Goal
  <2>3. t2.sum \in Keys => x \in Spare
    BY <2>2, <1>0, <1>5, <1>8, NextSpare
  <2>4. Form(t2, call[p], mem[p], left)
    BY <1>0, <1>1, <1>2, <1>3, <2>1, <2>2, <2>3, WalkForm
  <2>5. Guarded(heap, Lists, Wanted(t2), Locks(t2))
    BY <1>10, <2>2 DEF Wanted
  <2>6. Place(heap, Lists, t2, tx[p].prev, x, k)
    BY <2>2, <1>5, <1>6, <1>8, <1>14 DEF Place, Before
  <2>7. Position(heap, Lists, t2, call[p])
    BY <2>2, <2>6, <1>4, <1>5, <1>8 DEF Position, Place
  <2>8. Writes(heap, Lists, t2, call[p], mem[p])
    BY <1>2, <2>2 DEF Writes, SecondLegOf
  <2> QED
    BY <2>1, <2>4, <2>5, <2>7, <2>8 DEF Live
<1>15. \E t2 \in Attempts : /\ tx' = [tx EXCEPT ![p] = t2] /\ Form(t2, call[p], mem[p], left)
                            /\ Live(heap, Lists, t2, call[p], mem[p])
  <2>1. CASE node.val < k
    BY <2>1, <1>12, <1>13, Zenon
  <2>2. CASE ~(node.val < k)
    BY <2>2, <1>12, <1>14, Zenon
  <2> QED
    BY <2>1, <2>2
<1>16. UNCHANGED <<driver, early, heap, free, left, call, n, ans, last, redo>> /\ mem' = [mem EXCEPT ![p] = mem[p]]
  BY <1>0 DEF LoadNode
<1> QED
  BY <1>0, <1>2, <1>15, <1>16, LocalStep

-----------------------------------------------------------------------------
(* The ends of the walks.                                                    *)

\* A block that holds a value of the set is a block for nodes.
LEMMA KeyIsSpare ==
  ASSUME NEW h \in Memories, NEW s, Shape(h, s), NEW a \in Blocks, h[a].val \in Keys
  PROVE  a \in Spare
<1>1. \A b \in Buckets : h[MinNode(b)].val = ValMin /\ h[MaxNode(b)].val = ValMax
  BY ListFacts
<1>2. a \notin Ends
  BY <1>1, KeyFacts DEF Ends
<1> QED
  BY <1>2 DEF Blocks

LEMMA DoneForm ==
  ASSUME NEW t \in Attempts, NEW t2 \in Attempts, NEW c, NEW m, NEW m2, NEW l, Form(t, c, m, l),
         Walking(t), t2.pc = "commit", t2.leg = t.leg
  PROVE  Form(t2, c, m2, l)
<1>1. t.pc # "idle" /\ ~Walking(t2)
  BY DEF Walking
<1>2. c # NoCall
  BY <1>1 DEF Form
<1> QED
  BY <1>1, <1>2 DEF Form

LEMMA DoneLive ==
  ASSUME NEW h, NEW s, NEW t2, NEW c, NEW m, t2.pc = "commit",
         Guarded(h, s, Locks(t2), Locks(t2)),
         c.name # "snapshot" => Place(h, s, t2, t2.prev, t2.next, Goal(t2, c)),
         SecondLegOf(t2, c) => Unlinks(h, s, t2, t2.prev1, t2.next1, c.k),
         Ready(h, t2, c, m)
  PROVE  Live(h, s, t2, c, m)
<1>1. Wanted(t2) = Locks(t2)
  BY DEF Wanted
<1>2. Position(h, s, t2, c)
  BY DEF Position
<1>3. Writes(h, s, t2, c, m)
  BY DEF Writes, Walking
<1> QED
  BY <1>1, <1>2, <1>3 DEF Live

\* Where the walk of the shared build has stopped
LEMMA StoppedFacts ==
  ASSUME IInv, NEW p \in Procs, NEW name, name # "snapshot", Stopped(p, name)
  PROVE  /\ Walking(tx[p]) /\ tx[p].pc = "look" /\ call[p].name = name /\ ~Pgas
         /\ call[p] # NoCall /\ call[p] \in Calls /\ call[p].k \in Keys /\ call[p].k2 \in Keys
         /\ tx[p].prev \in Blocks /\ tx[p].next \in Blocks
         /\ tx[p].reads \in Seq(Blocks) /\ tx[p].ws \in Seq(Stores)
         /\ Target(p) = Goal(tx[p], call[p]) /\ Goal(tx[p], call[p]) \in Keys
         /\ Found(p) <=> heap[tx[p].next].val = Goal(tx[p], call[p])
         /\ Found(p) => tx[p].next \in Spare
         /\ ~SecondLegOf(tx[p], call[p]) => tx[p].ws = <<>> /\ mem[p] = NoMem
         /\ ~tx[p].lost => /\ Live(heap, Lists, tx[p], call[p], mem[p])
                           /\ Guarded(heap, Lists, Locks(tx[p]), Locks(tx[p]))
                           /\ Place(heap, Lists, tx[p], tx[p].prev, tx[p].next, Goal(tx[p], call[p]))
<1>0. /\ heap \in Memories /\ Lists \in Tables /\ Shape(heap, Lists) /\ Form(tx[p], call[p], mem[p], left)
      /\ call[p] # NoCall /\ ~tx[p].lost => Live(heap, Lists, tx[p], call[p], mem[p])
  BY StepFacts
<1>1. Walking(tx[p]) /\ tx[p].pc = "look" /\ call[p].name = name
  BY DEF Stopped, Walking
<1>2. ~Pgas
  BY <1>0, <1>1 DEF Form
<1>3. /\ call[p] # NoCall /\ call[p] \in Calls /\ tx[p].prev \in Blocks /\ tx[p].next \in Blocks
      /\ tx[p].reads \in Seq(Blocks) /\ tx[p].ws \in Seq(Stores)
      /\ ~SecondLegOf(tx[p], call[p]) => tx[p].ws = <<>> /\ mem[p] = NoMem
  BY <1>1, WalkingFacts DEF Quiet
<1>4. call[p].k \in Keys /\ call[p].k2 \in Keys /\ Goal(tx[p], call[p]) \in Keys
  BY <1>3, CallFacts, GoalType
<1>5. Target(p) = Goal(tx[p], call[p]) /\ (Found(p) <=> heap[tx[p].next].val = Goal(tx[p], call[p]))
  BY DEF Target, Goal, Found, Value
<1>6. Found(p) => tx[p].next \in Spare
  BY <1>0, <1>3, <1>4, <1>5, KeyIsSpare
<1>7. ASSUME ~tx[p].lost
      PROVE  /\ Live(heap, Lists, tx[p], call[p], mem[p])
             /\ Guarded(heap, Lists, Locks(tx[p]), Locks(tx[p]))
             /\ Place(heap, Lists, tx[p], tx[p].prev, tx[p].next, Goal(tx[p], call[p]))
  <2>1. Live(heap, Lists, tx[p], call[p], mem[p])
    BY <1>0, <1>3, <1>7
  <2>2. Guarded(heap, Lists, Locks(tx[p]), Locks(tx[p]))
    BY <2>1, <1>1 DEF Live, Wanted
  <2>3. Before(heap, Lists, tx[p], tx[p].prev, Goal(tx[p], call[p])) /\ tx[p].next = heap[tx[p].prev].next
    BY <2>1, <1>1 DEF Live, Position
  <2>4. heap[tx[p].next].val >= Goal(tx[p], call[p])
    BY <1>5 DEF Stopped, Value
  <2>5. heap[tx[p].next].val \in Int /\ Goal(tx[p], call[p]) \in Int
    BY <1>0, <1>3, <1>4, KeyFacts DEF Memories, Nodes
  <2>6. Goal(tx[p], call[p]) =< heap[tx[p].next].val
    BY <2>4, <2>5
  <2> QED
    BY <2>1, <2>2, <2>3, <2>6 DEF Place
<1> QED
  BY <1>1, <1>2, <1>3, <1>4, <1>5, <1>6, <1>7

\* An operation that ends without writing anything (more)
LEMMA StepReturn ==
  ASSUME IInv, NEW p \in Procs, NEW name, name # "snapshot", Stopped(p, name), NEW r \in Int,
         tx' = [tx EXCEPT ![p] = Done(tx[p], r)],
         UNCHANGED <<driver, early, heap, free, left, call, mem, n, ans, last, redo>>,
         NEW t2, t2 = Done(tx[p], r),
         Live(heap, Lists, tx[p], call[p], mem[p]) => Ready(heap, t2, call[p], mem[p])
  PROVE  IInv' /\ Lists' = Lists
<1>0. /\ heap \in Memories /\ Lists \in Tables /\ Shape(heap, Lists)
      /\ tx[p] \in Attempts /\ mem[p] \in MemInfos /\ Form(tx[p], call[p], mem[p], left)
      /\ mem = [mem EXCEPT ![p] = mem[p]]
  BY StepFacts
<1>1. /\ Walking(tx[p]) /\ tx[p].pc = "look" /\ call[p].name = name
      /\ call[p] # NoCall /\ call[p] \in Calls
      /\ ~tx[p].lost => /\ Live(heap, Lists, tx[p], call[p], mem[p])
                        /\ Guarded(heap, Lists, Locks(tx[p]), Locks(tx[p]))
                        /\ Place(heap, Lists, tx[p], tx[p].prev, tx[p].next, Goal(tx[p], call[p]))
  BY StoppedFacts
<1>2. t2 \in Attempts
  BY <1>0 DEF Attempts, Done
<1>3. /\ t2.pc = "commit" /\ t2.leg = tx[p].leg /\ t2.prev = tx[p].prev /\ t2.next = tx[p].next
      /\ t2.prev1 = tx[p].prev1 /\ t2.next1 = tx[p].next1 /\ t2.lost = tx[p].lost
      /\ t2.reads = tx[p].reads /\ t2.ws = tx[p].ws
  BY <1>0 DEF Attempts, Done
<1>4. Form(t2, call[p], mem[p], left)
  BY <1>0, <1>1, <1>2, <1>3, DoneForm
<1>5. ASSUME ~t2.lost
      PROVE  Live(heap, Lists, t2, call[p], mem[p])
  <2>1. /\ Live(heap, Lists, tx[p], call[p], mem[p]) /\ Guarded(heap, Lists, Locks(tx[p]), Locks(tx[p]))
        /\ Place(heap, Lists, tx[p], tx[p].prev, tx[p].next, Goal(tx[p], call[p]))
    BY <1>1, <1>3, <1>5
  <2>2. Locks(t2) = Locks(tx[p]) /\ Goal(t2, call[p]) = Goal(tx[p], call[p])
    BY <1>3 DEF Locks, Goal
  <2>3. Place(heap, Lists, t2, t2.prev, t2.next, Goal(t2, call[p]))
    BY <2>1, <2>2, <1>3 DEF Place, Before
  <2>4. SecondLegOf(t2, call[p]) => Unlinks(heap, Lists, t2, t2.prev1, t2.next1, call[p].k)
    BY <2>1, <2>2, <1>3 DEF Live, Writes, SecondLegOf, Unlinks, Place, Before
  <2> QED
    BY <2>1, <2>2, <2>3, <2>4, <1>3, DoneLive
<1> QED
  BY <1>0, <1>1, <1>2, <1>4, <1>5, LocalStep

LEMMA StepContains ==
  ASSUME IInv, NEW p \in Procs, SetContains(p), UNCHANGED <<driver, early, left, call, n, ans, last, redo>>
  PROVE  IInv' /\ Lists' = Lists
<1>1. Stopped(p, "contains") /\ UNCHANGED <<heap, free, mem>>
  BY DEF SetContains
<1>2. PICK r \in Int : r = IF Found(p) THEN 1 ELSE 0
  OBVIOUS
<1>3. PICK t2 : t2 = Done(tx[p], r)
  OBVIOUS
<1>4. tx' = [tx EXCEPT ![p] = Done(tx[p], r)]
  BY <1>2, Zenon DEF SetContains
<1>5. t2.res = r /\ t2.ws = tx[p].ws /\ t2.next = tx[p].next /\ t2.leg = tx[p].leg
  BY <1>3, StepFacts DEF Attempts, Done
<1>6. /\ call[p].name = "contains" /\ ~SecondLegOf(t2, call[p]) /\ Quiet(t2, mem[p])
      /\ Found(p) <=> heap[t2.next].val = Goal(t2, call[p])
  BY <1>1, <1>5, StoppedFacts DEF SecondLegOf, Quiet, Goal
<1>7. Ready(heap, t2, call[p], mem[p])
  BY <1>2, <1>5, <1>6 DEF Ready
<1> QED
  BY <1>1, <1>3, <1>4, <1>7, StepReturn

LEMMA AppendOne ==
  ASSUME NEW e, NEW e2
  PROVE  Append(<<>>, e) = <<e>> /\ Append(<<e>>, e2) = <<e, e2>>
<1> DEFINE S == {e, e2}
<1>1. <<>> \in Seq(S) /\ Len(<<>>) = 0 /\ <<e>> \in Seq(S) /\ Len(<<e>>) = 1 /\ <<e, e2>> \in Seq(S)
  OBVIOUS
<1>2. Append(<<>>, e) = <<e>>
  BY <1>1
<1>3. PICK s, t : s = Append(<<e>>, e2) /\ t = <<e, e2>>
  OBVIOUS
<1>4. s \in Seq(S) /\ Len(s) = 2 /\ s[1] = e /\ s[2] = e2
  BY <1>1, <1>3
<1>5. t \in Seq(S) /\ Len(t) = 2 /\ t[1] = e /\ t[2] = e2
  BY <1>3
<1>6. \A i \in 1 .. 2 : i = 1 \/ i = 2
  OBVIOUS
<1>7. s = t
  BY <1>4, <1>5, <1>6, SeqEqual
<1> QED
  BY <1>2, <1>3, <1>7

\* A new block is filled, and its pointer stored in prev.
LEMMA StepInsert ==
  ASSUME IInv, NEW p \in Procs, NEW name \in {"add", "move_naive"}, Stopped(p, name), ~Found(p),
         name = "move_naive" => tx[p].leg = 2,
         Insert(p, tx[p].prev, tx[p].next, Done(tx[p], 1)),
         UNCHANGED <<driver, early, left, call, n, ans, last, redo>>
  PROVE  IInv' /\ Lists' = Lists
<1>0. /\ Typed /\ heap \in Memories /\ Lists \in Tables /\ Shape(heap, Lists) /\ Memory(Lists, free, mem)
      /\ tx[p] \in Attempts /\ mem[p] \in MemInfos /\ Form(tx[p], call[p], mem[p], left)
  BY StepFacts
<1>1. /\ Walking(tx[p]) /\ tx[p].pc = "look" /\ call[p].name = name /\ ~Pgas
      /\ call[p] # NoCall /\ call[p] \in Calls
      /\ tx[p].prev \in Blocks /\ tx[p].next \in Blocks
      /\ tx[p].reads \in Seq(Blocks) /\ tx[p].ws \in Seq(Stores)
      /\ Target(p) = Goal(tx[p], call[p]) /\ Goal(tx[p], call[p]) \in Keys
      /\ heap[tx[p].next].val # Goal(tx[p], call[p])
      /\ ~SecondLegOf(tx[p], call[p]) => tx[p].ws = <<>> /\ mem[p] = NoMem
      /\ ~tx[p].lost => /\ Live(heap, Lists, tx[p], call[p], mem[p])
                        /\ Place(heap, Lists, tx[p], tx[p].prev, tx[p].next, Goal(tx[p], call[p]))
  BY StoppedFacts
<1> DEFINE k == Goal(tx[p], call[p])
<1>2. PICK b \in free : /\ heap' = NewNode(b, Target(p), tx[p].next) /\ free' = free \ {b}
                        /\ mem' = [mem EXCEPT ![p].new = @ \cup {b}]
                        /\ tx' = [tx EXCEPT ![p] = [Done(tx[p], 1) EXCEPT !.ws = Append(@, Entry(tx[p].prev, b))]]
  BY Zenon DEF Insert
<1>3. b \in Spare /\ b \in Blocks /\ ~Linked(Lists, b) /\ \A q \in Procs : b \notin mem[q].new
  BY <1>0, BlockFacts DEF Memory
<1>4. PICK e \in Stores : e = Entry(tx[p].prev, b)
  BY <1>1, <1>3 DEF Entry, Stores
<1>5. PICK node \in Nodes : node = [val |-> k, next |-> tx[p].next]
  BY <1>1 DEF Nodes, Values, Pointers
<1>6. PICK w \in Seq(Stores) : w = Append(tx[p].ws, e)
  BY <1>1, <1>4, ToSetAppend
<1>7. PICK t2 : t2 = [tx[p] EXCEPT !.res = 1, !.pc = "commit", !.reads = tx[p].reads, !.ws = w]
  OBVIOUS
<1>8. [Done(tx[p], 1) EXCEPT !.ws = Append(@, Entry(tx[p].prev, b))] = t2
  BY <1>0, <1>4, <1>6, <1>7 DEF Done, Attempts
<1>9. /\ t2 \in Attempts
      /\ t2.pc = "commit" /\ t2.leg = tx[p].leg /\ t2.prev = tx[p].prev /\ t2.next = tx[p].next
      /\ t2.prev1 = tx[p].prev1 /\ t2.next1 = tx[p].next1 /\ t2.lost = tx[p].lost
      /\ t2.reads = tx[p].reads /\ t2.ws = w /\ t2.res = 1
  <2>1. PICK t, r, x : t = tx[p] /\ r = tx[p].reads /\ x = 1
    OBVIOUS
  <2>2. t \in Attempts /\ r \in Seq(Blocks) /\ x \in Int /\ t2 = [t EXCEPT !.res = x, !.pc = "commit", !.reads = r, !.ws = w]
    BY <2>1, <1>0, <1>1, <1>7
  <2>3. /\ t2 \in Attempts
        /\ t2.pc = "commit" /\ t2.leg = t.leg /\ t2.prev = t.prev /\ t2.next = t.next
        /\ t2.prev1 = t.prev1 /\ t2.next1 = t.next1 /\ t2.lost = t.lost
        /\ t2.reads = r /\ t2.ws = w /\ t2.res = x
    BY <2>2, <1>6 DEF Attempts
  <2> QED
    BY <2>1, <2>3
<1>10. PICK m2 : m2 = [mem[p] EXCEPT !.new = @ \cup {b}]
  OBVIOUS
<1>11. m2 \in MemInfos /\ m2.new = mem[p].new \cup {b} /\ m2.gone = mem[p].gone
  BY <1>0, <1>3, <1>10 DEF MemInfos
<1>12. tx' = [tx EXCEPT ![p] = t2]
  BY <1>2, <1>8
<1>13. mem' = [mem EXCEPT ![p] = m2]
  BY <1>2, <1>10
<1>14. heap' = [heap EXCEPT ![b] = node]
  BY <1>1, <1>2, <1>5 DEF NewNode
<1>15. /\ t2.pc = "commit" /\ t2.leg = tx[p].leg /\ t2.prev = tx[p].prev /\ t2.next = tx[p].next
       /\ t2.prev1 = tx[p].prev1 /\ t2.next1 = tx[p].next1 /\ t2.lost = tx[p].lost
       /\ t2.reads = tx[p].reads /\ t2.ws = w /\ t2.res = 1
  BY <1>9
<1>16. Form(t2, call[p], m2, left)
  BY <1>0, <1>1, <1>9, DoneForm
<1>17. ASSUME ~t2.lost
       PROVE  Live([heap EXCEPT ![b] = node], Lists, t2, call[p], m2)
  <2>1. PICK h : h = [heap EXCEPT ![b] = node]
    OBVIOUS
  <2>2. h \in Memories /\ h[b] = node /\ \A a \in Blocks : a # b => h[a] = heap[a]
    BY <1>0, <1>3, <2>1 DEF Memories
  <2>3. Live(h, Lists, tx[p], call[p], mem[p])
    <3>1. Live(heap, Lists, tx[p], call[p], mem[p])
      BY <1>1, <1>15, <1>17
    <3>2. \A a \in Blocks : Linked(Lists, a) => h[a] = heap[a]
      BY <1>3, <2>2
    <3>3. \A a \in mem[p].new : h[a] = heap[a]
      BY <1>0, <1>3, <2>2, BlockFacts DEF MemInfos
    <3>4. call[p].name = "snapshot" => tx[p].leg =< NumBuckets
      BY <1>0 DEF Form
    <3> QED
      BY <3>1, <3>2, <3>3, <3>4, <2>2, <1>0, <1>1, LiveSame
  <2>4. Locks(t2) = Locks(tx[p]) /\ Goal(t2, call[p]) = k
    BY <1>15 DEF Locks, Goal
  <2>5. Guarded(h, Lists, Locks(t2), Locks(t2))
    BY <2>3, <2>4, <1>1 DEF Live, Wanted
  <2>6. tx[p].next # b /\ tx[p].prev # b
    <3>1. /\ tx[p].prev \in Lists[Bucket(k)] /\ heap[tx[p].prev].val < k
          /\ heap[tx[p].prev].next = tx[p].next
      BY <1>1, <1>15, <1>17 DEF Place, Before
    <3>2. tx[p].next \in Lists[Bucket(k)] /\ Bucket(k) \in Buckets
      BY <3>1, <1>0, <1>1, PlaceFacts
    <3> QED
      BY <3>1, <3>2, <1>3 DEF Linked
  <2>7. Place(h, Lists, t2, t2.prev, t2.next, Goal(t2, call[p]))
    BY <1>1, <1>15, <1>17, <2>2, <2>4, <2>6 DEF Place, Before
  <2>8. SecondLegOf(t2, call[p]) => Unlinks(h, Lists, t2, t2.prev1, t2.next1, call[p].k)
    BY <2>3, <2>4, <1>15 DEF Live, Writes, SecondLegOf, Unlinks, Place, Before
  <2>9. h[t2.next].val # Goal(t2, call[p]) /\ Filled(h, t2, b, k) /\ b \in m2.new
    BY <2>2, <2>4, <2>6, <1>1, <1>3, <1>5, <1>11, <1>15 DEF Filled
  <2>10. Ready(h, t2, call[p], m2)
    <3>1. CASE name = "add"
      <4>1. ~SecondLegOf(tx[p], call[p]) /\ ~SecondLegOf(t2, call[p]) /\ k = call[p].k
        BY <3>1, <1>0, <1>1 DEF SecondLegOf, Form, Goal
      <4>2. w = <<e>>
        BY <4>1, <1>1, <1>6, AppendOne
      <4>5. m2 = [new |-> {b}, gone |-> {}]
        BY <4>1, <1>1, <1>11 DEF NoMem, MemInfos
      <4>3. WritesLink(h, t2, m2, call[p].k)
        BY <4>1, <4>2, <4>5, <2>9, <1>1, <1>4, <1>15 DEF WritesLink, EntryOf
      <4> QED
        BY <3>1, <4>1, <4>3, <2>9, <1>1, <1>15 DEF Ready
    <3>2. CASE name = "move_naive"
      <4>1. SecondLegOf(tx[p], call[p]) /\ SecondLegOf(t2, call[p]) /\ k = call[p].k2
        BY <3>2, <1>1, <1>15 DEF SecondLegOf, Goal
      <4>2. WritesUnlink(h, tx[p], mem[p], tx[p].prev1, tx[p].next1)
        BY <4>1, <2>3, <1>1 DEF Live, Writes
      <4>3. tx[p].ws = <<Entry(tx[p].prev1, h[tx[p].next1].next)>> /\ mem[p] = [new |-> {}, gone |-> {tx[p].next1}]
        BY <4>2, <1>1 DEF WritesUnlink, EntryOf
      <4>4. w = <<Entry(tx[p].prev1, h[tx[p].next1].next), e>> /\ m2 = [new |-> {b}, gone |-> {tx[p].next1}]
        <5>1. PICK f : f = Entry(tx[p].prev1, h[tx[p].next1].next)
          OBVIOUS
        <5>2. w = <<f, e>>
          BY <5>1, <4>3, <1>6, AppendOne
        <5>3. m2.new = {b} /\ m2.gone = {tx[p].next1}
          BY <4>3, <1>11
        <5>4. m2 = [new |-> {b}, gone |-> {tx[p].next1}]
          BY <5>3, <1>11 DEF MemInfos
        <5> QED
          BY <5>1, <5>2, <5>4
      <4>5. WritesMove(h, t2, m2, call[p].k2)
        BY <4>1, <4>4, <2>9, <1>4, <1>15 DEF WritesMove
      <4> QED
        BY <3>2, <4>1, <4>5, <2>9, <1>1, <1>15 DEF Ready, SecondLegOf
    <3> QED
      BY <3>1, <3>2
  <2>11. Live(h, Lists, t2, call[p], m2)
    BY <2>5, <2>7, <2>8, <2>10, <1>15, DoneLive
  <2> QED
    BY <2>1, <2>11
<1>18. b \in free /\ node \in Nodes /\ free' = free \ {b} /\ UNCHANGED <<driver, early, left, call, n, ans, last, redo>>
  BY <1>2, <1>5
<1> QED
  BY <1>1, <1>9, <1>11, <1>12, <1>13, <1>14, <1>16, <1>17, <1>18, FillStep

\* What the attempt has when it reads the pointer of the block it removes
LEMMA UnlinkFacts ==
  ASSUME IInv, NEW p \in Procs, NEW name \in {"remove", "move_naive"}, Stopped(p, name), Found(p),
         ~SecondLegOf(tx[p], call[p]), MayLoad(p, tx[p].next)
  PROVE  /\ ~tx[p].lost /\ Word(p, tx[p].next) = heap[tx[p].next].next /\ Word(p, tx[p].next) \in Blocks
         /\ \E r \in Seq(Blocks) : Locking(p, tx[p].next) = r /\ ToSet(r) = Locks(tx[p]) \cup {tx[p].next}
         /\ Guarded(heap, Lists, Locks(tx[p]) \cup {tx[p].next}, Locks(tx[p]) \cup {tx[p].next})
<1>0. Typed /\ heap \in Memories /\ Lists \in Tables /\ Shape(heap, Lists)
  BY StepFacts
<1>1. /\ call[p] # NoCall /\ call[p] \in Calls
      /\ tx[p].next \in Spare /\ tx[p].next \in Blocks /\ tx[p].reads \in Seq(Blocks)
      /\ Goal(tx[p], call[p]) \in Keys /\ tx[p].ws = <<>>
      /\ ~tx[p].lost => /\ Guarded(heap, Lists, Locks(tx[p]), Locks(tx[p]))
                        /\ Place(heap, Lists, tx[p], tx[p].prev, tx[p].next, Goal(tx[p], call[p]))
  BY StoppedFacts
<1> DEFINE k == Goal(tx[p], call[p])
<1>2. ~Owns(p, tx[p].next)
  BY <1>1 DEF Owns
<1>3. /\ ~tx[p].lost /\ Word(p, tx[p].next) = heap[tx[p].next].next
      /\ Locking(p, tx[p].next) = Append(tx[p].reads, tx[p].next)
  BY <1>0, <1>1, <1>2, WordFromMemory
<1>4. \E r \in Seq(Blocks) : Locking(p, tx[p].next) = r /\ ToSet(r) = Locks(tx[p]) \cup {tx[p].next}
  <2>1. PICK r : r = Append(tx[p].reads, tx[p].next)
    OBVIOUS
  <2>2. r \in Seq(Blocks) /\ ToSet(r) = ToSet(tx[p].reads) \cup {tx[p].next}
    BY <2>1, <1>1, ToSetAppend
  <2> QED
    BY <2>1, <2>2, <1>3 DEF Locks
<1>5. /\ tx[p].prev \in Lists[Bucket(k)] /\ heap[tx[p].prev].val < k /\ tx[p].prev \in Locks(tx[p])
      /\ heap[tx[p].prev].next = tx[p].next /\ Bucket(k) \in Buckets
  BY <1>1, <1>3, KeyFacts DEF Place, Before
<1>6. tx[p].next \in Lists[Bucket(k)] /\ tx[p].next # MaxNode(Bucket(k))
  BY <1>0, <1>1, <1>5, PlaceFacts, BlockFacts
<1>7. heap[tx[p].next].next \in Blocks
  BY <1>0, <1>5, <1>6, NextLinked
<1>8. Guarded(heap, Lists, Locks(tx[p]) \cup {tx[p].next}, Locks(tx[p]) \cup {tx[p].next})
  <2>1. PICK l, g : l = Lists /\ g = Locks(tx[p])
    OBVIOUS
  <2>2. PICK b \in Buckets : b = Bucket(k)
    BY <1>5
  <2>3. PICK a \in l[b] : a = tx[p].prev
    BY <1>5, <2>1, <2>2
  <2>4. Shape(heap, l) /\ Guarded(heap, l, g, g) /\ a \in g
    BY <1>0, <1>1, <1>3, <1>5, <2>1, <2>3
  <2>5. heap[a].next = tx[p].next /\ heap[a].next \in Blocks
    BY <1>1, <1>5, <2>3
  <2>6. Guarded(heap, l, g \cup {heap[a].next}, g \cup {heap[a].next})
    BY <1>0, <2>4, <2>5, GuardNext
  <2> QED
    BY <2>1, <2>5, <2>6
<1> QED
  BY <1>3, <1>4, <1>7, <1>8

LEMMA StepAdd ==
  ASSUME IInv, NEW p \in Procs, SetAdd(p), UNCHANGED <<driver, early, left, call, n, ans, last, redo>>
  PROVE  IInv' /\ Lists' = Lists
<1>1. Stopped(p, "add")
  BY DEF SetAdd
<1>2. CASE Found(p)
  <2>1. tx' = [tx EXCEPT ![p] = Done(tx[p], 0)] /\ UNCHANGED <<heap, free, mem>>
    BY <1>2, Zenon DEF SetAdd
  <2>2. PICK t2 : t2 = Done(tx[p], 0)
    OBVIOUS
  <2>3. t2.res = 0 /\ t2.ws = tx[p].ws /\ t2.next = tx[p].next /\ t2.leg = tx[p].leg
    BY <2>2, StepFacts DEF Attempts, Done
  <2>4. /\ call[p].name = "add" /\ ~SecondLegOf(t2, call[p]) /\ Quiet(t2, mem[p])
        /\ heap[t2.next].val = Goal(t2, call[p])
    BY <1>1, <1>2, <2>3, StoppedFacts DEF SecondLegOf, Quiet, Goal
  <2>5. Ready(heap, t2, call[p], mem[p])
    BY <2>3, <2>4 DEF Ready
  <2>6. PICK r \in Int : r = 0
    OBVIOUS
  <2> QED
    BY <1>1, <2>1, <2>2, <2>5, <2>6, StepReturn
<1>3. CASE ~Found(p)
  <2>1. Insert(p, tx[p].prev, tx[p].next, Done(tx[p], 1))
    BY <1>3, Zenon DEF SetAdd
  <2> QED
    BY <1>1, <1>3, <2>1, StepInsert
<1> QED
  BY <1>2, <1>3

LEMMA StepRemove ==
  ASSUME IInv, NEW p \in Procs, SetRemove(p), UNCHANGED <<driver, early, left, call, n, ans, last, redo>>
  PROVE  IInv' /\ Lists' = Lists
<1>0. /\ Typed /\ heap \in Memories /\ Lists \in Tables /\ Shape(heap, Lists)
      /\ tx[p] \in Attempts /\ mem[p] \in MemInfos /\ Form(tx[p], call[p], mem[p], left)
  BY StepFacts
<1>1. Stopped(p, "remove") /\ UNCHANGED <<heap, free>>
  BY DEF SetRemove
<1>2. /\ Walking(tx[p]) /\ tx[p].pc = "look" /\ call[p].name = "remove" /\ ~Pgas
      /\ call[p] # NoCall /\ call[p] \in Calls /\ tx[p].prev \in Blocks
      /\ Found(p) <=> heap[tx[p].next].val = Goal(tx[p], call[p])
      /\ Found(p) => tx[p].next \in Spare
      /\ ~SecondLegOf(tx[p], call[p]) => tx[p].ws = <<>> /\ mem[p] = NoMem
      /\ ~tx[p].lost => Place(heap, Lists, tx[p], tx[p].prev, tx[p].next, Goal(tx[p], call[p]))
  BY <1>1, StoppedFacts
<1>3. ~SecondLegOf(tx[p], call[p])
  BY <1>2 DEF SecondLegOf
<1>4. CASE ~Found(p)
  <2>1. tx' = [tx EXCEPT ![p] = Done(tx[p], 0)] /\ UNCHANGED <<heap, free, mem>>
    BY <1>4, Zenon DEF SetRemove
  <2>2. PICK t2 : t2 = Done(tx[p], 0)
    OBVIOUS
  <2>3. t2.res = 0 /\ t2.ws = tx[p].ws /\ t2.next = tx[p].next /\ t2.leg = tx[p].leg
    BY <2>2, <1>0 DEF Attempts, Done
  <2>4. ~SecondLegOf(t2, call[p]) /\ Quiet(t2, mem[p]) /\ heap[t2.next].val # Goal(t2, call[p])
    BY <1>2, <1>3, <1>4, <2>3 DEF SecondLegOf, Quiet, Goal
  <2>5. Ready(heap, t2, call[p], mem[p])
    BY <2>3, <2>4, <1>2 DEF Ready
  <2>6. PICK r \in Int : r = 0
    OBVIOUS
  <2> QED
    BY <1>1, <2>1, <2>2, <2>5, <2>6, StepReturn
<1>5. CASE Found(p)
  <2>1. /\ MayLoad(p, tx[p].next) /\ mem' = [mem EXCEPT ![p].gone = @ \cup {tx[p].next}]
        /\ tx' = [tx EXCEPT ![p] = [Done(tx[p], 1) EXCEPT !.reads = Locking(p, tx[p].next),
                                      !.ws = Append(@, Entry(tx[p].prev, Word(p, tx[p].next)))]]
    BY <1>5, Zenon DEF SetRemove, Unlink, Freed
  <2>2. /\ ~tx[p].lost /\ Word(p, tx[p].next) = heap[tx[p].next].next /\ Word(p, tx[p].next) \in Blocks
        /\ \E r \in Seq(Blocks) : Locking(p, tx[p].next) = r /\ ToSet(r) = Locks(tx[p]) \cup {tx[p].next}
        /\ Guarded(heap, Lists, Locks(tx[p]) \cup {tx[p].next}, Locks(tx[p]) \cup {tx[p].next})
    BY <1>1, <1>3, <1>5, <2>1, UnlinkFacts
  <2>3. PICK r \in Seq(Blocks) : Locking(p, tx[p].next) = r /\ ToSet(r) = Locks(tx[p]) \cup {tx[p].next}
    BY <2>2
  <2>4. PICK e \in Stores : e = Entry(tx[p].prev, heap[tx[p].next].next) /\ e = Entry(tx[p].prev, Word(p, tx[p].next))
    BY <1>2, <2>2 DEF Entry, Stores
  <2>5. PICK w : w = Append(tx[p].ws, e)
    OBVIOUS
  <2>6. PICK t2 : t2 = [tx[p] EXCEPT !.res = 1, !.pc = "commit", !.reads = r, !.ws = w]
    OBVIOUS
  <2>7. w = <<e>> /\ w \in Seq(Stores)
    <3>1. w = <<e>>
      BY <1>2, <1>3, <2>5, AppendOne
    <3>2. tx[p].ws \in Seq(Stores)
      BY <1>0 DEF Attempts
    <3> QED
      BY <3>1, <3>2, <2>4, <2>5, ToSetAppend
  <2>8. /\ t2 \in Attempts
        /\ t2.pc = "commit" /\ t2.leg = tx[p].leg /\ t2.prev = tx[p].prev /\ t2.next = tx[p].next
        /\ t2.prev1 = tx[p].prev1 /\ t2.next1 = tx[p].next1 /\ t2.lost = tx[p].lost
        /\ t2.reads = r /\ t2.ws = w /\ t2.res = 1
    <3>1. PICK t, x : t = tx[p] /\ x = 1
      OBVIOUS
    <3>2. /\ t \in Attempts /\ x \in Int /\ w \in Seq(Stores)
          /\ t2 = [t EXCEPT !.res = x, !.pc = "commit", !.reads = r, !.ws = w]
      BY <3>1, <1>0, <2>6, <2>7
    <3>3. /\ t2 \in Attempts
          /\ t2.pc = "commit" /\ t2.leg = t.leg /\ t2.prev = t.prev /\ t2.next = t.next
          /\ t2.prev1 = t.prev1 /\ t2.next1 = t.next1 /\ t2.lost = t.lost
          /\ t2.reads = r /\ t2.ws = w /\ t2.res = x
      BY <2>3, <3>2 DEF Attempts
    <3> QED
      BY <3>1, <3>3
  <2>9. [Done(tx[p], 1) EXCEPT !.reads = r, !.ws = Append(@, e)] = t2
    BY <1>0, <2>5, <2>6 DEF Done, Attempts
  <2>10. tx' = [tx EXCEPT ![p] = t2]
    BY <2>1, <2>3, <2>4, <2>9, Zenon
  <2>11. PICK m2 : m2 = [mem[p] EXCEPT !.gone = @ \cup {tx[p].next}]
    OBVIOUS
  <2>12. m2 \in MemInfos /\ m2.new = mem[p].new /\ m2.gone = mem[p].gone \cup {tx[p].next}
    BY <1>0, <1>2, <1>5, <2>11 DEF MemInfos
  <2>13. m2.new = {} /\ m2.gone = {tx[p].next}
    BY <2>12, <1>2, <1>3 DEF NoMem
  <2>14. m2 = [new |-> {}, gone |-> {tx[p].next}]
    BY <2>12, <2>13 DEF MemInfos
  <2>15. mem' = [mem EXCEPT ![p] = m2]
    BY <2>1, <2>11
  <2>16. Form(t2, call[p], m2, left)
    BY <1>0, <1>2, <2>8, DoneForm
  <2>17. Live(heap, Lists, t2, call[p], m2)
    <3>1. Locks(t2) = Locks(tx[p]) \cup {tx[p].next} /\ Goal(t2, call[p]) = Goal(tx[p], call[p])
      BY <2>3, <2>8 DEF Locks, Goal
    <3>2. Guarded(heap, Lists, Locks(t2), Locks(t2))
      BY <2>2, <3>1
    <3>3. Place(heap, Lists, t2, t2.prev, t2.next, Goal(t2, call[p]))
      BY <3>1, <1>2, <2>2, <2>8 DEF Place, Before
    <3>4. ~SecondLegOf(t2, call[p])
      BY <1>2 DEF SecondLegOf
    <3>5. WritesUnlink(heap, t2, m2, t2.prev, t2.next)
      BY <1>2, <2>4, <2>7, <2>8, <2>14 DEF WritesUnlink, EntryOf
    <3>6. Ready(heap, t2, call[p], m2)
      BY <3>1, <3>4, <3>5, <1>2, <1>5, <2>8 DEF Ready
    <3> QED
      BY <3>2, <3>3, <3>4, <3>6, <2>8, DoneLive
  <2>18. UNCHANGED <<driver, early, heap, free, left, call, n, ans, last, redo>>
    BY <1>1
  <2> QED
    BY <1>2, <2>8, <2>10, <2>12, <2>15, <2>16, <2>17, <2>18, LocalStep
<1> QED
  BY <1>4, <1>5

\* val1 is found: the second walk of the move starts.
LEMMA StepSecondLeg ==
  ASSUME IInv, NEW p \in Procs, Stopped(p, "move_naive"), tx[p].leg = 1, Found(p),
         Unlink(p, tx[p].prev, tx[p].next, SecondLeg(p)), Freed(p, tx[p].next),
         UNCHANGED <<heap, free>>, UNCHANGED <<driver, early, left, call, n, ans, last, redo>>
  PROVE  IInv' /\ Lists' = Lists
<1>0. /\ Typed /\ heap \in Memories /\ Lists \in Tables /\ Shape(heap, Lists)
      /\ tx[p] \in Attempts /\ mem[p] \in MemInfos /\ Form(tx[p], call[p], mem[p], left)
  BY StepFacts
<1>1. /\ Walking(tx[p]) /\ tx[p].pc = "look" /\ call[p].name = "move_naive" /\ ~Pgas
      /\ call[p] # NoCall /\ call[p] \in Calls /\ tx[p].prev \in Blocks
      /\ call[p].k \in Keys /\ call[p].k2 \in Keys /\ Goal(tx[p], call[p]) = call[p].k
      /\ heap[tx[p].next].val = call[p].k /\ tx[p].next \in Spare /\ tx[p].next \in Blocks
      /\ ~SecondLegOf(tx[p], call[p]) => tx[p].ws = <<>> /\ mem[p] = NoMem
      /\ ~tx[p].lost => Place(heap, Lists, tx[p], tx[p].prev, tx[p].next, call[p].k)
  BY StoppedFacts DEF Goal
<1>2. ~SecondLegOf(tx[p], call[p])
  BY DEF SecondLegOf
<1>3. /\ MayLoad(p, tx[p].next) /\ mem' = [mem EXCEPT ![p].gone = @ \cup {tx[p].next}]
      /\ tx' = [tx EXCEPT ![p] = [SecondLeg(p) EXCEPT !.reads = Locking(p, tx[p].next),
                                    !.ws = Append(@, Entry(tx[p].prev, Word(p, tx[p].next)))]]
  BY Zenon DEF Unlink, Freed
<1>4. /\ ~tx[p].lost /\ Word(p, tx[p].next) = heap[tx[p].next].next /\ Word(p, tx[p].next) \in Blocks
      /\ \E r \in Seq(Blocks) : Locking(p, tx[p].next) = r /\ ToSet(r) = Locks(tx[p]) \cup {tx[p].next}
      /\ Guarded(heap, Lists, Locks(tx[p]) \cup {tx[p].next}, Locks(tx[p]) \cup {tx[p].next})
  BY <1>2, <1>3, UnlinkFacts
<1>5. PICK r \in Seq(Blocks) : Locking(p, tx[p].next) = r /\ ToSet(r) = Locks(tx[p]) \cup {tx[p].next}
  BY <1>4
<1>6. PICK e \in Stores : e = Entry(tx[p].prev, heap[tx[p].next].next) /\ e = Entry(tx[p].prev, Word(p, tx[p].next))
  BY <1>1, <1>4 DEF Entry, Stores
<1>7. PICK w : w = Append(tx[p].ws, e)
  OBVIOUS
<1>8. w = <<e>> /\ w \in Seq(Stores) /\ \A i \in DOMAIN w : w[i].next \in Blocks
  <2>1. w = <<e>>
    BY <1>1, <1>2, <1>7, AppendOne
  <2>2. tx[p].ws \in Seq(Stores)
    BY <1>0 DEF Attempts
  <2>3. e.next \in Blocks
    BY <1>4, <1>6 DEF Entry
  <2>4. \A i \in DOMAIN w : w[i] = e
    BY <2>1
  <2> QED
    BY <2>1, <2>2, <2>3, <2>4, <1>6, <1>7, ToSetAppend
<1>9. PICK b \in Buckets : b = Bucket(call[p].k2)
  BY <1>1, KeyFacts
<1>10. PICK a \in Blocks : a = MinNode(b)
  BY <1>9, BlockFacts
<1>11. PICK t2 : t2 = [tx[p] EXCEPT !.leg = 2, !.pc = "load", !.prev1 = tx[p].prev, !.next1 = tx[p].next,
                                    !.prev = a, !.next = Nil, !.reads = r, !.ws = w]
  OBVIOUS
<1>12. /\ t2 \in Attempts
       /\ t2.pc = "load" /\ t2.leg = 2 /\ t2.prev = a /\ t2.prev1 = tx[p].prev /\ t2.next1 = tx[p].next
       /\ t2.lost = tx[p].lost /\ t2.reads = r /\ t2.ws = w
  <2>1. PICK t, l, v, x : t = tx[p] /\ l = 2 /\ v = tx[p].prev /\ x = tx[p].next
    OBVIOUS
  <2>2. /\ t \in Attempts /\ l \in Nat \ {0} /\ v \in Pointers /\ x \in Pointers /\ a \in Pointers
        /\ Nil \in Pointers /\ w \in Seq(Stores)
        /\ t2 = [t EXCEPT !.leg = l, !.pc = "load", !.prev1 = v, !.next1 = x,
                          !.prev = a, !.next = Nil, !.reads = r, !.ws = w]
    BY <2>1, <1>0, <1>1, <1>8, <1>10, <1>11 DEF Pointers
  <2>3. /\ t2 \in Attempts
        /\ t2.pc = "load" /\ t2.leg = l /\ t2.prev = a /\ t2.prev1 = v /\ t2.next1 = x
        /\ t2.lost = t.lost /\ t2.reads = r /\ t2.ws = w
    BY <2>2, <1>5 DEF Attempts
  <2> QED
    BY <2>1, <2>3
<1>13. [SecondLeg(p) EXCEPT !.reads = r, !.ws = Append(@, e)] = t2
  BY <1>0, <1>7, <1>9, <1>10, <1>11 DEF SecondLeg, Attempts
<1>14. tx' = [tx EXCEPT ![p] = t2]
  BY <1>3, <1>5, <1>6, <1>13, Zenon
<1>15. PICK m2 : m2 = [mem[p] EXCEPT !.gone = @ \cup {tx[p].next}]
  OBVIOUS
<1>16. m2 \in MemInfos /\ m2.new = mem[p].new /\ m2.gone = mem[p].gone \cup {tx[p].next}
  BY <1>0, <1>1, <1>15 DEF MemInfos
<1>17. m2.new = {} /\ m2.gone = {tx[p].next}
  BY <1>16, <1>1, <1>2 DEF NoMem
<1>18. m2 = [new |-> {}, gone |-> {tx[p].next}]
  BY <1>16, <1>17 DEF MemInfos
<1>19. mem' = [mem EXCEPT ![p] = m2]
  BY <1>3, <1>15
<1>20. SecondLegOf(t2, call[p]) /\ Walking(t2)
  BY <1>1, <1>12 DEF SecondLegOf, Walking
<1>21. Form(t2, call[p], m2, left)
  <2>1. tx[p].pc # "idle"
    BY <1>1
  <2>2. t2.pc \in {"load", "look"} => \A i \in DOMAIN t2.ws : t2.ws[i].next \in Blocks
    BY <1>8, <1>12
  <2>3. t2.prev \in Blocks
    BY <1>10, <1>12
  <2> QED
    BY <2>1, <2>2, <2>3, <1>0, <1>1, <1>12, <1>20 DEF Form
<1>22. Live(heap, Lists, t2, call[p], m2)
  <2>1. PICK k : k = Locks(tx[p]) \cup {tx[p].next}
    OBVIOUS
  <2>2. Locks(t2) = k /\ Wanted(t2) = k \cup {MinNode(b)} /\ Goal(t2, call[p]) = call[p].k2
    BY <2>1, <1>5, <1>10, <1>12 DEF Locks, Wanted, Goal
  <2>3. Guarded(heap, Lists, k, k)
    BY <2>1, <1>4
  <2>4. Guarded(heap, Lists, Wanted(t2), Locks(t2))
    BY <2>2, <2>3, <1>0, <1>9, GuardFirst
  <2>5. t2.prev \in Lists[b] /\ heap[t2.prev].val < call[p].k2
    <3>1. t2.prev \in Lists[b] /\ heap[t2.prev].val = ValMin
      BY <1>0, <1>9, <1>10, <1>12, ListFacts
    <3>2. ValMin < call[p].k2
      BY <1>1, KeyFacts
    <3> QED
      BY <3>1, <3>2
  <2>6. Position(heap, Lists, t2, call[p])
    BY <2>2, <2>5, <1>1, <1>9, <1>12 DEF Position
  <2>7. Unlinks(heap, Lists, t2, t2.prev1, t2.next1, call[p].k)
    BY <2>1, <2>2, <1>1, <1>4, <1>12 DEF Unlinks, Place, Before
  <2>8. WritesUnlink(heap, t2, m2, t2.prev1, t2.next1)
    BY <1>1, <1>6, <1>8, <1>12, <1>18 DEF WritesUnlink, EntryOf
  <2>9. Writes(heap, Lists, t2, call[p], m2)
    BY <2>7, <2>8, <1>12 DEF Writes
  <2> QED
    BY <2>4, <2>6, <2>9 DEF Live
<1>23. UNCHANGED <<driver, early, heap, free, left, call, n, ans, last, redo>>
  OBVIOUS
<1> QED
  BY <1>1, <1>12, <1>14, <1>16, <1>19, <1>21, <1>22, <1>23, LocalStep

LEMMA StepMoveNaive ==
  ASSUME IInv, NEW p \in Procs, HtMoveNaive(p), UNCHANGED <<driver, early, left, call, n, ans, last, redo>>
  PROVE  IInv' /\ Lists' = Lists
<1>0. /\ tx[p] \in Attempts /\ Form(tx[p], call[p], mem[p], left)
  BY StepFacts
<1>1. Stopped(p, "move_naive")
  BY DEF HtMoveNaive
<1>2. call[p].name = "move_naive" /\ tx[p].leg \in {1, 2}
  BY <1>0, <1>1 DEF Form, Stopped
<1>3. CASE tx[p].leg = 1 /\ Found(p)
  <2>1. (tx[p].leg = 2) # Found(p)
    BY <1>3, SMT DEF Found
  <2>2. /\ Unlink(p, tx[p].prev, tx[p].next, SecondLeg(p)) /\ Freed(p, tx[p].next)
        /\ UNCHANGED <<heap, free>>
    BY <1>3, <2>1, Zenon DEF HtMoveNaive
  <2> QED
    BY <2>2, <1>1, <1>3, StepSecondLeg
<1>4. CASE tx[p].leg = 2 /\ ~Found(p)
  <2>1. (tx[p].leg = 2) # Found(p)
    BY <1>4, SMT DEF Found
  <2>2. Insert(p, tx[p].prev, tx[p].next, Done(tx[p], 1))
    BY <1>4, <2>1, Zenon DEF HtMoveNaive
  <2> QED
    BY <2>2, <1>1, <1>4, StepInsert
<1>5. CASE (tx[p].leg = 2) = Found(p)
  <2>1. PICK r \in Int : r = IF Found(p) THEN 2 ELSE 0
    OBVIOUS
  <2>2. tx[p].leg = 1 => ~Found(p)
    BY <1>5, SMT DEF Found
  <2>3. tx' = [tx EXCEPT ![p] = Done(tx[p], r)] /\ UNCHANGED <<heap, free, mem>>
    <3>1. ~(tx[p].leg = 1 /\ Found(p)) /\ ~(~Found(p) /\ tx[p].leg = 2)
      BY <1>5, SMT DEF Found
    <3> QED
      BY <2>1, <3>1, Zenon DEF HtMoveNaive
  <2>4. PICK t2 : t2 = Done(tx[p], r)
    OBVIOUS
  <2>5. /\ t2.res = r /\ t2.ws = tx[p].ws /\ t2.next = tx[p].next /\ t2.leg = tx[p].leg
        /\ t2.prev1 = tx[p].prev1 /\ t2.next1 = tx[p].next1
    BY <2>4, <1>0 DEF Attempts, Done
  <2>6. /\ Found(p) <=> heap[t2.next].val = Goal(t2, call[p])
        /\ SecondLegOf(t2, call[p]) <=> tx[p].leg = 2
        /\ ~SecondLegOf(t2, call[p]) => Quiet(t2, mem[p])
        /\ Walking(tx[p])
    BY <1>1, <1>2, <2>5, StoppedFacts DEF SecondLegOf, Quiet, Goal
  <2>7. ASSUME Live(heap, Lists, tx[p], call[p], mem[p])
        PROVE  Ready(heap, t2, call[p], mem[p])
    <3>1. SecondLegOf(t2, call[p]) => WritesUnlink(heap, t2, mem[p], t2.prev1, t2.next1)
      BY <2>5, <2>6, <2>7, <1>2 DEF Live, Writes, SecondLegOf, WritesUnlink
    <3>2. tx[p].leg = 2 => Found(p)
      BY <1>5, SMT DEF Found
    <3> QED
      BY <3>1, <3>2, <2>1, <2>2, <2>5, <2>6, <1>2 DEF Ready, SecondLegOf
  <2>8. UNCHANGED <<driver, early, heap, free, left, call, mem, n, ans, last, redo>>
    BY <2>3
  <2> QED
    BY <1>1, <2>1, <2>3, <2>4, <2>7, <2>8, StepReturn
<1>6. Found(p) \in BOOLEAN
  BY DEF Found
<1> QED
  BY <1>2, <1>3, <1>4, <1>5, <1>6

\* The test programs call neither ht_move nor ht_move_orrollback.
LEMMA StepOperation ==
  ASSUME IInv, NEW p \in Procs, Operation(p)
  PROVE  IInv' /\ Lists' = Lists
<1>1. UNCHANGED <<driver, early, left, call, n, ans, last, redo>>
  BY DEF Operation
<1>2. call[p].name \in {"none", "contains", "add", "remove", "move_naive", "snapshot"}
  BY StepFacts DEF Form
<1>3. ~HtMove(p) /\ ~HtMoveOrRollback(p)
  BY <1>2 DEF HtMove, HtMoveOrRollback, Stopped
<1>4. SetContains(p) \/ SetAdd(p) \/ SetRemove(p) \/ HtMoveNaive(p) \/ HtSnapshot(p)
  BY <1>3, Zenon DEF Operation
<1> QED
  BY <1>1, <1>4, StepContains, StepAdd, StepRemove, StepMoveNaive, StepSnapshot

\* Where the walk of the PGAS build has stopped
LEMMA EndedFacts ==
  ASSUME IInv, NEW p \in Procs, NEW name, Ended(p, name)
  PROVE  /\ Walking(tx[p]) /\ Pgas /\ call[p].name = name /\ name \in {"contains", "add", "remove"}
         /\ call[p] # NoCall /\ call[p] \in Calls /\ call[p].k \in Keys
         /\ ~SecondLegOf(tx[p], call[p]) /\ Goal(tx[p], call[p]) = call[p].k /\ tx[p].leg = 1
         /\ tx[p].ws = <<>> /\ mem[p] = NoMem
         /\ tx[p].prev \in Blocks /\ tx[p].next \in Blocks
         /\ tx[p].word \in Nodes /\ tx[p].next1 \in Pointers
         /\ Hit(p) => tx[p].next \in Spare
         /\ ~tx[p].lost => /\ Guarded(heap, Lists, Locks(tx[p]), Locks(tx[p]))
                           /\ Place(heap, Lists, tx[p], tx[p].prev, tx[p].next, call[p].k)
                           /\ tx[p].next \in Locks(tx[p]) /\ tx[p].next1 = heap[tx[p].next].next
                           /\ tx[p].word = heap[tx[p].prev]
                           /\ Hit(p) <=> heap[tx[p].next].val = call[p].k
<1>0. /\ tx[p] \in Attempts /\ Form(tx[p], call[p], mem[p], left)
      /\ call[p] # NoCall /\ ~tx[p].lost => Live(heap, Lists, tx[p], call[p], mem[p])
  BY StepFacts
<1>1. tx[p].pc = "stop" /\ call[p].name = name
  BY DEF Ended
<1>2. /\ Walking(tx[p]) /\ Pgas /\ tx[p].leg = 1 /\ Goal(tx[p], call[p]) = call[p].k
      /\ call[p].name \in {"contains", "add", "remove"} /\ call[p].k \in Keys
      /\ call[p] # NoCall /\ call[p] \in Calls
      /\ Quiet(tx[p], mem[p]) /\ ~SecondLegOf(tx[p], call[p])
  BY <1>1, PgasGoal
<1>3. tx[p].ws = <<>> /\ mem[p] = NoMem
  BY <1>2 DEF Quiet
<1>4. tx[p].prev \in Blocks /\ tx[p].next \in Blocks /\ (Hit(p) => tx[p].next \in Spare)
  BY <1>0, <1>1, <1>2 DEF Form, Hit
<1>5. tx[p].word \in Nodes /\ tx[p].next1 \in Pointers
  BY <1>0 DEF Attempts
<1>6. ASSUME ~tx[p].lost
      PROVE  /\ Guarded(heap, Lists, Locks(tx[p]), Locks(tx[p]))
             /\ Place(heap, Lists, tx[p], tx[p].prev, tx[p].next, call[p].k)
             /\ tx[p].next \in Locks(tx[p]) /\ tx[p].next1 = heap[tx[p].next].next
             /\ tx[p].word = heap[tx[p].prev]
             /\ Hit(p) <=> heap[tx[p].next].val = call[p].k
  <2>1. Live(heap, Lists, tx[p], call[p], mem[p])
    BY <1>0, <1>2, <1>6
  <2>2. Guarded(heap, Lists, Locks(tx[p]), Locks(tx[p]))
    BY <2>1, <1>1 DEF Live, Wanted
  <2>3. /\ Place(heap, Lists, tx[p], tx[p].prev, tx[p].next, call[p].k)
        /\ tx[p].next \in Locks(tx[p]) /\ tx[p].next1 = heap[tx[p].next].next
        /\ tx[p].word = heap[tx[p].prev] /\ tx[p].sum = heap[tx[p].next].val
    BY <2>1, <1>1, <1>2 DEF Live, Position
  <2> QED
    BY <2>2, <2>3 DEF Hit
<1> QED
  BY <1>1, <1>2, <1>3, <1>4, <1>5, <1>6

LEMMA FinishedType ==
  ASSUME NEW t2, NEW p \in Procs, NEW r \in Int, NEW w \in Seq(Stores), IInv, t2 = Finished(p, r, w)
  PROVE  /\ t2 \in Attempts
         /\ t2.pc = "commit" /\ t2.leg = tx[p].leg /\ t2.prev = tx[p].prev /\ t2.next = tx[p].next
         /\ t2.lost = tx[p].lost /\ t2.reads = tx[p].reads /\ t2.ws = w /\ t2.res = r
<1>1. PICK t : t = tx[p]
  OBVIOUS
<1>2. t \in Attempts
  BY <1>1, StepFacts
<1>4. PICK t1 : t1 = [t EXCEPT !.res = r, !.pc = "commit"]
  OBVIOUS
<1>5. /\ t1 \in Attempts /\ t1.pc = "commit" /\ t1.leg = t.leg /\ t1.prev = t.prev /\ t1.next = t.next
      /\ t1.lost = t.lost /\ t1.reads = t.reads /\ t1.res = r
  BY <1>2, <1>4 DEF Attempts
<1>6. PICK o, v : o = 0 /\ v = Nil
  OBVIOUS
<1>7. o \in Int /\ v \in Pointers /\ t2 = [t1 EXCEPT !.ws = w, !.next1 = v, !.sum = o]
  BY <1>1, <1>4, <1>6 DEF Finished, Done, Pointers
<1>3. /\ t2 \in Attempts
      /\ t2.pc = "commit" /\ t2.leg = t.leg /\ t2.prev = t.prev /\ t2.next = t.next
      /\ t2.lost = t.lost /\ t2.reads = t.reads /\ t2.ws = w /\ t2.res = r
  BY <1>5, <1>7 DEF Attempts
<1> QED
  BY <1>1, <1>3

\* What the attempt looks like when it has ended with result r and the stores w
LEMMA FinishedLive ==
  ASSUME NEW t2, NEW m2, NEW name, NEW p \in Procs, NEW r \in Int, NEW w \in Seq(Stores),
         IInv, Ended(p, name), t2 = Finished(p, r, w),
         ~tx[p].lost => Ready(heap, t2, call[p], m2)
  PROVE  /\ Form(t2, call[p], m2, left)
         /\ ~t2.lost => Live(heap, Lists, t2, call[p], m2)
<1>0. tx[p] \in Attempts /\ Form(tx[p], call[p], mem[p], left)
  BY StepFacts
<1>1. /\ Walking(tx[p]) /\ call[p].name = name /\ name \in {"contains", "add", "remove"}
      /\ Goal(tx[p], call[p]) = call[p].k
      /\ ~tx[p].lost => /\ Guarded(heap, Lists, Locks(tx[p]), Locks(tx[p]))
                        /\ Place(heap, Lists, tx[p], tx[p].prev, tx[p].next, call[p].k)
  BY EndedFacts
<1>2. /\ t2 \in Attempts
      /\ t2.pc = "commit" /\ t2.leg = tx[p].leg /\ t2.prev = tx[p].prev /\ t2.next = tx[p].next
      /\ t2.lost = tx[p].lost /\ t2.reads = tx[p].reads
  <2>1. PICK u : u = Finished(p, r, w)
    OBVIOUS
  <2>2. /\ u \in Attempts
        /\ u.pc = "commit" /\ u.leg = tx[p].leg /\ u.prev = tx[p].prev /\ u.next = tx[p].next
        /\ u.lost = tx[p].lost /\ u.reads = tx[p].reads
    BY <2>1, FinishedType
  <2> QED
    BY <2>1, <2>2
<1>3. Form(t2, call[p], m2, left)
  BY <1>0, <1>1, <1>2, DoneForm
<1>4. ASSUME ~t2.lost
      PROVE  Live(heap, Lists, t2, call[p], m2)
  <2>1. Locks(t2) = Locks(tx[p]) /\ Goal(t2, call[p]) = call[p].k /\ ~SecondLegOf(t2, call[p])
    BY <1>1, <1>2 DEF Locks, Goal, SecondLegOf
  <2>2. Guarded(heap, Lists, Locks(t2), Locks(t2))
    BY <1>1, <1>2, <1>4, <2>1
  <2>3. Place(heap, Lists, t2, t2.prev, t2.next, Goal(t2, call[p]))
    BY <1>1, <1>2, <1>4, <2>1 DEF Place, Before
  <2> QED
    BY <1>2, <1>4, <2>1, <2>2, <2>3, DoneLive
<1> QED
  BY <1>3, <1>4

\* An operation of the PGAS build ends without writing anything.
LEMMA StepPgasReturn ==
  ASSUME NEW name, NEW p \in Procs, NEW r \in Int, IInv, Ended(p, name),
         tx' = [tx EXCEPT ![p] = Finished(p, r, <<>>)],
         UNCHANGED <<driver, early, heap, free, left, call, mem, n, ans, last, redo>>,
         ~tx[p].lost => /\ name = "contains" => r = (IF Hit(p) THEN 1 ELSE 0)
                        /\ name = "add" => Hit(p) /\ r = 0
                        /\ name = "remove" => ~Hit(p) /\ r = 0
  PROVE  IInv' /\ Lists' = Lists
<1>0. mem[p] \in MemInfos /\ mem = [mem EXCEPT ![p] = mem[p]]
  BY StepFacts
<1>1. /\ call[p].name = name /\ name \in {"contains", "add", "remove"} /\ call[p] # NoCall
      /\ Goal(tx[p], call[p]) = call[p].k /\ tx[p].leg = 1 /\ mem[p] = NoMem
      /\ ~tx[p].lost => (Hit(p) <=> heap[tx[p].next].val = call[p].k)
  BY EndedFacts
<1>2. PICK w : w = <<>>
  OBVIOUS
<1>9. w \in Seq(Stores)
  BY <1>2
<1>3. PICK t2 : t2 = Finished(p, r, w)
  OBVIOUS
<1>4. /\ t2 \in Attempts /\ t2.leg = tx[p].leg /\ t2.next = tx[p].next
      /\ t2.lost = tx[p].lost /\ t2.ws = w /\ t2.res = r
  BY <1>3, <1>9, FinishedType
<1>5. Goal(t2, call[p]) = call[p].k /\ ~SecondLegOf(t2, call[p]) /\ Quiet(t2, mem[p])
  BY <1>1, <1>2, <1>4 DEF Goal, SecondLegOf, Quiet
<1>6. ~tx[p].lost => Ready(heap, t2, call[p], mem[p])
  <2> SUFFICES ASSUME ~tx[p].lost PROVE Ready(heap, t2, call[p], mem[p])
    OBVIOUS
  <2>1. Hit(p) <=> heap[t2.next].val = Goal(t2, call[p])
    BY <1>1, <1>4, <1>5
  <2> QED
    BY <2>1, <1>1, <1>4, <1>5 DEF Ready
<1>7. /\ Form(t2, call[p], mem[p], left)
      /\ ~t2.lost => Live(heap, Lists, t2, call[p], mem[p])
  BY <1>9, <1>3, <1>6, FinishedLive
<1>8. tx' = [tx EXCEPT ![p] = t2] /\ mem' = [mem EXCEPT ![p] = mem[p]]
  BY <1>0, <1>2, <1>3
<1> QED
  BY <1>0, <1>1, <1>4, <1>7, <1>8, LocalStep

LEMMA StepPgasContains ==
  ASSUME IInv, NEW p \in Procs, PgasContains(p), UNCHANGED <<driver, early, heap, left, call, n, ans, last, redo>>
  PROVE  IInv' /\ Lists' = Lists
<1>1. PICK r \in Int : r = IF Hit(p) THEN 1 ELSE 0
  OBVIOUS
<1>2. Ended(p, "contains") /\ UNCHANGED <<free, mem>>
  BY DEF PgasContains
<1>3. tx' = [tx EXCEPT ![p] = Finished(p, r, <<>>)]
  BY <1>1, Zenon DEF PgasContains
<1> QED
  BY <1>1, <1>2, <1>3, StepPgasReturn

LEMMA StepPgasRemove ==
  ASSUME IInv, NEW p \in Procs, PgasRemove(p), UNCHANGED <<driver, early, heap, left, call, n, ans, last, redo>>
  PROVE  IInv' /\ Lists' = Lists
<1>0. mem[p] \in MemInfos /\ tx[p] \in Attempts /\ heap \in Memories
  BY StepFacts
<1>1. Ended(p, "remove") /\ UNCHANGED free
  BY DEF PgasRemove
<1>2. CASE ~Hit(p)
  <2>1. tx' = [tx EXCEPT ![p] = Finished(p, 0, <<>>)] /\ UNCHANGED mem
    BY <1>2, Zenon DEF PgasRemove
  <2>2. PICK r \in Int : r = 0
    OBVIOUS
  <2> QED
    BY <1>1, <1>2, <2>1, <2>2, StepPgasReturn
<1>3. CASE Hit(p)
  <2>1. /\ call[p].name = "remove" /\ call[p] # NoCall /\ Pgas
        /\ Goal(tx[p], call[p]) = call[p].k /\ tx[p].leg = 1 /\ mem[p] = NoMem
        /\ tx[p].prev \in Blocks /\ tx[p].next \in Spare /\ tx[p].word \in Nodes /\ tx[p].next1 \in Pointers
        /\ ~tx[p].lost => /\ heap[tx[p].next].val = call[p].k /\ tx[p].next \in Locks(tx[p])
                          /\ tx[p].next1 = heap[tx[p].next].next /\ tx[p].word = heap[tx[p].prev]
    BY <1>1, <1>3, EndedFacts
  <2>2. PICK e : e = WordEntry(tx[p].prev, [tx[p].word EXCEPT !.next = tx[p].next1])
    OBVIOUS
  <2>3. e = [addr |-> tx[p].prev, val |-> tx[p].word.val, next |-> tx[p].next1] /\ e \in Stores
    BY <2>1, <2>2 DEF WordEntry, Nodes, Stores
  <2>4. PICK w : w = <<e>>
    OBVIOUS
  <2>5. w \in Seq(Stores)
    BY <2>3, <2>4
  <2>6. PICK t2 : t2 = Finished(p, 1, w)
    OBVIOUS
  <2>7. /\ t2 \in Attempts /\ t2.leg = tx[p].leg /\ t2.next = tx[p].next /\ t2.prev = tx[p].prev
        /\ t2.lost = tx[p].lost /\ t2.ws = w /\ t2.res = 1 /\ t2.reads = tx[p].reads
    BY <2>5, <2>6, FinishedType
  <2>8. tx' = [tx EXCEPT ![p] = t2]
    BY <1>3, <2>2, <2>4, <2>6, Zenon DEF PgasRemove
  <2>9. PICK m2 : m2 = [mem[p] EXCEPT !.gone = @ \cup {tx[p].next}]
    OBVIOUS
  <2>10. m2 \in MemInfos /\ m2.new = mem[p].new /\ m2.gone = mem[p].gone \cup {tx[p].next}
    BY <1>0, <2>1, <2>9 DEF MemInfos
  <2>11. m2.new = {} /\ m2.gone = {tx[p].next}
    BY <2>1, <2>10 DEF NoMem
  <2>12. m2 = [new |-> {}, gone |-> {tx[p].next}]
    BY <2>10, <2>11 DEF MemInfos
  <2>13. mem' = [mem EXCEPT ![p] = m2]
    BY <1>3, <2>9, Zenon DEF PgasRemove, Freed
  <2>14. ASSUME ~tx[p].lost
         PROVE  Ready(heap, t2, call[p], m2)
    <3>1. Locks(t2) = Locks(tx[p]) /\ Goal(t2, call[p]) = call[p].k /\ ~SecondLegOf(t2, call[p])
      BY <2>1, <2>7 DEF Locks, Goal, SecondLegOf
    <3>2. e = EntryOf(heap, t2.prev, heap[t2.next].next)
      BY <2>1, <2>3, <2>7, <2>14 DEF EntryOf
    <3>3. WritesUnlink(heap, t2, m2, t2.prev, t2.next)
      BY <2>4, <2>7, <2>12, <3>2 DEF WritesUnlink
    <3> QED
      BY <2>1, <2>7, <2>14, <3>1, <3>3 DEF Ready
  <2>15. PICK r \in Int : r = 1
    OBVIOUS
  <2>16. /\ Form(t2, call[p], m2, left)
         /\ ~t2.lost => Live(heap, Lists, t2, call[p], m2)
    BY <1>1, <2>5, <2>6, <2>14, <2>15, FinishedLive
  <2>17. UNCHANGED <<driver, early, heap, free, left, call, n, ans, last, redo>>
    BY <1>1
  <2> QED
    BY <2>1, <2>7, <2>8, <2>10, <2>13, <2>16, <2>17, LocalStep
<1> QED
  BY <1>2, <1>3

LEMMA StepPgasAdd ==
  ASSUME IInv, NEW p \in Procs, PgasAdd(p), UNCHANGED <<driver, early, heap, left, call, n, ans, last, redo>>
  PROVE  IInv' /\ Lists' = Lists
<1>0. mem[p] \in MemInfos /\ tx[p] \in Attempts /\ heap \in Memories /\ Memory(Lists, free, mem)
  BY StepFacts
<1>1. Ended(p, "add")
  BY DEF PgasAdd
<1>2. CASE Hit(p)
  <2>1. tx' = [tx EXCEPT ![p] = Finished(p, 0, <<>>)] /\ UNCHANGED <<free, mem>>
    BY <1>2, Zenon DEF PgasAdd
  <2>2. PICK r \in Int : r = 0
    OBVIOUS
  <2> QED
    BY <1>1, <1>2, <2>1, <2>2, StepPgasReturn
<1>3. CASE ~Hit(p)
  <2>0. /\ call[p].name = "add" /\ call[p] # NoCall /\ Pgas /\ call[p].k \in Keys
        /\ Goal(tx[p], call[p]) = call[p].k /\ tx[p].leg = 1 /\ mem[p] = NoMem
        /\ tx[p].prev \in Blocks /\ tx[p].next \in Blocks /\ tx[p].word \in Nodes
        /\ ~tx[p].lost => heap[tx[p].next].val # call[p].k /\ tx[p].word = heap[tx[p].prev]
    BY <1>1, <1>3, EndedFacts
  <2>1. PICK b \in free :
          /\ free' = free \ {b} /\ mem' = [mem EXCEPT ![p].new = @ \cup {b}]
          /\ tx' = [tx EXCEPT ![p] = Finished(p, 1,
                  <<WordEntry(b, [val |-> call[p].k, next |-> tx[p].next]),
                    WordEntry(tx[p].prev, [tx[p].word EXCEPT !.next = b])>>)]
    BY <1>3, Zenon DEF PgasAdd
  <2>2. b \in Spare /\ b \in Blocks
    BY <1>0, <2>1, BlockFacts DEF Memory
  <2>3. PICK d, e : /\ d = WordEntry(b, [val |-> call[p].k, next |-> tx[p].next])
                    /\ e = WordEntry(tx[p].prev, [tx[p].word EXCEPT !.next = b])
    OBVIOUS
  <2>4. d \in Stores /\ e \in Stores /\ e = [addr |-> tx[p].prev, val |-> tx[p].word.val, next |-> b]
    BY <2>0, <2>2, <2>3 DEF WordEntry, Nodes, Stores, Pointers, Values
  <2>5. PICK w : w = <<d, e>>
    OBVIOUS
  <2>6. w \in Seq(Stores)
    BY <2>4, <2>5
  <2>7. PICK t2 : t2 = Finished(p, 1, w)
    OBVIOUS
  <2>8. PICK r \in Int : r = 1
    OBVIOUS
  <2>9. /\ t2 \in Attempts /\ t2.leg = tx[p].leg /\ t2.next = tx[p].next /\ t2.prev = tx[p].prev
        /\ t2.lost = tx[p].lost /\ t2.ws = w /\ t2.res = 1
    BY <2>6, <2>7, <2>8, FinishedType
  <2>10. tx' = [tx EXCEPT ![p] = t2]
    BY <2>1, <2>3, <2>5, <2>7, Zenon
  <2>11. PICK m2 : m2 = [mem[p] EXCEPT !.new = @ \cup {b}]
    OBVIOUS
  <2>12. m2 \in MemInfos /\ m2.new = mem[p].new \cup {b} /\ m2.gone = mem[p].gone
    BY <1>0, <2>2, <2>11 DEF MemInfos
  <2>13. m2.new = {b} /\ m2.gone = {}
    BY <2>0, <2>12 DEF NoMem
  <2>14. m2 = [new |-> {b}, gone |-> {}]
    BY <2>12, <2>13 DEF MemInfos
  <2>15. mem' = [mem EXCEPT ![p] = m2]
    BY <2>1, <2>11
  <2>16. ASSUME ~tx[p].lost
         PROVE  Ready(heap, t2, call[p], m2)
    <3>1. Goal(t2, call[p]) = call[p].k /\ ~SecondLegOf(t2, call[p])
      BY <2>0, <2>9 DEF Goal, SecondLegOf
    <3>2. e = EntryOf(heap, t2.prev, b)
      BY <2>0, <2>4, <2>9, <2>16 DEF EntryOf
    <3>3. d = WordEntry(b, [val |-> call[p].k, next |-> t2.next])
      BY <2>3, <2>9
    <3>4. b \in m2.new /\ Filled(heap, t2, b, call[p].k)
      BY <2>0, <2>13 DEF Filled
    <3>5. t2.ws = <<WordEntry(b, [val |-> call[p].k, next |-> t2.next]), EntryOf(heap, t2.prev, b)>>
      BY <2>5, <2>9, <3>2, <3>3
    <3>6. WritesLink(heap, t2, m2, call[p].k)
      BY <2>0, <2>14, <3>4, <3>5, Zenon DEF WritesLink
    <3> QED
      BY <2>0, <2>9, <2>16, <3>1, <3>6 DEF Ready
  <2>17. /\ Form(t2, call[p], m2, left)
         /\ ~t2.lost => Live(heap, Lists, t2, call[p], m2)
    <3>1. t2 = Finished(p, r, w)
      BY <2>7, <2>8
    <3> QED
      BY <1>1, <2>6, <2>8, <2>16, <3>1, FinishedLive
  <2>18. PICK node \in Nodes : node = heap[b]
    BY <1>0, <2>2 DEF Memories
  <2>19. [heap EXCEPT ![b] = node] = heap
    BY <1>0, <2>18 DEF Memories
  <2>20. ~t2.lost => Live([heap EXCEPT ![b] = node], Lists, t2, call[p], m2)
    BY <2>17, <2>19, Zenon
  <2>21. heap' = [heap EXCEPT ![b] = node] /\ free' = free \ {b} /\ b \in free
    BY <2>1, <2>19
  <2> QED
    BY <2>0, <2>9, <2>10, <2>12, <2>15, <2>17, <2>18, <2>20, <2>21, FillStep
<1> QED
  BY <1>2, <1>3

LEMMA StepPgas ==
  ASSUME IInv, NEW p \in Procs, PgasOperation(p)
  PROVE  IInv' /\ Lists' = Lists
BY StepPgasContains, StepPgasAdd, StepPgasRemove DEF PgasOperation

-----------------------------------------------------------------------------
(* The beginnings.                                                           *)

\* An attempt starts without locks, at the first block of its bucket.
LEMMA StartFacts ==
  ASSUME NEW h \in Memories, NEW s \in Tables, Shape(h, s), NEW c \in Calls,
         c.name \in {"contains", "add", "remove", "move_naive", "snapshot"},
         c.name \in {"move_naive", "snapshot"} => driver = "hash"
  PROVE  /\ Start(c) \in Attempts /\ Form(Start(c), c, NoMem, 0) /\ Live(h, s, Start(c), c, NoMem)
<1>1. PICK b \in Buckets : b = IF c.name = "snapshot" THEN 0 ELSE Bucket(c.k)
  <2>1. 0 \in Buckets
    BY SetAssumption DEF Buckets
  <2>2. Bucket(c.k) \in Buckets
    BY CallFacts, KeyFacts
  <2> QED
    BY <2>1, <2>2
<1>2. MinNode(b) \in Blocks /\ c # NoCall /\ c.k \in Keys
  BY CallFacts, BlockFacts
<1>3. PICK t : t = Start(c)
  OBVIOUS
<1>4. /\ t.pc = (IF Pgas THEN "first" ELSE "load") /\ t.leg = 1 /\ t.prev = MinNode(b)
      /\ t.ws = <<>> /\ t.reads = <<>> /\ t \in Attempts
  <2>1. PICK a, q : a = MinNode(b) /\ q = IF Pgas THEN "first" ELSE "load"
    OBVIOUS
  <2>2. t = [At(a) EXCEPT !.pc = q]
    BY <2>1, <1>1, <1>3 DEF Start, Pgas
  <2>3. a \in Pointers /\ Nil \in Pointers /\ Blank \in Nodes /\ q \in {"first", "load"}
    <3>1. 0 \in Keys
      BY SetAssumption DEF Keys
    <3> QED
      BY <2>1, <3>1, <1>2 DEF Pointers, Blank, Nodes, Values
  <2>4. t = [pc |-> q, leg |-> 1, prev |-> a, next |-> Nil, prev1 |-> Nil, next1 |-> Nil,
             word |-> Blank, sum |-> 0, res |-> 0, reads |-> <<>>, ws |-> <<>>, lost |-> FALSE]
    BY <2>2 DEF At
  <2>5. PICK r : r = <<>>
    OBVIOUS
  <2>6. PICK w : w = <<>>
    OBVIOUS
  <2>7. t.ws = <<>> /\ t.reads = <<>> /\ t.pc = q /\ t.leg = 1 /\ t.prev = a
    BY <2>4
  <2>8. t \in Attempts
    <3>1. t = [pc |-> q, leg |-> 1, prev |-> a, next |-> Nil, prev1 |-> Nil, next1 |-> Nil,
               word |-> Blank, sum |-> 0, res |-> 0, reads |-> r, ws |-> w, lost |-> FALSE]
      BY <2>4, <2>5, <2>6
    <3>2. r \in Seq(Blocks) /\ w \in Seq(Stores)
      BY <2>5, <2>6
    <3> HIDE DEF Nodes, Pointers, Blank
    <3> QED
      BY <2>3, <3>1, <3>2 DEF Attempts
  <2> QED
    BY <2>1, <2>7, <2>8
<1>5. Locks(t) = {} /\ Goal(t, c) = c.k /\ ~SecondLegOf(t, c) /\ Walking(t)
  BY <1>4 DEF Locks, ToSet, Goal, SecondLegOf, Walking
<1>6. Form(t, c, NoMem, 0)
  <2>1. driver = "hash" => ~Pgas
    BY DEF Pgas
  <2>2. t.leg =< NumBuckets
    BY <1>4, SetAssumption
  <2>3. t.ws = <<>> => \A i \in DOMAIN t.ws : t.ws[i].next \in Blocks
    OBVIOUS
  <2> QED
    BY <2>1, <2>2, <2>3, <1>2, <1>4, <1>5 DEF Form, Quiet
<1>7. Guarded(h, s, Wanted(t), Locks(t))
  <2>1. Guarded(h, s, {}, {})
    BY DEF Guarded
  <2>2. Guarded(h, s, {} \cup {MinNode(b)}, {})
    BY <2>1, <1>1, GuardFirst
  <2>3. {} \cup {MinNode(b)} = {MinNode(b)}
    OBVIOUS
  <2> QED
    BY <2>1, <2>2, <2>3, <1>4, <1>5 DEF Wanted
<1>8. Position(h, s, t, c)
  <2>1. MinNode(b) \in s[b] /\ h[MinNode(b)].val = ValMin /\ ValMin < c.k /\ MinNode(b) # MaxNode(b)
    BY <1>1, <1>2, ListFacts, KeyFacts, BlockFacts
  <2>2. t.pc = "first" => t.prev = MinNode(Bucket(Goal(t, c))) /\ t.reads = <<>>
    <3>1. t.pc = "first" => c.name # "snapshot"
      BY <1>4 DEF Pgas
    <3> QED
      BY <3>1, <1>1, <1>4, <1>5
  <2>3. t.pc = "load" /\ c.name # "snapshot" => t.prev \in s[Bucket(Goal(t, c))] /\ h[t.prev].val < Goal(t, c)
    BY <2>1, <1>1, <1>4, <1>5
  <2>4. t.pc = "load" /\ c.name = "snapshot" => Summing(s, t)
    <3>1. t.leg - 1 = 0
      BY <1>4
    <3> QED
      BY <3>1, <2>1, <1>1, <1>4 DEF Summing
  <2> QED
    BY <2>2, <2>3, <2>4, <1>4 DEF Position
<1>9. Writes(h, s, t, c, NoMem)
  BY <1>4, <1>5 DEF Writes
<1> QED
  BY <1>3, <1>4, <1>6, <1>7, <1>8, <1>9 DEF Live

\* What the test programs call
LEMMA TestCalls ==
  ASSUME IInv, NEW p \in Procs, NEW c \in MayCall(p)
  PROVE  /\ c \in Calls /\ c.name \in {"contains", "add", "remove", "move_naive", "snapshot"}
         /\ c.name \in {"move_naive", "snapshot"} => driver = "hash"
<1>0. /\ driver \in {"list", "hash", "listpgas", "hashpgas"}
      /\ last \in [Procs -> Keys \cup {-1}] /\ redo \in [Procs -> Keys \cup {-1}]
  BY InvFacts DEF Typed, TypeOK
<1>1. \A k \in Keys : k \in Int /\ k >= 0
  BY SetAssumption DEF Keys
<1> DEFINE Plain(x) == x \in Calls /\ x.name \in {"contains", "add", "remove"}
<1>2. \A name \in {"contains", "add", "remove"} : \A k \in Keys : Plain(Op(name, k))
  BY DEF Calls, Op
<1>3. \A x : x \in Each({"contains"}) \cup Each({"add"}) \cup Each({"remove"}) => Plain(x)
  BY DEF Each, Calls
<1>4. last[p] >= 0 => last[p] \in Keys
  BY <1>0
<1>5. redo[p] >= 0 => redo[p] \in Keys
  BY <1>0
<1>6. ASSUME NEW x \in ListTest(p)
      PROVE  Plain(x)
  <2>1. CASE last[p] < 0
    <3>1. x \in Each({"contains"}) \cup Each({"add"})
      BY <1>6, <2>1 DEF ListTest
    <3> QED
      BY <3>1, <1>3, Zenon
  <2>2. CASE ~(last[p] < 0)
    <3>1. last[p] \in Keys
      BY <2>2, <1>0, <1>1
    <3>2. x \in Each({"contains"}) \cup Each({"remove"}) \cup {Op("remove", last[p])}
      BY <1>6, <2>2 DEF ListTest
    <3>3. Plain(Op("remove", last[p]))
      BY <3>1, <1>2
    <3> QED
      BY <3>2, <3>3, <1>3, Zenon
  <2> QED
    BY <2>1, <2>2
<1>7. CASE driver # "hash"
  <2>1. c \in ListTest(p)
    BY <1>0, <1>7, Zenon DEF MayCall, ListPgasTest, HashPgasTest
  <2> QED
    BY <2>1, <1>6
<1>8. CASE driver = "hash"
  <2>1. c \in HashTest(p)
    BY <1>8 DEF MayCall
  <2>2. CASE redo[p] >= 0
    <3>1. c = Op("add", redo[p])
      BY <2>1, <2>2 DEF HashTest
    <3> QED
      BY <3>1, <2>2, <1>2, <1>5
  <2>3. CASE ~(redo[p] >= 0)
    <3>1. c \in ListTest(p) \/ c = Snapshot \/ (c \in MoveCalls /\ c.name = "move_naive")
      BY <2>1, <2>3 DEF HashTest
    <3>2. c = Snapshot => c \in Calls /\ c.name = "snapshot"
      BY DEF Calls, Snapshot, Op
    <3>3. c \in MoveCalls => c \in Calls
      <4> SUFFICES ASSUME c \in MoveCalls PROVE c \in Calls
        OBVIOUS
      <4>1. c.k \in Keys /\ c.k2 \in Keys /\ Bucket(c.k) # Bucket(c.k2)
        BY DEF MoveCalls
      <4>2. Bucket(c.k) \in Buckets /\ Bucket(c.k2) \in Buckets
        BY <4>1, KeyFacts
      <4>3. NumBuckets > 1
        BY <4>1, <4>2, SetAssumption DEF Buckets
      <4> QED
        BY <4>3 DEF Calls
    <3> QED
      BY <3>1, <3>2, <3>3, <1>6, <1>8
  <2> QED
    BY <2>2, <2>3
<1> QED
  BY <1>7, <1>8

LEMMA StepBegin ==
  ASSUME IInv, NEW p \in Procs, Begin(p)
  PROVE  IInv' /\ Lists' = Lists
<1>0. /\ Typed /\ heap \in Memories /\ Lists \in Tables /\ Shape(heap, Lists) /\ Memory(Lists, free, mem)
      /\ \A q \in Procs : /\ Form(tx[q], call[q], mem[q], left)
                          /\ call[q] # NoCall /\ ~tx[q].lost => Live(heap, Lists, tx[q], call[q], mem[q])
  BY InvFacts
<1>1. /\ left = 0 /\ call[p] = NoCall /\ ans' = [ans EXCEPT ![p] = 0]
      /\ UNCHANGED <<driver, early, heap, free, left, mem, last, redo>>
  BY DEF Begin
<1>2. PICK c \in MayCall(p) : call' = [call EXCEPT ![p] = c] /\ tx' = [tx EXCEPT ![p] = Start(c)]
  BY DEF Begin
<1>3. /\ c \in Calls /\ c.name \in {"contains", "add", "remove", "move_naive", "snapshot"}
      /\ c.name \in {"move_naive", "snapshot"} => driver = "hash"
  BY <1>2, TestCalls
<1>4. PICK t \in Attempts : t = Start(c) /\ Form(t, c, NoMem, 0) /\ Live(heap, Lists, t, c, NoMem)
  BY <1>0, <1>3, StartFacts
<1>5. mem[p] = NoMem
  BY <1>0, <1>1 DEF Form
<1>6. /\ tx'[p] = t /\ call'[p] = c
      /\ \A q \in Procs : q # p => tx'[q] = tx[q] /\ call'[q] = call[q]
  BY <1>0, <1>2, <1>4 DEF Typed, TypeOK
<1>7. tx' \in [Procs -> Attempts] /\ call' \in [Procs -> Calls \cup {NoCall}] /\ ans' \in [Procs -> Int]
  <2>1. tx' = [tx EXCEPT ![p] = t]
    BY <1>2, <1>4
  <2> QED
    BY <2>1, <1>0, <1>1, <1>2, <1>3, <1>4 DEF Typed, TypeOK
<1>8. Typed'
  BY <1>0, <1>1, <1>7 DEF Typed, TypeOK, Setting
<1> DEFINE l == Lists
<1> HIDE DEF l
<1>9. l \in Tables /\ Shape(heap', l) /\ Memory(l, free', mem')
  BY <1>0, <1>1 DEF l
<1>10. ASSUME NEW q \in Procs
       PROVE  /\ Form(tx'[q], call'[q], mem'[q], left')
              /\ call'[q] # NoCall /\ ~tx'[q].lost => Live(heap', l, tx'[q], call'[q], mem'[q])
  <2>1. CASE q = p
    BY <2>1, <1>1, <1>4, <1>5, <1>6 DEF l
  <2>2. CASE q # p
    BY <2>2, <1>0, <1>1, <1>6 DEF l
  <2> QED
    BY <2>1, <2>2
<1>11. IInv' /\ Lists' = l
  BY <1>1, <1>8, <1>9, <1>10, Assemble
<1> QED
  BY <1>11 DEF l

-----------------------------------------------------------------------------
(* The ends of attempts: abort and commit.                                   *)

LEMMA StepAbort ==
  ASSUME IInv, NEW p \in Procs, Abort(p)
  PROVE  IInv' /\ Lists' = Lists
<1>0. /\ Typed /\ heap \in Memories /\ Lists \in Tables /\ Shape(heap, Lists) /\ Memory(Lists, free, mem)
      /\ left \in 0 .. Initial /\ ~early
      /\ \A q \in Procs : /\ Form(tx[q], call[q], mem[q], left) /\ tx[q] \in Attempts
                          /\ call[q] \in Calls \cup {NoCall} /\ mem[q] \in MemInfos
                          /\ call[q] # NoCall /\ ~tx[q].lost => Live(heap, Lists, tx[q], call[q], mem[q])
  BY InvFacts DEF MemInfos
<1>1. /\ call[p] # NoCall /\ free' = free \cup mem[p].new /\ heap' = Erased(heap, mem[p].new)
      /\ mem' = [mem EXCEPT ![p] = NoMem] /\ tx' = [tx EXCEPT ![p] = Start(call[p])]
      /\ UNCHANGED <<driver, early, left, call, n, ans, last, redo>>
  BY DEF Abort
<1>2. call[p] \in Calls /\ left = 0
  <2>1. ~(left > 0)
    BY <1>0, <1>1 DEF Form
  <2> QED
    BY <2>1, <1>0, <1>1, SetAssumption
<1>3. PICK t \in Attempts : t = Start(call[p]) /\ Form(t, call[p], NoMem, 0) /\ t.lost = FALSE
  <2>1. /\ call[p].name \in {"contains", "add", "remove", "move_naive", "snapshot"}
        /\ call[p].name \in {"move_naive", "snapshot"} => driver = "hash"
    BY <1>0, <1>2, CallFacts DEF Form
  <2>2. Start(call[p]).lost = FALSE
    BY DEF Start, At
  <2> QED
    BY <2>1, <2>2, <1>0, <1>2, StartFacts
<1>4. \A a \in mem[p].new : a \in Spare /\ a \in Blocks /\ ~Linked(Lists, a) /\ \A q \in Procs \ {p} : a \notin mem[q].new
  BY <1>0, BlockFacts DEF Memory
<1>5. heap' = [a \in Blocks |-> IF a \in mem[p].new THEN Blank ELSE heap[a]]
  BY <1>0, <1>1, Zenon DEF Erased
<1>6. heap' \in Memories /\ \A a \in Blocks : a \notin mem[p].new => heap'[a] = heap[a]
  <2>1. Blank \in Nodes
    BY SetAssumption DEF Blank, Nodes, Values, Pointers, Keys
  <2> QED
    BY <2>1, <1>0, <1>5 DEF Memories
<1>7. /\ tx'[p] = t /\ mem'[p] = NoMem
      /\ \A q \in Procs : q # p => tx'[q] = tx[q] /\ mem'[q] = mem[q]
  BY <1>0, <1>1, <1>3 DEF Typed
<1>8. free' \subseteq Spare
  BY <1>0, <1>1, <1>4 DEF Typed, TypeOK
<1>9. Typed'
  <2>1. NoMem \in [new : SUBSET Spare, gone : SUBSET Spare]
    BY DEF NoMem
  <2>2. mem' \in [Procs -> [new : SUBSET Spare, gone : SUBSET Spare]] /\ tx' \in [Procs -> Attempts]
    BY <2>1, <1>0, <1>1, <1>3 DEF Typed
  <2>3. \A q \in Procs : mem'[q].new \cup mem'[q].gone \subseteq Spare
    BY <2>2
  <2>4. TypeOK'
    BY <2>3, <1>0, <1>1, <1>6, <1>8 DEF Typed, TypeOK, Memories, Nodes, Values, Pointers
  <2> QED
    BY <2>2, <2>4, <1>0, <1>1 DEF Typed, Setting
<1> DEFINE l == Lists
<1> HIDE DEF l
<1>10. l \in Tables /\ Shape(heap, l) /\ Memory(l, free, mem) /\ \A a \in mem[p].new : ~Linked(l, a)
  BY <1>0, <1>4 DEF l
<1>11. \A a \in Blocks : Linked(l, a) => heap'[a] = heap[a]
  BY <1>6, <1>10
<1>12. Shape(heap', l)
  <2>1. \A c \in Buckets : IsList(heap, c, l[c]) /\ \A a \in l[c] : heap'[a] = heap[a]
    BY <1>0, <1>11, <1>10, ListFacts DEF Shape, Linked
  <2>2. \A c \in Buckets : IsList(heap', c, l[c])
    BY <2>1, SameList
  <2>3. EndsKept(heap')
    BY <2>1, <1>0, <1>10, ListFacts DEF Shape, EndsKept
  <2> QED
    BY <2>2, <2>3 DEF Shape
<1>13. Memory(l, free', mem')
  <2>1. mem'[p].new = {} /\ \A q \in Procs : q # p => mem'[q].new = mem[q].new
    BY <1>7 DEF NoMem
  <2>2. ASSUME NEW a \in Spare, ~Linked(l, a), a \notin free'
        PROVE  \E q \in Procs : a \in mem'[q].new
    <3>1. a \notin free /\ a \notin mem[p].new
      BY <2>2, <1>1
    <3>2. PICK q \in Procs : a \in mem[q].new
      BY <3>1, <2>2, <1>10 DEF Memory
    <3> QED
      BY <3>1, <3>2, <2>1
  <2>3. \A a \in free' : a \in Spare /\ ~Linked(l, a)
    BY <1>1, <1>4, <1>10 DEF Memory
  <2>4. ASSUME NEW q \in Procs, NEW a \in mem'[q].new
        PROVE  a \in Spare /\ ~Linked(l, a) /\ a \notin free' /\ \A r \in Procs \ {q} : a \notin mem'[r].new
    <3>1. q # p /\ a \in mem[q].new
      BY <2>1, <2>4
    <3> QED
      BY <3>1, <1>1, <1>4, <1>10, <2>1 DEF Memory
  <2> QED
    BY <2>2, <2>3, <2>4 DEF Memory
<1>14. ASSUME NEW q \in Procs
       PROVE  /\ Form(tx'[q], call'[q], mem'[q], left')
              /\ call'[q] # NoCall /\ ~tx'[q].lost => Live(heap', l, tx'[q], call'[q], mem'[q])
  <2>1. CASE q = p
    <3>1. Form(tx'[q], call'[q], mem'[q], left')
      BY <2>1, <1>1, <1>2, <1>3, <1>7
    <3>2. /\ call[p].name \in {"contains", "add", "remove", "move_naive", "snapshot"}
          /\ call[p].name \in {"move_naive", "snapshot"} => driver = "hash"
      BY <1>0, <1>2, CallFacts DEF Form
    <3>3. PICK h : h = heap'
      OBVIOUS
    <3>4. Live(h, l, Start(call[p]), call[p], NoMem)
      BY <3>2, <3>3, <1>2, <1>6, <1>10, <1>12, StartFacts
    <3> QED
      BY <2>1, <3>1, <3>3, <3>4, <1>1, <1>3, <1>7
  <2>2. CASE q # p
    <3>1. /\ tx'[q] = tx[q] /\ call'[q] = call[q] /\ mem'[q] = mem[q] /\ left' = left
          /\ Form(tx[q], call[q], mem[q], left)
      BY <2>2, <1>0, <1>1, <1>7
    <3>2. ASSUME call[q] # NoCall, ~tx[q].lost
          PROVE  Live(heap', l, tx[q], call[q], mem[q])
      <4>1. /\ tx[q] \in Attempts /\ call[q] \in Calls /\ Live(heap, l, tx[q], call[q], mem[q])
            /\ call[q].name = "snapshot" => tx[q].leg =< NumBuckets
        BY <3>1, <3>2, <1>0 DEF l, Form
      <4>2. \A a \in mem[q].new : heap'[a] = heap[a]
        BY <2>2, <1>0, <1>4, <1>6, BlockFacts DEF MemInfos
      <4> QED
        BY <4>1, <4>2, <1>0, <1>6, <1>10, <1>11, LiveSame
    <3> QED
      BY <3>1, <3>2
  <2> QED
    BY <2>1, <2>2
<1>15. IInv' /\ Lists' = l
  BY <1>1, <1>9, <1>10, <1>12, <1>13, <1>14, Assemble
<1> QED
  BY <1>15 DEF l

\* What a store makes of the block it is to
Stored(h, e) == [val |-> IF "val" \in DOMAIN e THEN e.val ELSE h[e.addr].val, next |-> e.next]

LEMMA MaxOne ==
  ASSUME NEW i \in Int
  PROVE  Max({i}) = i
<1>1. \E x \in {i} : \A y \in {i} : x >= y
  OBVIOUS
<1>2. Max({i}) \in {i}
  BY <1>1, Zenon DEF Max
<1> QED
  BY <1>2

LEMMA PersistNone ==
  ASSUME NEW p \in Procs, tx[p].ws = <<>>, heap \in Memories
  PROVE  Written(p) = {} /\ Persist(p) = heap
<1>1. Written(p) = {}
  BY DEF Written
<1>2. Persist(p) = [a \in Blocks |-> heap[a]]
  BY <1>1, Zenon DEF Persist
<1> QED
  BY <1>1, <1>2 DEF Memories

\* Stores to different words
LEMMA PersistAll ==
  ASSUME NEW w \in Seq(Stores), NEW p \in Procs, tx[p].ws = w, heap \in Memories,
         \A i, j \in DOMAIN w : w[i].addr = w[j].addr => i = j
  PROVE  /\ Written(p) = {w[i].addr : i \in DOMAIN w}
         /\ Persist(p) = [a \in Blocks |-> Persist(p)[a]]
         /\ \A a \in Blocks : a \notin Written(p) => Persist(p)[a] = heap[a]
         /\ \A i \in DOMAIN w : Persist(p)[w[i].addr] = Stored(heap, w[i])
<1>1. Written(p) = {w[i].addr : i \in DOMAIN w}
  BY DEF Written
<1>2. \A a \in Blocks : a \notin Written(p) => Persist(p)[a] = heap[a]
  BY Zenon DEF Persist
<1>3. ASSUME NEW i \in DOMAIN w
      PROVE  Persist(p)[w[i].addr] = Stored(heap, w[i])
  <2>1. DOMAIN w = 1 .. Len(w) /\ i \in Int /\ w[i] \in Stores
    BY <1>3
  <2>2. w[i].addr \in Blocks /\ w[i].addr \in Written(p)
    BY <2>1, <1>1, <1>3 DEF Stores
  <2>3. {j \in 1 .. Len(w) : w[j].addr = w[i].addr} = {i}
    BY <2>1, <1>3
  <2>4. SelectLastInSeq(w, LAMBDA x : x.addr = w[i].addr) = i
    BY <2>1, <2>3, MaxOne, Zenon DEF SelectLastInSeq
  <2> QED
    BY <2>2, <2>4, Zenon DEF Persist, Stored
<1>4. Persist(p) = [a \in Blocks |-> Persist(p)[a]]
  BY DEF Persist
<1> QED
  BY <1>1, <1>2, <1>3, <1>4

LEMMA StoredEntry ==
  ASSUME NEW h \in Memories, NEW a \in Blocks, NEW x \in Blocks
  PROVE  /\ EntryOf(h, a, x) \in Stores /\ EntryOf(h, a, x).addr = a
         /\ Stored(h, EntryOf(h, a, x)) = [val |-> h[a].val, next |-> x]
<1>1. h[a].val \in Values
  BY DEF Memories, Nodes
<1>2. CASE Pgas
  <2>1. PICK e : e = [addr |-> a, val |-> h[a].val, next |-> x]
    OBVIOUS
  <2>2. e = EntryOf(h, a, x) /\ e \in Stores /\ e.addr = a /\ e.val = h[a].val /\ e.next = x /\ "val" \in DOMAIN e
    BY <1>1, <1>2, <2>1 DEF EntryOf, Stores, Pointers
  <2> QED
    BY <2>2 DEF Stored
<1>3. CASE ~Pgas
  <2>1. PICK e : e = [addr |-> a, next |-> x]
    OBVIOUS
  <2>2. e = EntryOf(h, a, x) /\ e \in Stores /\ e.addr = a /\ e.next = x /\ "val" \notin DOMAIN e
    BY <1>3, <2>1 DEF EntryOf, Entry, Stores
  <2> QED
    BY <2>2 DEF Stored
<1> QED
  BY <1>2, <1>3

LEMMA StoredWord ==
  ASSUME NEW h, NEW a \in Blocks, NEW node \in Nodes
  PROVE  /\ WordEntry(a, node) \in Stores /\ WordEntry(a, node).addr = a
         /\ Stored(h, WordEntry(a, node)) = node
<1>1. PICK e : e = [addr |-> a, val |-> node.val, next |-> node.next]
  OBVIOUS
<1>2. e = WordEntry(a, node) /\ e \in Stores /\ e.addr = a /\ e.val = node.val /\ e.next = node.next /\ "val" \in DOMAIN e
  BY <1>1 DEF WordEntry, Stores, Nodes
<1> QED
  BY <1>2 DEF Stored, Nodes

\* The write-back of one store, and of two to different words
LEMMA PersistOne ==
  ASSUME NEW e \in Stores, NEW p \in Procs, tx[p].ws = <<e>>, heap \in Memories
  PROVE  Written(p) = {e.addr} /\ Persist(p) = [heap EXCEPT ![e.addr] = Stored(heap, e)]
<1>1. PICK w : w = <<e>>
  OBVIOUS
<1>2. w \in Seq(Stores) /\ DOMAIN w = {1} /\ w[1] = e
  BY <1>1
<1>3. \A i, j \in DOMAIN w : w[i].addr = w[j].addr => i = j
  BY <1>2
<1>4. tx[p].ws = w
  BY <1>1
<1>5. w \in Seq(Stores)
  BY <1>2
<1>6. /\ Written(p) = {w[i].addr : i \in DOMAIN w} /\ Persist(p) = [a \in Blocks |-> Persist(p)[a]]
      /\ \A a \in Blocks : a \notin Written(p) => Persist(p)[a] = heap[a]
      /\ \A i \in DOMAIN w : Persist(p)[w[i].addr] = Stored(heap, w[i])
  BY <1>3, <1>4, <1>5, PersistAll
<1>7. Written(p) = {e.addr}
  BY <1>2, <1>6
<1>8. Persist(p)[e.addr] = Stored(heap, e)
  BY <1>2, <1>6
<1>9. PICK f : f = Persist(p)
  OBVIOUS
<1>10. f = [heap EXCEPT ![e.addr] = Stored(heap, e)]
  <2>1. f = [a \in Blocks |-> f[a]]
    BY <1>6, <1>9
  <2>2. \A a \in Blocks : f[a] = IF a = e.addr THEN Stored(heap, e) ELSE heap[a]
    BY <1>6, <1>7, <1>8, <1>9
  <2> QED
    BY <2>1, <2>2 DEF Memories
<1> QED
  BY <1>7, <1>9, <1>10

LEMMA PersistTwo ==
  ASSUME NEW d \in Stores, NEW e \in Stores, NEW p \in Procs, tx[p].ws = <<d, e>>, heap \in Memories,
         d.addr # e.addr
  PROVE  /\ Written(p) = {d.addr, e.addr}
         /\ Persist(p) = [heap EXCEPT ![d.addr] = Stored(heap, d), ![e.addr] = Stored(heap, e)]
<1>1. PICK w : w = <<d, e>>
  OBVIOUS
<1>2. w \in Seq(Stores) /\ DOMAIN w = {1, 2} /\ w[1] = d /\ w[2] = e
  BY <1>1
<1>3. \A i, j \in DOMAIN w : w[i].addr = w[j].addr => i = j
  BY <1>2
<1>4. tx[p].ws = w
  BY <1>1
<1>5. w \in Seq(Stores)
  BY <1>2
<1>6. /\ Written(p) = {w[i].addr : i \in DOMAIN w} /\ Persist(p) = [a \in Blocks |-> Persist(p)[a]]
      /\ \A a \in Blocks : a \notin Written(p) => Persist(p)[a] = heap[a]
      /\ \A i \in DOMAIN w : Persist(p)[w[i].addr] = Stored(heap, w[i])
  BY <1>3, <1>4, <1>5, PersistAll
<1>7. Written(p) = {d.addr, e.addr}
  BY <1>2, <1>6
<1>8. Persist(p)[d.addr] = Stored(heap, d) /\ Persist(p)[e.addr] = Stored(heap, e)
  BY <1>2, <1>6
<1>9. PICK f : f = Persist(p)
  OBVIOUS
<1>10. f = [heap EXCEPT ![d.addr] = Stored(heap, d), ![e.addr] = Stored(heap, e)]
  <2>1. f = [a \in Blocks |-> f[a]]
    BY <1>6, <1>9
  <2>2. \A a \in Blocks : f[a] = IF a = e.addr THEN Stored(heap, e) ELSE IF a = d.addr THEN Stored(heap, d) ELSE heap[a]
    BY <1>6, <1>7, <1>8, <1>9
  <2> QED
    BY <2>1, <2>2 DEF Memories
<1> QED
  BY <1>7, <1>9, <1>10

\* The write-back of a removal, an insertion and a move
LEMMA PersistCut ==
  ASSUME NEW p \in Procs, NEW prev \in Blocks, NEW x \in Blocks, prev # x, heap \in Memories, ~early,
         heap[x].next \in Blocks, tx[p].ws = <<EntryOf(heap, prev, heap[x].next)>>
  PROVE  Written(p) = {prev} /\ Erased(Persist(p), {x}) = CutOut(heap, prev, x)
<1>1. PICK e : e = EntryOf(heap, prev, heap[x].next)
  OBVIOUS
<1>2. PICK v : v = [val |-> heap[prev].val, next |-> heap[x].next]
  OBVIOUS
<1>3. e \in Stores /\ e.addr = prev /\ Stored(heap, e) = v
  BY <1>1, <1>2, StoredEntry
<1>4. tx[p].ws = <<e>>
  BY <1>1
<1>5. Written(p) = {prev} /\ Persist(p) = [heap EXCEPT ![prev] = v]
  BY <1>3, <1>4, PersistOne
<1>6. PICK h : h = [heap EXCEPT ![prev] = v]
  OBVIOUS
<1>7. Erased(h, {x}) = [a \in Blocks |-> IF a \in {x} THEN Blank ELSE h[a]]
  BY Zenon DEF Erased
<1>8. [a \in Blocks |-> IF a \in {x} THEN Blank ELSE h[a]] = [heap EXCEPT ![prev] = v, ![x] = Blank]
  BY <1>6 DEF Memories
<1> QED
  BY <1>2, <1>5, <1>6, <1>7, <1>8, Zenon DEF CutOut

LEMMA ErasedNone ==
  ASSUME NEW f, f = [a \in Blocks |-> f[a]], ~early
  PROVE  Erased(f, {}) = f
<1>1. Erased(f, {}) = [a \in Blocks |-> IF a \in {} THEN Blank ELSE f[a]]
  BY Zenon DEF Erased
<1>2. [a \in Blocks |-> IF a \in {} THEN Blank ELSE f[a]] = [a \in Blocks |-> f[a]]
  OBVIOUS
<1> QED
  BY <1>1, <1>2

LEMMA PersistLink ==
  ASSUME NEW p \in Procs, NEW m, NEW k \in Keys, heap \in Memories, ~early, tx[p] \in Attempts,
         WritesLink(heap, tx[p], m, k), m.new \subseteq Spare, tx[p].prev \in Blocks, tx[p].prev \notin m.new,
         heap[tx[p].prev].next = tx[p].next
  PROVE  \E b \in Spare : /\ m = [new |-> {b}, gone |-> {}]
                          /\ tx[p].prev \in Written(p) /\ Written(p) \subseteq {tx[p].prev, b}
                          /\ Persist(p) = LinkIn(heap, tx[p].prev, b, k)
                          /\ Erased(Persist(p), {}) = LinkIn(heap, tx[p].prev, b, k)
<1> DEFINE prev == tx[p].prev
<1>1. PICK b \in m.new :
        /\ m = [new |-> {b}, gone |-> {}] /\ Filled(heap, tx[p], b, k)
        /\ tx[p].ws = IF Pgas THEN <<WordEntry(b, [val |-> k, next |-> tx[p].next]), EntryOf(heap, prev, b)>>
                              ELSE <<EntryOf(heap, prev, b)>>
  BY DEF WritesLink
<1>2. b \in Spare /\ b \in Blocks /\ b # prev
  BY <1>1, BlockFacts
<1>3. PICK e, v : e = EntryOf(heap, prev, b) /\ v = [val |-> heap[prev].val, next |-> b]
  OBVIOUS
<1>4. e \in Stores /\ e.addr = prev /\ Stored(heap, e) = v
  BY <1>2, <1>3, StoredEntry
<1>5. PICK node : node = [val |-> k, next |-> heap[prev].next]
  OBVIOUS
<1>6. node \in Nodes /\ node = [val |-> k, next |-> tx[p].next]
  BY <1>5 DEF Nodes, Values, Attempts
<1>7. PICK h : h = [heap EXCEPT ![b] = node, ![prev] = v]
  OBVIOUS
<1>8. h = LinkIn(heap, prev, b, k)
  BY <1>3, <1>5, <1>7, Zenon DEF LinkIn
<1>9. h = [a \in Blocks |-> h[a]]
  BY <1>7 DEF Memories
<1>10. prev \in Written(p) /\ Written(p) \subseteq {prev, b} /\ Persist(p) = h
  <2>1. CASE Pgas
    <3>1. PICK d : d = WordEntry(b, node)
      OBVIOUS
    <3>2. d \in Stores /\ d.addr = b /\ Stored(heap, d) = node
      BY <3>1, <1>2, <1>6, StoredWord
    <3>3. tx[p].ws = <<d, e>>
      BY <2>1, <3>1, <1>1, <1>3, <1>6
    <3>4. Written(p) = {b, prev} /\ Persist(p) = [heap EXCEPT ![b] = node, ![prev] = v]
      BY <3>2, <3>3, <1>2, <1>4, PersistTwo
    <3> QED
      BY <3>4, <1>7
  <2>2. CASE ~Pgas
    <3>1. tx[p].ws = <<e>>
      BY <2>2, <1>1, <1>3
    <3>2. Written(p) = {prev} /\ Persist(p) = [heap EXCEPT ![prev] = v]
      BY <3>1, <1>4, PersistOne
    <3>3. heap[b] = node
      BY <2>2, <1>1, <1>6 DEF Filled
    <3>4. [heap EXCEPT ![prev] = v] = h
      BY <3>3, <1>2, <1>7 DEF Memories
    <3> QED
      BY <3>2, <3>4
  <2> QED
    BY <2>1, <2>2
<1>11. Erased(h, {}) = h
  BY <1>9, ErasedNone
<1> QED
  BY <1>1, <1>2, <1>8, <1>10, <1>11

LEMMA PersistMove ==
  ASSUME NEW p \in Procs, NEW m, NEW k \in Keys, heap \in Memories, ~early, tx[p] \in Attempts, ~Pgas,
         WritesMove(heap, tx[p], m, k), m.new \subseteq Spare, tx[p].prev \in Blocks, tx[p].prev \notin m.new,
         heap[tx[p].prev].next = tx[p].next,
         tx[p].prev1 \in Blocks, tx[p].next1 \in Blocks, tx[p].prev1 \notin m.new, tx[p].next1 \notin m.new,
         tx[p].prev1 # tx[p].next1, tx[p].prev # tx[p].prev1, tx[p].prev # tx[p].next1,
         heap[tx[p].next1].next \in Blocks
  PROVE  \E b \in Spare : /\ m = [new |-> {b}, gone |-> {tx[p].next1}]
                          /\ Written(p) = {tx[p].prev1, tx[p].prev}
                          /\ Erased(Persist(p), m.gone)
                               = LinkIn(CutOut(heap, tx[p].prev1, tx[p].next1), tx[p].prev, b, k)
<1> DEFINE prev == tx[p].prev
           a1 == tx[p].prev1
           x == tx[p].next1
<1>1. PICK b \in m.new :
        /\ m = [new |-> {b}, gone |-> {x}] /\ Filled(heap, tx[p], b, k)
        /\ tx[p].ws = <<Entry(a1, heap[x].next), Entry(prev, b)>>
  BY DEF WritesMove
<1>2. b \in Spare /\ b \in Blocks /\ b # prev /\ b # a1 /\ b # x /\ heap[b] = [val |-> k, next |-> tx[p].next]
  BY <1>1, BlockFacts DEF Filled
<1>3. PICK d, v : d = EntryOf(heap, a1, heap[x].next) /\ v = [val |-> heap[a1].val, next |-> heap[x].next]
  OBVIOUS
<1>4. PICK e, u : e = EntryOf(heap, prev, b) /\ u = [val |-> heap[prev].val, next |-> b]
  OBVIOUS
<1>5. /\ d \in Stores /\ d.addr = a1 /\ Stored(heap, d) = v
      /\ e \in Stores /\ e.addr = prev /\ Stored(heap, e) = u
  BY SMTT(30), <1>2, <1>3, <1>4, StoredEntry
<1>6. tx[p].ws = <<d, e>>
  BY <1>1, <1>3, <1>4 DEF EntryOf
<1>7. Written(p) = {a1, prev} /\ Persist(p) = [heap EXCEPT ![a1] = v, ![prev] = u]
  BY <1>5, <1>6, PersistTwo
<1>8. PICK f : f = [heap EXCEPT ![a1] = v, ![prev] = u]
  OBVIOUS
<1>9. Erased(f, {x}) = [a \in Blocks |-> IF a \in {x} THEN Blank ELSE f[a]]
  BY Zenon DEF Erased
<1>10. PICK h : h = [heap EXCEPT ![a1] = v, ![x] = Blank]
  OBVIOUS
<1>11. h = CutOut(heap, a1, x)
  BY <1>3, <1>10, Zenon DEF CutOut
<1>12. h[prev] = heap[prev] /\ DOMAIN h = Blocks
  BY <1>10 DEF Memories
<1>13. LinkIn(h, prev, b, k) = [h EXCEPT ![b] = [val |-> k, next |-> heap[prev].next], ![prev] = u]
  BY <1>4, <1>12, Zenon DEF LinkIn
<1>14. PICK node : node = [val |-> k, next |-> heap[prev].next]
  OBVIOUS
<1>15. heap[b] = node
  BY <1>2, <1>14
<1>16. [a \in Blocks |-> IF a \in {x} THEN Blank ELSE f[a]] = [h EXCEPT ![b] = node, ![prev] = u]
  BY <1>2, <1>8, <1>10, <1>15 DEF Memories
<1> QED
  BY <1>1, <1>2, <1>7, <1>8, <1>9, <1>11, <1>13, <1>14, <1>16

\* What a commit does besides the lists
LEMMA CommitFacts ==
  ASSUME IInv, NEW p \in Procs, Commit(p)
  PROVE  /\ tx[p].pc = "commit" /\ ~tx[p].lost /\ call[p] # NoCall /\ call[p] \in Calls
         /\ Live(heap, Lists, tx[p], call[p], mem[p])
         /\ mem' = [mem EXCEPT ![p] = NoMem]
         /\ free' = free \cup mem[p].gone
         /\ heap' = Erased(Persist(p), mem[p].gone) \/ (Quiet(tx[p], mem[p]) /\ heap' = Persist(p))
         /\ tx' = TakeLocks(p) /\ call' = [call EXCEPT ![p] = NoCall]
         /\ ans' = [ans EXCEPT ![p] = tx[p].res] /\ UNCHANGED <<driver, early, left, n>>
<1>0. /\ tx[p] \in Attempts /\ mem[p] \in MemInfos /\ Form(tx[p], call[p], mem[p], left)
      /\ call[p] \in Calls \cup {NoCall} /\ mem = [mem EXCEPT ![p] = mem[p]]
      /\ call[p] # NoCall /\ ~tx[p].lost => Live(heap, Lists, tx[p], call[p], mem[p])
  BY StepFacts
<1>1. tx[p].pc = "commit" /\ ~tx[p].lost
  BY DEF Commit
<1>2. call[p] # NoCall /\ call[p] \in Calls
  BY <1>0, <1>1 DEF Form
<1>3. Live(heap, Lists, tx[p], call[p], mem[p])
  BY <1>0, <1>1, <1>2
<1>4. /\ tx' = TakeLocks(p) /\ call' = [call EXCEPT ![p] = NoCall]
      /\ ans' = [ans EXCEPT ![p] = tx[p].res] /\ UNCHANGED <<driver, early, left, n>>
  BY Zenon DEF Commit, Answer
<1>5. CASE FreesOnCommit(p)
  <2>1. /\ free' = free \cup mem[p].gone /\ mem' = [mem EXCEPT ![p] = NoMem]
        /\ heap' = Erased(Persist(p), mem[p].gone)
    BY <1>5, Zenon DEF Commit
  <2> QED
    BY <2>1, <1>1, <1>2, <1>3, <1>4
<1>6. CASE ~FreesOnCommit(p)
  <2>1. heap' = Persist(p) /\ UNCHANGED <<free, mem>>
    BY <1>6, Zenon DEF Commit
  <2>2. call[p].name \in {"contains", "snapshot"}
    BY <1>0, <1>2, <1>6, CallFacts DEF Form, FreesOnCommit, Updates
  <2>3. Quiet(tx[p], mem[p])
    BY <1>1, <1>3, <2>2 DEF Live, Writes, Ready
  <2>4. mem[p] = NoMem /\ mem[p].gone = {}
    BY <2>3 DEF Quiet, NoMem
  <2>5. mem' = [mem EXCEPT ![p] = NoMem] /\ free' = free \cup mem[p].gone
    BY <1>0, <2>1, <2>4
  <2> QED
    BY <2>1, <2>3, <2>5, <1>1, <1>2, <1>3, <1>4
<1> QED
  BY <1>5, <1>6

\* The locals of the test programs keep their types.
LEMMA CommitLocals ==
  ASSUME IInv, NEW p \in Procs, Commit(p)
  PROVE  last' \in [Procs -> Keys \cup {-1}] /\ redo' \in [Procs -> Keys \cup {-1}]
<1>1. last \in [Procs -> Keys \cup {-1}] /\ redo \in [Procs -> Keys \cup {-1}]
  BY InvFacts DEF Typed, TypeOK
<1>2. call[p].k \in Keys
  BY CommitFacts, CallFacts
<1>3. PICK v : /\ last' = [last EXCEPT ![p] = v]
               /\ v = CASE driver \in {"list", "listpgas"} -> ListLast(p, call[p], tx[p].res)
                        [] driver \in {"hash", "hashpgas"} -> HashLast(p, call[p], tx[p].res)
                        [] OTHER -> last[p]
  BY Zenon DEF Commit, Answer
<1>4. v \in Keys \cup {-1}
  <2>1. ListLast(p, call[p], tx[p].res) \in Keys \cup {-1}
    BY <1>1, <1>2 DEF ListLast
  <2>2. HashLast(p, call[p], tx[p].res) \in Keys \cup {-1}
    BY <1>1, <1>2 DEF HashLast
  <2>3. v \in {ListLast(p, call[p], tx[p].res), HashLast(p, call[p], tx[p].res), last[p]}
    BY <1>3, Zenon
  <2> QED
    BY <2>1, <2>2, <2>3, <1>1
<1>5. PICK u : /\ redo' = [redo EXCEPT ![p] = u]
               /\ u = IF driver = "hash" /\ call[p].name = "move_naive" /\ tx[p].res = 2 THEN call[p].k ELSE -1
  BY Zenon DEF Commit, Answer
<1> QED
  BY <1>1, <1>2, <1>3, <1>4, <1>5

\* A process that is in no attempt has the locals of one that has not begun.
LEMMA IdleFacts == NoTx \in Attempts /\ NoTx.pc = "idle"
<1>1. PICK r, w : r = <<>> /\ w = <<>>
  OBVIOUS
<1>2. r \in Seq(Blocks) /\ w \in Seq(Stores)
  BY <1>1
<1>3. Blank \in Nodes /\ Nil \in Pointers
  BY SetAssumption DEF Blank, Nodes, Values, Pointers, Keys
<1>4. PICK t, x : t = [At(Nil) EXCEPT !.pc = x] /\ x = "idle"
  OBVIOUS
<1>5. t = [pc |-> x, leg |-> 1, prev |-> Nil, next |-> Nil, prev1 |-> Nil, next1 |-> Nil,
           word |-> Blank, sum |-> 0, res |-> 0, reads |-> <<>>, ws |-> <<>>, lost |-> FALSE]
  BY <1>4 DEF At
<1>6. t = [pc |-> x, leg |-> 1, prev |-> Nil, next |-> Nil, prev1 |-> Nil, next1 |-> Nil,
           word |-> Blank, sum |-> 0, res |-> 0, reads |-> r, ws |-> w, lost |-> FALSE]
  BY <1>1, <1>5
<1>7. t = NoTx
  BY <1>4 DEF NoTx
<1> HIDE DEF Nodes, Pointers, Blank
<1>8. x \in {"idle", "load"} /\ t.pc = "idle"
  BY <1>4, <1>6
<1>9. t \in Attempts
  BY <1>2, <1>3, <1>6, <1>8 DEF Attempts
<1> QED
  BY <1>7, <1>8, <1>9

\* A commit that leads to lists s2 in memory
LEMMA ChangeStep ==
  ASSUME NEW p \in Procs, NEW s2 \in Tables, IInv, Commit(p), heap' \in Memories, Shape(heap', s2),
         Memory(s2, free', mem'), mem[p].gone \subseteq Spare,
         \A q \in Procs \ {p} : call[q] # NoCall /\ ~tx[q].lost /\ Locks(tx[q]) \cap Written(p) = {} =>
           Kept(heap, Lists, heap', s2, Wanted(tx[q]), Locks(tx[q])),
         \A a \in Spare : heap'[a] # heap[a] => Linked(Lists, a) \/ a \in mem[p].new
  PROVE  IInv' /\ Lists' = s2
<1>0. /\ Typed /\ heap \in Memories /\ Lists \in Tables /\ Shape(heap, Lists) /\ Memory(Lists, free, mem)
      /\ left \in 0 .. Initial /\ ~early /\ free \subseteq Spare
      /\ \A q \in Procs : /\ Form(tx[q], call[q], mem[q], left) /\ tx[q] \in Attempts
                          /\ call[q] \in Calls \cup {NoCall} /\ mem[q] \in MemInfos
                          /\ call[q] # NoCall /\ ~tx[q].lost => Live(heap, Lists, tx[q], call[q], mem[q])
  BY InvFacts DEF MemInfos
<1>1. /\ mem' = [mem EXCEPT ![p] = NoMem] /\ free' = free \cup mem[p].gone /\ tx' = TakeLocks(p)
      /\ call' = [call EXCEPT ![p] = NoCall] /\ ans' = [ans EXCEPT ![p] = tx[p].res]
      /\ UNCHANGED <<driver, early, left, n>>
  BY CommitFacts
<1>2. NoTx \in Attempts /\ NoTx.pc = "idle"
  BY IdleFacts
<1>3. /\ tx'[p] = NoTx /\ mem'[p] = NoMem /\ call'[p] = NoCall
      /\ \A q \in Procs \ {p} : mem'[q] = mem[q] /\ call'[q] = call[q]
  BY <1>0, <1>1 DEF Typed, TypeOK, TakeLocks
<1>4. ASSUME NEW q \in Procs, q # p
      PROVE  \/ tx'[q] = tx[q] /\ Locks(tx[q]) \cap Written(p) = {}
             \/ tx'[q] = [tx[q] EXCEPT !.lost = TRUE]
  BY <1>1, <1>4, Zenon DEF TakeLocks, Locks
<1>5. ASSUME NEW t \in Attempts
      PROVE  /\ [t EXCEPT !.lost = TRUE] \in Attempts /\ [t EXCEPT !.lost = TRUE].lost
             /\ \A c, m, l : Form(t, c, m, l) /\ c # NoCall => Form([t EXCEPT !.lost = TRUE], c, m, l)
  <2>1. PICK t2 : t2 = [t EXCEPT !.lost = TRUE]
    OBVIOUS
  <2>2. /\ t2 \in Attempts /\ t2.lost = TRUE /\ t2.pc = t.pc /\ t2.leg = t.leg /\ t2.prev = t.prev /\ t2.next = t.next
        /\ t2.ws = t.ws /\ t2.sum = t.sum
    BY <2>1 DEF Attempts
  <2>3. \A c, m, l : Form(t, c, m, l) /\ c # NoCall => Form(t2, c, m, l)
    BY <2>2 DEF Form, Walking, SecondLegOf, Quiet
  <2> QED
    BY <2>1, <2>2, <2>3
<1>6. \A q \in Procs : tx'[q] \in Attempts
  BY <1>0, <1>2, <1>3, <1>4, <1>5
<1>7. Typed'
  <2>1. tx' \in [Procs -> Attempts]
    <3>1. tx' = [q \in Procs |-> tx'[q]]
      BY <1>1 DEF TakeLocks
    <3> QED
      BY <3>1, <1>6
  <2>2. NoMem \in [new : SUBSET Spare, gone : SUBSET Spare]
    BY DEF NoMem
  <2>3. mem' \in [Procs -> [new : SUBSET Spare, gone : SUBSET Spare]]
    BY <2>2, <1>0, <1>1 DEF Typed
  <2>4. \A q \in Procs : mem'[q].new \cup mem'[q].gone \subseteq Spare
    BY <2>3
  <2>5. last' \in [Procs -> Keys \cup {-1}] /\ redo' \in [Procs -> Keys \cup {-1}]
    BY CommitLocals
  <2>6. call' \in [Procs -> Calls \cup {NoCall}] /\ free' \subseteq Spare
    BY <1>0, <1>1 DEF Typed, TypeOK
  <2>7. ans' \in [Procs -> Int]
    <3>1. tx[p].res \in Int
      BY <1>0 DEF Attempts
    <3> QED
      BY <3>1, <1>0, <1>1 DEF Typed
  <2>8. TypeOK'
    BY <2>4, <2>5, <2>6, <1>0, <1>1 DEF Typed, TypeOK, Memories, Nodes, Values, Pointers
  <2> QED
    BY <2>1, <2>3, <2>7, <2>8, <1>0, <1>1 DEF Typed, Setting
<1>8. \A q \in Procs : Form(tx'[q], call'[q], mem'[q], left')
  <2> SUFFICES ASSUME NEW q \in Procs PROVE Form(tx'[q], call'[q], mem'[q], left')
    OBVIOUS
  <2>1. CASE q = p
    <3>1. Form(NoTx, NoCall, NoMem, left)
      BY <1>2 DEF Form, Walking, NoCall
    <3> QED
      BY <2>1, <3>1, <1>1, <1>3
  <2>2. CASE q # p
    <3>1. Form(tx[q], call[q], mem[q], left) /\ call'[q] = call[q] /\ mem'[q] = mem[q] /\ left' = left /\ tx[q] \in Attempts
      BY <2>2, <1>0, <1>1, <1>3
    <3>2. CASE call[q] # NoCall
      <4>1. CASE tx'[q] = tx[q]
        BY <4>1, <3>1
      <4>2. CASE tx'[q] = [tx[q] EXCEPT !.lost = TRUE]
        <5>1. PICK t : t = tx[q]
          OBVIOUS
        <5>2. Form([t EXCEPT !.lost = TRUE], call[q], mem[q], left)
          BY <5>1, <3>1, <3>2, <1>5
        <5> QED
          BY <5>1, <5>2, <4>2, <3>1
      <4> QED
        BY <2>2, <4>1, <4>2, <1>4
    <3>3. CASE call[q] = NoCall
      <4>1. tx[q] = NoTx /\ tx[q].reads = <<>>
        BY <3>1, <3>3 DEF Form, NoTx, At
      <4>2. ToSet(tx[q].reads) = {}
        BY <4>1 DEF ToSet
      <4>3. tx'[q] = tx[q]
        BY <2>2, <4>2, <1>1, Zenon DEF TakeLocks
      <4> QED
        BY <3>1, <4>3
    <3> QED
      BY <3>2, <3>3
  <2> QED
    BY <2>1, <2>2
<1> DEFINE l == Lists
<1> HIDE DEF l
<1>9. ASSUME NEW q \in Procs, call'[q] # NoCall, ~tx'[q].lost
      PROVE  Live(heap', s2, tx'[q], call'[q], mem'[q])
  <2>1. q # p
    BY <1>3, <1>9
  <2>2. tx'[q] = tx[q] /\ Locks(tx[q]) \cap Written(p) = {}
    BY <2>1, <1>0, <1>4, <1>5, <1>9
  <2>3. /\ call'[q] = call[q] /\ mem'[q] = mem[q] /\ tx[q] \in Attempts /\ call[q] \in Calls
        /\ Live(heap, l, tx[q], call[q], mem[q]) /\ Form(tx[q], call[q], mem[q], left)
    BY <2>1, <2>2, <1>0, <1>3, <1>9 DEF l
  <2>4. Kept(heap, l, heap', s2, Wanted(tx[q]), Locks(tx[q]))
    BY <2>1, <2>2, <2>3, <1>9 DEF l
  <2>5. \A a \in mem[q].new : heap'[a] = heap[a]
    BY <2>1, <1>0 DEF Memory
  <2>6. call[q].name = "snapshot" => tx[q].leg =< NumBuckets
    BY <2>3 DEF Form
  <2>7. l \in Tables /\ Shape(heap, l)
    BY <1>0 DEF l
  <2>8. Live(heap', s2, tx[q], call[q], mem[q])
    BY <2>3, <2>4, <2>5, <2>6, <2>7, <1>0, LiveKept
  <2> QED
    BY <2>2, <2>3, <2>8
<1> QED
  BY <1>1, <1>7, <1>8, <1>9, Assemble

-----------------------------------------------------------------------------
(* What a commit does to the lists.                                          *)

Adds(h, s, h2, s2, w, k) == \E a \in s[Bucket(k)] \cap w, d \in Spare :
  /\ ~Linked(s, d) /\ h[a].val < k /\ k < h[h[a].next].val
  /\ h2 = LinkIn(h, a, d, k) /\ s2 = More(s, Bucket(k), d)
Removes(h, s, h2, s2, w, k) == \E a \in s[Bucket(k)] \cap w, x \in Spare :
  h[a].next = x /\ h[x].val = k /\ h2 = CutOut(h, a, x) /\ s2 = Less(s, Bucket(k), x)
Moves(h, s, h2, s2, w, k, k2) == \E h1 \in Memories, s1 \in Tables :
  Removes(h, s, h1, s1, w, k) /\ Adds(h1, s1, h2, s2, w, k2)

LEMMA HasPlace ==
  ASSUME NEW h \in Memories, NEW s \in Tables, NEW t, NEW prev, NEW next, NEW k \in Keys, Shape(h, s),
         Place(h, s, t, prev, next, k)
  PROVE  /\ Has(h, s, k) <=> h[next].val = k
         /\ h[next].val # k => k < h[next].val
<1>1. prev \in s[Bucket(k)] /\ h[prev].val < k /\ h[prev].next = next /\ k =< h[next].val
  BY DEF Place, Before
<1>2. prev # MaxNode(Bucket(k)) /\ Bucket(k) \in Buckets /\ next \in s[Bucket(k)]
  BY <1>1, PlaceFacts
<1>3. \A c \in s[Bucket(k)] : h[c].val =< h[prev].val \/ h[c].val >= h[next].val
  BY <1>1, <1>2, ListFacts
<1>4. h[prev].val \in Int /\ h[next].val \in Int /\ k \in Int
  BY <1>1, <1>2, ListFacts, KeyFacts
<1>5. h[next].val # k => k < h[next].val
  BY <1>1, <1>4
<1>6. ASSUME NEW c \in s[Bucket(k)], h[c].val = k
      PROVE  h[next].val = k
  BY <1>1, <1>3, <1>4, <1>6
<1> QED
  BY <1>2, <1>5, <1>6 DEF Has

LEMMA LessLinked ==
  ASSUME NEW h \in Memories, NEW s \in Tables, Shape(h, s), NEW b \in Buckets, NEW x \in s[b]
  PROVE  \A a : Linked(Less(s, b, x), a) <=> Linked(s, a) /\ a # x
<1>1. PICK s2 : s2 = Less(s, b, x)
  OBVIOUS
<1>2. s2[b] = s[b] \ {x} /\ \A c \in Buckets \ {b} : s2[c] = s[c]
  BY <1>1 DEF Less, Tables
<1>3. \A c \in Buckets \ {b} : x \notin s[c]
  BY OneList
<1> QED
  BY <1>1, <1>2, <1>3 DEF Linked

LEMMA MoreLinked ==
  ASSUME NEW s \in Tables, NEW b \in Buckets, NEW d
  PROVE  \A a : Linked(More(s, b, d), a) <=> Linked(s, a) \/ a = d
<1>1. PICK s2 : s2 = More(s, b, d)
  OBVIOUS
<1>2. s2[b] = s[b] \cup {d} /\ \A c \in Buckets \ {b} : s2[c] = s[c]
  BY <1>1 DEF More, Tables
<1> QED
  BY <1>1, <1>2 DEF Linked

\* Who has which block, when p has linked its new blocks and freed the blocks g it has unlinked
LEMMA MemoryNext ==
  ASSUME NEW s, NEW s2, NEW f, NEW f2, NEW m, NEW m2, NEW g, NEW p \in Procs,
         Memory(s, f, m), g \subseteq Spare, \A a \in g : Linked(s, a), f2 = f \cup g,
         m2[p].new = {}, \A q \in Procs \ {p} : m2[q].new = m[q].new,
         \A a \in Spare : Linked(s2, a) <=> (Linked(s, a) /\ a \notin g) \/ a \in m[p].new
  PROVE  Memory(s2, f2, m2)
<1>1. \A a \in m[p].new : a \in Spare /\ ~Linked(s, a) /\ a \notin f /\ \A q \in Procs \ {p} : a \notin m[q].new
  BY DEF Memory
<1>2. ASSUME NEW a \in Spare, ~Linked(s2, a), a \notin f2
      PROVE  \E q \in Procs : a \in m2[q].new
  <2>1. ~Linked(s, a) /\ a \notin f /\ a \notin m[p].new
    BY <1>2
  <2>2. PICK q \in Procs : a \in m[q].new
    BY <2>1 DEF Memory
  <2> QED
    BY <2>1, <2>2
<1>3. \A a \in f2 : a \in Spare /\ ~Linked(s2, a)
  BY <1>1 DEF Memory
<1>4. ASSUME NEW q \in Procs, NEW a \in m2[q].new
      PROVE  a \in Spare /\ ~Linked(s2, a) /\ a \notin f2 /\ \A r \in Procs \ {q} : a \notin m2[r].new
  <2>1. q # p /\ a \in m[q].new
    BY <1>4
  <2>2. a \in Spare /\ ~Linked(s, a) /\ a \notin f /\ \A r \in Procs \ {q} : a \notin m[r].new
    BY <2>1 DEF Memory
  <2>3. \A r \in Procs \ {q} : a \notin m2[r].new
    BY <2>2
  <2> QED
    BY <2>1, <2>2, <2>3
<1> QED
  BY <1>2, <1>3, <1>4 DEF Memory

\* The commit of a transaction that has not written
LEMMA CommitQuiet ==
  ASSUME IInv, NEW p \in Procs, Commit(p), Quiet(tx[p], mem[p])
  PROVE  IInv' /\ Lists' = Lists /\ heap' = heap
<1>0. /\ Typed /\ heap \in Memories /\ Lists \in Tables /\ Shape(heap, Lists) /\ Memory(Lists, free, mem)
      /\ ~early
      /\ \A q \in Procs : /\ tx[q] \in Attempts
                          /\ call[q] # NoCall /\ ~tx[q].lost => Live(heap, Lists, tx[q], call[q], mem[q])
  BY InvFacts
<1>1. /\ mem' = [mem EXCEPT ![p] = NoMem] /\ free' = free \cup mem[p].gone
      /\ heap' = Erased(Persist(p), mem[p].gone) \/ heap' = Persist(p)
  BY CommitFacts
<1>2. tx[p].ws = <<>> /\ mem[p] = NoMem /\ mem[p].gone = {} /\ mem[p].new = {}
  BY DEF Quiet, NoMem
<1>3. Written(p) = {} /\ Persist(p) = heap
  BY <1>0, <1>2, PersistNone
<1>4. heap = [a \in Blocks |-> heap[a]]
  BY <1>0 DEF Memories
<1>5. Erased(heap, {}) = heap
  BY <1>0, <1>4, ErasedNone
<1>6. heap' = heap
  BY <1>1, <1>2, <1>3, <1>5
<1>7. free' = free /\ mem' = mem
  BY <1>0, <1>1, <1>2 DEF Typed
<1> DEFINE l == Lists
<1> HIDE DEF l
<1>8. l \in Tables /\ heap' \in Memories /\ Shape(heap', l) /\ Memory(l, free', mem') /\ mem[p].gone \subseteq Spare
  BY <1>0, <1>2, <1>6, <1>7 DEF l
<1>9. ASSUME NEW q \in Procs \ {p}, call[q] # NoCall, ~tx[q].lost
      PROVE  Kept(heap, l, heap', l, Wanted(tx[q]), Locks(tx[q]))
  <2>1. Guarded(heap, l, Wanted(tx[q]), Locks(tx[q])) /\ tx[q] \in Attempts
    BY <1>0, <1>9 DEF Live, l
  <2>2. Locks(tx[q]) \in SUBSET Wanted(tx[q]) /\ Wanted(tx[q]) \in SUBSET Blocks
    BY <2>1, <1>8, LocksType, GuardedType
  <2> QED
    BY <2>1, <2>2, <1>0, <1>6, <1>8, KeptSame
<1>10. IInv' /\ Lists' = l
  BY <1>6, <1>8, <1>9, ChangeStep DEF l
<1> QED
  BY <1>6, <1>10 DEF l

\* What the others, who keep their locks, want and have locked
LEMMA OthersGuarded ==
  ASSUME IInv, NEW q \in Procs, call[q] # NoCall, ~tx[q].lost
  PROVE  /\ Guarded(heap, Lists, Wanted(tx[q]), Locks(tx[q]))
         /\ Locks(tx[q]) \in SUBSET Wanted(tx[q]) /\ Wanted(tx[q]) \in SUBSET Blocks
<1>1. /\ Lists \in Tables /\ tx[q] \in Attempts /\ Live(heap, Lists, tx[q], call[q], mem[q])
  BY InvFacts
<1>2. Guarded(heap, Lists, Wanted(tx[q]), Locks(tx[q]))
  BY <1>1 DEF Live
<1> QED
  BY <1>1, <1>2, LocksType, GuardedType

\* The commit of a removal
LEMMA CommitCut ==
  ASSUME NEW prev, NEW x, NEW p \in Procs, NEW k \in Keys, IInv, Commit(p),
         Place(heap, Lists, tx[p], prev, x, k), heap[x].val = k, WritesUnlink(heap, tx[p], mem[p], prev, x)
  PROVE  IInv' /\ Removes(heap, Lists, heap', Lists', Written(p), k)
<1>0. /\ Typed /\ heap \in Memories /\ Lists \in Tables /\ Shape(heap, Lists) /\ Memory(Lists, free, mem)
      /\ ~early
  BY InvFacts
<1>1. /\ mem' = [mem EXCEPT ![p] = NoMem] /\ free' = free \cup mem[p].gone
      /\ heap' = Erased(Persist(p), mem[p].gone) \/ Quiet(tx[p], mem[p])
  BY CommitFacts
<1>2. /\ tx[p].ws = <<EntryOf(heap, prev, heap[x].next)>> /\ mem[p] = [new |-> {}, gone |-> {x}]
      /\ mem[p].new = {} /\ mem[p].gone = {x}
  BY DEF WritesUnlink
<1>3. heap' = Erased(Persist(p), {x})
  <2>1. ~Quiet(tx[p], mem[p])
    BY <1>2 DEF Quiet, NoMem
  <2> QED
    BY <2>1, <1>1, <1>2
<1>4. PICK b \in Buckets : b = Bucket(k)
  BY KeyFacts
<1>5. /\ prev \in Lists[b] /\ prev \in Blocks /\ heap[prev].next = x
      /\ x \in Lists[b] /\ x \in Blocks /\ prev # MaxNode(b)
  <2>1. prev \in Lists[b] /\ heap[prev].val < k /\ heap[prev].next = x
    BY <1>4 DEF Place, Before
  <2> QED
    BY <2>1, <1>0, <1>4, PlaceFacts
<1>6. x \in Spare /\ x # MaxNode(b)
  <2>1. x \in Spare
    BY <1>0, <1>5, KeyIsSpare
  <2> QED
    BY <2>1, <1>4, BlockFacts
<1>7. heap[x].next \in Blocks
  BY <1>0, <1>4, <1>5, <1>6, NextLinked
<1> DEFINE l == Lists
<1> HIDE DEF l
<1>8. PICK s2 : s2 = Less(l, b, x)
  OBVIOUS
<1>9. l \in Tables /\ Shape(heap, l) /\ prev \in l[b] /\ x \in l[b] /\ Memory(l, free, mem)
  BY <1>0, <1>5 DEF l
<1>10. /\ CutOut(heap, prev, x) \in Memories /\ s2 \in Tables /\ Shape(CutOut(heap, prev, x), s2) /\ prev # x
  BY <1>0, <1>4, <1>5, <1>6, <1>8, <1>9, CutShape
<1>11. Written(p) = {prev} /\ heap' = CutOut(heap, prev, x)
  BY <1>0, <1>2, <1>3, <1>5, <1>7, <1>10, PersistCut
<1>12. \A a : Linked(s2, a) <=> Linked(l, a) /\ a # x
  BY <1>0, <1>4, <1>8, <1>9, LessLinked
<1>13. Memory(s2, free', mem')
  <2>1. /\ mem'[p].new = {} /\ \A q \in Procs \ {p} : mem'[q].new = mem[q].new
    BY <1>0, <1>1 DEF Typed, NoMem
  <2>2. PICK g : g = {x}
    OBVIOUS
  <2>3. /\ g \subseteq Spare /\ free' = free \cup g /\ \A a \in g : Linked(l, a)
        /\ \A a \in Spare : Linked(s2, a) <=> (Linked(l, a) /\ a \notin g) \/ a \in mem[p].new
    BY <2>2, <1>1, <1>2, <1>4, <1>6, <1>9, <1>12 DEF Linked
  <2> QED
    BY <2>1, <2>3, <1>9, MemoryNext
<1>14. ASSUME NEW q \in Procs \ {p}, call[q] # NoCall, ~tx[q].lost, Locks(tx[q]) \cap Written(p) = {}
       PROVE  Kept(heap, l, heap', s2, Wanted(tx[q]), Locks(tx[q]))
  <2>1. PICK w, k2 : w = Wanted(tx[q]) /\ k2 = Locks(tx[q])
    OBVIOUS
  <2>2. Guarded(heap, l, w, k2) /\ k2 \in SUBSET w /\ w \in SUBSET Blocks
    BY <2>1, <1>14, OthersGuarded DEF l
  <2>3. prev \notin k2
    BY <2>1, <1>11, <1>14
  <2>4. Kept(heap, l, CutOut(heap, prev, x), Less(l, b, x), w, k2)
    BY <2>2, <2>3, <1>0, <1>4, <1>5, <1>6, <1>9, KeptCut
  <2> QED
    BY <2>1, <2>4, <1>8, <1>11
<1>15. ASSUME NEW a \in Spare, heap'[a] # heap[a]
       PROVE  Linked(l, a) \/ a \in mem[p].new
  <2>1. a = prev \/ a = x
    BY <1>0, <1>11, <1>15, BlockFacts DEF CutOut, Memories
  <2> QED
    BY <2>1, <1>4, <1>9 DEF Linked
<1>16. IInv' /\ Lists' = s2
  <2>1. heap' \in Memories /\ Shape(heap', s2) /\ s2 \in Tables /\ mem[p].gone \subseteq Spare
    BY <1>2, <1>6, <1>10, <1>11
  <2> QED
    BY <2>1, <1>13, <1>14, <1>15, ChangeStep DEF l
<1>17. Removes(heap, l, heap', s2, Written(p), k)
  BY <1>4, <1>5, <1>6, <1>8, <1>9, <1>11 DEF Removes
<1> QED
  BY <1>16, <1>17 DEF l

\* The commit of an insertion
LEMMA CommitLink ==
  ASSUME NEW p \in Procs, NEW k \in Keys, IInv, Commit(p),
         Place(heap, Lists, tx[p], tx[p].prev, tx[p].next, k), heap[tx[p].next].val # k,
         WritesLink(heap, tx[p], mem[p], k)
  PROVE  IInv' /\ Adds(heap, Lists, heap', Lists', Written(p), k)
<1> DEFINE prev == tx[p].prev
<1>0. /\ Typed /\ heap \in Memories /\ Lists \in Tables /\ Shape(heap, Lists) /\ Memory(Lists, free, mem)
      /\ ~early /\ tx[p] \in Attempts /\ mem[p] \in MemInfos
  BY InvFacts DEF MemInfos
<1>1. /\ mem' = [mem EXCEPT ![p] = NoMem] /\ free' = free \cup mem[p].gone
      /\ heap' = Erased(Persist(p), mem[p].gone) \/ Quiet(tx[p], mem[p])
  BY CommitFacts
<1>2. PICK b \in Buckets : b = Bucket(k)
  BY KeyFacts
<1>3. prev \in Lists[b] /\ heap[prev].val < k /\ heap[prev].next = tx[p].next /\ prev \in Blocks
  <2>1. prev \in Lists[b] /\ heap[prev].val < k /\ heap[prev].next = tx[p].next
    BY <1>2 DEF Place, Before
  <2> QED
    BY <2>1, <1>0, <1>2, PlaceFacts
<1>4. k < heap[heap[prev].next].val
  <2>1. k < heap[tx[p].next].val
    BY <1>0, HasPlace
  <2> QED
    BY <2>1, <1>3
<1>5. \A a \in mem[p].new : a \in Spare /\ ~Linked(Lists, a)
  BY <1>0 DEF Memory
<1>6. prev \notin mem[p].new
  BY <1>2, <1>3, <1>5 DEF Linked
<1>7. PICK d \in Spare : /\ mem[p] = [new |-> {d}, gone |-> {}]
                         /\ prev \in Written(p) /\ Written(p) \subseteq {prev, d}
                         /\ Persist(p) = LinkIn(heap, prev, d, k) /\ Erased(Persist(p), {}) = LinkIn(heap, prev, d, k)
  <2>1. mem[p].new \subseteq Spare
    BY <1>5
  <2> QED
    BY <2>1, <1>0, <1>3, <1>6, PersistLink
<1>8. mem[p].new = {d} /\ mem[p].gone = {} /\ ~Linked(Lists, d) /\ d \in Spare
  BY <1>5, <1>7
<1>9. heap' = LinkIn(heap, prev, d, k)
  <2>1. ~Quiet(tx[p], mem[p])
    BY <1>8 DEF Quiet, NoMem
  <2> QED
    BY <2>1, <1>1, <1>7, <1>8
<1> DEFINE l == Lists
<1> HIDE DEF l
<1>10. PICK s2 : s2 = More(l, b, d)
  OBVIOUS
<1>11. l \in Tables /\ Shape(heap, l) /\ prev \in l[b] /\ Memory(l, free, mem) /\ ~Linked(l, d)
  BY <1>0, <1>3, <1>8 DEF l
<1>12. LinkIn(heap, prev, d, k) \in Memories /\ s2 \in Tables /\ Shape(LinkIn(heap, prev, d, k), s2)
  BY <1>0, <1>2, <1>3, <1>4, <1>8, <1>10, <1>11, LinkShape
<1>13. \A a : Linked(s2, a) <=> Linked(l, a) \/ a = d
  BY <1>2, <1>10, <1>11, MoreLinked
<1>14. Memory(s2, free', mem')
  <2>1. /\ mem'[p].new = {} /\ \A q \in Procs \ {p} : mem'[q].new = mem[q].new
    BY <1>0, <1>1 DEF Typed, NoMem
  <2>2. PICK g : g = {}
    OBVIOUS
  <2>3. /\ g \subseteq Spare /\ free' = free \cup g /\ \A a \in g : Linked(l, a)
        /\ \A a \in Spare : Linked(s2, a) <=> (Linked(l, a) /\ a \notin g) \/ a \in mem[p].new
    BY <2>2, <1>1, <1>8, <1>13
  <2> QED
    BY ZenonT(40), <2>1, <2>3, <1>11, MemoryNext
<1>15. ASSUME NEW q \in Procs \ {p}, call[q] # NoCall, ~tx[q].lost, Locks(tx[q]) \cap Written(p) = {}
       PROVE  Kept(heap, l, heap', s2, Wanted(tx[q]), Locks(tx[q]))
  <2>1. PICK w, k2 : w = Wanted(tx[q]) /\ k2 = Locks(tx[q])
    OBVIOUS
  <2>2. Guarded(heap, l, w, k2) /\ k2 \in SUBSET w /\ w \in SUBSET Blocks
    BY <2>1, <1>15, OthersGuarded DEF l
  <2>3. prev \notin k2
    BY <2>1, <1>7, <1>15
  <2>4. Kept(heap, l, LinkIn(heap, prev, d, k), More(l, Bucket(k), d), w, k2)
    BY <2>2, <2>3, <1>0, <1>2, <1>3, <1>4, <1>8, <1>11, KeptLink
  <2> QED
    BY <2>1, <2>4, <1>2, <1>9, <1>10
<1>16. ASSUME NEW a \in Spare, heap'[a] # heap[a]
       PROVE  Linked(l, a) \/ a \in mem[p].new
  <2>1. a = prev \/ a = d
    BY <1>0, <1>9, <1>16, BlockFacts DEF LinkIn, Memories
  <2> QED
    BY <2>1, <1>2, <1>8, <1>11 DEF Linked
<1>17. IInv' /\ Lists' = s2
  <2>1. heap' \in Memories /\ Shape(heap', s2) /\ s2 \in Tables /\ mem[p].gone \subseteq Spare
    BY <1>8, <1>9, <1>12
  <2> QED
    BY <2>1, <1>14, <1>15, <1>16, ChangeStep DEF l
<1>18. Adds(heap, l, heap', s2, Written(p), k)
  BY <1>2, <1>3, <1>4, <1>7, <1>8, <1>9, <1>10, <1>11 DEF Adds
<1> QED
  BY <1>17, <1>18 DEF l

\* The commit of a move: what it removes and what it inserts are in different lists.
LEMMA CommitMove ==
  ASSUME NEW p \in Procs, NEW k \in Keys, NEW k2 \in Keys, IInv, Commit(p), ~Pgas, Bucket(k) # Bucket(k2),
         Place(heap, Lists, tx[p], tx[p].prev1, tx[p].next1, k), heap[tx[p].next1].val = k,
         Place(heap, Lists, tx[p], tx[p].prev, tx[p].next, k2), heap[tx[p].next].val # k2,
         WritesMove(heap, tx[p], mem[p], k2)
  PROVE  IInv' /\ Moves(heap, Lists, heap', Lists', Written(p), k, k2)
<1> DEFINE prev == tx[p].prev
           a1 == tx[p].prev1
           x == tx[p].next1
<1>0. /\ Typed /\ heap \in Memories /\ Lists \in Tables /\ Shape(heap, Lists) /\ Memory(Lists, free, mem)
      /\ ~early /\ tx[p] \in Attempts /\ mem[p] \in MemInfos
  BY InvFacts DEF MemInfos
<1>1. /\ mem' = [mem EXCEPT ![p] = NoMem] /\ free' = free \cup mem[p].gone
      /\ heap' = Erased(Persist(p), mem[p].gone) \/ Quiet(tx[p], mem[p])
  BY CommitFacts
<1>2. PICK b \in Buckets, c \in Buckets : b = Bucket(k) /\ c = Bucket(k2) /\ b # c
  BY KeyFacts
<1>3. /\ a1 \in Lists[b] /\ a1 \in Blocks /\ heap[a1].next = x
      /\ x \in Lists[b] /\ x \in Blocks /\ a1 # MaxNode(b)
  <2>1. a1 \in Lists[b] /\ heap[a1].val < k /\ heap[a1].next = x
    BY <1>2 DEF Place, Before
  <2> QED
    BY <2>1, <1>0, <1>2, PlaceFacts
<1>4. x \in Spare /\ x # MaxNode(b)
  <2>1. x \in Spare
    BY <1>0, <1>3, KeyIsSpare
  <2> QED
    BY <2>1, <1>2, BlockFacts
<1>5. heap[x].next \in Blocks
  BY <1>0, <1>2, <1>3, <1>4, NextLinked
<1>6. /\ prev \in Lists[c] /\ heap[prev].val < k2 /\ heap[prev].next = tx[p].next /\ prev \in Blocks
      /\ heap[prev].next \in Lists[c]
  <2>1. prev \in Lists[c] /\ heap[prev].val < k2 /\ heap[prev].next = tx[p].next
    BY <1>2 DEF Place, Before
  <2> QED
    BY <2>1, <1>0, <1>2, PlaceFacts
<1>7. k2 < heap[heap[prev].next].val
  <2>1. k2 < heap[tx[p].next].val
    BY <1>0, HasPlace
  <2> QED
    BY <2>1, <1>6
<1>8. prev # a1 /\ prev # x /\ heap[prev].next # a1 /\ heap[prev].next # x
  BY <1>0, <1>2, <1>3, <1>6, OneList
<1>9. \A a \in mem[p].new : a \in Spare /\ ~Linked(Lists, a)
  BY <1>0 DEF Memory
<1>10. prev \notin mem[p].new /\ a1 \notin mem[p].new /\ x \notin mem[p].new
  BY <1>2, <1>3, <1>6, <1>9 DEF Linked
<1>11. mem[p].new \subseteq Spare
  BY <1>9
<1> DEFINE l == Lists
<1> HIDE DEF l
<1>12. l \in Tables /\ Shape(heap, l) /\ a1 \in l[b] /\ x \in l[b] /\ prev \in l[c] /\ Memory(l, free, mem)
  BY <1>0, <1>3, <1>6 DEF l
<1>13. PICK h1 : h1 = CutOut(heap, a1, x)
  OBVIOUS
<1>14. PICK s1 : s1 = Less(l, b, x)
  OBVIOUS
<1>15. h1 \in Memories /\ s1 \in Tables /\ Shape(h1, s1) /\ a1 # x
  BY <1>0, <1>2, <1>3, <1>4, <1>12, <1>13, <1>14, CutShape
<1>16. PICK d \in Spare : /\ mem[p] = [new |-> {d}, gone |-> {x}] /\ Written(p) = {a1, prev}
                          /\ Erased(Persist(p), mem[p].gone) = LinkIn(CutOut(heap, a1, x), prev, d, k2)
  <2>1. PICK m : m = mem[p]
    OBVIOUS
  <2>2. WritesMove(heap, tx[p], m, k2) /\ m.new \subseteq Spare /\ prev \notin m.new /\ a1 \notin m.new /\ x \notin m.new
    BY <2>1, <1>10, <1>11
  <2>3. PICK d \in Spare : /\ m = [new |-> {d}, gone |-> {x}] /\ Written(p) = {a1, prev}
                           /\ Erased(Persist(p), m.gone) = LinkIn(CutOut(heap, a1, x), prev, d, k2)
    BY <2>2, <1>0, <1>3, <1>5, <1>6, <1>8, <1>15, PersistMove
  <2> QED
    BY <2>1, <2>3
<1>17. mem[p].new = {d} /\ mem[p].gone = {x} /\ ~Linked(l, d) /\ d \in Spare
  BY <1>9, <1>16 DEF l
<1>18. heap' = LinkIn(h1, prev, d, k2)
  <2>1. ~Quiet(tx[p], mem[p])
    BY <1>17 DEF Quiet, NoMem
  <2> QED
    BY <2>1, <1>1, <1>13, <1>16
<1>19. /\ s1[b] = l[b] \ {x} /\ \A e \in Buckets \ {b} : s1[e] = l[e]
  BY <1>12, <1>14 DEF Less, Tables
<1>20. h1[prev] = heap[prev] /\ h1[heap[prev].next] = heap[heap[prev].next] /\ \A a \in Blocks \ {a1, x} : h1[a] = heap[a]
  <2>1. heap[prev].next \in Blocks
    BY <1>0, <1>2, <1>6 DEF Tables
  <2> QED
    BY <2>1, <1>0, <1>3, <1>6, <1>8, <1>13 DEF CutOut, Memories
<1>21. /\ prev \in s1[c] /\ h1[prev].val < k2 /\ k2 < h1[h1[prev].next].val
  BY <1>2, <1>6, <1>7, <1>12, <1>19, <1>20
<1>22. \A a : Linked(s1, a) <=> Linked(l, a) /\ a # x
  BY <1>0, <1>2, <1>12, <1>14, LessLinked
<1>23. ~Linked(s1, d)
  BY <1>17, <1>22
<1>24. PICK s2 : s2 = More(s1, c, d)
  OBVIOUS
<1>25. LinkIn(h1, prev, d, k2) \in Memories /\ s2 \in Tables /\ Shape(LinkIn(h1, prev, d, k2), s2)
  BY <1>2, <1>15, <1>17, <1>21, <1>23, <1>24, LinkShape
<1>26. \A a : Linked(s2, a) <=> Linked(s1, a) \/ a = d
  BY <1>2, <1>15, <1>24, MoreLinked
<1>27. Memory(s2, free', mem')
  <2>1. /\ mem'[p].new = {} /\ \A q \in Procs \ {p} : mem'[q].new = mem[q].new
    BY <1>0, <1>1 DEF Typed, NoMem
  <2>2. PICK g : g = {x}
    OBVIOUS
  <2>3. /\ g \subseteq Spare /\ free' = free \cup g /\ \A a \in g : Linked(l, a)
        /\ \A a \in Spare : Linked(s2, a) <=> (Linked(l, a) /\ a \notin g) \/ a \in mem[p].new
    <3>1. g \subseteq Spare /\ free' = free \cup g
      BY <2>2, <1>1, <1>4, <1>17
    <3>2. \A a \in g : Linked(l, a)
      BY <2>2, <1>2, <1>12 DEF Linked
    <3>3. ASSUME NEW a
          PROVE  Linked(s2, a) <=> (Linked(l, a) /\ a \notin g) \/ a \in mem[p].new
      BY <2>2, <1>17, <1>22, <1>26
    <3> QED
      BY <3>1, <3>2, <3>3
  <2> QED
    BY <2>1, <2>3, <1>12, MemoryNext
<1>28. ASSUME NEW q \in Procs \ {p}, call[q] # NoCall, ~tx[q].lost, Locks(tx[q]) \cap Written(p) = {}
       PROVE  Kept(heap, l, heap', s2, Wanted(tx[q]), Locks(tx[q]))
  <2>1. PICK w, r : w = Wanted(tx[q]) /\ r = Locks(tx[q])
    OBVIOUS
  <2>2. Guarded(heap, l, w, r) /\ r \in SUBSET w /\ w \in SUBSET Blocks
    BY <2>1, <1>28, OthersGuarded DEF l
  <2>3. prev \notin r /\ a1 \notin r
    BY <2>1, <1>16, <1>28
  <2>4. Kept(heap, l, h1, s1, w, r)
    BY <2>2, <2>3, <1>0, <1>2, <1>3, <1>4, <1>12, <1>13, <1>14, KeptCut
  <2>5. Guarded(h1, s1, w, r)
    BY <2>4 DEF Kept
  <2>6. Kept(h1, s1, LinkIn(h1, prev, d, k2), More(s1, Bucket(k2), d), w, r)
    BY <2>2, <2>3, <2>5, <1>2, <1>15, <1>17, <1>21, <1>23, KeptLink
  <2>7. Kept(h1, s1, heap', s2, w, r)
    BY <2>6, <1>2, <1>18, <1>24
  <2> QED
    BY <2>1, <2>4, <2>7, KeptTwice
<1>29. ASSUME NEW a \in Spare, heap'[a] # heap[a]
       PROVE  Linked(l, a) \/ a \in mem[p].new
  <2>1. a = prev \/ a = d \/ a = a1 \/ a = x
    <3>1. a \in Blocks /\ (a # prev /\ a # d => heap'[a] = h1[a])
      BY <1>15, <1>18, BlockFacts DEF LinkIn, Memories
    <3> QED
      BY <3>1, <1>20, <1>29
  <2> QED
    BY <2>1, <1>2, <1>12, <1>17 DEF Linked
<1>30. IInv' /\ Lists' = s2
  <2>1. heap' \in Memories /\ Shape(heap', s2) /\ s2 \in Tables /\ mem[p].gone \subseteq Spare
    BY <1>4, <1>17, <1>18, <1>25
  <2> QED
    BY <2>1, <1>27, <1>28, <1>29, ChangeStep DEF l
<1>31. Removes(heap, l, h1, s1, Written(p), k)
  BY <1>2, <1>3, <1>4, <1>12, <1>13, <1>14, <1>16 DEF Removes
<1>32. Adds(h1, s1, heap', s2, Written(p), k2)
  BY <1>2, <1>16, <1>17, <1>18, <1>21, <1>23, <1>24 DEF Adds
<1>33. Moves(heap, l, heap', s2, Written(p), k, k2)
  BY <1>15, <1>31, <1>32 DEF Moves
<1> QED
  BY <1>30, <1>33 DEF l

\* What a commit that writes w does to the lists and returns, of each operation
Effect(h, s, h2, s2, w, c, r) ==
  LET same == h2 = h /\ s2 = s
  IN  /\ c.name = "contains" => same /\ r = (IF Has(h, s, c.k) THEN 1 ELSE 0)
      /\ c.name = "add" => IF Has(h, s, c.k) THEN same /\ r = 0 ELSE Adds(h, s, h2, s2, w, c.k) /\ r = 1
      /\ c.name = "remove" => IF Has(h, s, c.k) THEN Removes(h, s, h2, s2, w, c.k) /\ r = 1 ELSE same /\ r = 0
      /\ c.name = "move_naive" => IF ~Has(h, s, c.k) THEN same /\ r = 0
                                  ELSE IF Has(h, s, c.k2) THEN Removes(h, s, h2, s2, w, c.k) /\ r = 2
                                  ELSE Moves(h, s, h2, s2, w, c.k, c.k2) /\ r = 1
      /\ c.name = "snapshot" => same

LEMMA StepCommit ==
  ASSUME IInv, NEW p \in Procs, Commit(p)
  PROVE  IInv' /\ Effect(heap, Lists, heap', Lists', Written(p), call[p], tx[p].res)
<1>0. /\ heap \in Memories /\ Lists \in Tables /\ Shape(heap, Lists) /\ Form(tx[p], call[p], mem[p], left)
  BY StepFacts
<1>1. /\ tx[p].pc = "commit" /\ call[p] # NoCall /\ call[p] \in Calls
      /\ Live(heap, Lists, tx[p], call[p], mem[p])
  BY CommitFacts
<1>2. /\ call[p].k \in Keys /\ call[p].k2 \in Keys /\ Goal(tx[p], call[p]) \in Keys
      /\ call[p].name \in {"contains", "add", "remove", "move_naive", "snapshot"}
      /\ call[p].name = "move_naive" => Bucket(call[p].k) # Bucket(call[p].k2)
  BY <1>0, <1>1, CallFacts, GoalType DEF Form
<1>3. Ready(heap, tx[p], call[p], mem[p])
  BY <1>1 DEF Live, Writes
<1>4. call[p].name # "snapshot" => Place(heap, Lists, tx[p], tx[p].prev, tx[p].next, Goal(tx[p], call[p]))
  BY <1>1 DEF Live, Position
<1>5. SecondLegOf(tx[p], call[p]) => Unlinks(heap, Lists, tx[p], tx[p].prev1, tx[p].next1, call[p].k)
  BY <1>1 DEF Live, Writes
<1>6. call[p].name # "snapshot" => (Has(heap, Lists, Goal(tx[p], call[p])) <=> heap[tx[p].next].val = Goal(tx[p], call[p]))
  BY <1>0, <1>2, <1>4, HasPlace
<1>7. CASE call[p].name = "snapshot"
  BY <1>3, <1>7, CommitQuiet DEF Ready, Effect
<1>8. CASE call[p].name = "contains"
  <2>1. Goal(tx[p], call[p]) = call[p].k
    BY <1>0, <1>8 DEF Form, Goal
  <2> QED
    BY <2>1, <1>3, <1>6, <1>8, CommitQuiet DEF Ready, Effect
<1>9. CASE call[p].name = "add"
  <2>1. Goal(tx[p], call[p]) = call[p].k
    BY <1>0, <1>9 DEF Form, Goal
  <2>2. CASE heap[tx[p].next].val = call[p].k
    BY <2>1, <2>2, <1>3, <1>6, <1>9, CommitQuiet DEF Ready, Effect
  <2>3. CASE heap[tx[p].next].val # call[p].k
    <3>1. WritesLink(heap, tx[p], mem[p], call[p].k) /\ tx[p].res = 1
      BY <2>1, <2>3, <1>3, <1>9 DEF Ready
    <3>2. IInv' /\ Adds(heap, Lists, heap', Lists', Written(p), call[p].k)
      BY <2>1, <2>3, <3>1, <1>2, <1>4, <1>9, CommitLink
    <3> QED
      BY <2>1, <2>3, <3>1, <3>2, <1>6, <1>9 DEF Effect
  <2> QED
    BY <2>2, <2>3
<1>10. CASE call[p].name = "remove"
  <2>1. Goal(tx[p], call[p]) = call[p].k
    BY <1>0, <1>10 DEF Form, Goal
  <2>2. CASE heap[tx[p].next].val # call[p].k
    BY <2>1, <2>2, <1>3, <1>6, <1>10, CommitQuiet DEF Ready, Effect
  <2>3. CASE heap[tx[p].next].val = call[p].k
    <3>1. WritesUnlink(heap, tx[p], mem[p], tx[p].prev, tx[p].next) /\ tx[p].res = 1
      BY <2>1, <2>3, <1>3, <1>10 DEF Ready
    <3>2. IInv' /\ Removes(heap, Lists, heap', Lists', Written(p), call[p].k)
      BY <2>1, <2>3, <3>1, <1>2, <1>4, <1>10, CommitCut
    <3> QED
      BY <2>1, <2>3, <3>1, <3>2, <1>6, <1>10 DEF Effect
  <2> QED
    BY <2>2, <2>3
<1>11. CASE call[p].name = "move_naive"
  <2>0. tx[p].leg \in {1, 2} /\ ~Pgas
    BY <1>0, <1>11 DEF Form, Pgas
  <2>1. CASE tx[p].leg = 1
    <3>1. Goal(tx[p], call[p]) = call[p].k
      BY <2>1 DEF Goal
    <3>2. heap[tx[p].next].val # call[p].k /\ Quiet(tx[p], mem[p]) /\ tx[p].res = 0
      BY <2>1, <3>1, <1>3, <1>11 DEF Ready
    <3> QED
      BY <3>1, <3>2, <1>6, <1>11, CommitQuiet DEF Effect
  <2>2. CASE tx[p].leg = 2
    <3>1. Goal(tx[p], call[p]) = call[p].k2 /\ SecondLegOf(tx[p], call[p])
      BY <2>2, <1>11 DEF Goal, SecondLegOf
    <3>2. /\ Place(heap, Lists, tx[p], tx[p].prev1, tx[p].next1, call[p].k)
          /\ heap[tx[p].next1].val = call[p].k
      BY <3>1, <1>5 DEF Unlinks
    <3>3. Has(heap, Lists, call[p].k)
      BY <3>2, <1>0, <1>2, HasPlace
    <3>4. CASE heap[tx[p].next].val = call[p].k2
      <4>1. WritesUnlink(heap, tx[p], mem[p], tx[p].prev1, tx[p].next1) /\ tx[p].res = 2
        BY <3>1, <3>4, <1>3 DEF Ready
      <4>2. IInv' /\ Removes(heap, Lists, heap', Lists', Written(p), call[p].k)
        BY <3>2, <4>1, <1>2, CommitCut
      <4> QED
        BY <3>1, <3>3, <3>4, <4>1, <4>2, <1>6, <1>11 DEF Effect
    <3>5. CASE heap[tx[p].next].val # call[p].k2
      <4>1. WritesMove(heap, tx[p], mem[p], call[p].k2) /\ tx[p].res = 1
        BY <3>1, <3>5, <1>3 DEF Ready
      <4>2. IInv' /\ Moves(heap, Lists, heap', Lists', Written(p), call[p].k, call[p].k2)
        BY <2>0, <3>1, <3>2, <3>5, <4>1, <1>2, <1>4, <1>11, CommitMove
      <4> QED
        BY <3>1, <3>3, <3>5, <4>1, <4>2, <1>6, <1>11 DEF Effect
    <3> QED
      BY <3>4, <3>5
  <2> QED
    BY <2>0, <2>1, <2>2
<1> QED
  BY <1>2, <1>7, <1>8, <1>9, <1>10, <1>11

-----------------------------------------------------------------------------
(* The beginning, and every step.                                            *)

\* Nobody has called anything while the lists are filled.
LEMMA NobodyCalls ==
  ASSUME IInv, left > 0
  PROVE  \A p \in Procs : call[p] = NoCall /\ tx[p] = NoTx /\ mem[p] = NoMem
BY InvFacts DEF Form

\* A value that is filled in: what SetSeqAdd does to memory is what a commit of add does.
LEMMA FillEffect ==
  ASSUME IInv, NEW k \in Keys, SetSeqAdd(k)
  PROVE  /\ left > 0 /\ left' = left - 1 /\ ~Has(heap, Lists, k)
         /\ \E a \in Lists[Bucket(k)], d \in free :
              /\ heap[a].val < k /\ k < heap[heap[a].next].val
              /\ heap' = LinkIn(heap, a, d, k) /\ free' = free \ {d}
<1>0. heap \in Memories /\ Lists \in Tables /\ Shape(heap, Lists) /\ Memory(Lists, free, mem)
  BY InvFacts
<1>1. PICK b \in Buckets : b = Bucket(k)
  BY KeyFacts
<1>2. From(MinNode(b)) = Lists[b]
  BY DEF Lists
<1>3. PICK a \in Lists[b], d \in free :
        /\ heap[a].val < k /\ heap[heap[a].next].val > k
        /\ heap' = [NewNode(d, k, heap[a].next) EXCEPT ![a].next = d]
        /\ free' = free \ {d}
  BY <1>1, <1>2 DEF SetSeqAdd
<1>4. left > 0 /\ left' = left - 1 /\ k \notin Members
  BY DEF SetSeqAdd
<1>5. d \in Spare /\ d \in Blocks /\ ~Linked(Lists, d) /\ a \in Blocks
  BY <1>0, <1>3, BlockFacts DEF Memory, Tables
<1>6. a # d
  BY <1>3, <1>5 DEF Linked
<1>7. heap' = LinkIn(heap, a, d, k)
  <2>1. NewNode(d, k, heap[a].next) = [heap EXCEPT ![d] = [val |-> k, next |-> heap[a].next]]
    BY DEF NewNode
  <2>2. PICK h1 : h1 = [heap EXCEPT ![d] = [val |-> k, next |-> heap[a].next]]
    OBVIOUS
  <2>3. h1[a] = heap[a] /\ heap[a] \in Nodes
    BY <2>2, <1>0, <1>5, <1>6 DEF Memories
  <2>4. [heap[a] EXCEPT !.next = d] = [val |-> heap[a].val, next |-> d]
    BY <2>3 DEF Nodes
  <2>5. heap' = [h1 EXCEPT ![a] = [val |-> heap[a].val, next |-> d]]
    BY <2>1, <2>2, <2>3, <2>4, <1>3
  <2> QED
    BY <2>2, <2>5 DEF LinkIn
<1>8. heap[heap[a].next].val \in Int /\ k \in Int
  <2>1. a # MaxNode(b)
    BY <1>0, <1>3, ListFacts, KeyFacts
  <2>2. heap[a].next \in Lists[b]
    BY <2>1, <1>0, <1>3, ListFacts
  <2> QED
    BY <2>2, <1>0, ListFacts, KeyFacts
<1>9. ~Has(heap, Lists, k)
  <2> SUFFICES ASSUME NEW c \in Lists[b], heap[c].val = k PROVE FALSE
    BY <1>1 DEF Has
  <2>1. c # MinNode(b) /\ c # MaxNode(b)
    BY <1>0, ListFacts, KeyFacts
  <2>2. c \in Inner(b)
    BY <2>1, <1>2 DEF Inner
  <2>3. k \in Members
    BY <2>2, <1>1 DEF Members
  <2> QED
    BY <2>3, <1>4
<1> QED
  BY <1>1, <1>3, <1>4, <1>7, <1>8, <1>9

LEMMA StepPopulate ==
  ASSUME IInv, NEW k \in Keys, SetSeqAdd(k), UNCHANGED <<driver, early, call, tx, mem, n, ans, last, redo>>
  PROVE  IInv' /\ Adds(heap, Lists, heap', Lists', Blocks, k) /\ ~Has(heap, Lists, k) /\ left > 0 /\ left' = left - 1
<1>0. /\ Typed /\ heap \in Memories /\ Lists \in Tables /\ Shape(heap, Lists) /\ Memory(Lists, free, mem)
      /\ left \in 0 .. Initial /\ free \subseteq Spare /\ ~early
  BY InvFacts
<1>1. left > 0 /\ left' = left - 1 /\ ~Has(heap, Lists, k)
  BY FillEffect
<1>2. PICK a \in Lists[Bucket(k)], d \in free :
        /\ heap[a].val < k /\ k < heap[heap[a].next].val
        /\ heap' = LinkIn(heap, a, d, k) /\ free' = free \ {d}
  BY FillEffect
<1>3. \A p \in Procs : call[p] = NoCall /\ tx[p] = NoTx /\ mem[p] = NoMem
  BY <1>1, NobodyCalls
<1>4. d \in Spare /\ ~Linked(Lists, d)
  BY <1>0, <1>2 DEF Memory
<1> DEFINE l == Lists
<1> HIDE DEF l
<1>5. l \in Tables /\ Shape(heap, l) /\ a \in l[Bucket(k)] /\ ~Linked(l, d) /\ Memory(l, free, mem)
  BY <1>0, <1>2, <1>4 DEF l
<1>6. PICK s2 : s2 = More(l, Bucket(k), d)
  OBVIOUS
<1>7. LinkIn(heap, a, d, k) \in Memories /\ s2 \in Tables /\ Shape(LinkIn(heap, a, d, k), s2)
  BY <1>0, <1>2, <1>4, <1>5, <1>6, LinkShape
<1>8. heap' \in Memories /\ Shape(heap', s2)
  BY <1>2, <1>7
<1>9. \A c : Linked(s2, c) <=> Linked(l, c) \/ c = d
  <2>1. Bucket(k) \in Buckets
    BY KeyFacts
  <2> QED
    BY <2>1, <1>5, <1>6, MoreLinked
<1>10. Memory(s2, free', mem')
  <2>1. \A p \in Procs : mem'[p].new = {} /\ mem[p].new = {}
    BY <1>3 DEF NoMem
  <2>2. ASSUME NEW c \in Spare, ~Linked(s2, c) PROVE c \in free'
    <3>1. ~Linked(l, c) /\ c # d
      BY <2>2, <1>9
    <3>2. c \in free
      BY <3>1, <2>1, <1>5 DEF Memory
    <3> QED
      BY <3>1, <3>2, <1>2
  <2>3. ASSUME NEW c \in free' PROVE c \in Spare /\ ~Linked(s2, c)
    BY <2>3, <1>2, <1>5, <1>9 DEF Memory
  <2> QED
    BY <2>1, <2>2, <2>3 DEF Memory
<1>11. Typed'
  <2>1. left' \in 0 .. Initial
    BY <1>0, <1>1, SetAssumption
  <2>2. TypeOK'
    BY <2>1, <1>0, <1>2, <1>8 DEF Typed, TypeOK, Memories, Nodes, Values, Pointers
  <2> QED
    BY <2>2, <1>0 DEF Typed, Setting
<1>12. \A p \in Procs : Form(tx'[p], call'[p], mem'[p], left')
  <2> SUFFICES ASSUME NEW p \in Procs PROVE Form(tx[p], call[p], mem[p], left')
    OBVIOUS
  <2> QED
    BY <1>3, InvFacts DEF Form
<1>13. \A p \in Procs : call'[p] # NoCall /\ ~tx'[p].lost => Live(heap', s2, tx'[p], call'[p], mem'[p])
  BY <1>3
<1>14. IInv' /\ Lists' = s2
  BY <1>7, <1>8, <1>10, <1>11, <1>12, <1>13, Assemble
<1>15. Adds(heap, l, heap', s2, Blocks, k)
  BY <1>2, <1>4, <1>5, <1>6, KeyFacts DEF Adds, Tables
<1> QED
  BY <1>1, <1>14, <1>15 DEF l

\* The empty lists of the beginning
LEMMA InitShape ==
  ASSUME Init, NEW s, s = [b \in Buckets |-> {MinNode(b), MaxNode(b)}]
  PROVE  heap \in Memories /\ s \in Tables /\ Shape(heap, s) /\ \A a \in Spare : ~Linked(s, a)
<1>1. \A b \in Buckets : /\ heap[MinNode(b)].val = ValMin /\ heap[MinNode(b)].next = MaxNode(b)
                         /\ heap[MaxNode(b)].val = ValMax /\ heap[MaxNode(b)] = [val |-> ValMax, next |-> Nil]
                         /\ heap[MinNode(b)] \in Nodes /\ heap[MaxNode(b)] \in Nodes
  <2> SUFFICES ASSUME NEW b \in Buckets
               PROVE  /\ heap[MinNode(b)].val = ValMin /\ heap[MinNode(b)].next = MaxNode(b)
                      /\ heap[MaxNode(b)].val = ValMax /\ heap[MaxNode(b)] = [val |-> ValMax, next |-> Nil]
                      /\ heap[MinNode(b)] \in Nodes /\ heap[MaxNode(b)] \in Nodes
    OBVIOUS
  <2>1. /\ MinNode(b) \in Ends /\ MaxNode(b) \in Ends /\ MinNode(b) \in Blocks /\ MaxNode(b) \in Blocks
        /\ MinNode(b) # MaxNode(b)
    BY BlockFacts
  <2>2. MinNode(b)[2] = b /\ MaxNode(b)[2] = b
    BY DEF MinNode, MaxNode
  <2>3. heap[MinNode(b)] = SetNew(b)[MinNode(b)] /\ heap[MaxNode(b)] = SetNew(b)[MaxNode(b)]
    BY <2>1, <2>2 DEF Init, HtNew
  <2>4. PICK low, high : low = [val |-> ValMin, next |-> MaxNode(b)] /\ high = [val |-> ValMax, next |-> Nil]
    OBVIOUS
  <2>5. heap[MinNode(b)] = low /\ heap[MaxNode(b)] = high
    BY <2>1, <2>3, <2>4 DEF SetNew
  <2>6. MaxNode(b) \in Pointers /\ Nil \in Pointers /\ ValMin \in Values /\ ValMax \in Values
    BY <2>1 DEF Pointers, Values
  <2>7. low \in Nodes /\ high \in Nodes /\ low.val = ValMin /\ low.next = MaxNode(b) /\ high.val = ValMax
    BY <2>4, <2>6 DEF Nodes
  <2> QED
    BY <2>4, <2>5, <2>7, Zenon
<1>2. \A a \in Ends : \E b \in Buckets : a \in {MinNode(b), MaxNode(b)}
  BY DEF Ends
<1>3. heap \in Memories
  <2>1. Blank \in Nodes
    <3>1. 0 \in Keys
      BY SetAssumption DEF Keys
    <3> QED
      BY <3>1 DEF Blank, Nodes, Values, Pointers
  <2>2. \A a \in Ends : heap[a] \in Nodes
    BY <1>1, <1>2, Zenon
  <2>3. \A a \in Blocks : a \notin Ends => heap[a] = Blank
    BY DEF Init
  <2>4. heap = [a \in Blocks |-> heap[a]]
    BY DEF Init
  <2> HIDE DEF Nodes
  <2>5. \A a \in Blocks : heap[a] \in Nodes
    BY <2>1, <2>2, <2>3
  <2> QED
    BY <2>4, <2>5 DEF Memories
<1>4. s \in Tables
  BY BlockFacts DEF Tables
<1>5. EndsKept(heap)
  BY <1>1, Zenon DEF EndsKept
<1>6. ASSUME NEW b \in Buckets
      PROVE  IsList(heap, b, s[b])
  <2>1. s[b] = {MinNode(b), MaxNode(b)} /\ s[b] \subseteq Blocks /\ MinNode(b) # MaxNode(b)
    BY <1>6, BlockFacts
  <2>2. heap[MinNode(b)].val = ValMin /\ heap[MinNode(b)].next = MaxNode(b) /\ heap[MaxNode(b)].val = ValMax
    BY <1>1, <1>6, Zenon
  <2>3. ValMin < ValMax /\ ValMin \in Int /\ ValMax \in Int
    BY KeyFacts
  <2> QED
    BY <2>1, <2>2, <2>3 DEF IsList
<1>7. \A a \in Spare : ~Linked(s, a)
  BY BlockFacts DEF Linked
<1> QED
  BY <1>3, <1>4, <1>5, <1>6, <1>7 DEF Shape

LEMMA InitInv ==
  ASSUME TestPrograms, Init
  PROVE  IInv
<1>1. PICK s : s = [b \in Buckets |-> {MinNode(b), MaxNode(b)}]
  OBVIOUS
<1>2. heap \in Memories /\ s \in Tables /\ Shape(heap, s) /\ \A a \in Spare : ~Linked(s, a)
  BY <1>1, InitShape
<1>3. Lists = s
  <2>1. \A b \in Buckets : From(MinNode(b)) = s[b]
    BY <1>2, FromIs
  <2> QED
    BY <2>1, <1>2 DEF Lists, Tables
<1>4. \A p \in Procs : call[p] = NoCall /\ tx[p] = NoTx /\ mem[p] = NoMem
  BY DEF Init
<1>5. \A p \in Procs : Form(tx[p], call[p], mem[p], left)
  <2>1. NoTx.pc = "idle" /\ NoTx.leg = 1
    BY DEF NoTx, At
  <2> QED
    BY <2>1, <1>4 DEF Form, Walking, NoCall
<1>6. Memory(Lists, free, mem)
  <2>1. free = Spare /\ \A p \in Procs : mem[p].new = {}
    BY <1>4 DEF Init, NoMem
  <2> QED
    BY <2>1, <1>2, <1>3 DEF Memory
<1>7. Typed
  <2>1. driver \in Drivers \ {"api"} /\ early = FALSE
    BY DEF Init, TestPrograms
  <2>2. TypeOK
    <3>1. free = Spare /\ left \in 0 .. Initial
      BY SetAssumption DEF Init
    <3>2. call \in [Procs -> Calls \cup {NoCall}]
      BY DEF Init
    <3>3. last \in [Procs -> Keys \cup {-1}] /\ redo \in [Procs -> Keys \cup {-1}]
      BY DEF Init
    <3>4. \A p \in Procs : mem[p].new \cup mem[p].gone \subseteq Spare
      BY <1>4 DEF NoMem
    <3> QED
      BY <3>1, <3>2, <3>3, <3>4, <1>2 DEF TypeOK, Memories, Nodes, Values, Pointers
  <2>3. tx \in [Procs -> Attempts]
    <3>1. NoTx \in Attempts
      BY IdleFacts
    <3> QED
      BY <3>1 DEF Init
  <2>4. mem \in [Procs -> [new : SUBSET Spare, gone : SUBSET Spare]] /\ ans \in [Procs -> Int]
    <3>1. NoMem \in [new : SUBSET Spare, gone : SUBSET Spare]
      BY DEF NoMem
    <3> QED
      BY <3>1 DEF Init
  <2> QED
    BY <2>1, <2>2, <2>3, <2>4 DEF Typed, Setting
<1> QED
  BY <1>2, <1>3, <1>4, <1>5, <1>6, <1>7 DEF IInv

LEMMA NextInv ==
  ASSUME IInv, [Next]_vars
  PROVE  IInv'
<1>1. CASE UNCHANGED vars
  <2>1. /\ driver' = driver /\ early' = early /\ heap' = heap /\ free' = free /\ left' = left /\ call' = call
        /\ tx' = tx /\ mem' = mem /\ ans' = ans /\ last' = last /\ redo' = redo
    BY <1>1 DEF vars
  <2>2. /\ Lists \in Tables /\ Shape(heap, Lists) /\ Memory(Lists, free, mem) /\ Typed
        /\ \A p \in Procs : /\ Form(tx[p], call[p], mem[p], left)
                            /\ call[p] # NoCall /\ ~tx[p].lost => Live(heap, Lists, tx[p], call[p], mem[p])
    BY InvFacts
  <2>3. Typed'
    BY <2>1, <2>2 DEF Typed, TypeOK, Setting
  <2> DEFINE l == Lists
  <2> HIDE DEF l
  <2>4. /\ l \in Tables /\ Shape(heap', l) /\ Memory(l, free', mem')
        /\ \A p \in Procs : /\ Form(tx'[p], call'[p], mem'[p], left')
                            /\ call'[p] # NoCall /\ ~tx'[p].lost => Live(heap', l, tx'[p], call'[p], mem'[p])
    BY <2>1, <2>2 DEF l
  <2> QED
    BY <2>1, <2>3, <2>4, Assemble
<1>2. CASE Populate
  <2>1. PICK k \in Keys : SetSeqAdd(k)
    BY <1>2 DEF Populate
  <2> QED
    BY <2>1, <1>2, StepPopulate DEF Populate
<1>3. ASSUME NEW p \in Procs, Begin(p) PROVE IInv'
  BY <1>3, StepBegin
<1>4. ASSUME NEW p \in Procs, Load(p) \/ LoadHead(p) PROVE IInv'
  BY <1>4, StepLoad, StepLoadHead
<1>5. ASSUME NEW p \in Procs, Walk(p) \/ LoadNode(p) PROVE IInv'
  BY <1>5, StepWalk, StepLoadNode
<1>6. ASSUME NEW p \in Procs, Operation(p) \/ PgasOperation(p) PROVE IInv'
  BY <1>6, StepOperation, StepPgas
<1>7. ASSUME NEW p \in Procs, Commit(p) PROVE IInv'
  BY <1>7, StepCommit
<1>8. ASSUME NEW p \in Procs, Abort(p) PROVE IInv'
  BY <1>8, StepAbort
<1> QED
  BY <1>1, <1>2, <1>3, <1>4, <1>5, <1>6, <1>7, <1>8 DEF Next, SharedNext

-----------------------------------------------------------------------------
(* The theorems.                                                             *)

\* The invariant is one: what an attempt that has its locks knows of the lists stays true.
THEOREM Invariant == TestPrograms => (Spec => []IInv)
<1> SUFFICES ASSUME TestPrograms PROVE Spec => []IInv
  OBVIOUS
<1>1. Init => IInv
  BY InitInv
<1>2. IInv /\ [Next]_vars => IInv'
  BY NextInv
<1> QED
  BY <1>1, <1>2, PTL DEF Spec

\* The variables of the lists keep their types.
THEOREM TypesKept == TestPrograms => (Spec => []TypeOK)
<1>1. IInv => TypeOK
  BY DEF IInv, Typed
<1> QED
  BY <1>1, Invariant, PTL

\* Every list is sorted, runs from its first node to its last and holds the values of its
\* bucket only, whatever the processes that change it do at the same time.
THEOREM Integrity == TestPrograms => (Spec => []ListsIntact)
<1>1. ASSUME IInv PROVE ListsIntact
  <2>0. heap \in Memories /\ Shape(heap, Lists)
    BY <1>1, InvFacts
  <2> SUFFICES ASSUME NEW b \in Buckets
               PROVE  /\ MaxNode(b) \in From(MinNode(b))
                      /\ \A a \in From(MinNode(b)) \ {MaxNode(b)} : heap[a].val < heap[heap[a].next].val
                      /\ \A a \in Inner(b) : a \in Spare /\ Bucket(heap[a].val) = b
    BY DEF ListsIntact
  <2>1. From(MinNode(b)) = Lists[b]
    BY DEF Lists
  <2>2. \A a \in Inner(b) : a \in Lists[b] \ {MinNode(b), MaxNode(b)}
    BY <2>1 DEF Inner
  <2> QED
    BY <2>0, <2>1, <2>2, ListFacts
<1> QED
  BY <1>1, Invariant, PTL

\* A block is in a list, or free, or an attempt has allocated or unlinked it.
THEOREM Accounted == TestPrograms => (Spec => []BlocksAccounted)
<1>1. ASSUME IInv PROVE BlocksAccounted
  <2>0. heap \in Memories /\ Shape(heap, Lists) /\ Memory(Lists, free, mem)
    BY <1>1, InvFacts
  <2>1. PICK linked : linked = UNION {Inner(b) : b \in Buckets}
    OBVIOUS
  <2>2. \A a \in Spare : a \in linked <=> Linked(Lists, a)
    <3> SUFFICES ASSUME NEW a \in Spare PROVE a \in linked <=> Linked(Lists, a)
      OBVIOUS
    <3>1. \A b \in Buckets : a \in Inner(b) <=> a \in Lists[b]
      BY BlockFacts DEF Inner, Lists
    <3> QED
      BY <3>1, <2>1 DEF Linked
  <2>3. linked \cap free = {}
    BY <2>0, <2>2 DEF Memory
  <2>4. \A a \in Spare \ (linked \cup free) : \E p \in Procs : a \in mem[p].new \cup mem[p].gone
    BY <2>0, <2>2 DEF Memory
  <2> QED
    BY <2>1, <2>3, <2>4 DEF BlocksAccounted
<1> QED
  BY <1>1, Invariant, PTL

\* A process that has its locks reads val of linked nodes only.
THEOREM Looks == TestPrograms => (Spec => []LooksAtLinked)
<1>1. ASSUME IInv PROVE LooksAtLinked
  <2> SUFFICES ASSUME NEW p \in Procs, tx[p].pc = "look", ~tx[p].lost
               PROVE  tx[p].next \in UNION {From(MinNode(b)) : b \in Buckets}
    BY DEF LooksAtLinked
  <2>0. heap \in Memories /\ Lists \in Tables /\ Shape(heap, Lists) /\ \A b \in Buckets : Lists[b] = From(MinNode(b))
    BY <1>1, InvFacts DEF Lists
  <2>1. call[p] # NoCall /\ call[p] \in Calls
    BY <1>1, WalkingFacts DEF Walking
  <2>2. Live(heap, Lists, tx[p], call[p], mem[p]) /\ Form(tx[p], call[p], mem[p], left) /\ tx[p] \in Attempts
    BY <1>1, <2>1, InvFacts
  <2>3. Position(heap, Lists, tx[p], call[p])
    BY <2>2 DEF Live
  <2>4. \E b \in Buckets : tx[p].next \in Lists[b]
    <3>1. CASE call[p].name # "snapshot"
      <4>1. PICK k : k = Goal(tx[p], call[p])
        OBVIOUS
      <4>2. k \in Keys /\ Before(heap, Lists, tx[p], tx[p].prev, k) /\ tx[p].next = heap[tx[p].prev].next
        BY <4>1, <3>1, <2>1, <2>2, <2>3, GoalType DEF Position
      <4>3. PICK b \in Buckets : b = Bucket(k)
        BY <4>2, KeyFacts
      <4>4. tx[p].prev \in Lists[b] /\ heap[tx[p].prev].val < k
        BY <4>2, <4>3 DEF Before
      <4>5. tx[p].prev # MaxNode(b)
        BY <4>2, <4>3, <4>4, <2>0, ListFacts, KeyFacts
      <4> QED
        BY <4>2, <4>3, <4>4, <4>5, <2>0, ListFacts
    <3>2. CASE call[p].name = "snapshot"
      <4>1. Summing(Lists, tx[p]) /\ tx[p].next = heap[tx[p].prev].next
        BY <3>2, <2>3 DEF Position
      <4>2. PICK b \in Buckets : b = tx[p].leg - 1
        <5>1. tx[p].leg \in Nat \ {0} /\ tx[p].leg =< NumBuckets
          BY <3>2, <2>2 DEF Form, Attempts
        <5> QED
          BY <5>1, SetAssumption DEF Buckets
      <4>3. tx[p].prev \in Lists[b] \ {MaxNode(b)}
        BY <4>1, <4>2 DEF Summing
      <4> QED
        BY <4>1, <4>3, <2>0, ListFacts
    <3> QED
      BY <3>1, <3>2
  <2> QED
    BY <2>0, <2>4
<1> QED
  BY <1>1, Invariant, PTL

-----------------------------------------------------------------------------
(* The lists as a set.                                                       *)

\* The values in the table are those that a block of its bucket has.
LEMMA MembersAre ==
  heap \in Memories /\ Shape(heap, Lists) => Members = {k \in Keys : Has(heap, Lists, k)}
<1> SUFFICES ASSUME heap \in Memories, Shape(heap, Lists)
             PROVE  Members = {k \in Keys : Has(heap, Lists, k)}
  OBVIOUS
<1>1. ASSUME NEW b \in Buckets, NEW a
      PROVE  a \in Inner(b) <=> a \in Lists[b] /\ a # MinNode(b) /\ a # MaxNode(b)
  BY <1>1 DEF Inner, Lists
<1>2. ASSUME NEW k \in Members
      PROVE  k \in Keys /\ Has(heap, Lists, k)
  <2>1. PICK b \in Buckets : \E a \in Inner(b) : k = heap[a].val
    BY <1>2 DEF Members
  <2>0. PICK a \in Inner(b) : k = heap[a].val
    BY <2>1
  <2>2. a \in Lists[b] /\ heap[a].val \in Keys /\ Bucket(heap[a].val) = b
    BY <2>0, <2>1, <1>1, ListFacts
  <2> QED
    BY <2>0, <2>2 DEF Has
<1>3. ASSUME NEW k \in Keys, Has(heap, Lists, k)
      PROVE  k \in Members
  <2>1. PICK b \in Buckets : b = Bucket(k)
    BY KeyFacts
  <2>2. PICK a \in Lists[b] : heap[a].val = k
    BY <2>1, <1>3 DEF Has
  <2>3. a # MinNode(b) /\ a # MaxNode(b)
    BY <2>1, <2>2, <1>3, ListFacts, KeyFacts
  <2>4. a \in Inner(b)
    BY <2>1, <2>2, <2>3, <1>1
  <2> QED
    BY <2>1, <2>2, <2>4 DEF Members
<1> QED
  BY <1>2, <1>3

LEMMA MembersAreNext ==
  IInv' => (Members = {k \in Keys : Has(heap, Lists, k)})'
<1>1. IInv => Members = {k \in Keys : Has(heap, Lists, k)}
  BY InvFacts, MembersAre
<1> QED
  BY <1>1, PTL

\* The sets before and after a step that keeps the invariant
LEMMA MembersStep ==
  ASSUME IInv, IInv'
  PROVE  /\ Members = {k \in Keys : Has(heap, Lists, k)}
         /\ Members' = {k \in Keys : Has(heap', Lists', k)}
<1>1. heap \in Memories /\ Shape(heap, Lists)
  BY InvFacts
<1>4. (Members = {k \in Keys : Has(heap, Lists, k)})'
  BY MembersAreNext
<1>5. \A k : Has(heap, Lists, k)' <=> Has(heap', Lists', k)
  BY DEF Has, Bucket
<1> QED
  BY <1>1, <1>4, <1>5, MembersAre

\* An insertion adds its value to the set, and a removal removes it.
LEMMA HasAdded ==
  ASSUME NEW h \in Memories, NEW s \in Tables, NEW h2, NEW s2, NEW w, NEW k \in Keys, Adds(h, s, h2, s2, w, k),
         NEW j \in Keys
  PROVE  Has(h2, s2, j) <=> Has(h, s, j) \/ j = k
<1>1. PICK b \in Buckets, c \in Buckets : b = Bucket(k) /\ c = Bucket(j)
  BY KeyFacts
<1>2. PICK a \in s[b], d \in Spare : ~Linked(s, d) /\ h2 = LinkIn(h, a, d, k) /\ s2 = More(s, b, d)
  BY <1>1 DEF Adds
<1>3. a \in Blocks /\ d \in Blocks /\ a # d /\ \A e \in Buckets : d \notin s[e] /\ s[e] \subseteq Blocks
  BY <1>2, BlockFacts DEF Linked, Tables
<1>4. h2[d].val = k /\ \A x \in Blocks \ {d} : h2[x].val = h[x].val
  BY <1>2, <1>3 DEF LinkIn, Memories
<1>5. s2[b] = s[b] \cup {d} /\ \A e \in Buckets \ {b} : s2[e] = s[e]
  BY <1>1, <1>2 DEF More, Tables
<1>6. Has(h2, s2, j) <=> \E x \in s2[c] : h2[x].val = j
  BY <1>1 DEF Has
<1>7. Has(h, s, j) <=> \E x \in s[c] : h[x].val = j
  BY <1>1 DEF Has
<1> QED
  BY <1>1, <1>3, <1>4, <1>5, <1>6, <1>7

LEMMA HasRemoved ==
  ASSUME NEW h \in Memories, NEW s \in Tables, NEW h2, NEW s2, NEW w, NEW k \in Keys, Shape(h, s),
         Removes(h, s, h2, s2, w, k), NEW j \in Keys
  PROVE  Has(h2, s2, j) <=> Has(h, s, j) /\ j # k
<1>1. PICK b \in Buckets, c \in Buckets : b = Bucket(k) /\ c = Bucket(j)
  BY KeyFacts
<1>2. PICK a \in s[b], x \in Spare : h[a].next = x /\ h[x].val = k /\ h2 = CutOut(h, a, x) /\ s2 = Less(s, b, x)
  BY <1>1 DEF Removes
<1>3. x \in Blocks /\ x # Nil /\ a \in Blocks
  BY <1>2, BlockFacts DEF Tables
<1>4. a # MaxNode(b) /\ x \in s[b] /\ h[a].val < h[x].val /\ h[a].val \in Int
  BY <1>2, <1>3, ListFacts
<1>5. a # x /\ \A e \in Buckets \ {b} : x \notin s[e]
  <2>1. \A e \in Buckets \ {b} : x \notin s[e]
    BY <1>4, OneList
  <2> QED
    BY <2>1, <1>2, <1>4, KeyFacts
<1>6. \A y \in Blocks \ {x} : h2[y].val = h[y].val
  BY <1>2, <1>3, <1>5 DEF CutOut, Memories
<1>7. s2[b] = s[b] \ {x} /\ \A e \in Buckets \ {b} : s2[e] = s[e]
  BY <1>1, <1>2 DEF Less, Tables
<1>8. \A y \in s[b] : h[y].val = k => y = x
  BY <1>2, <1>4, ListFacts
<1>9. \A e \in Buckets : s[e] \subseteq Blocks
  BY DEF Tables
<1>10. Has(h2, s2, j) <=> \E y \in s2[c] : h2[y].val = j
  BY <1>1 DEF Has
<1>11. Has(h, s, j) <=> \E y \in s[c] : h[y].val = j
  BY <1>1 DEF Has
<1> QED
  BY <1>1, <1>2, <1>5, <1>6, <1>7, <1>8, <1>9, <1>10, <1>11

\* What is unchanged in every linked block is unchanged in the set.
LEMMA MembersSame ==
  ASSUME IInv, IInv', Lists' = Lists, \A a \in Blocks : Linked(Lists, a) => heap'[a] = heap[a]
  PROVE  Members' = Members
<1>1. /\ Members = {k \in Keys : Has(heap, Lists, k)}
      /\ Members' = {k \in Keys : Has(heap', Lists', k)}
  BY MembersStep
<1>2. Lists \in Tables
  BY InvFacts
<1>3. ASSUME NEW k \in Keys
      PROVE  Has(heap', Lists', k) <=> Has(heap, Lists, k)
  <2>1. PICK b \in Buckets : b = Bucket(k)
    BY KeyFacts
  <2> DEFINE l == Lists
  <2>2. l[b] \subseteq Blocks
    BY <1>2 DEF Tables
  <2>3. \A a \in l[b] : heap'[a] = heap[a]
    BY <2>2 DEF Linked
  <2>4. Lists' = l
    OBVIOUS
  <2> HIDE DEF l
  <2>5. Has(heap', l, k) <=> Has(heap, l, k)
    BY <2>1, <2>3 DEF Has
  <2> QED
    BY <2>4, <2>5 DEF l
<1> QED
  BY <1>1, <1>3
=============================================================================
