-------------------------------- MODULE Sums --------------------------------
(***************************************************************************)
(* Facts about naturals and about sums over finite sets, for the proofs of *)
(* the other modules.  The folds of the community modules choose the       *)
(* elements in some order; that their result does not depend on it is      *)
(* what is proved here, by induction on the number of elements.            *)
(***************************************************************************)
EXTENDS Integers, FiniteSetsExt, TLAPS, FiniteSetTheorems, WellFoundedInduction

\* A set of naturals that is not empty has a least member.
LEMMA LeastIn ==
  ASSUME NEW S \in SUBSET Nat, S # {}
  PROVE  \E x \in S : \A y \in S : x =< y
<1>1. PICK x \in S : \A y \in S : <<y, x>> \notin OpToRel(<, Nat)
  BY NatLessThanWellFounded, WFMin, Zenon
<1>2. \A y \in S : ~(y < x)
  BY <1>1, Zenon DEF OpToRel
<1>3. \A y \in S : x =< y
  BY <1>2
<1> QED
  BY <1>3

\* What holds of 0, and with n of n + 1, holds of all numbers.
LEMMA Upwards ==
  ASSUME NEW S, 0 \in S, \A i \in Nat : i \in S => i + 1 \in S
  PROVE  Nat \subseteq S
<1> SUFFICES ASSUME NEW k \in Nat, k \notin S PROVE FALSE
  OBVIOUS
<1>1. PICK x \in Nat \ S : \A y \in Nat \ S : x =< y
  BY LeastIn
<1>2. x # 0 /\ x - 1 \in Nat
  BY <1>1
<1>3. x - 1 \in S
  BY <1>1, <1>2
<1> QED
  BY <1>1, <1>2, <1>3

-----------------------------------------------------------------------------
(* Sums over a set, of the values g of its elements.                         *)

\* f[s] is the sum over s, for every part s of S: whichever element comes last.
IsSum(S, g, f) ==
  /\ f[{}] = 0
  /\ \A s \in SUBSET S : f[s] \in Int /\ \A x \in s : f[s] = g[x] + f[s \ {x}]

\* What a fold does: one element after the other, in an order it chooses
FoldStep(S, g, f) ==
  f = [s \in SUBSET S |-> IF s = {} THEN 0 ELSE LET x == CHOOSE x \in s : TRUE IN g[x] + f[s \ {x}]]

\* Up to n elements, the order does not matter.
Small(S, n) == {s \in SUBSET S : Cardinality(s) =< n}
Upto(S, g, n, f) ==
  /\ f \in [Small(S, n) -> Int] /\ f[{}] = 0
  /\ \A s \in Small(S, n) : \A x \in s : f[s] = g[x] + f[s \ {x}]

LEMMA SmallFacts ==
  ASSUME NEW S, IsFiniteSet(S), NEW n \in Nat
  PROVE  /\ {} \in Small(S, n) /\ Small(S, n) \subseteq Small(S, n + 1)
         /\ \A s \in Small(S, n) : \A x : s \ {x} \in Small(S, n)
         /\ \A s \in Small(S, n + 1) : \A x \in s : s \ {x} \in Small(S, n)
<1>1. \A s \in SUBSET S : IsFiniteSet(s) /\ Cardinality(s) \in Nat
  BY FS_Subset, FS_CardinalityType
<1>2. \A s \in SUBSET S : \A x : Cardinality(s \ {x}) = IF x \in s THEN Cardinality(s) - 1 ELSE Cardinality(s)
  BY <1>1, FS_RemoveElement
<1>3. {} \in Small(S, n)
  BY FS_EmptySet DEF Small
<1>4. Small(S, n) \subseteq Small(S, n + 1)
  BY <1>1 DEF Small
<1>5. ASSUME NEW s \in Small(S, n), NEW x
      PROVE  s \ {x} \in Small(S, n)
  <2>1. s \in SUBSET S /\ Cardinality(s) \in Nat /\ Cardinality(s) =< n
    BY <1>1, <1>5 DEF Small
  <2>2. Cardinality(s \ {x}) =< n
    BY <2>1, <1>2
  <2> QED
    BY <2>1, <2>2 DEF Small
<1>6. ASSUME NEW s \in Small(S, n + 1), NEW x \in s
      PROVE  s \ {x} \in Small(S, n)
  <2>1. s \in SUBSET S /\ Cardinality(s) \in Nat /\ Cardinality(s) =< n + 1
    BY <1>1, <1>6 DEF Small
  <2>2. Cardinality(s \ {x}) = Cardinality(s) - 1
    BY <2>1, <1>2, <1>6
  <2> QED
    BY <2>1, <2>2 DEF Small
<1> QED
  BY <1>3, <1>4, <1>5, <1>6

LEMMA UptoNext ==
  ASSUME NEW S, IsFiniteSet(S), NEW g \in [S -> Int], NEW n \in Nat, NEW f, Upto(S, g, n, f)
  PROVE  \E h : Upto(S, g, n + 1, h)
<1> DEFINE last(s) == CHOOSE x \in s : TRUE
           h == [s \in Small(S, n + 1) |-> IF s \in Small(S, n) THEN f[s] ELSE g[last(s)] + f[s \ {last(s)}]]
<1>1. /\ {} \in Small(S, n) /\ Small(S, n) \subseteq Small(S, n + 1)
      /\ \A s \in Small(S, n) : \A x : s \ {x} \in Small(S, n)
      /\ \A s \in Small(S, n + 1) : \A x \in s : s \ {x} \in Small(S, n)
      /\ \A s \in Small(S, n + 1) : s \subseteq S
  BY SmallFacts DEF Small
<1>2. /\ f \in [Small(S, n) -> Int] /\ f[{}] = 0
      /\ \A s \in Small(S, n) : \A x \in s : f[s] = g[x] + f[s \ {x}]
  BY DEF Upto
<1>3. \A s \in Small(S, n + 1) : s \notin Small(S, n) => last(s) \in s
  BY <1>1
<1>4. h \in [Small(S, n + 1) -> Int]
  <2> SUFFICES ASSUME NEW s \in Small(S, n + 1), s \notin Small(S, n)
               PROVE  g[last(s)] + f[s \ {last(s)}] \in Int
    BY <1>2, <1>1
  <2>1. last(s) \in s /\ last(s) \in S /\ s \ {last(s)} \in Small(S, n)
    BY <1>1, <1>3
  <2> HIDE DEF last
  <2> QED
    BY <2>1, <1>2
<1>5. h[{}] = 0
  BY <1>1, <1>2
<1>6. ASSUME NEW s \in Small(S, n + 1), NEW x \in s
      PROVE  h[s] = g[x] + h[s \ {x}]
  <2>1. s \ {x} \in Small(S, n) /\ h[s \ {x}] = f[s \ {x}]
    BY <1>1, <1>6
  <2>2. CASE s \in Small(S, n)
    BY <2>1, <2>2, <1>1, <1>2, <1>6
  <2>3. CASE s \notin Small(S, n)
    <3>1. PICK c : c = last(s)
      OBVIOUS
    <3>2. c \in s /\ h[s] = g[c] + f[s \ {c}] /\ s \ {c} \in Small(S, n)
      BY <2>3, <3>1, <1>1, <1>3, <1>6
    <3> HIDE DEF h, last
    <3>3. CASE c = x
      BY <3>2, <3>3, <2>1
    <3>4. CASE c # x
      <4>1. f[s \ {c}] = g[x] + f[(s \ {c}) \ {x}]
        BY <3>2, <3>4, <1>2, <1>6
      <4>2. f[s \ {x}] = g[c] + f[(s \ {x}) \ {c}]
        BY <2>1, <3>2, <3>4, <1>2
      <4>3. (s \ {c}) \ {x} = (s \ {x}) \ {c} /\ (s \ {x}) \ {c} \in Small(S, n)
        BY <2>1, <1>1
      <4>4. g[x] \in Int /\ g[c] \in Int /\ f[(s \ {x}) \ {c}] \in Int
        BY <4>3, <3>2, <1>1, <1>2, <1>6
      <4>5. PICK r : r = f[(s \ {x}) \ {c}]
        OBVIOUS
      <4>6. h[s] = g[c] + (g[x] + r) /\ h[s \ {x}] = g[c] + r /\ r \in Int
        BY <4>1, <4>2, <4>3, <4>4, <4>5, <3>2, <2>1
      <4> QED
        BY <4>4, <4>6
    <3> QED
      BY <3>3, <3>4
  <2> QED
    BY <2>2, <2>3
<1> HIDE DEF h
<1> QED
  BY ZenonT(40), <1>4, <1>5, <1>6 DEF Upto

\* A sum exists, of every finite set of integers.
LEMMA SumExists ==
  ASSUME NEW S, IsFiniteSet(S), NEW g \in [S -> Int]
  PROVE  \E f \in [SUBSET S -> Int] : IsSum(S, g, f)
<1> DEFINE Good == {n \in Nat : \E f : Upto(S, g, n, f)}
<1>1. 0 \in Good
  <2> DEFINE f == [s \in Small(S, 0) |-> 0]
  <2>1. \A s \in Small(S, 0) : s = {}
    BY FS_Subset, FS_EmptySet, FS_CardinalityType DEF Small
  <2>2. Upto(S, g, 0, f)
    BY <2>1, SmallFacts DEF Upto
  <2> QED
    BY <2>2
<1>2. \A n \in Nat : n \in Good => n + 1 \in Good
  BY UptoNext
<1> HIDE DEF Good
<1>3. Nat \subseteq Good
  BY <1>1, <1>2, Upwards
<1>4. PICK n \in Nat : n = Cardinality(S)
  BY FS_CardinalityType
<1>5. PICK f : Upto(S, g, n, f)
  BY <1>3 DEF Good
<1>6. Small(S, n) = SUBSET S
  BY <1>4, FS_Subset DEF Small
<1> QED
  BY ZenonT(40), <1>5, <1>6 DEF Upto, IsSum

\* Two functions of sets agree if each set has an element without which they agree on it only if
\* they do with it: what a fold has computed does not depend on the order.
LEMMA SameFold ==
  ASSUME NEW S, IsFiniteSet(S), NEW f, NEW h, h[{}] = f[{}],
         \A s \in SUBSET S : s # {} => \E x \in s : h[s \ {x}] = f[s \ {x}] => h[s] = f[s]
  PROVE  h[S] = f[S]
<1> DEFINE Good == {n \in Nat : \A s \in Small(S, n) : h[s] = f[s]}
<1>1. 0 \in Good
  <2>1. \A s \in Small(S, 0) : s = {}
    BY FS_Subset, FS_EmptySet, FS_CardinalityType DEF Small
  <2> QED
    BY <2>1
<1>2. ASSUME NEW n \in Nat, n \in Good
      PROVE  n + 1 \in Good
  <2> SUFFICES ASSUME NEW s \in Small(S, n + 1) PROVE h[s] = f[s]
    OBVIOUS
  <2>1. CASE s = {}
    BY <2>1
  <2>2. CASE s # {}
    <3>1. PICK x \in s : h[s \ {x}] = f[s \ {x}] => h[s] = f[s]
      BY <2>2 DEF Small
    <3>2. s \ {x} \in Small(S, n)
      BY <3>1, SmallFacts
    <3> QED
      BY <3>1, <3>2, <1>2
  <2> QED
    BY <2>1, <2>2
<1> HIDE DEF Good
<1>3. Nat \subseteq Good
  BY <1>1, <1>2, Upwards
<1>4. PICK n \in Nat : n = Cardinality(S)
  BY FS_CardinalityType
<1>5. S \in Small(S, n)
  BY <1>4 DEF Small
<1> QED
  BY <1>3, <1>5 DEF Good

\* A fold computes it, also when f adds over a larger set.
LEMMA FoldIs ==
  ASSUME NEW S, IsFiniteSet(S), NEW g, NEW f, IsSum(S, g, f), NEW h, FoldStep(S, g, h)
  PROVE  h[S] = f[S]
<1>1. ASSUME NEW s \in SUBSET S, s # {}
      PROVE  \E x \in s : h[s \ {x}] = f[s \ {x}] => h[s] = f[s]
  <2>1. h[s] = g[CHOOSE x \in s : TRUE] + h[s \ {CHOOSE x \in s : TRUE}]
    BY <1>1 DEF FoldStep
  <2>2. PICK x \in s : h[s] = g[x] + h[s \ {x}]
    BY <2>1, <1>1
  <2> QED
    BY <2>2 DEF IsSum
<1>2. h[{}] = f[{}]
  BY DEF FoldStep, IsSum
<1> QED
  BY <1>1, <1>2, SameFold

\* Such a function is what the recursive definition of a fold chooses.
LEMMA FoldExists ==
  ASSUME NEW S, NEW g, NEW f \in [SUBSET S -> Int], IsSum(S, g, f)
  PROVE  FoldStep(S, g, f)
<1>1. ASSUME NEW s \in SUBSET S
      PROVE  f[s] = IF s = {} THEN 0 ELSE LET x == CHOOSE x \in s : TRUE IN g[x] + f[s \ {x}]
  <2>1. CASE s = {}
    BY <2>1 DEF IsSum
  <2>2. CASE s # {}
    <3>1. PICK c : c = CHOOSE x \in s : TRUE
      OBVIOUS
    <3>2. c \in s
      BY <2>2, <3>1
    <3>3. f[s] = g[c] + f[s \ {c}]
      BY <3>2 DEF IsSum
    <3> QED
      BY <2>2, <3>1, <3>3
  <2> QED
    BY <2>1, <2>2
<1> QED
  BY <1>1 DEF FoldStep

-----------------------------------------------------------------------------
(* SumSet.                                                                   *)

SetStep(S, f) == f = [s \in SUBSET S |-> IF s = {} THEN 0 ELSE LET x == CHOOSE x \in s : TRUE IN x + f[s \ {x}]]

LEMMA SumSetUnfold ==
  ASSUME NEW S
  PROVE  SumSet(S) = (CHOOSE f : SetStep(S, f))[S]
BY Zenon DEF SumSet, FoldSet, MapThenFoldSet, SetStep

\* The choice of such a function is one.
LEMMA FoldChosen ==
  ASSUME NEW S, NEW g, NEW f, IsSum(S, g, f)
  PROVE  FoldStep(S, g, CHOOSE h : FoldStep(S, g, h))
<1>1. PICK h : h = [s \in SUBSET S |-> f[s]]
  OBVIOUS
<1>2. h \in [SUBSET S -> Int]
  BY <1>1 DEF IsSum
<1>3. IsSum(S, g, h)
  <2>1. \A s \in SUBSET S : h[s] = f[s] /\ \A x : h[s \ {x}] = f[s \ {x}]
    BY <1>1
  <2> QED
    BY <2>1 DEF IsSum
<1>4. FoldStep(S, g, h)
  BY <1>2, <1>3, FoldExists
<1> QED
  BY <1>4, Zenon

LEMMA SumSetIs ==
  ASSUME NEW S, IsFiniteSet(S), NEW g, \A x \in S : g[x] = x, NEW f, IsSum(S, g, f)
  PROVE  SumSet(S) = f[S]
<1>1. ASSUME NEW h
      PROVE  SetStep(S, h) <=> FoldStep(S, g, h)
  <2>1. ASSUME NEW s \in SUBSET S
        PROVE  (IF s = {} THEN 0 ELSE LET x == CHOOSE x \in s : TRUE IN x + h[s \ {x}])
                 = (IF s = {} THEN 0 ELSE LET x == CHOOSE x \in s : TRUE IN g[x] + h[s \ {x}])
    <3>1. CASE s # {}
      <4>1. PICK c : c = CHOOSE x \in s : TRUE
        OBVIOUS
      <4>2. c \in s /\ g[c] = c
        BY <4>1, <3>1
      <4> QED
        BY <3>1, <4>1, <4>2
    <3> QED
      BY <3>1
  <2> QED
    BY <2>1, Zenon DEF SetStep, FoldStep
<1>2. (CHOOSE h : SetStep(S, h)) = (CHOOSE h : FoldStep(S, g, h))
  BY <1>1
<1>3. PICK h : h = CHOOSE f2 : FoldStep(S, g, f2)
  OBVIOUS
<1>4. FoldStep(S, g, h)
  BY <1>3, FoldChosen
<1>5. h[S] = f[S]
  BY <1>4, FoldIs
<1> QED
  BY <1>2, <1>3, <1>5, SumSetUnfold

\* The sum of a set with one element more
LEMMA SumSetAdd ==
  ASSUME NEW S, IsFiniteSet(S), S \subseteq Int, NEW x \in Int, x \notin S
  PROVE  SumSet(S \cup {x}) = SumSet(S) + x /\ SumSet(S) \in Int
<1>1. PICK T : T = S \cup {x}
  OBVIOUS
<1>2. IsFiniteSet(T) /\ T \ {x} = S /\ x \in T /\ S \subseteq T
  BY <1>1, FS_AddElement
<1>3. PICK g : g = [y \in T |-> y]
  OBVIOUS
<1>4. g \in [T -> Int] /\ (\A y \in T : g[y] = y)
  BY <1>1, <1>3
<1>5. PICK f \in [SUBSET T -> Int] : IsSum(T, g, f)
  BY <1>2, <1>4, SumExists
<1>6. IsSum(S, g, f)
  BY <1>2, <1>5 DEF IsSum
<1>7. SumSet(T) = f[T]
  BY <1>2, <1>4, <1>5, SumSetIs
<1>8. SumSet(S) = f[S]
  BY <1>2, <1>4, <1>6, SumSetIs
<1>9. f[T] = x + f[S] /\ f[S] \in Int
  BY <1>2, <1>4, <1>5 DEF IsSum
<1> QED
  BY <1>1, <1>7, <1>8, <1>9

LEMMA SumSetEmpty == SumSet({}) = 0
<1>1. PICK g : g = [x \in {} |-> 0]
  OBVIOUS
<1>2. IsFiniteSet({}) /\ g \in [{} -> Int]
  BY <1>1, FS_EmptySet
<1>3. PICK f \in [SUBSET {} -> Int] : IsSum({}, g, f)
  BY <1>2, SumExists
<1> QED
  BY <1>2, <1>3, SumSetIs DEF IsSum
=============================================================================
