--------------------------- MODULE ClientsProofs ---------------------------
(***************************************************************************)
(* Theorems about the clients, for any number of nodes, words, accounts    *)
(* and iterations, and any file.                                           *)
(***************************************************************************)
EXTENDS Clients, Sums, SequenceTheorems

-----------------------------------------------------------------------------
(* Sequences that are put together from others.                              *)

\* r is made of s[1] to s[n], one after the other: element k of r is element b[k] of s[a[k]].
Made(T, s, n, r, a, b) ==
  /\ r \in Seq(T) /\ a \in [1 .. Len(r) -> 1 .. n] /\ b \in [1 .. Len(r) -> Nat \ {0}]
  /\ \A k \in 1 .. Len(r) : /\ b[k] <= Len(s[a[k]]) /\ r[k] = s[a[k]][b[k]]
                            /\ b[k] > 1 => k > 1 /\ a[k - 1] = a[k] /\ b[k - 1] = b[k] - 1
  /\ \A i \in 1 .. n : \A j \in 1 .. Len(s[i]) : \E k \in 1 .. Len(r) : a[k] = i /\ b[k] = j
  /\ \A k, l \in 1 .. Len(r) : a[k] = a[l] /\ b[k] = b[l] => k = l

LEMMA MadeFirst ==
  ASSUME NEW T, NEW s \in Seq(Seq(T)), Len(s) # 0
  PROVE  \E a, b : Made(T, s, 1, s[1], a, b)
<1> DEFINE n == Len(s[1])
           a == [k \in 1 .. n |-> 1]
           b == [k \in 1 .. n |-> k]
<1>1. s[1] \in Seq(T)
  OBVIOUS
<1>2. Made(T, s, 1, s[1], a, b)
  BY <1>1 DEF Made
<1> QED
  BY <1>2

LEMMA MadeNext ==
  ASSUME NEW T, NEW s \in Seq(Seq(T)), NEW n \in Nat, n + 1 <= Len(s),
         NEW r, NEW a, NEW b, Made(T, s, n, r, a, b)
  PROVE  \E c, d : Made(T, s, n + 1, r \o s[n + 1], c, d)
<1> DEFINE m == Len(r)
           t == s[n + 1]
           q == r \o t
           c == [k \in 1 .. Len(q) |-> IF k <= m THEN a[k] ELSE n + 1]
           d == [k \in 1 .. Len(q) |-> IF k <= m THEN b[k] ELSE k - m]
<1>1. /\ r \in Seq(T) /\ a \in [1 .. m -> 1 .. n] /\ b \in [1 .. m -> Nat \ {0}]
      /\ \A k \in 1 .. m : /\ b[k] <= Len(s[a[k]]) /\ r[k] = s[a[k]][b[k]]
                           /\ b[k] > 1 => k > 1 /\ a[k - 1] = a[k] /\ b[k - 1] = b[k] - 1
      /\ \A i \in 1 .. n : \A j \in 1 .. Len(s[i]) : \E k \in 1 .. m : a[k] = i /\ b[k] = j
      /\ \A k, l \in 1 .. m : a[k] = a[l] /\ b[k] = b[l] => k = l
  BY DEF Made
<1>2. t \in Seq(T) /\ m \in Nat /\ Len(t) \in Nat
  BY <1>1
<1>3. /\ q \in Seq(T) /\ Len(q) = m + Len(t)
      /\ \A k \in 1 .. m : q[k] = r[k]
      /\ \A k \in m + 1 .. m + Len(t) : q[k] = t[k - m]
  BY <1>1, <1>2
<1> HIDE DEF m, t, q
<1>4. \A k \in 1 .. m + Len(t) : /\ k <= m => c[k] = a[k] /\ d[k] = b[k]
                                 /\ k > m => c[k] = n + 1 /\ d[k] = k - m
  BY <1>2, <1>3
<1>5. c \in [1 .. Len(q) -> 1 .. n + 1] /\ d \in [1 .. Len(q) -> Nat \ {0}]
  <2>1. \A k \in 1 .. Len(q) : /\ k <= m => k \in 1 .. m /\ a[k] \in 1 .. n /\ b[k] \in Nat \ {0}
                               /\ k > m => k - m \in Nat \ {0}
    BY <1>1, <1>2, <1>3
  <2>2. n + 1 \in 1 .. n + 1 /\ 1 .. n \subseteq 1 .. n + 1
    OBVIOUS
  <2>3. \A k \in 1 .. Len(q) : (k <= m) \/ (k > m)
    BY <1>2, <1>3
  <2>4. \A k \in 1 .. Len(q) : (IF k <= m THEN a[k] ELSE n + 1) \in 1 .. n + 1
    BY <2>1, <2>2, <2>3
  <2>5. \A k \in 1 .. Len(q) : (IF k <= m THEN b[k] ELSE k - m) \in Nat \ {0}
    BY <2>1, <2>3
  <2> QED
    BY <2>4, <2>5
<1> HIDE DEF c, d
<1>6. ASSUME NEW k \in 1 .. Len(q)
      PROVE  /\ d[k] <= Len(s[c[k]]) /\ q[k] = s[c[k]][d[k]]
             /\ d[k] > 1 => k > 1 /\ c[k - 1] = c[k] /\ d[k - 1] = d[k] - 1
  <2>1. CASE k <= m
    <3>1. k \in 1 .. m /\ c[k] = a[k] /\ d[k] = b[k] /\ q[k] = r[k]
      BY <2>1, <1>2, <1>3, <1>4, <1>6
    <3>2. k > 1 => k - 1 \in 1 .. m + Len(t) /\ k - 1 <= m
      BY <2>1, <1>2, <1>3, <1>6
    <3> QED
      BY <3>1, <3>2, <1>1, <1>4
  <2>2. CASE k > m
    <3>1. c[k] = n + 1 /\ d[k] = k - m /\ q[k] = t[k - m] /\ k - m <= Len(t)
      BY <2>2, <1>2, <1>3, <1>4, <1>6
    <3>2. k - m > 1 => k - 1 \in 1 .. m + Len(t) /\ k - 1 > m
      BY <2>2, <1>2, <1>3, <1>6
    <3> QED
      BY <3>1, <3>2, <1>2, <1>4 DEF t
  <2> QED
    BY <2>1, <2>2, <1>2, <1>3, <1>6
<1>7. ASSUME NEW i \in 1 .. n + 1, NEW j \in 1 .. Len(s[i])
      PROVE  \E k \in 1 .. Len(q) : c[k] = i /\ d[k] = j
  <2>1. CASE i \in 1 .. n
    <3>1. PICK k \in 1 .. m : a[k] = i /\ b[k] = j
      BY <2>1, <1>1, <1>7
    <3>2. k \in 1 .. m + Len(t) /\ k <= m
      BY <1>2
    <3> QED
      BY <3>1, <3>2, <1>3, <1>4
  <2>2. CASE i = n + 1
    <3>1. j + m \in 1 .. m + Len(t) /\ j + m > m /\ (j + m) - m = j
      BY <2>2, <1>2, <1>7 DEF t
    <3> QED
      BY <3>1, <2>2, <1>3, <1>4
  <2> QED
    BY <2>1, <2>2, <1>7
<1>8. ASSUME NEW k \in 1 .. Len(q), NEW l \in 1 .. Len(q), c[k] = c[l], d[k] = d[l]
      PROVE  k = l
  <2>1. k \in 1 .. m + Len(t) /\ l \in 1 .. m + Len(t) /\ (k <= m => a[k] <= n) /\ (l <= m => a[l] <= n)
    BY <1>1, <1>2, <1>3, <1>8
  <2>6. m \in Nat /\ n \in Nat /\ a \in [1 .. m -> 1 .. n]
    BY <1>1, <1>2
  <2>7. ASSUME NEW i \in 1 .. m + Len(t), i <= m
        PROVE  i \in 1 .. m /\ a[i] \in Int
    <3>1. i \in 1 .. m
      BY <2>6, <2>7
    <3> QED
      BY <3>1, <2>6
  <2>2. k \in Int /\ l \in Int /\ (k <= m => k \in 1 .. m /\ a[k] \in Int) /\ (l <= m => l \in 1 .. m /\ a[l] \in Int)
    <3>1. k \in Int /\ l \in Int
      BY <2>1
    <3> HIDE DEF t, m
    <3> QED
      BY <3>1, <2>1, <2>7
  <2>3. (k <= m) = (l <= m)
    BY <2>1, <2>2, <1>2, <1>4, <1>8
  <2>4. CASE k <= m
    BY <2>1, <2>2, <2>3, <2>4, <1>1, <1>4, <1>8
  <2>5. CASE k > m
    BY <2>1, <2>2, <2>3, <2>5, <1>2, <1>4, <1>8
  <2> QED
    BY <2>2, <2>4, <2>5, <1>2
<1>9. Made(T, s, n + 1, q, c, d)
  BY <1>3, <1>5, <1>6, <1>7, <1>8 DEF Made
<1> QED
  BY <1>9 DEF q, t

LEMMA JoinExists ==
  ASSUME NEW T, NEW s \in Seq(Seq(T))
  PROVE  \E f : f = [i \in 1 .. Len(s) |-> IF i = 1 THEN s[i] ELSE f[i - 1] \o s[i]]
<1> DEFINE P == {n \in Nat : \E f : f = [i \in 1 .. n |-> IF i = 1 THEN s[i] ELSE f[i - 1] \o s[i]]}
<1>1. 0 \in P
  <2>1. PICK g : g = [i \in 1 .. 0 |-> 0]
    OBVIOUS
  <2>2. g = [i \in 1 .. 0 |-> IF i = 1 THEN s[i] ELSE g[i - 1] \o s[i]]
    BY <2>1
  <2>3. 0 \in Nat
    OBVIOUS
  <2> QED
    BY <2>2, <2>3, Zenon
<1>2. ASSUME NEW n \in Nat, n \in P
      PROVE  n + 1 \in P
  <2>1. PICK f : f = [i \in 1 .. n |-> IF i = 1 THEN s[i] ELSE f[i - 1] \o s[i]]
    BY <1>2
  <2> DEFINE g == [i \in 1 .. n + 1 |-> IF i = 1 THEN s[i] ELSE f[i - 1] \o s[i]]
  <2>2. \A i \in 1 .. n : g[i] = f[i]
    <3> SUFFICES ASSUME NEW i \in 1 .. n PROVE g[i] = f[i]
      OBVIOUS
    <3>1. f[i] = IF i = 1 THEN s[i] ELSE f[i - 1] \o s[i]
      BY <2>1, Zenon
    <3>2. i \in 1 .. n + 1
      OBVIOUS
    <3>3. g[i] = IF i = 1 THEN s[i] ELSE f[i - 1] \o s[i]
      BY <3>2, Zenon
    <3> QED
      BY <3>1, <3>3, Zenon
  <2>3. g = [i \in 1 .. n + 1 |-> IF i = 1 THEN s[i] ELSE g[i - 1] \o s[i]]
    <3>1. \A i \in 1 .. n + 1 : i # 1 => i - 1 \in 1 .. n
      OBVIOUS
    <3>2. \A i \in 1 .. n + 1 : (IF i = 1 THEN s[i] ELSE f[i - 1] \o s[i]) = IF i = 1 THEN s[i] ELSE g[i - 1] \o s[i]
      <4> HIDE DEF g
      <4> QED
        BY <3>1, <2>2
    <3> QED
      BY ONLY <3>2, g = [i \in 1 .. n + 1 |-> IF i = 1 THEN s[i] ELSE f[i - 1] \o s[i]], Zenon
  <2>4. n + 1 \in Nat
    OBVIOUS
  <2> HIDE DEF g
  <2> QED
    BY <2>3, <2>4, Zenon
<1>3. Nat \subseteq P
  <2> HIDE DEF P
  <2> QED
    BY <1>1, <1>2, Upwards
<1>4. Len(s) \in P
  <2>1. Len(s) \in Nat
    OBVIOUS
  <2> HIDE DEF P
  <2> QED
    BY <2>1, <1>3
<1> QED
  BY <1>4, Zenon

\* What FlattenSeq is made of
LEMMA Flattened ==
  ASSUME NEW T, NEW s \in Seq(Seq(T))
  PROVE  \E a, b : Made(T, s, Len(s), FlattenSeq(s), a, b)
<1>1. CASE Len(s) = 0
  <2>1. FlattenSeq(s) = <<>> /\ 1 .. Len(s) = {}
    BY <1>1 DEF FlattenSeq
  <2>2. Made(T, s, Len(s), <<>>, [k \in {} |-> 0], [k \in {} |-> 0])
    BY <2>1 DEF Made
  <2> QED
    BY <2>1, <2>2
<1>2. CASE Len(s) # 0
  <2> DEFINE f == CHOOSE f : f = [i \in 1 .. Len(s) |-> IF i = 1 THEN s[i] ELSE f[i - 1] \o s[i]]
  <2>1. f = [i \in 1 .. Len(s) |-> IF i = 1 THEN s[i] ELSE f[i - 1] \o s[i]]
    BY JoinExists, Zenon
  <2>2. FlattenSeq(s) = f[Len(s)]
    BY <1>2, Zenon DEF FlattenSeq
  <2> HIDE DEF f
  <2> DEFINE P == {n \in Nat : n + 1 <= Len(s) => \E a, b : Made(T, s, n + 1, f[n + 1], a, b)}
  <2>3. Len(s) \in Nat /\ 1 <= Len(s)
    BY <1>2
  <2>4. 0 \in P
    <3>1. f[1] = s[1]
      <4>1. 1 \in 1 .. Len(s)
        BY <2>3
      <4> QED
        BY <4>1, <2>1, Zenon
    <3> QED
      BY <3>1, <1>2, MadeFirst
  <2>5. ASSUME NEW n \in Nat, n \in P
        PROVE  n + 1 \in P
    <3> SUFFICES ASSUME (n + 1) + 1 <= Len(s)
                 PROVE  \E a, b : Made(T, s, (n + 1) + 1, f[(n + 1) + 1], a, b)
      OBVIOUS
    <3>1. n + 1 \in Nat /\ n + 1 <= Len(s)
      BY <2>3
    <3>2. PICK a, b : Made(T, s, n + 1, f[n + 1], a, b)
      BY <3>1, <2>5
    <3>3. f[(n + 1) + 1] = f[n + 1] \o s[(n + 1) + 1]
      <4>1. (n + 1) + 1 \in 1 .. Len(s) /\ (n + 1) + 1 # 1 /\ ((n + 1) + 1) - 1 = n + 1
        BY <2>3
      <4> QED
        BY <4>1, <2>1
    <3> QED
      BY <3>1, <3>2, <3>3, MadeNext
  <2>6. Nat \subseteq P
    <3> HIDE DEF P
    <3> QED
      BY <2>4, <2>5, Upwards
  <2>7. Len(s) - 1 \in P
    <3>1. Len(s) - 1 \in Nat
      BY <2>3
    <3> HIDE DEF P
    <3> QED
      BY <3>1, <2>6
  <2>8. (Len(s) - 1) + 1 = Len(s)
    BY <2>3
  <2>9. \E a, b : Made(T, s, Len(s), f[Len(s)], a, b)
    BY <2>3, <2>7, <2>8
  <2> QED
    BY <2>2, <2>9
<1> QED
  BY <1>1, <1>2

\* Sequences of one element each
LEMMA FlatOnes ==
  ASSUME NEW T, NEW n \in Nat, NEW g \in [1 .. n -> T]
  PROVE  FlattenSeq([i \in 1 .. n |-> <<g[i]>>]) = g
<1> DEFINE s == [i \in 1 .. n |-> <<g[i]>>]
<1>1. s \in Seq(Seq(T)) /\ Len(s) = n /\ \A i \in 1 .. n : s[i] = <<g[i]>>
  <2>1. \A i \in 1 .. n : <<g[i]>> \in Seq(T)
    OBVIOUS
  <2> QED
    BY <2>1
<1> HIDE DEF s
<1>2. CASE n = 0
  BY <1>1, <1>2 DEF FlattenSeq
<1>3. CASE n # 0
  <2> DEFINE f == CHOOSE f : f = [i \in 1 .. Len(s) |-> IF i = 1 THEN s[i] ELSE f[i - 1] \o s[i]]
  <2>1. f = [i \in 1 .. Len(s) |-> IF i = 1 THEN s[i] ELSE f[i - 1] \o s[i]]
    BY <1>1, JoinExists, Zenon
  <2>2. FlattenSeq(s) = f[Len(s)]
    BY <1>1, <1>3, Zenon DEF FlattenSeq
  <2> HIDE DEF f
  <2> DEFINE P == {m \in Nat : m + 1 <= n => f[m + 1] = [i \in 1 .. m + 1 |-> g[i]]}
  <2>3. 0 \in P
    <3>1. f[1] = <<g[1]>>
      BY <2>1, <1>1, <1>3
    <3>2. <<g[1]>> = [i \in 1 .. 0 + 1 |-> g[i]]
      OBVIOUS
    <3> QED
      BY <3>1, <3>2
  <2>4. ASSUME NEW m \in Nat, m \in P
        PROVE  m + 1 \in P
    <3> SUFFICES ASSUME (m + 1) + 1 <= n
                 PROVE  f[(m + 1) + 1] = [i \in 1 .. (m + 1) + 1 |-> g[i]]
      OBVIOUS
    <3>1. f[m + 1] = [i \in 1 .. m + 1 |-> g[i]]
      BY <2>4
    <3>2. f[(m + 1) + 1] = f[m + 1] \o <<g[(m + 1) + 1]>>
      <4>1. (m + 1) + 1 \in 1 .. n /\ (m + 1) + 1 # 1 /\ ((m + 1) + 1) - 1 = m + 1
        OBVIOUS
      <4> QED
        BY <4>1, <2>1, <1>1
    <3>3. [i \in 1 .. m + 1 |-> g[i]] \in Seq(T) /\ <<g[(m + 1) + 1]>> \in Seq(T)
      OBVIOUS
    <3>4. [i \in 1 .. m + 1 |-> g[i]] \o <<g[(m + 1) + 1]>> = [i \in 1 .. (m + 1) + 1 |-> g[i]]
      BY <3>3
    <3> QED
      BY <3>1, <3>2, <3>4
  <2>5. Nat \subseteq P
    <3> HIDE DEF P
    <3> QED
      BY <2>3, <2>4, Upwards
  <2>6. n - 1 \in P /\ (n - 1) + 1 = n
    BY <1>3, <2>5
  <2>7. f[n] = [i \in 1 .. n |-> g[i]]
    BY <2>6
  <2> QED
    BY <1>1, <2>2, <2>7 DEF s
<1> QED
  BY <1>2, <1>3 DEF s

-----------------------------------------------------------------------------
(* Programs.                                                                 *)

Dos == {"barrier", "tx", "plain", "loop", "again", "while_chunk", "end_chunk"}
Whats == {"", "zero", "total", "init", "chunk", "empty", "bank", "next_chunk", "merge", "write_reps",
          "read_reps", "load_all", "load_or_store", "load_or_store_0", "load_or_store_2", "store_from_id",
          "load_some", "load_round"}
Statements == [do : Dos, what : Whats, len : Nat]

LoopOf(n) == [do |-> "loop", what |-> "", len |-> n]
AgainOf(n) == [do |-> "again", what |-> "", len |-> n]

\* A program s is sound: its transactions are in W, its plain statements in P, and a loop and its end
\* are as far apart as both say, with statements in D between them.  The loop over chunks has its
\* statements where chunks are counted.
SoundAt(s, W, P, D, i) ==
  /\ s[i].do = "tx" => s[i].what \in W
  /\ s[i].do = "plain" => s[i].what \in P
  /\ s[i].do = "loop" => /\ i + s[i].len + 1 <= Len(s)
                         /\ s[i] = LoopOf(s[i].len) /\ s[i + s[i].len + 1] = AgainOf(s[i].len)
                         /\ \A k \in i + 1 .. i + s[i].len : s[k].do \in D
  /\ s[i].do = "again" => i - s[i].len - 1 >= 1 /\ s[i - s[i].len - 1] = LoopOf(s[i].len)
  /\ s[i].do \in {"while_chunk", "end_chunk"} => "chunk" \in P
Sound(s, W, P, D) == s \in Seq(Statements) /\ \A i \in 1 .. Len(s) : SoundAt(s, W, P, D, i)

LEMMA SoundConcat ==
  ASSUME NEW s, NEW t, NEW W, NEW P, NEW D, Sound(s, W, P, D), Sound(t, W, P, D)
  PROVE  Sound(s \o t, W, P, D)
<1> DEFINE r == s \o t
           m == Len(s)
           n == Len(t)
<1>1. /\ s \in Seq(Statements) /\ t \in Seq(Statements) /\ r \in Seq(Statements)
      /\ m \in Nat /\ n \in Nat /\ Len(r) = m + n
      /\ \A i \in 1 .. m : r[i] = s[i]
      /\ \A i \in 1 .. n : r[m + i] = t[i]
  BY DEF Sound
<1>2. /\ \A i \in 1 .. m : SoundAt(s, W, P, D, i) /\ s[i] \in Statements
      /\ \A i \in 1 .. n : SoundAt(t, W, P, D, i) /\ t[i] \in Statements
  BY <1>1 DEF Sound
<1> HIDE DEF r, m, n
<1>3. ASSUME NEW i \in 1 .. m + n
      PROVE  SoundAt(r, W, P, D, i)
  <2>1. CASE i <= m
    <3>1. i \in 1 .. m /\ r[i] = s[i] /\ s[i].len \in Nat /\ SoundAt(s, W, P, D, i)
      BY <2>1, <1>1, <1>2 DEF Statements
    <3>2. PICK l \in Nat : l = s[i].len
      BY <3>1
    <3>3. s[i].do = "loop" => /\ i + l + 1 \in 1 .. m /\ i + l + 1 <= m + n
                              /\ \A k \in i + 1 .. i + l : k \in 1 .. m
      BY <3>1, <3>2, <1>1 DEF SoundAt, m
    <3>4. s[i].do = "again" => i - l - 1 \in 1 .. m
      BY <3>1, <3>2, <1>1 DEF SoundAt
    <3> QED
      BY <3>1, <3>2, <3>3, <3>4, <1>1 DEF SoundAt
  <2>2. CASE i > m
    <3>1. PICK j \in 1 .. n : i = m + j
      <4>1. i - m \in 1 .. n /\ i = m + (i - m)
        BY <2>2, <1>1
      <4> QED
        BY <4>1
    <3>2. r[i] = t[j] /\ t[j].len \in Nat /\ SoundAt(t, W, P, D, j)
      BY <3>1, <1>1, <1>2 DEF Statements
    <3>3. PICK l \in Nat : l = t[j].len
      BY <3>2
    <3>4. t[j].do = "loop" =>
            /\ i + l + 1 <= m + n /\ r[i] = LoopOf(l) /\ r[i + l + 1] = AgainOf(l)
            /\ \A k \in i + 1 .. i + l : r[k].do \in D
      <4> SUFFICES ASSUME t[j].do = "loop"
                   PROVE  /\ i + l + 1 <= m + n /\ r[i] = LoopOf(l) /\ r[i + l + 1] = AgainOf(l)
                          /\ \A k \in i + 1 .. i + l : r[k].do \in D
        OBVIOUS
      <4>1. j + l + 1 <= n /\ t[j] = LoopOf(l) /\ t[j + l + 1] = AgainOf(l) /\ \A k \in j + 1 .. j + l : t[k].do \in D
        BY <3>2, <3>3 DEF SoundAt, n
      <4>2. j + l + 1 \in 1 .. n /\ i + l + 1 = m + (j + l + 1)
        <5>1. j \in Nat /\ m \in Nat /\ n \in Nat /\ j + l + 1 <= n /\ i = m + j
          BY <4>1, <3>1, <1>1
        <5> QED
          BY <5>1
      <4>3. ASSUME NEW k \in i + 1 .. i + l
            PROVE  r[k].do \in D
        <5>1. k - m \in j + 1 .. j + l /\ k - m \in 1 .. n /\ k = m + (k - m)
          BY <3>1, <4>1, <4>3, <1>1
        <5>2. r[k] = t[k - m]
          BY <5>1, <1>1
        <5> QED
          BY <5>1, <5>2, <4>1
      <4>4. i + l + 1 <= m + n
        <5>1. j + l + 1 <= n /\ m \in Nat
          BY <4>1, <1>1
        <5>2. j + l + 1 \in Nat /\ n \in Nat
          BY <4>2, <1>1
        <5> QED
          BY <5>1, <5>2, <4>2
      <4>5. r[i] = LoopOf(l)
        BY <3>1, <4>1, <1>1
      <4>6. r[i + l + 1] = AgainOf(l)
        BY <4>1, <4>2, <1>1
      <4> QED
        BY <4>3, <4>4, <4>5, <4>6
    <3>5. t[j].do = "again" => i - l - 1 >= 1 /\ r[i - l - 1] = LoopOf(l)
      <4> SUFFICES ASSUME t[j].do = "again"
                   PROVE  i - l - 1 >= 1 /\ r[i - l - 1] = LoopOf(l)
        OBVIOUS
      <4>1. j - l - 1 >= 1 /\ t[j - l - 1] = LoopOf(l)
        BY <3>2, <3>3 DEF SoundAt
      <4>2. j - l - 1 \in 1 .. n /\ i - l - 1 = m + (j - l - 1)
        <5>1. j \in 1 .. n /\ m \in Nat /\ n \in Nat /\ j - l - 1 >= 1 /\ i = m + j
          BY <4>1, <3>1, <1>1
        <5> QED
          BY <5>1
      <4>3. i - l - 1 >= 1
        BY <4>1, <3>1, <3>3, <1>1
      <4> QED
        BY <4>1, <4>2, <4>3, <1>1
    <3> QED
      BY <3>2, <3>3, <3>4, <3>5, <1>1 DEF SoundAt
  <2> QED
    BY <2>1, <2>2, <1>1
<1> QED
  BY <1>1, <1>3 DEF Sound, r

LEMMA SoundOne ==
  ASSUME NEW do \in Dos \ {"loop", "again"}, NEW what \in Whats, NEW W, NEW P, NEW D,
         do = "tx" => what \in W, do = "plain" => what \in P, do \in {"while_chunk", "end_chunk"} => "chunk" \in P
  PROVE  Sound(St(do, what), W, P, D)
<1>1. [do |-> do, what |-> what, len |-> 0] \in Statements
  BY DEF Statements
<1>2. St(do, what) \in Seq(Statements) /\ Len(St(do, what)) = 1 /\ St(do, what)[1] = [do |-> do, what |-> what, len |-> 0]
  BY <1>1 DEF St
<1>3. SoundAt(St(do, what), W, P, D, 1)
  BY <1>2 DEF SoundAt
<1> QED
  BY <1>2, <1>3 DEF Sound

LEMMA SoundNone == \A W, P, D : Sound(<<>>, W, P, D)
BY DEF Sound

LEMMA SoundLoop ==
  ASSUME NEW s, NEW W, NEW P, NEW D, Sound(s, W, P, D), D \subseteq {"tx", "barrier"},
         \A i \in 1 .. Len(s) : s[i].do \in D
  PROVE  Sound(Loop(s), W, P, D)
<1> DEFINE n == Len(s)
           r == Loop(s)
<1>1. s \in Seq(Statements) /\ n \in Nat /\ \A i \in 1 .. n : SoundAt(s, W, P, D, i) /\ s[i].do \in D
  BY DEF Sound
<1>2. LoopOf(n) \in Statements /\ AgainOf(n) \in Statements
  <2>1. "" \in Whats
    BY DEF Whats
  <2> HIDE DEF n
  <2> QED
    BY <2>1, <1>1 DEF Statements, LoopOf, AgainOf, Dos
<1>3. <<LoopOf(n)>> \o s \in Seq(Statements) /\ Len(<<LoopOf(n)>> \o s) = n + 1
      /\ (<<LoopOf(n)>> \o s)[1] = LoopOf(n) /\ \A i \in 1 .. n : (<<LoopOf(n)>> \o s)[i + 1] = s[i]
  BY <1>1, <1>2
<1>4. r = (<<LoopOf(n)>> \o s) \o <<AgainOf(n)>>
  BY DEF Loop, LoopOf, AgainOf
<1>5. /\ r \in Seq(Statements) /\ Len(r) = n + 2
      /\ \A i \in 1 .. n + 1 : r[i] = (<<LoopOf(n)>> \o s)[i]
      /\ r[n + 2] = AgainOf(n)
  <2> HIDE DEF r
  <2>1. PICK h \in Seq(Statements) : h = <<LoopOf(n)>> \o s /\ Len(h) = n + 1
    BY <1>3
  <2>2. r = h \o <<AgainOf(n)>>
    BY <2>1, <1>4
  <2> QED
    BY <2>1, <2>2, <1>1, <1>2
<1>6. /\ r[1] = LoopOf(n) /\ r[n + 2] = AgainOf(n)
      /\ \A i \in 1 .. n : r[i + 1] = s[i]
  BY <1>1, <1>3, <1>5
<1> HIDE DEF r, n
<1>7. ASSUME NEW i \in 1 .. n + 2
      PROVE  SoundAt(r, W, P, D, i)
  <2>1. CASE i = 1
    <3>1. \A k \in 2 .. n + 1 : k - 1 \in 1 .. n /\ (k - 1) + 1 = k
      BY <1>1
    <3>2. \A k \in 2 .. n + 1 : r[k].do \in D
      BY <3>1, <1>1, <1>6
    <3>3. r[1].do = "loop" /\ r[1].len = n
      <4>1. LoopOf(n).do = "loop" /\ LoopOf(n).len = n
        BY DEF LoopOf
      <4> QED
        BY <4>1, <1>6
    <3>4. 1 + n + 1 = n + 2 /\ 1 + 1 = 2 /\ 1 + n = n + 1 /\ n + 2 <= n + 2
      BY <1>1
    <3> QED
      BY <2>1, <3>2, <3>3, <3>4, <1>5, <1>6 DEF SoundAt
  <2>2. CASE i = n + 2
    <3>1. r[i].do = "again" /\ r[i].len = n /\ i - n - 1 = 1
      <4>1. AgainOf(n).do = "again" /\ AgainOf(n).len = n
        BY DEF AgainOf
      <4> QED
        BY <4>1, <2>2, <1>1, <1>6
    <3> QED
      BY <3>1, <1>1, <1>6 DEF SoundAt
  <2>3. CASE i # 1 /\ i # n + 2
    <3>1. i - 1 \in 1 .. n /\ (i - 1) + 1 = i
      BY <2>3, <1>1
    <3>2. r[i] = s[i - 1] /\ s[i - 1].do \in {"tx", "barrier"} /\ SoundAt(s, W, P, D, i - 1)
      BY <3>1, <1>1, <1>6
    <3> QED
      BY <3>2 DEF SoundAt
  <2> QED
    BY <2>1, <2>2, <2>3
<1> QED
  BY <1>5, <1>7 DEF Sound, r

\* The barriers of s
BarsIn(s) == {i \in 1 .. Len(s) : s[i].do = "barrier"}
Bars(s) == Cardinality(BarsIn(s))

LEMMA Shifted ==
  ASSUME NEW S \in SUBSET Int, IsFiniteSet(S), NEW m \in Int
  PROVE  /\ IsFiniteSet({i + m : i \in S}) /\ Cardinality({i + m : i \in S}) = Cardinality(S)
<1> DEFINE T == {i + m : i \in S}
           f == [i \in S |-> i + m]
<1>1. f \in [S -> T] /\ \A x \in T : \E i \in S : f[i] = x
  OBVIOUS
<1>2. \A i, j \in S : f[i] = f[j] => i = j
  OBVIOUS
<1>3. ExistsBijection(S, T)
  <2> HIDE DEF f, T
  <2> QED
    BY <1>1, <1>2 DEF ExistsBijection, Bijection, Injection, Surjection, IsInjective
<1> QED
  BY <1>3, FS_Bijection

LEMMA BarsFinite ==
  ASSUME NEW s, Len(s) \in Nat
  PROVE  IsFiniteSet(BarsIn(s)) /\ Bars(s) \in Nat /\ BarsIn(s) \subseteq 1 .. Len(s)
<1>1. IsFiniteSet(1 .. Len(s))
  BY FS_Interval
<1>2. IsFiniteSet(BarsIn(s))
  BY <1>1, FS_Subset DEF BarsIn
<1> QED
  BY <1>2, FS_CardinalityType DEF Bars, BarsIn

LEMMA BarsConcat ==
  ASSUME NEW s \in Seq(Statements), NEW t \in Seq(Statements)
  PROVE  Bars(s \o t) = Bars(s) + Bars(t)
<1> DEFINE m == Len(s)
           r == s \o t
           T == {i + m : i \in BarsIn(t)}
<1>1. /\ m \in Nat /\ Len(t) \in Nat /\ Len(r) = m + Len(t)
      /\ \A i \in 1 .. m : r[i] = s[i]
      /\ \A i \in 1 .. Len(t) : r[i + m] = t[i]
      /\ \A i \in 1 .. m + Len(t) : i <= m \/ i - m \in 1 .. Len(t)
  OBVIOUS
<1> HIDE DEF m, r
<1>2. BarsIn(r) = BarsIn(s) \cup T
  <2>1. BarsIn(r) \subseteq BarsIn(s) \cup T
    <3> SUFFICES ASSUME NEW i \in BarsIn(r), i \notin BarsIn(s) PROVE i \in T
      OBVIOUS
    <3>1. i \in 1 .. m + Len(t) /\ r[i].do = "barrier"
      BY <1>1 DEF BarsIn
    <3>2. ~(i <= m)
      BY <3>1, <1>1 DEF BarsIn, m
    <3>3. i - m \in 1 .. Len(t) /\ (i - m) + m = i
      BY <3>1, <3>2, <1>1
    <3>4. t[i - m].do = "barrier"
      BY <3>1, <3>3, <1>1
    <3> QED
      BY <3>3, <3>4 DEF BarsIn
  <2>2. BarsIn(s) \subseteq BarsIn(r)
    BY <1>1 DEF BarsIn, m
  <2>3. T \subseteq BarsIn(r)
    <3> SUFFICES ASSUME NEW i \in BarsIn(t) PROVE i + m \in BarsIn(r)
      OBVIOUS
    <3>1. i \in 1 .. Len(t) /\ t[i].do = "barrier"
      BY DEF BarsIn
    <3>2. i + m \in 1 .. m + Len(t)
      BY <3>1, <1>1
    <3> QED
      BY <3>1, <3>2, <1>1 DEF BarsIn
  <2> QED
    BY <2>1, <2>2, <2>3
<1>3. BarsIn(s) \cap T = {}
  <2> SUFFICES ASSUME NEW i \in BarsIn(t), i + m \in BarsIn(s) PROVE FALSE
    OBVIOUS
  <2>1. i \in 1 .. Len(t) /\ i + m \in 1 .. m
    BY DEF BarsIn, m
  <2> QED
    BY <2>1, <1>1
<1>4. /\ IsFiniteSet(BarsIn(s)) /\ IsFiniteSet(BarsIn(t)) /\ BarsIn(t) \in SUBSET Int
      /\ Bars(s) \in Nat /\ Bars(t) \in Nat
  BY <1>1, BarsFinite DEF m
<1>5. IsFiniteSet(T) /\ Cardinality(T) = Bars(t)
  <2>1. m \in Int
    BY <1>1
  <2>2. IsFiniteSet(T) /\ Cardinality(T) = Cardinality(BarsIn(t))
    BY <1>4, <2>1, Shifted, Zenon
  <2> QED
    BY <2>2 DEF Bars
<1> HIDE DEF T
<1>6. Cardinality(BarsIn(s) \cap T) = 0
  BY <1>3, FS_EmptySet
<1>7. Cardinality(BarsIn(r)) = Bars(s) + Bars(t)
  <2>1. Cardinality(BarsIn(s) \cup T) = Cardinality(BarsIn(s)) + Cardinality(T) - Cardinality(BarsIn(s) \cap T)
    BY <1>4, <1>5, FS_Union
  <2>2. Cardinality(BarsIn(s)) = Bars(s)
    BY DEF Bars
  <2> QED
    BY <2>1, <2>2, <1>2, <1>4, <1>5, <1>6
<1> QED
  BY <1>7 DEF Bars, r

\* A sound program with n barriers
Counts(s, n, W, P, D) == Sound(s, W, P, D) /\ Bars(s) = n

LEMMA CountsConcat ==
  ASSUME NEW s, NEW t, NEW n \in Nat, NEW m \in Nat, NEW W, NEW P, NEW D, Counts(s, n, W, P, D), Counts(t, m, W, P, D)
  PROVE  Counts(s \o t, n + m, W, P, D)
BY SoundConcat, BarsConcat DEF Counts, Sound

LEMMA CountsOne ==
  ASSUME NEW W, NEW P, NEW D
  PROVE  /\ Counts(Barrier, 1, W, P, D)
         /\ \A what \in Whats \cap W : Counts(Tx(what), 0, W, P, D)
         /\ \A what \in Whats \cap P : Counts(Plain(what), 0, W, P, D)
         /\ "chunk" \in P => \A do \in {"while_chunk", "end_chunk"} : Counts(St(do, ""), 0, W, P, D)
         /\ Counts(<<>>, 0, W, P, D)
<1>1. "" \in Whats /\ \A do \in {"barrier", "tx", "plain", "while_chunk", "end_chunk"} : do \in Dos \ {"loop", "again"}
  BY DEF Whats, Dos
<1>2. \A do, what : Len(St(do, what)) = 1 /\ St(do, what)[1].do = do
  BY DEF St
<1>3. \A what : BarsIn(St("barrier", what)) = {1}
  BY <1>2 DEF BarsIn
<1>4. \A do, what : do # "barrier" => BarsIn(St(do, what)) = {}
  BY <1>2 DEF BarsIn
<1>5. (\A what : Bars(St("barrier", what)) = 1) /\ \A do, what : do # "barrier" => Bars(St(do, what)) = 0
  BY <1>3, <1>4, FS_Singleton, FS_EmptySet DEF Bars
<1>6. Counts(Barrier, 1, W, P, D)
  BY <1>1, <1>5, SoundOne DEF Counts, Barrier
<1>7. ASSUME NEW what \in Whats \cap W PROVE Counts(Tx(what), 0, W, P, D)
  BY <1>1, <1>5, <1>7, SoundOne DEF Counts, Tx
<1>8. ASSUME NEW what \in Whats \cap P PROVE Counts(Plain(what), 0, W, P, D)
  BY <1>1, <1>5, <1>8, SoundOne DEF Counts, Plain
<1>9. ASSUME "chunk" \in P, NEW do \in {"while_chunk", "end_chunk"} PROVE Counts(St(do, ""), 0, W, P, D)
  BY <1>1, <1>5, <1>9, SoundOne DEF Counts
<1>10. Counts(<<>>, 0, W, P, D)
  <2>1. BarsIn(<<>>) = {}
    BY DEF BarsIn
  <2> QED
    BY <2>1, SoundNone, FS_EmptySet DEF Counts, Bars
<1> QED
  BY <1>6, <1>7, <1>8, <1>9, <1>10

LEMMA CountsLoop ==
  ASSUME NEW s, NEW n \in Nat, NEW W, NEW P, NEW D, Counts(s, n, W, P, D), D \subseteq {"tx", "barrier"},
         \A i \in 1 .. Len(s) : s[i].do \in D
  PROVE  Counts(Loop(s), n, W, P, D)
<1>1. Sound(Loop(s), W, P, D) /\ s \in Seq(Statements) /\ Len(s) \in Nat
  <2>1. Sound(s, W, P, D)
    BY DEF Counts
  <2>2. Sound(Loop(s), W, P, D)
    BY <2>1, SoundLoop
  <2> QED
    BY <2>1, <2>2 DEF Sound
<1>2. LoopOf(Len(s)) \in Statements /\ AgainOf(Len(s)) \in Statements
  BY <1>1 DEF Statements, LoopOf, AgainOf, Dos, Whats
<1>3. Bars(<<LoopOf(Len(s))>>) = 0 /\ Bars(<<AgainOf(Len(s))>>) = 0
  <2>1. BarsIn(<<LoopOf(Len(s))>>) = {} /\ BarsIn(<<AgainOf(Len(s))>>) = {}
    <3>1. LoopOf(Len(s)).do = "loop" /\ AgainOf(Len(s)).do = "again"
      BY DEF LoopOf, AgainOf
    <3>2. \A x : Len(<<x>>) = 1 /\ <<x>>[1] = x
      OBVIOUS
    <3>3. \A x : x.do # "barrier" => BarsIn(<<x>>) = {}
      BY <3>2 DEF BarsIn
    <3> QED
      BY <3>1, <3>3
  <2> QED
    BY <2>1, FS_EmptySet DEF Bars
<1>4. /\ <<LoopOf(Len(s))>> \in Seq(Statements) /\ <<AgainOf(Len(s))>> \in Seq(Statements)
      /\ <<LoopOf(Len(s))>> \o s \in Seq(Statements)
  BY <1>1, <1>2
<1>5. Bars((<<LoopOf(Len(s))>> \o s) \o <<AgainOf(Len(s))>>) = (0 + n) + 0
  BY <1>1, <1>3, <1>4, BarsConcat DEF Counts
<1>6. Loop(s) = (<<LoopOf(Len(s))>> \o s) \o <<AgainOf(Len(s))>>
  BY DEF Loop, LoopOf, AgainOf
<1> QED
  BY <1>1, <1>5, <1>6 DEF Counts

LEMMA CountsExecOrder ==
  ASSUME NEW W, NEW P, NEW D, NUM_UES \in Nat
  PROVE  Counts(ExecOrder, NUM_UES, W, P, D)
<1> DEFINE b == [do |-> "barrier", what |-> "", len |-> 0]
           s == [i \in 1 .. NUM_UES |-> b]
<1>1. b \in Statements /\ b.do = "barrier"
  BY DEF Statements, Dos, Whats
<1>2. ExecOrder = FlattenSeq([i \in 1 .. NUM_UES |-> <<s[i]>>])
  <2>1. \A i \in 1 .. NUM_UES : Barrier = <<s[i]>>
    BY DEF Barrier, St
  <2>2. [i \in 1 .. NUM_UES |-> Barrier] = [i \in 1 .. NUM_UES |-> <<s[i]>>]
    BY <2>1
  <2> HIDE DEF s
  <2> QED
    BY <2>2, Zenon DEF ExecOrder, Each
<1> HIDE DEF b
<1>3. s \in [1 .. NUM_UES -> Statements]
  BY <1>1
<1>4. ExecOrder = s
  <2> HIDE DEF s
  <2> QED
    BY <1>2, <1>3, FlatOnes
<1>5. s \in Seq(Statements) /\ Len(s) = NUM_UES /\ \A i \in 1 .. NUM_UES : s[i].do = "barrier"
  BY <1>1
<1> HIDE DEF s
<1>6. Sound(s, W, P, D)
  BY <1>5 DEF Sound, SoundAt
<1>7. BarsIn(s) = 1 .. NUM_UES
  BY <1>5 DEF BarsIn
<1>8. Bars(s) = NUM_UES
  BY <1>7, FS_Interval DEF Bars
<1> QED
  BY <1>4, <1>6, <1>8 DEF Counts

\* Each program begins with an opening that ends at a barrier; what follows it starts transactions.
Opening(p) ==
  CASE prog = "bank" -> Barrier \o Barrier \o (Barrier \o Once(p, Plain("zero") \o Plain("total")))
    [] prog = "mr" -> Barrier \o Once(p, Plain("zero"))
    [] prog \in {"tm2", "tm3", "tm3_all", "tm9"} -> <<>>
    [] prog \in {"tm4", "tm5", "tm6", "tm7", "tm8"} -> Plain("init")
Rest(p) ==
  CASE prog = "bank" -> Tx("empty") \o Plain("total") \o Barrier \o Loop(Tx("bank")) \o Barrier
                          \o Barrier \o ExecOrder \o Barrier \o Once(p, Plain("total"))
    [] prog = "mr" -> map_reduce \o Barrier \o Barrier
    [] prog = "tm2" -> Loop(Barrier \o Tx("write_reps") \o Tx("read_reps"))
    [] prog = "tm3" -> Once(p, Loop(Tx("load_round"))) \o Barrier
    [] prog = "tm3_all" -> Loop(Tx("load_round")) \o Barrier
    [] prog = "tm4" -> Tx("load_or_store") \o Barrier \o Tx("load_or_store") \o ExecOrder
    [] prog = "tm5" -> Loop(Tx("store_from_id")) \o Barrier
    [] prog = "tm6" -> Tx("load_all") \o ExecOrder \o Barrier
    [] prog = "tm7" -> Loop(Tx("load_some")) \o Barrier \o Barrier
    [] prog = "tm8" -> Tx("load_or_store_2") \o Barrier \o Tx("load_or_store_0") \o Barrier
    [] prog = "tm9" -> Tx("load_or_store") \o Barrier

OpeningBars == CASE prog = "bank" -> 3 [] prog = "mr" -> 1 [] OTHER -> 0
RestBars ==
  CASE prog = "bank" -> 4 + NUM_UES [] prog = "mr" -> 2 [] prog = "tm2" -> 1 [] prog \in {"tm3", "tm3_all"} -> 1
    [] prog = "tm4" -> 1 + NUM_UES [] prog = "tm5" -> 1 [] prog = "tm6" -> NUM_UES + 1 [] prog = "tm7" -> 2
    [] prog = "tm8" -> 2 [] prog = "tm9" -> 1

OpeningPlains == CASE prog = "bank" -> {"zero", "total"} [] prog = "mr" -> {"zero"}
                 [] prog \in {"tm4", "tm5", "tm6", "tm7", "tm8"} -> {"init"} [] OTHER -> {}
RestPlains == CASE prog = "bank" -> {"total"} [] prog = "mr" -> {"chunk"} [] OTHER -> {}
Txs ==
  CASE prog = "bank" -> {"empty", "bank"} [] prog = "mr" -> {"next_chunk", "merge"}
    [] prog = "tm2" -> {"write_reps", "read_reps"} [] prog \in {"tm3", "tm3_all"} -> {"load_round"}
    [] prog = "tm4" -> {"load_or_store"} [] prog = "tm5" -> {"store_from_id"} [] prog = "tm6" -> {"load_all"}
    [] prog = "tm7" -> {"load_some"} [] prog = "tm8" -> {"load_or_store_2", "load_or_store_0"}
    [] prog = "tm9" -> {"load_or_store"}
LoopDos == IF prog = "tm2" THEN {"tx", "barrier"} ELSE {"tx"}

Parts(p) ==
  /\ Program(p) = Opening(p) \o Barrier \o Rest(p)
  /\ Counts(Opening(p), OpeningBars, {}, OpeningPlains, {})
  /\ Counts(Rest(p), RestBars, Txs, RestPlains, LoopDos)

\* Concatenation from the left, with the first sequence set apart
Groups(x, a, b, c) == ((x \o a) \o b) \o c = x \o ((a \o b) \o c)
GroupsTwo(x, a, b) == (x \o a) \o b = x \o (a \o b)
GroupsFour(x, a, b, c, d) == (((x \o a) \o b) \o c) \o d = x \o (((a \o b) \o c) \o d)

LEMMA RegroupTwo ==
  ASSUME NEW T, NEW x \in Seq(T), NEW a \in Seq(T), NEW b \in Seq(T)
  PROVE  GroupsTwo(x, a, b)
BY ConcatAssociative DEF GroupsTwo

LEMMA RegroupThree ==
  ASSUME NEW T, NEW x \in Seq(T), NEW a \in Seq(T), NEW b \in Seq(T), NEW c \in Seq(T)
  PROVE  Groups(x, a, b, c)
<1>1. (x \o a) \o b = x \o (a \o b)
  BY ConcatAssociative
<1>2. PICK y : y = a \o b
  OBVIOUS
<1>3. y \in Seq(T)
  BY <1>2
<1>4. (x \o y) \o c = x \o (y \o c)
  BY <1>3, ConcatAssociative
<1> QED
  BY <1>1, <1>2, <1>4, Zenon DEF Groups

LEMMA RegroupFour ==
  ASSUME NEW T, NEW x \in Seq(T), NEW a \in Seq(T), NEW b \in Seq(T), NEW c \in Seq(T), NEW d \in Seq(T)
  PROVE  GroupsFour(x, a, b, c, d)
<1>1. Groups(x, a, b, c)
  BY RegroupThree, Zenon
<1>2. PICK y : y = (a \o b) \o c
  OBVIOUS
<1>3. y \in Seq(T)
  BY <1>2
<1>4. (x \o y) \o d = x \o (y \o d)
  BY <1>3, ConcatAssociative, SMTT(30)
<1> QED
  BY <1>1, <1>2, <1>4, Zenon DEF Groups, GroupsFour

LEMMA CountsSeq ==
  ASSUME NEW s, NEW n, NEW W, NEW P, NEW D, Counts(s, n, W, P, D)
  PROVE  s \in Seq(Statements) /\ Sound(s, W, P, D) /\ Bars(s) = n
BY DEF Counts, Sound

\* Loops with one transaction
LEMMA CountsLoopTx ==
  ASSUME NEW W, NEW P, NEW what \in Whats \cap W
  PROVE  Counts(Loop(Tx(what)), 0, W, P, {"tx"})
<1>1. Counts(Tx(what), 0, W, P, {"tx"})
  BY CountsOne
<1>2. Len(Tx(what)) = 1 /\ Tx(what)[1].do = "tx"
  BY DEF Tx, St
<1>3. \A i \in 1 .. Len(Tx(what)) : Tx(what)[i].do \in {"tx"}
  BY <1>2
<1> QED
  BY <1>1, <1>3, CountsLoop

LEMMA EmptyOpening == <<>> \o Barrier = Barrier
<1>1. Barrier \in Seq({Barrier[1]})
  BY DEF Barrier, St
<1> QED
  BY <1>1, ConcatEmptySeq

LEMMA PartsTm ==
  ASSUME prog \in {"tm3", "tm3_all", "tm4", "tm5", "tm6", "tm7", "tm8", "tm9"}, NUM_UES \in Nat, NEW p
  PROVE  Parts(p)
<1> DEFINE W == Txs
           P == RestPlains
           D == {"tx"}
<1>1. /\ Counts(Barrier, 1, W, P, D)
      /\ \A what \in Whats \cap W : Counts(Tx(what), 0, W, P, D) /\ Counts(Loop(Tx(what)), 0, W, P, D)
      /\ Counts(ExecOrder, NUM_UES, W, P, D) /\ Counts(<<>>, 0, W, P, D)
  BY CountsOne, CountsLoopTx, CountsExecOrder
<1>2. \A what \in Whats \cap W : Tx(what) \in Seq(Statements) /\ Loop(Tx(what)) \in Seq(Statements)
  BY <1>1, CountsSeq
<1>3. Barrier \in Seq(Statements) /\ ExecOrder \in Seq(Statements)
  BY <1>1, CountsSeq
<1>4. LoopDos = D
  BY DEF LoopDos
<1>5. Counts(Opening(p), OpeningBars, {}, OpeningPlains, {})
  <2>1. CASE prog \in {"tm3", "tm3_all", "tm9"}
    <3>1. Opening(p) = <<>> /\ OpeningBars = 0
      BY <2>1 DEF Opening, OpeningBars
    <3> QED
      BY <3>1, CountsOne
  <2>2. CASE prog \notin {"tm3", "tm3_all", "tm9"}
    <3>1. Opening(p) = Plain("init") /\ OpeningBars = 0 /\ "init" \in Whats \cap OpeningPlains
      BY <2>2 DEF Opening, OpeningBars, OpeningPlains, Whats
    <3> QED
      BY <3>1, CountsOne
  <2> QED
    BY <2>1, <2>2
<1>6. Plain("init") \in Seq(Statements)
  <2>1. Counts(Plain("init"), 0, {}, {"init"}, {})
    BY CountsOne DEF Whats
  <2> QED
    BY <2>1, CountsSeq
<1>14. PICK x : x = Plain("init") \o Barrier
  OBVIOUS
<1>15. x \in Seq(Statements)
  BY <1>3, <1>6, <1>14
<1> HIDE DEF W, P, D
<1>7. CASE prog = "tm3"
  <2> DEFINE t == Once(p, Loop(Tx("load_round")))
  <2>1. "load_round" \in Whats \cap W /\ RestBars = 0 + 1
    BY <1>7 DEF Txs, Whats, W, RestBars
  <2>2. Counts(t, 0, W, P, D)
    BY <1>1, <2>1 DEF Once
  <2>3. Rest(p) = t \o Barrier
    BY <1>7 DEF Rest
  <2>4. Program(p) = (Barrier \o t) \o Barrier
    BY <1>7 DEF Program, Tm3
  <2>6. Opening(p) = <<>>
    BY <1>7 DEF Opening
  <2> HIDE DEF t
  <2>7. t \in Seq(Statements)
    BY <2>2, CountsSeq
  <2>8. Counts(t \o Barrier, 0 + 1, W, P, D)
    BY <1>1, <2>2, CountsConcat
  <2>5. (Barrier \o t) \o Barrier = Barrier \o Rest(p)
    BY <1>3, <2>3, <2>7, ConcatAssociative, SMTT(30)
  <2> QED
    BY <1>4, <1>5, <2>1, <2>3, <2>4, <2>5, <2>6, <2>8, EmptyOpening DEF Parts, W, P, D
<1>16. CASE prog = "tm3_all"
  <2> DEFINE t == Loop(Tx("load_round"))
  <2>1. "load_round" \in Whats \cap W /\ RestBars = 0 + 1
    BY <1>16 DEF Txs, Whats, W, RestBars
  <2>2. Counts(t, 0, W, P, D)
    BY <1>1, <2>1
  <2>3. Rest(p) = t \o Barrier
    BY <1>16 DEF Rest
  <2>4. Program(p) = (Barrier \o t) \o Barrier
    BY <1>16 DEF Program, Tm3All
  <2>6. Opening(p) = <<>>
    BY <1>16 DEF Opening
  <2> HIDE DEF t
  <2>7. t \in Seq(Statements)
    BY <2>2, CountsSeq
  <2>8. Counts(t \o Barrier, 0 + 1, W, P, D)
    BY <1>1, <2>2, CountsConcat
  <2>5. (Barrier \o t) \o Barrier = Barrier \o Rest(p)
    BY <1>3, <2>3, <2>7, ConcatAssociative, SMTT(30)
  <2> QED
    BY <1>4, <1>5, <2>1, <2>3, <2>4, <2>5, <2>6, <2>8, EmptyOpening DEF Parts, W, P, D
<1>8. CASE prog = "tm4"
  <2> DEFINE t == Tx("load_or_store")
  <2>1. "load_or_store" \in Whats \cap W /\ RestBars = ((0 + 1) + 0) + NUM_UES
    BY <1>8 DEF Txs, Whats, W, RestBars
  <2>2. Counts(t, 0, W, P, D) /\ t \in Seq(Statements)
    BY <1>1, <1>2, <2>1
  <2>3. Rest(p) = ((t \o Barrier) \o t) \o ExecOrder
    BY <1>8 DEF Rest
  <2>4. Program(p) = ((((Plain("init") \o Barrier) \o t) \o Barrier) \o t) \o ExecOrder
    BY <1>8 DEF Program, Tm4
  <2>5. Opening(p) = Plain("init")
    BY <1>8 DEF Opening
  <2> HIDE DEF t
  <2>6. Counts(t \o Barrier, 0 + 1, W, P, D)
    BY <1>1, <2>2, CountsConcat
  <2>7. Counts((t \o Barrier) \o t, (0 + 1) + 0, W, P, D)
    BY <2>2, <2>6, CountsConcat
  <2>8. Counts(((t \o Barrier) \o t) \o ExecOrder, ((0 + 1) + 0) + NUM_UES, W, P, D)
    BY <1>1, <2>7, CountsConcat
  <2>10. Program(p) = x \o Rest(p)
    <3>1. GroupsFour(x, t, Barrier, t, ExecOrder)
      BY <1>3, <1>15, <2>2, RegroupFour, Zenon
    <3> QED
      BY <3>1, <1>14, <2>3, <2>4, Zenon DEF GroupsFour
  <2> QED
    BY <1>4, <1>5, <1>14, <2>1, <2>3, <2>5, <2>8, <2>10 DEF Parts, W, P, D
<1>9. CASE prog = "tm5"
  <2> DEFINE t == Loop(Tx("store_from_id"))
  <2>1. "store_from_id" \in Whats \cap W /\ RestBars = 0 + 1
    BY <1>9 DEF Txs, Whats, W, RestBars
  <2>2. Counts(t, 0, W, P, D) /\ t \in Seq(Statements)
    BY <1>1, <1>2, <2>1
  <2>3. Rest(p) = t \o Barrier
    BY <1>9 DEF Rest
  <2>4. Program(p) = ((Plain("init") \o Barrier) \o t) \o Barrier
    BY <1>9 DEF Program, Tm5
  <2>5. Opening(p) = Plain("init")
    BY <1>9 DEF Opening
  <2> HIDE DEF t
  <2>6. Counts(t \o Barrier, 0 + 1, W, P, D)
    BY <1>1, <2>2, CountsConcat
  <2>10. Program(p) = x \o Rest(p)
    <3>1. (x \o t) \o Barrier = x \o (t \o Barrier)
      BY <1>3, <1>15, <2>2, ConcatAssociative
    <3> QED
      BY <3>1, <1>14, <2>3, <2>4, Zenon
  <2> QED
    BY <1>4, <1>5, <1>14, <2>1, <2>3, <2>5, <2>6, <2>10 DEF Parts, W, P, D
<1>10. CASE prog = "tm6"
  <2> DEFINE t == Tx("load_all")
  <2>1. "load_all" \in Whats \cap W /\ RestBars = (0 + NUM_UES) + 1
    BY <1>10 DEF Txs, Whats, W, RestBars
  <2>2. Counts(t, 0, W, P, D) /\ t \in Seq(Statements)
    BY <1>1, <1>2, <2>1
  <2>3. Rest(p) = (t \o ExecOrder) \o Barrier
    BY <1>10 DEF Rest
  <2>4. Program(p) = (((Plain("init") \o Barrier) \o t) \o ExecOrder) \o Barrier
    BY <1>10 DEF Program, Tm6
  <2>5. Opening(p) = Plain("init")
    BY <1>10 DEF Opening
  <2> HIDE DEF t
  <2>6. Counts(t \o ExecOrder, 0 + NUM_UES, W, P, D)
    BY <1>1, <2>2, CountsConcat
  <2>7. 0 + NUM_UES \in Nat
    OBVIOUS
  <2>8. Counts((t \o ExecOrder) \o Barrier, (0 + NUM_UES) + 1, W, P, D)
    BY <1>1, <2>6, <2>7, CountsConcat
  <2>10. Program(p) = x \o Rest(p)
    <3>1. Groups(x, t, ExecOrder, Barrier)
      BY <1>3, <1>15, <2>2, RegroupThree, Zenon
    <3> QED
      BY <3>1, <1>14, <2>3, <2>4, Zenon DEF Groups
  <2> QED
    BY <1>4, <1>5, <1>14, <2>1, <2>3, <2>5, <2>8, <2>10 DEF Parts, W, P, D
<1>11. CASE prog = "tm7"
  <2> DEFINE t == Loop(Tx("load_some"))
  <2>1. "load_some" \in Whats \cap W /\ RestBars = (0 + 1) + 1
    BY <1>11 DEF Txs, Whats, W, RestBars
  <2>2. Counts(t, 0, W, P, D) /\ t \in Seq(Statements)
    BY <1>1, <1>2, <2>1
  <2>3. Rest(p) = (t \o Barrier) \o Barrier
    BY <1>11 DEF Rest
  <2>4. Program(p) = (((Plain("init") \o Barrier) \o t) \o Barrier) \o Barrier
    BY <1>11 DEF Program, Tm7
  <2>5. Opening(p) = Plain("init")
    BY <1>11 DEF Opening
  <2> HIDE DEF t
  <2>6. Counts(t \o Barrier, 0 + 1, W, P, D)
    BY <1>1, <2>2, CountsConcat
  <2>8. Counts((t \o Barrier) \o Barrier, (0 + 1) + 1, W, P, D)
    BY <1>1, <2>6, CountsConcat
  <2>10. Program(p) = x \o Rest(p)
    <3>1. Groups(x, t, Barrier, Barrier)
      BY <1>3, <1>15, <2>2, RegroupThree, Zenon
    <3> QED
      BY <3>1, <1>14, <2>3, <2>4, Zenon DEF Groups
  <2> QED
    BY <1>4, <1>5, <1>14, <2>1, <2>3, <2>5, <2>8, <2>10 DEF Parts, W, P, D
<1>12. CASE prog = "tm8"
  <2> DEFINE t == Tx("load_or_store_2")
             u == Tx("load_or_store_0")
  <2>1. {"load_or_store_2", "load_or_store_0"} \subseteq Whats \cap W /\ RestBars = ((0 + 1) + 0) + 1
    BY <1>12 DEF Txs, Whats, W, RestBars
  <2>2. Counts(t, 0, W, P, D) /\ t \in Seq(Statements) /\ Counts(u, 0, W, P, D) /\ u \in Seq(Statements)
    BY <1>1, <1>2, <2>1
  <2>3. Rest(p) = ((t \o Barrier) \o u) \o Barrier
    BY <1>12 DEF Rest
  <2>4. Program(p) = ((((Plain("init") \o Barrier) \o t) \o Barrier) \o u) \o Barrier
    BY <1>12 DEF Program, Tm8
  <2>5. Opening(p) = Plain("init")
    BY <1>12 DEF Opening
  <2> HIDE DEF t, u
  <2>6. Counts(t \o Barrier, 0 + 1, W, P, D)
    BY <1>1, <2>2, CountsConcat
  <2>7. Counts((t \o Barrier) \o u, (0 + 1) + 0, W, P, D)
    BY <2>2, <2>6, CountsConcat
  <2>8. Counts(((t \o Barrier) \o u) \o Barrier, ((0 + 1) + 0) + 1, W, P, D)
    BY <1>1, <2>7, CountsConcat
  <2>10. Program(p) = x \o Rest(p)
    <3>1. GroupsFour(x, t, Barrier, u, Barrier)
      BY <1>3, <1>15, <2>2, RegroupFour, Zenon
    <3> QED
      BY <3>1, <1>14, <2>3, <2>4, Zenon DEF GroupsFour
  <2> QED
    BY <1>4, <1>5, <1>14, <2>1, <2>3, <2>5, <2>8, <2>10 DEF Parts, W, P, D
<1>13. CASE prog = "tm9"
  <2>1. "load_or_store" \in Whats \cap W /\ RestBars = 0 + 1
    BY <1>13 DEF Txs, Whats, W, RestBars
  <2>2. Counts(Tx("load_or_store") \o Barrier, 0 + 1, W, P, D)
    BY <1>1, <2>1, CountsConcat
  <2>3. Rest(p) = Tx("load_or_store") \o Barrier
    BY <1>13 DEF Rest
  <2>4. Program(p) = Barrier \o Tx("load_or_store") \o Barrier
    BY <1>13 DEF Program, Tm9
  <2>5. (Barrier \o Tx("load_or_store")) \o Barrier = Barrier \o Rest(p)
    BY <1>2, <1>3, <2>1, <2>3, ConcatAssociative, SMTT(30)
  <2>6. Opening(p) = <<>>
    BY <1>13 DEF Opening
  <2> QED
    BY <1>4, <1>5, <2>1, <2>2, <2>3, <2>4, <2>5, <2>6, EmptyOpening DEF Parts, W, P, D
<1> QED
  BY <1>7, <1>8, <1>9, <1>10, <1>11, <1>12, <1>13, <1>16

LEMMA PartsBank ==
  ASSUME prog = "bank", NUM_UES \in Nat, NEW p
  PROVE  Parts(p)
<1> DEFINE W == {"empty", "bank"}
           D == {"tx"}
<1>1. /\ Counts(Barrier, 1, W, {"total"}, D) /\ Counts(Tx("empty"), 0, W, {"total"}, D)
      /\ Counts(Plain("total"), 0, W, {"total"}, D) /\ Counts(<<>>, 0, W, {"total"}, D)
  BY CountsOne DEF Whats
<1>2. Counts(Loop(Tx("bank")), 0, W, {"total"}, D)
  BY CountsLoopTx DEF Whats
<1>3. Counts(ExecOrder, NUM_UES, W, {"total"}, D)
  BY CountsExecOrder
<1>4. Counts(Once(p, Plain("total")), 0, W, {"total"}, D)
  BY <1>1 DEF Once
<1>5. /\ Counts(Barrier, 1, {}, {"zero", "total"}, {}) /\ Counts(Plain("zero"), 0, {}, {"zero", "total"}, {})
      /\ Counts(Plain("total"), 0, {}, {"zero", "total"}, {}) /\ Counts(<<>>, 0, {}, {"zero", "total"}, {})
  BY CountsOne DEF Whats
<1>6. Counts(Plain("zero") \o Plain("total"), 0 + 0, {}, {"zero", "total"}, {})
  BY <1>5, CountsConcat
<1>7. Counts(Once(p, Plain("zero") \o Plain("total")), 0, {}, {"zero", "total"}, {})
  BY <1>5, <1>6 DEF Once
<1>8. PICK b, te, pt, l, e, o, z :
        /\ b = Barrier /\ te = Tx("empty") /\ pt = Plain("total") /\ l = Loop(Tx("bank")) /\ e = ExecOrder
        /\ o = Once(p, Plain("total")) /\ z = Once(p, Plain("zero") \o Plain("total"))
  OBVIOUS
<1>9. /\ b \in Seq(Statements) /\ te \in Seq(Statements) /\ pt \in Seq(Statements) /\ l \in Seq(Statements)
      /\ e \in Seq(Statements) /\ o \in Seq(Statements) /\ z \in Seq(Statements)
  BY <1>1, <1>2, <1>3, <1>4, <1>7, <1>8, CountsSeq
<1>10. PICK x1, r5, bb, bz, x : /\ x1 = (b \o z) \o b /\ r5 = (((te \o pt) \o b) \o l) \o b
                                /\ bb = b \o b /\ bz = b \o z /\ x = (bb \o bz) \o b
  OBVIOUS
<1>11. /\ x1 \in Seq(Statements) /\ r5 \in Seq(Statements) /\ bb \in Seq(Statements) /\ bz \in Seq(Statements)
       /\ x \in Seq(Statements)
  BY <1>9, <1>10
<1>12. BankTest(p) = x1 \o r5
  <2>1. BankTest(p) = ((((x1 \o te) \o pt) \o b) \o l) \o b
    BY <1>8, <1>10, Zenon DEF BankTest
  <2>2. GroupsFour(x1, te, pt, b, l)
    BY <1>9, <1>11, RegroupFour, Zenon
  <2>3. PICK y : y = ((te \o pt) \o b) \o l
    OBVIOUS
  <2>4. y \in Seq(Statements)
    BY <2>3, <1>9
  <2>5. GroupsTwo(x1, y, b)
    BY <2>4, <1>9, <1>11, RegroupTwo, Zenon
  <2> QED
    BY <2>1, <2>2, <2>3, <2>5, <1>10, Zenon DEF GroupsTwo, GroupsFour
<1>13. bb \o (x1 \o r5) = x \o r5
  <2>1. GroupsTwo(bb, x1, r5) /\ GroupsTwo(bb, bz, b)
    BY <1>9, <1>11, RegroupTwo, Zenon
  <2> QED
    BY <2>1, <1>10, Zenon DEF GroupsTwo
<1>14. Program(p) = x \o ((((r5 \o b) \o e) \o b) \o o)
  <2>1. Program(p) = ((((bb \o BankTest(p)) \o b) \o e) \o b) \o o
    <3>1. Program(p) = Bank(p)
      BY DEF Program
    <3> QED
      BY <3>1, <1>8, <1>10, Zenon DEF Bank
  <2>2. GroupsFour(x, r5, b, e, b)
    BY <1>9, <1>11, RegroupFour, Zenon
  <2>3. PICK y : y = ((r5 \o b) \o e) \o b
    OBVIOUS
  <2>4. y \in Seq(Statements)
    BY <2>3, <1>9, <1>11
  <2>5. GroupsTwo(x, y, o)
    BY <2>4, <1>9, <1>11, RegroupTwo, Zenon
  <2> QED
    BY <2>1, <2>2, <2>3, <2>5, <1>12, <1>13, Zenon DEF GroupsTwo, GroupsFour
<1>15. Opening(p) = bb \o bz /\ Rest(p) = (((r5 \o b) \o e) \o b) \o o
  <2>1. Opening(p) = Barrier \o Barrier \o (Barrier \o Once(p, Plain("zero") \o Plain("total")))
    BY DEF Opening
  <2>2. Rest(p) = Tx("empty") \o Plain("total") \o Barrier \o Loop(Tx("bank")) \o Barrier
                          \o Barrier \o ExecOrder \o Barrier \o Once(p, Plain("total"))
    BY DEF Rest
  <2> QED
    BY <2>1, <2>2, <1>8, <1>10, Zenon
<1>16. Program(p) = Opening(p) \o Barrier \o Rest(p)
  BY <1>8, <1>10, <1>14, <1>15, Zenon
<1>17. Counts(Opening(p), OpeningBars, {}, OpeningPlains, {})
  <2>1. Counts(b \o b, 1 + 1, {}, {"zero", "total"}, {}) /\ Counts(b \o z, 1 + 0, {}, {"zero", "total"}, {})
    BY <1>5, <1>7, <1>8, CountsConcat
  <2>2. Counts(bb \o bz, (1 + 1) + (1 + 0), {}, {"zero", "total"}, {})
    BY <2>1, <1>10, CountsConcat
  <2>3. OpeningBars = (1 + 1) + (1 + 0) /\ OpeningPlains = {"zero", "total"}
    BY DEF OpeningBars, OpeningPlains
  <2> QED
    BY <2>2, <2>3, <1>15
<1>18. Counts(Rest(p), RestBars, Txs, RestPlains, LoopDos)
  <2>1. PICK V, P, E : V = W /\ P = {"total"} /\ E = D
    OBVIOUS
  <2> HIDE DEF W, D
  <2>2. /\ Counts(b, 1, V, P, E) /\ Counts(te, 0, V, P, E) /\ Counts(pt, 0, V, P, E) /\ Counts(l, 0, V, P, E)
        /\ Counts(e, NUM_UES, V, P, E) /\ Counts(o, 0, V, P, E)
    BY <2>1, <1>1, <1>2, <1>3, <1>4, <1>8
  <2>3. Counts(te \o pt, 0, V, P, E)
    <3>1. Counts(te \o pt, 0 + 0, V, P, E)
      BY <2>2, CountsConcat
    <3> QED
      BY <3>1
  <2>4. Counts((te \o pt) \o b, 1, V, P, E)
    <3>1. Counts((te \o pt) \o b, 0 + 1, V, P, E)
      BY <2>2, <2>3, CountsConcat
    <3> QED
      BY <3>1
  <2>5. Counts(((te \o pt) \o b) \o l, 1, V, P, E)
    <3>1. Counts(((te \o pt) \o b) \o l, 1 + 0, V, P, E)
      BY <2>2, <2>4, CountsConcat
    <3> QED
      BY <3>1
  <2>6. Counts(r5, 2, V, P, E)
    <3>1. Counts((((te \o pt) \o b) \o l) \o b, 1 + 1, V, P, E)
      BY <2>2, <2>5, CountsConcat
    <3> QED
      BY <3>1, <1>10
  <2>7. Counts(r5 \o b, 3, V, P, E)
    <3>1. Counts(r5 \o b, 2 + 1, V, P, E)
      BY <2>2, <2>6, CountsConcat
    <3> QED
      BY <3>1
  <2>8. Counts((r5 \o b) \o e, 3 + NUM_UES, V, P, E)
    BY <2>2, <2>7, CountsConcat
  <2>9. Counts(((r5 \o b) \o e) \o b, (3 + NUM_UES) + 1, V, P, E)
    BY <2>2, <2>8, CountsConcat
  <2>10. Counts((((r5 \o b) \o e) \o b) \o o, ((3 + NUM_UES) + 1) + 0, V, P, E)
    BY <2>2, <2>9, CountsConcat
  <2>11. RestBars = ((3 + NUM_UES) + 1) + 0
    BY DEF RestBars
  <2>12. Txs = V /\ RestPlains = P /\ LoopDos = E
    BY <2>1 DEF Txs, RestPlains, LoopDos, W, D
  <2> QED
    BY <2>10, <2>11, <2>12, <1>15
<1> QED
  BY <1>16, <1>17, <1>18 DEF Parts

LEMMA PartsMr ==
  ASSUME prog = "mr", NEW p
  PROVE  Parts(p)
<1>1. PICK W, P, D : W = {"next_chunk", "merge"} /\ P = {"chunk"} /\ D = {"tx"}
  OBVIOUS
<1>2. /\ Counts(Barrier, 1, W, P, D) /\ Counts(Tx("next_chunk"), 0, W, P, D) /\ Counts(Tx("merge"), 0, W, P, D)
      /\ Counts(Plain("chunk"), 0, W, P, D)
      /\ Counts(St("while_chunk", ""), 0, W, P, D) /\ Counts(St("end_chunk", ""), 0, W, P, D)
  BY <1>1, CountsOne DEF Whats
<1>3. /\ Counts(Barrier, 1, {}, {"zero"}, {}) /\ Counts(Plain("zero"), 0, {}, {"zero"}, {})
      /\ Counts(<<>>, 0, {}, {"zero"}, {})
  BY CountsOne DEF Whats
<1>4. Counts(Once(p, Plain("zero")), 0, {}, {"zero"}, {})
  BY <1>3 DEF Once
<1>5. PICK b, n, w, c, e, m, z :
        /\ b = Barrier /\ n = Tx("next_chunk") /\ w = St("while_chunk", "") /\ c = Plain("chunk")
        /\ e = St("end_chunk", "") /\ m = Tx("merge") /\ z = Once(p, Plain("zero"))
  OBVIOUS
<1>6. Counts(((((n \o w) \o c) \o n) \o e) \o m, 0, W, P, D)
  <2>1. Counts(n \o w, 0, W, P, D)
    <3>1. Counts(n \o w, 0 + 0, W, P, D)
      BY <1>2, <1>5, CountsConcat
    <3> QED
      BY <3>1
  <2>2. Counts((n \o w) \o c, 0, W, P, D)
    <3>1. Counts((n \o w) \o c, 0 + 0, W, P, D)
      BY <1>2, <1>5, <2>1, CountsConcat
    <3> QED
      BY <3>1
  <2>3. Counts(((n \o w) \o c) \o n, 0, W, P, D)
    <3>1. Counts(((n \o w) \o c) \o n, 0 + 0, W, P, D)
      BY <1>2, <1>5, <2>2, CountsConcat
    <3> QED
      BY <3>1
  <2>4. Counts((((n \o w) \o c) \o n) \o e, 0, W, P, D)
    <3>1. Counts((((n \o w) \o c) \o n) \o e, 0 + 0, W, P, D)
      BY <1>2, <1>5, <2>3, CountsConcat
    <3> QED
      BY <3>1
  <2>5. Counts(((((n \o w) \o c) \o n) \o e) \o m, 0 + 0, W, P, D)
    BY <1>2, <1>5, <2>4, CountsConcat
  <2> QED
    BY <2>5
<1>7. Counts(map_reduce, 0, W, P, D)
  <2>1. map_reduce = ((((n \o w) \o c) \o n) \o e) \o m
    BY <1>5, Zenon DEF map_reduce
  <2> QED
    BY <1>6, <2>1
<1>8. /\ Counts(map_reduce \o Barrier, 0 + 1, W, P, D) /\ Counts((map_reduce \o Barrier) \o Barrier, (0 + 1) + 1, W, P, D)
  <2>1. Counts(map_reduce \o Barrier, 0 + 1, W, P, D)
    BY <1>2, <1>7, CountsConcat
  <2>2. 0 + 1 \in Nat
    OBVIOUS
  <2>3. Counts((map_reduce \o Barrier) \o Barrier, (0 + 1) + 1, W, P, D)
    BY <2>1, <2>2, <1>2, CountsConcat
  <2> QED
    BY <2>1, <2>3
<1>9. Counts(Barrier \o Once(p, Plain("zero")), 1 + 0, {}, {"zero"}, {})
  BY <1>3, <1>4, CountsConcat
<1>10. Opening(p) = Barrier \o Once(p, Plain("zero")) /\ OpeningBars = 1 + 0 /\ OpeningPlains = {"zero"}
  BY DEF Opening, OpeningBars, OpeningPlains
<1>11. Rest(p) = (map_reduce \o Barrier) \o Barrier /\ RestBars = (0 + 1) + 1
  BY DEF Rest, RestBars
<1>12. Txs = W /\ RestPlains = P /\ LoopDos = D
  BY <1>1 DEF Txs, RestPlains, LoopDos
<1>13. PICK x, r : x = Opening(p) \o Barrier /\ r = map_reduce
  OBVIOUS
<1>14. x \in Seq(Statements) /\ r \in Seq(Statements) /\ b \in Seq(Statements)
  <2>1. Opening(p) \in Seq(Statements) /\ Barrier \in Seq(Statements) /\ r \in Seq(Statements)
    BY <1>2, <1>7, <1>9, <1>10, <1>13, CountsSeq
  <2>2. Opening(p) \o Barrier \in Seq(Statements)
    BY <2>1, ConcatProperties
  <2> QED
    BY <2>1, <2>2, <1>5, <1>13
<1>15. Program(p) = Opening(p) \o Barrier \o Rest(p)
  <2>1. Program(p) = MapReduce(p)
    BY DEF Program
  <2>2. Program(p) = ((x \o r) \o b) \o b
    BY <2>1, <1>5, <1>10, <1>13, Zenon DEF MapReduce
  <2>3. Groups(x, r, b, b)
    BY <1>14, RegroupThree, Zenon
  <2> QED
    BY <2>2, <2>3, <1>5, <1>11, <1>13, Zenon DEF Groups
<1> QED
  BY <1>8, <1>9, <1>10, <1>11, <1>12, <1>15 DEF Parts

LEMMA PartsTm2 ==
  ASSUME prog = "tm2", NEW p
  PROVE  Parts(p)
<1>1. PICK W, P, D : W = {"write_reps", "read_reps"} /\ P = {} /\ D = {"tx", "barrier"}
  OBVIOUS
<1>2. /\ Counts(Barrier, 1, W, P, D) /\ Counts(Tx("write_reps"), 0, W, P, D) /\ Counts(Tx("read_reps"), 0, W, P, D)
      /\ Counts(<<>>, 0, {}, {}, {})
  BY <1>1, CountsOne DEF Whats
<1>3. PICK s : s = (Barrier \o Tx("write_reps")) \o Tx("read_reps")
  OBVIOUS
<1>4. Counts(s, 1, W, P, D)
  <2>1. Counts(Barrier \o Tx("write_reps"), 1 + 0, W, P, D)
    BY <1>2, CountsConcat
  <2>2. Counts((Barrier \o Tx("write_reps")) \o Tx("read_reps"), (1 + 0) + 0, W, P, D)
    BY <1>2, <2>1, CountsConcat
  <2> QED
    BY <2>2, <1>3
<1>5. \A i \in 1 .. Len(s) : s[i].do \in D
  <2>1. /\ Len(Barrier) = 1 /\ Barrier[1].do = "barrier"
        /\ \A what : Len(Tx(what)) = 1 /\ Tx(what)[1].do = "tx"
    BY DEF Barrier, Tx, St
  <2>2. Barrier \in Seq(Statements) /\ Tx("write_reps") \in Seq(Statements) /\ Tx("read_reps") \in Seq(Statements)
    BY <1>2, CountsSeq
  <2>3. PICK u : u = Barrier \o Tx("write_reps")
    OBVIOUS
  <2>4. u \in Seq(Statements) /\ Len(u) = 2 /\ u[1].do = "barrier" /\ u[2].do = "tx"
    BY <2>1, <2>2, <2>3
  <2>5. Len(s) = 3 /\ s[1] = u[1] /\ s[2] = u[2] /\ s[3] = Tx("read_reps")[1]
    BY <2>1, <2>2, <2>3, <2>4, <1>3
  <2> QED
    BY <2>1, <2>4, <2>5, <1>1
<1>6. Counts(Loop(s), 1, W, P, D)
  BY <1>1, <1>4, <1>5, CountsLoop
<1>7. Rest(p) = Loop(s) /\ RestBars = 1 /\ Txs = W /\ RestPlains = P /\ LoopDos = D
  BY <1>1, <1>3 DEF Rest, RestBars, Txs, RestPlains, LoopDos
<1>8. Opening(p) = <<>> /\ OpeningBars = 0 /\ OpeningPlains = {}
  BY DEF Opening, OpeningBars, OpeningPlains
<1>9. Program(p) = Barrier \o Rest(p)
  BY <1>3, <1>7 DEF Program, Tm2
<1> QED
  BY <1>2, <1>6, <1>7, <1>8, <1>9, EmptyOpening DEF Parts

LEMMA ProgramParts == \A p : prog \in Progs => Parts(p)
<1>1. NUM_UES \in Nat /\ (prog \in Progs => prog \in {"bank", "mr", "tm2", "tm3", "tm3_all", "tm4", "tm5", "tm6", "tm7", "tm8", "tm9"})
  BY ClientsAssumption
<1> QED
  BY <1>1, PartsTm, PartsBank, PartsMr, PartsTm2

LEMMA SoundMore ==
  ASSUME NEW s, NEW W, NEW P, NEW D, NEW V, NEW Q, NEW E, Sound(s, W, P, D),
         W \subseteq V, P \subseteq Q, D \subseteq E
  PROVE  Sound(s, V, Q, E)
BY DEF Sound, SoundAt

Plains == OpeningPlains \cup RestPlains
AllBars == OpeningBars + 1 + RestBars

LEMMA BarsOf ==
  ASSUME prog \in Progs
  PROVE  OpeningBars \in Nat /\ RestBars \in Nat /\ AllBars \in Nat
<1>1. NUM_UES \in Nat /\ prog \in {"bank", "mr", "tm2", "tm3", "tm3_all", "tm4", "tm5", "tm6", "tm7", "tm8", "tm9"}
  BY ClientsAssumption
<1>2. OpeningBars \in Nat
  BY <1>1 DEF OpeningBars
<1>3. RestBars \in Nat
  BY <1>1 DEF RestBars
<1> QED
  BY <1>2, <1>3 DEF AllBars

LEMMA ProgramSound ==
  ASSUME prog \in Progs, NEW p
  PROVE  /\ Program(p) \in Seq(Statements) /\ Sound(Program(p), Txs, Plains, LoopDos) /\ Bars(Program(p)) = AllBars
         /\ Len(Program(p)) = Len(Opening(p)) + 1 + Len(Rest(p))
         /\ Len(Opening(p)) \in Nat /\ Len(Rest(p)) \in Nat
<1>1. Parts(p)
  BY ProgramParts
<1>2. PICK s, t, b : s = Opening(p) /\ t = Rest(p) /\ b = Barrier
  OBVIOUS
<1>3. Program(p) = (s \o b) \o t
  BY <1>1, <1>2, Zenon DEF Parts
<1>4. Counts(s, OpeningBars, {}, OpeningPlains, {}) /\ Counts(t, RestBars, Txs, RestPlains, LoopDos)
  BY <1>1, <1>2 DEF Parts
<1>5. Counts(s, OpeningBars, Txs, Plains, LoopDos) /\ Counts(t, RestBars, Txs, Plains, LoopDos)
  <2>1. OpeningPlains \subseteq Plains /\ RestPlains \subseteq Plains /\ {} \subseteq Txs /\ {} \subseteq LoopDos
    BY DEF Plains
  <2>2. Sound(s, Txs, Plains, LoopDos)
    BY <1>4, <2>1, SoundMore DEF Counts
  <2>3. Sound(t, Txs, Plains, LoopDos)
    BY <1>4, <2>1, SoundMore DEF Counts
  <2> QED
    BY <1>4, <2>2, <2>3 DEF Counts
<1>6. Counts(b, 1, Txs, Plains, LoopDos)
  BY <1>2, CountsOne
<1>7. Counts(s \o b, OpeningBars + 1, Txs, Plains, LoopDos)
  BY <1>5, <1>6, BarsOf, CountsConcat
<1>8. OpeningBars + 1 \in Nat
  BY BarsOf
<1>9. Counts((s \o b) \o t, (OpeningBars + 1) + RestBars, Txs, Plains, LoopDos)
  BY <1>5, <1>7, <1>8, BarsOf, CountsConcat
<1>10. s \in Seq(Statements) /\ t \in Seq(Statements) /\ b \in Seq(Statements) /\ Len(b) = 1
  BY <1>2, <1>5, <1>6, CountsSeq DEF Barrier, St
<1>11. Len((s \o b) \o t) = Len(s) + 1 + Len(t) /\ Len(s) \in Nat /\ Len(t) \in Nat
  <2>1. PICK sb : sb = s \o b
    OBVIOUS
  <2>2. sb \in Seq(Statements) /\ Len(sb) = Len(s) + 1 /\ Len(s) \in Nat /\ Len(t) \in Nat
    <3>1. s \o b \in Seq(Statements) /\ Len(s \o b) = Len(s) + Len(b)
      BY <1>10, ConcatProperties
    <3> QED
      BY <3>1, <2>1, <1>10
  <2>3. Len(sb \o t) = Len(sb) + Len(t)
    BY <2>2, <1>10, ConcatProperties
  <2> QED
    BY <2>1, <2>2, <2>3
<1> QED
  BY <1>2, <1>3, <1>9, <1>11, CountsSeq DEF AllBars

\* One statement after a sequence
Longer(T, s, x, r) ==
  /\ r \in Seq(T) /\ s \in Seq(T) /\ Len(r) = Len(s) + 1 /\ r[Len(s) + 1] = x
  /\ \A i \in 1 .. Len(s) : r[i] = s[i]

LEMMA OneMore ==
  ASSUME NEW T, NEW s \in Seq(T), NEW x \in T
  PROVE  Longer(T, s, x, s \o <<x>>)
<1>1. <<x>> \in Seq(T) /\ Len(<<x>>) = 1 /\ <<x>>[1] = x
  OBVIOUS
<1> QED
  BY <1>1 DEF Longer

Preceded(T, s, x, r) ==
  /\ r \in Seq(T) /\ Len(r) = Len(s) + 1 /\ r[1] = x
  /\ \A i \in 1 .. Len(s) : r[i + 1] = s[i]

LEMMA OneFirst ==
  ASSUME NEW T, NEW s \in Seq(T), NEW x \in T
  PROVE  Preceded(T, s, x, <<x>> \o s)
<1>1. <<x>> \in Seq(T) /\ Len(<<x>>) = 1 /\ <<x>>[1] = x
  OBVIOUS
<1>2. PICK t : t = <<x>>
  OBVIOUS
<1>3. /\ t \o s \in Seq(T) /\ Len(t \o s) = Len(s) + 1 /\ (t \o s)[1] = x
      /\ \A i \in 1 .. Len(s) : (t \o s)[i + 1] = s[i]
  BY <1>1, <1>2
<1> QED
  BY <1>2, <1>3, Zenon DEF Preceded

\* map_reduce begins after o statements.
MrFrom(p, o) ==
  LET s == Program(p)
  IN  /\ o \in {2, 3} /\ o = Len(Opening(p)) + 1 /\ Len(s) = o + 8
      /\ \A i \in 1 .. o : s[i].do \in {"barrier", "plain"}
      /\ s[o + 1].do = "tx" /\ s[o + 1].what = "next_chunk"
      /\ s[o + 2].do = "while_chunk"
      /\ s[o + 3].do = "plain" /\ s[o + 3].what = "chunk"
      /\ s[o + 4].do = "tx" /\ s[o + 4].what = "next_chunk"
      /\ s[o + 5].do = "end_chunk"
      /\ s[o + 6].do = "tx" /\ s[o + 6].what = "merge"
      /\ s[o + 7].do = "barrier" /\ s[o + 8].do = "barrier"

LEMMA MrProgram ==
  ASSUME prog = "mr", NEW p
  PROVE  \E o : MrFrom(p, o)
<1>1. PICK b, n, w, c, e, m, z, T :
        /\ b = [do |-> "barrier", what |-> "", len |-> 0] /\ n = [do |-> "tx", what |-> "next_chunk", len |-> 0]
        /\ w = [do |-> "while_chunk", what |-> "", len |-> 0] /\ c = [do |-> "plain", what |-> "chunk", len |-> 0]
        /\ e = [do |-> "end_chunk", what |-> "", len |-> 0] /\ m = [do |-> "tx", what |-> "merge", len |-> 0]
        /\ z = [do |-> "plain", what |-> "zero", len |-> 0] /\ T = {b, n, w, c, e, m, z}
  OBVIOUS
<1>2. PICK op : op = Opening(p)
  OBVIOUS
<1>3. /\ Barrier = <<b>> /\ Tx("next_chunk") = <<n>> /\ St("while_chunk", "") = <<w>> /\ Plain("chunk") = <<c>>
      /\ St("end_chunk", "") = <<e>> /\ Tx("merge") = <<m>> /\ Plain("zero") = <<z>>
  BY <1>1 DEF Barrier, Tx, St, Plain
<1>20. b \in T /\ n \in T /\ w \in T /\ c \in T /\ e \in T /\ m \in T /\ z \in T
  BY <1>1
<1>22. /\ b.do = "barrier" /\ n.do = "tx" /\ n.what = "next_chunk" /\ w.do = "while_chunk" /\ c.do = "plain"
       /\ c.what = "chunk" /\ e.do = "end_chunk" /\ m.do = "tx" /\ m.what = "merge" /\ z.do = "plain"
  BY <1>1
<1>21. <<b>> \in Seq(T) /\ Len(<<b>>) = 1 /\ <<b>>[1] = b /\ <<n>> \in Seq(T) /\ Len(<<n>>) = 1 /\ <<n>>[1] = n
  BY <1>20
<1>4. op \in Seq(T) /\ Len(op) \in {1, 2} /\ \A i \in 1 .. Len(op) : op[i].do \in {"barrier", "plain"}
  <2>1. op = <<b>> \o Once(p, <<z>>)
    BY <1>2, <1>3 DEF Opening
  <2>2. CASE p = min_app_id
    <3>1. op = <<b>> \o <<z>>
      BY <2>1, <2>2 DEF Once
    <3>2. Longer(T, <<b>>, z, op)
      BY <3>1, <1>20, <1>21, OneMore, Zenon
    <3>3. op \in Seq(T) /\ Len(op) = 2 /\ op[1] = b /\ op[2] = z
      BY <3>2, <1>21 DEF Longer
    <3> QED
      BY <3>3, <1>22
  <2>3. CASE p # min_app_id
    <3>1. op = <<b>> \o <<>>
      BY <2>1, <2>3 DEF Once
    <3>2. op \in Seq(T) /\ Len(op) = 1 /\ op[1] = b
      BY <3>1, <1>21, ConcatEmptySeq
    <3> QED
      BY <3>2, <1>22
  <2> QED
    BY <2>2, <2>3
<1>5. PICK s1, s2, s3, s4, s5, s6, s7, s8, s9, o :
        /\ s1 = op \o <<b>> /\ s2 = <<n>> \o <<w>> /\ s3 = s2 \o <<c>> /\ s4 = s3 \o <<n>> /\ s5 = s4 \o <<e>> /\ s6 = s5 \o <<m>>
        /\ s7 = s1 \o s6 /\ s8 = s7 \o <<b>> /\ s9 = s8 \o <<b>> /\ o = Len(op) + 1
  OBVIOUS
<1>6. Program(p) = s9
  <2>1. Program(p) = Barrier \o Once(p, Plain("zero")) \o Barrier \o map_reduce \o Barrier \o Barrier
    BY DEF Program, MapReduce
  <2>2. Opening(p) = Barrier \o Once(p, Plain("zero"))
    BY DEF Opening
  <2>3. map_reduce = s6
    BY <1>3, <1>5, Zenon DEF map_reduce
  <2> QED
    BY <2>1, <2>2, <2>3, <1>2, <1>3, <1>5, Zenon
<1>7. op \in Seq(T) /\ Len(op) \in {1, 2}
  BY <1>4
<1>8. s2 \in Seq(T) /\ Len(s2) = 2 /\ s2[1] = n /\ s2[2] = w
  <2>1. Longer(T, <<n>>, w, s2)
    BY <1>5, <1>20, <1>21, OneMore, Zenon
  <2> QED
    BY <2>1, <1>21 DEF Longer
<1>9. s3 \in Seq(T) /\ Len(s3) = 3 /\ s3[1] = n /\ s3[2] = w /\ s3[3] = c
  <2>1. Longer(T, s2, c, s3)
    BY <1>5, <1>20, <1>8, OneMore, Zenon
  <2> QED
    BY <2>1, <1>8 DEF Longer
<1>10. s4 \in Seq(T) /\ Len(s4) = 4 /\ s4[1] = n /\ s4[2] = w /\ s4[3] = c /\ s4[4] = n
  <2>1. Longer(T, s3, n, s4)
    BY <1>5, <1>20, <1>9, OneMore, Zenon
  <2> QED
    BY <2>1, <1>9 DEF Longer
<1>11. s5 \in Seq(T) /\ Len(s5) = 5 /\ s5[1] = n /\ s5[2] = w /\ s5[3] = c /\ s5[4] = n /\ s5[5] = e
  <2>1. Longer(T, s4, e, s5)
    BY <1>5, <1>20, <1>10, OneMore, Zenon
  <2> QED
    BY <2>1, <1>10 DEF Longer
<1>12. s6 \in Seq(T) /\ Len(s6) = 6 /\ s6[1] = n /\ s6[2] = w /\ s6[3] = c /\ s6[4] = n /\ s6[5] = e /\ s6[6] = m
  <2>1. Longer(T, s5, m, s6)
    BY <1>5, <1>20, <1>11, OneMore, Zenon
  <2> QED
    BY <2>1, <1>11 DEF Longer
<1>13. s1 \in Seq(T) /\ Len(s1) = o /\ o \in {2, 3} /\ \A i \in 1 .. o : s1[i].do \in {"barrier", "plain"}
  <2>1. Longer(T, op, b, s1)
    BY <1>5, <1>7, <1>20, OneMore, Zenon
  <2> QED
    BY <2>1, <1>22, <1>4, <1>5 DEF Longer
<1>14. /\ s7 \in Seq(T) /\ Len(s7) = o + 6 /\ \A i \in 1 .. o : s7[i] = s1[i]
       /\ \A i \in 1 .. 6 : s7[o + i] = s6[i]
  BY <1>5, <1>12, <1>13
<1>15. s8 \in Seq(T) /\ Len(s8) = o + 7 /\ s8[o + 7] = b /\ \A i \in 1 .. o + 6 : s8[i] = s7[i]
  <2>1. Longer(T, s7, b, s8)
    BY <1>5, <1>20, <1>14, OneMore, Zenon
  <2> QED
    BY <2>1, <1>13, <1>14 DEF Longer
<1>16. s9 \in Seq(T) /\ Len(s9) = o + 8 /\ s9[o + 8] = b /\ \A i \in 1 .. o + 7 : s9[i] = s8[i]
  <2>1. Longer(T, s8, b, s9)
    BY <1>5, <1>20, <1>15, OneMore, Zenon
  <2> QED
    BY <2>1, <1>13, <1>15 DEF Longer
<1>17. \A i \in 1 .. o : s9[i] = s1[i]
  BY <1>13, <1>14, <1>15, <1>16
<1>18. /\ s9[o + 1] = n /\ s9[o + 2] = w /\ s9[o + 3] = c /\ s9[o + 4] = n /\ s9[o + 5] = e /\ s9[o + 6] = m
       /\ s9[o + 7] = b
  BY <1>12, <1>13, <1>14, <1>15, <1>16
<1> QED
  <2>1. o = Len(Opening(p)) + 1
    BY <1>2, <1>5
  <2> QED
    BY <2>1, <1>22, <1>6, <1>13, <1>16, <1>17, <1>18, SMTT(30) DEF MrFrom

\* The program of tm2
Tm2At(p) ==
  LET s == Program(p)
  IN  /\ Len(s) = 6 /\ s[1].do = "barrier" /\ s[2] = LoopOf(3) /\ s[3].do = "barrier"
      /\ s[4].do = "tx" /\ s[4].what = "write_reps" /\ s[5].do = "tx" /\ s[5].what = "read_reps" /\ s[6] = AgainOf(3)

LEMMA Tm2Program ==
  ASSUME prog = "tm2", NEW p
  PROVE  Tm2At(p)
<1>1. PICK b, w, r, T : /\ b = [do |-> "barrier", what |-> "", len |-> 0]
                        /\ w = [do |-> "tx", what |-> "write_reps", len |-> 0]
                        /\ r = [do |-> "tx", what |-> "read_reps", len |-> 0] /\ T = {b, w, r, LoopOf(3), AgainOf(3)}
  OBVIOUS
<1>2. Barrier = <<b>> /\ Tx("write_reps") = <<w>> /\ Tx("read_reps") = <<r>>
  BY <1>1 DEF Barrier, Tx, St
<1>3. PICK s1, s2 : s1 = <<b>> \o <<w>> /\ s2 = s1 \o <<r>>
  OBVIOUS
<1>4. Program(p) = <<b>> \o Loop(s2)
  BY <1>2, <1>3 DEF Program, Tm2
<1>7. PICK l, a : l = LoopOf(3) /\ a = AgainOf(3)
  OBVIOUS
<1>10. l \in T /\ a \in T /\ b \in T /\ w \in T /\ r \in T
  BY <1>1, <1>7
<1>16. b.do = "barrier" /\ w.do = "tx" /\ w.what = "write_reps" /\ r.do = "tx" /\ r.what = "read_reps"
  BY <1>1
<1>15. <<b>> \in Seq(T) /\ Len(<<b>>) = 1 /\ <<b>>[1] = b
  BY <1>10
<1>5. s1 \in Seq(T) /\ Len(s1) = 2 /\ s1[1] = b /\ s1[2] = w
  <2>1. Longer(T, <<b>>, w, s1)
    BY <1>3, <1>10, <1>15, OneMore, Zenon
  <2> QED
    BY <2>1, <1>15 DEF Longer
<1>6. s2 \in Seq(T) /\ Len(s2) = 3 /\ s2[1] = b /\ s2[2] = w /\ s2[3] = r
  <2>1. Longer(T, s1, r, s2)
    BY <1>3, <1>5, <1>10, OneMore, Zenon
  <2> QED
    BY <2>1, <1>5 DEF Longer
<1>8. Loop(s2) = (<<l>> \o s2) \o <<a>>
  BY <1>6, <1>7 DEF Loop, LoopOf, AgainOf
<1>9. PICK s3, s4, s5 : s3 = <<l>> \o s2 /\ s4 = s3 \o <<a>> /\ s5 = <<b>> \o s4
  OBVIOUS
<1>11. s3 \in Seq(T) /\ Len(s3) = 4 /\ s3[1] = l /\ s3[2] = b /\ s3[3] = w /\ s3[4] = r
  <2>1. Preceded(T, s2, l, s3)
    BY <1>6, <1>9, <1>10, OneFirst, Zenon
  <2>2. s3 \in Seq(T) /\ Len(s3) = 4 /\ s3[1] = l /\ \A i \in 1 .. 3 : s3[i + 1] = s2[i]
    BY <2>1, <1>6 DEF Preceded
  <2>3. s3[1 + 1] = s2[1] /\ s3[2 + 1] = s2[2] /\ s3[3 + 1] = s2[3]
    BY <2>2
  <2> QED
    BY <2>2, <2>3, <1>6
<1>12. s4 \in Seq(T) /\ Len(s4) = 5 /\ s4[1] = l /\ s4[2] = b /\ s4[3] = w /\ s4[4] = r /\ s4[5] = a
  <2>1. Longer(T, s3, a, s4)
    BY <1>9, <1>10, <1>11, OneMore, Zenon
  <2> QED
    BY <2>1, <1>11 DEF Longer
<1>13. s5 \in Seq(T) /\ Len(s5) = 6 /\ s5[1] = b /\ s5[2] = l /\ s5[3] = b /\ s5[4] = w /\ s5[5] = r /\ s5[6] = a
  <2>1. Preceded(T, s4, b, s5)
    BY <1>9, <1>10, <1>12, OneFirst, Zenon
  <2>2. s5 \in Seq(T) /\ Len(s5) = 6 /\ s5[1] = b /\ \A i \in 1 .. 5 : s5[i + 1] = s4[i]
    BY <2>1, <1>12 DEF Preceded
  <2>3. s5[1 + 1] = s4[1] /\ s5[2 + 1] = s4[2] /\ s5[3 + 1] = s4[3] /\ s5[4 + 1] = s4[4] /\ s5[5 + 1] = s4[5]
    BY <2>2
  <2> QED
    BY <2>2, <2>3, <1>12
<1>14. Program(p) = s5
  BY <1>4, <1>8, <1>9, Zenon
<1> QED
  BY <1>16, <1>7, <1>13, <1>14 DEF Tm2At

\* The program of tm3 without arguments: the rounds of one node
Tm3At(p) ==
  LET s == Program(p)
  IN  IF p = min_app_id
      THEN /\ Len(s) = 5 /\ s[1].do = "barrier" /\ s[2] = LoopOf(1) /\ s[3].do = "tx" /\ s[4] = AgainOf(1)
           /\ s[5].do = "barrier"
      ELSE Len(s) = 2 /\ s[1].do = "barrier" /\ s[2].do = "barrier"

LEMMA Tm3Program ==
  ASSUME prog = "tm3", NEW p
  PROVE  Tm3At(p)
<1>1. PICK b, t, l, a, T : /\ b = [do |-> "barrier", what |-> "", len |-> 0]
                           /\ t = [do |-> "tx", what |-> "load_round", len |-> 0]
                           /\ l = LoopOf(1) /\ a = AgainOf(1) /\ T = {b, t, l, a}
  OBVIOUS
<1>2. Barrier = <<b>> /\ Tx("load_round") = <<t>>
  BY <1>1 DEF Barrier, Tx, St
<1>3. b \in T /\ t \in T /\ l \in T /\ a \in T /\ b.do = "barrier" /\ t.do = "tx"
  BY <1>1
<1>4. <<b>> \in Seq(T) /\ Len(<<b>>) = 1 /\ <<b>>[1] = b
  BY <1>3
<1>5. <<t>> \in Seq(T) /\ Len(<<t>>) = 1 /\ <<t>>[1] = t
  BY <1>3
<1>6. CASE p = min_app_id
  <2>1. PICK s1, s2, s3, s4 : s1 = <<l>> \o <<t>> /\ s2 = s1 \o <<a>> /\ s3 = <<b>> \o s2 /\ s4 = s3 \o <<b>>
    OBVIOUS
  <2>2. Loop(<<t>>) = s2
    BY <2>1, <1>1, <1>5 DEF Loop, LoopOf, AgainOf
  <2>3. Program(p) = s4
    <3>1. Program(p) = (Barrier \o Loop(Tx("load_round"))) \o Barrier
      BY <1>6, Zenon DEF Program, Tm3, Once
    <3> QED
      BY <3>1, <2>1, <2>2, <1>2, Zenon
  <2>4. s1 \in Seq(T) /\ Len(s1) = 2 /\ s1[1] = l /\ s1[2] = t
    <3>1. <<l>> \in Seq(T) /\ Len(<<l>>) = 1 /\ <<l>>[1] = l
      BY <1>3
    <3>2. Longer(T, <<l>>, t, s1)
      BY <3>1, <2>1, <1>3, OneMore, Zenon
    <3> QED
      BY <3>1, <3>2 DEF Longer
  <2>5. s2 \in Seq(T) /\ Len(s2) = 3 /\ s2[1] = l /\ s2[2] = t /\ s2[3] = a
    <3>1. Longer(T, s1, a, s2)
      BY <2>1, <2>4, <1>3, OneMore, Zenon
    <3> QED
      BY <3>1, <2>4 DEF Longer
  <2>6. s3 \in Seq(T) /\ Len(s3) = 4 /\ s3[1] = b /\ s3[2] = l /\ s3[3] = t /\ s3[4] = a
    <3>1. Preceded(T, s2, b, s3)
      BY <2>1, <2>5, <1>3, OneFirst, Zenon
    <3>2. s3 \in Seq(T) /\ Len(s3) = 4 /\ s3[1] = b /\ \A i \in 1 .. 3 : s3[i + 1] = s2[i]
      BY <3>1, <2>5 DEF Preceded
    <3>3. s3[1 + 1] = s2[1] /\ s3[2 + 1] = s2[2] /\ s3[3 + 1] = s2[3]
      BY <3>2
    <3> QED
      BY <3>2, <3>3, <2>5
  <2>7. Len(s4) = 5 /\ s4[1] = b /\ s4[2] = l /\ s4[3] = t /\ s4[4] = a /\ s4[5] = b
    <3>1. Longer(T, s3, b, s4)
      BY <2>1, <2>6, <1>3, OneMore, Zenon
    <3> QED
      BY <3>1, <2>6 DEF Longer
  <2> QED
    BY <2>3, <2>7, <1>1, <1>3, <1>6 DEF Tm3At
<1>7. CASE p # min_app_id
  <2>1. Program(p) = (<<b>> \o <<>>) \o <<b>>
    BY <1>2, <1>7, Zenon DEF Program, Tm3, Once
  <2>2. <<b>> \o <<>> = <<b>>
    BY <1>4, ConcatEmptySeq
  <2>3. Longer(T, <<b>>, b, <<b>> \o <<b>>)
    BY <1>3, <1>4, OneMore, Zenon
  <2>4. PICK s : s = <<b>> \o <<b>>
    OBVIOUS
  <2>5. Len(s) = 2 /\ s[1] = b /\ s[2] = b
    BY <2>3, <2>4, <1>4 DEF Longer
  <2>6. Program(p) = s
    BY <2>1, <2>2, <2>4, Zenon
  <2> QED
    BY <2>5, <2>6, <1>3, <1>7 DEF Tm3At
<1> QED
  BY <1>6, <1>7

-----------------------------------------------------------------------------
(* Where a node is in its program.                                           *)

\* The barriers of s from statement i on
BarsFrom(s, i) == Cardinality({k \in i .. Len(s) : s[k].do = "barrier"})

LEMMA BarsFromSame ==
  ASSUME NEW s, Len(s) \in Nat, NEW i \in Nat, NEW j \in Nat, i <= j, \A k \in i .. j - 1 : k <= Len(s) => s[k].do # "barrier"
  PROVE  BarsFrom(s, i) = BarsFrom(s, j)
<1>1. {k \in i .. Len(s) : s[k].do = "barrier"} = {k \in j .. Len(s) : s[k].do = "barrier"}
  OBVIOUS
<1> QED
  BY <1>1 DEF BarsFrom

LEMMA BarsFromFinite ==
  ASSUME NEW s, Len(s) \in Nat, NEW i \in Nat
  PROVE  IsFiniteSet({k \in i .. Len(s) : s[k].do = "barrier"}) /\ BarsFrom(s, i) \in Nat
<1>1. IsFiniteSet(i .. Len(s))
  BY FS_Interval
<1>2. IsFiniteSet({k \in i .. Len(s) : s[k].do = "barrier"})
  BY <1>1, FS_Subset
<1> QED
  BY <1>2, FS_CardinalityType DEF BarsFrom

LEMMA BarsFromBarrier ==
  ASSUME NEW s, Len(s) \in Nat, NEW i \in 1 .. Len(s), s[i].do = "barrier"
  PROVE  BarsFrom(s, i) = BarsFrom(s, i + 1) + 1
<1> DEFINE S == {k \in i + 1 .. Len(s) : s[k].do = "barrier"}
<1>1. {k \in i .. Len(s) : s[k].do = "barrier"} = S \cup {i} /\ i \notin S
  OBVIOUS
<1>2. IsFiniteSet(S)
  BY BarsFromFinite
<1>3. Cardinality(S \cup {i}) = Cardinality(S) + 1
  <2> HIDE DEF S
  <2> QED
    BY <1>1, <1>2, FS_AddElement
<1> QED
  BY <1>1, <1>3 DEF BarsFrom

LEMMA BarsFromEnds ==
  ASSUME NEW s, Len(s) \in Nat
  PROVE  BarsFrom(s, 1) = Bars(s) /\ BarsFrom(s, Len(s) + 1) = 0
<1>1. {k \in 1 .. Len(s) : s[k].do = "barrier"} = BarsIn(s)
  BY DEF BarsIn
<1>2. {k \in Len(s) + 1 .. Len(s) : s[k].do = "barrier"} = {}
  OBVIOUS
<1>3. BarsFrom(s, 1) = Bars(s)
  BY <1>1, Zenon DEF BarsFrom, Bars
<1> QED
  BY <1>2, <1>3, FS_EmptySet DEF BarsFrom

\* Statement i is in a timed loop; its last one is not counted as such where read_reps counts the rounds.
InLoop(s, i) ==
  \E l \in 1 .. Len(s) : s[l].do = "loop" /\ i \in l + 1 .. l + s[l].len + (IF prog = "tm2" THEN 0 ELSE 1)

LEMMA LoopMoves ==
  ASSUME NEW s, NEW W, NEW P, Sound(s, W, P, LoopDos), NEW i \in 1 .. Len(s)
  PROVE  /\ s[i].do # "loop" /\ InLoop(s, i + 1) => InLoop(s, i)
         /\ s[i].do = "loop" => ~InLoop(s, i + s[i].len + 2)
         /\ s[i].do = "again" => ~InLoop(s, i - s[i].len - 1)
         /\ s[i].do = "again" /\ prog # "tm2" => InLoop(s, i)
<1>1. /\ \A k \in 1 .. Len(s) : SoundAt(s, W, P, LoopDos, k) /\ s[k] \in Statements
      /\ Len(s) \in Nat
  BY DEF Sound
<1>2. LoopDos \subseteq {"tx", "barrier"}
  BY DEF LoopDos
<1>3. \A l \in 1 .. Len(s) : s[l].do = "loop" =>
        /\ s[l].len \in Nat /\ l + s[l].len + 1 <= Len(s) /\ s[l + s[l].len + 1].do = "again"
        /\ \A k \in l + 1 .. l + s[l].len : s[k].do \notin {"loop", "again"}
  <2> SUFFICES ASSUME NEW l \in 1 .. Len(s), s[l].do = "loop"
               PROVE  /\ s[l].len \in Nat /\ l + s[l].len + 1 <= Len(s) /\ s[l + s[l].len + 1].do = "again"
                      /\ \A k \in l + 1 .. l + s[l].len : s[k].do \notin {"loop", "again"}
    OBVIOUS
  <2>1. /\ l + s[l].len + 1 <= Len(s) /\ s[l + s[l].len + 1] = AgainOf(s[l].len)
        /\ \A k \in l + 1 .. l + s[l].len : s[k].do \in LoopDos
    BY <1>1 DEF SoundAt
  <2>2. s[l].len \in Nat
    BY <1>1 DEF Statements
  <2>3. AgainOf(s[l].len).do = "again"
    BY DEF AgainOf
  <2>4. \A k \in l + 1 .. l + s[l].len : s[k].do \notin {"loop", "again"}
    BY <1>2, <2>1
  <2> QED
    BY <2>1, <2>2, <2>3, <2>4
<1>4. s[i].do = "again" => /\ s[i].len \in Nat /\ i - s[i].len - 1 \in 1 .. Len(s) /\ s[i - s[i].len - 1].do = "loop"
                           /\ s[i - s[i].len - 1].len = s[i].len
  <2> SUFFICES ASSUME s[i].do = "again"
               PROVE  /\ s[i].len \in Nat /\ i - s[i].len - 1 \in 1 .. Len(s) /\ s[i - s[i].len - 1].do = "loop"
                      /\ s[i - s[i].len - 1].len = s[i].len
    OBVIOUS
  <2>1. i - s[i].len - 1 >= 1 /\ s[i - s[i].len - 1] = LoopOf(s[i].len)
    BY <1>1 DEF SoundAt
  <2>2. s[i].len \in Nat
    BY <1>1 DEF Statements
  <2>3. LoopOf(s[i].len).do = "loop" /\ LoopOf(s[i].len).len = s[i].len
    BY DEF LoopOf
  <2>4. i - s[i].len - 1 \in 1 .. Len(s)
    BY <1>1, <2>1, <2>2
  <2> QED
    BY <2>1, <2>2, <2>3, <2>4
<1>5. \A l \in 1 .. Len(s) : s[l].do = "loop" => \A k \in l + 1 .. l + s[l].len + 1 : s[k].do # "loop"
  <2> SUFFICES ASSUME NEW l \in 1 .. Len(s), s[l].do = "loop", NEW k \in l + 1 .. l + s[l].len + 1
               PROVE  s[k].do # "loop"
    OBVIOUS
  <2>1. CASE k = l + s[l].len + 1
    BY <2>1, <1>3
  <2>2. CASE k \in l + 1 .. l + s[l].len
    BY <2>2, <1>3
  <2> QED
    BY <2>1, <2>2, <1>3
<1>6. ASSUME s[i].do # "loop", InLoop(s, i + 1) PROVE InLoop(s, i)
  <2>1. PICK l \in 1 .. Len(s) : s[l].do = "loop" /\ i + 1 \in l + 1 .. l + s[l].len + (IF prog = "tm2" THEN 0 ELSE 1)
    BY <1>6 DEF InLoop
  <2>2. i # l
    BY <1>6, <2>1
  <2> QED
    BY <2>1, <2>2, <1>3 DEF InLoop
<1>7. ASSUME NEW j \in 1 .. Len(s), s[j].do = "loop" PROVE ~InLoop(s, j)
  BY <1>3, <1>5, <1>7 DEF InLoop
<1>8. ASSUME s[i].do = "loop", InLoop(s, i + s[i].len + 2) PROVE FALSE
  <2>1. PICK l \in 1 .. Len(s) : /\ s[l].do = "loop"
                                 /\ i + s[i].len + 2 \in l + 1 .. l + s[l].len + (IF prog = "tm2" THEN 0 ELSE 1)
    BY <1>8 DEF InLoop
  <2>4. i + s[i].len + 2 <= l + s[l].len + 1 /\ i + s[i].len + 2 >= l + 1 /\ s[l].len \in Nat /\ s[i].len \in Nat
    <3>1. s[l].len \in Nat /\ s[i].len \in Nat
      BY <1>3, <1>8, <2>1
    <3>2. (IF prog = "tm2" THEN 0 ELSE 1) \in {0, 1}
      OBVIOUS
    <3> QED
      BY <3>1, <3>2, <2>1
  <2>2. CASE l <= i
    <3>1. l # i /\ i \notin l + 1 .. l + s[l].len + 1
      BY <1>3, <1>5, <1>8, <2>1
    <3> QED
      BY <2>2, <2>4, <3>1
  <2>3. CASE l > i
    <3>1. l \notin i + 1 .. i + s[i].len + 1
      BY <1>5, <1>8, <2>1
    <3> QED
      BY <2>1, <2>3, <3>1, <1>3, <1>8
  <2> QED
    BY <2>2, <2>3
<1>9. ASSUME s[i].do = "again" PROVE ~InLoop(s, i - s[i].len - 1)
  BY <1>4, <1>7, <1>9
<1>10. ASSUME s[i].do = "again", prog # "tm2" PROVE InLoop(s, i)
  BY <1>4, <1>10 DEF InLoop
<1> QED
  BY <1>6, <1>8, <1>9, <1>10

-----------------------------------------------------------------------------
(* What transactions do.                                                     *)

\* In mr nothing is ever negative.
Numbers == IF prog = "mr" THEN Nat ELSE Int
Ops == [do : {"load", "store", "wlock", "add", "raw"}, w : Readable, v : Numbers]

\* The rounds of tm3: the last one ends behind the array.
LEMMA RoundsFacts ==
  /\ Rounds \in Nat /\ REPS \in Nat \ {0} /\ Size \in Nat \ {0}
  /\ (Rounds + 2) * REPS \in Nat /\ Size < (Rounds + 2) * REPS
<1>1. REPS \in Nat \ {0} /\ Size \in Nat \ {0}
  BY ClientsAssumption
<1>2. Rounds \in Nat
  BY <1>1 DEF Rounds
<1>3. Size = Rounds * REPS + (Size % REPS) /\ Size % REPS \in 0 .. REPS - 1
  BY <1>1 DEF Rounds
<1>4. PICK n \in Nat : n = Rounds * REPS
  BY <1>1, <1>2
<1>5. (Rounds + 2) * REPS = n + 2 * REPS
  BY <1>1, <1>2, <1>4
<1> QED
  BY <1>1, <1>2, <1>3, <1>4, <1>5

LEMMA SizeFacts ==
  /\ Size \in Nat /\ Size >= 3 /\ NbAccounts \in Nat /\ NbAccounts >= 2 /\ NbAccounts <= Size
  /\ Words = 0 .. Size - 1 /\ 0 .. Size \subseteq Readable /\ Readable \subseteq Nat /\ Accounts = 0 .. NbAccounts - 1
  /\ Apps \subseteq Nat /\ NUM_UES \in Nat
<1>1. /\ Size \in Nat /\ Size >= 3 /\ NbAccounts \in Nat /\ NbAccounts >= 2 /\ NbAccounts <= Size
      /\ Words = 0 .. Size - 1 /\ Accounts = 0 .. NbAccounts - 1 /\ Apps \subseteq Nat /\ NUM_UES \in Nat
  BY ClientsAssumption DEF Words, Accounts, Apps, Nodes
<1>2. PICK m \in Nat : m = (Rounds + 2) * REPS /\ Size < m
  BY RoundsFacts
<1> QED
  BY <1>1, <1>2 DEF Readable

LEMMA TimesTyped ==
  ASSUME prog \in Progs
  PROVE  Times \in Nat
BY RoundsFacts, ClientsAssumption DEF Times

LEMMA OpsAre ==
  ASSUME NEW do \in {"load", "store", "wlock", "add", "raw"}, NEW w \in Readable, NEW v \in Numbers
  PROVE  Op(do, w, v) \in Ops /\ Op(do, w, v).do = do /\ Op(do, w, v).w = w /\ Op(do, w, v).v = v
BY DEF Op, Ops

LEMMA LoadAllIs ==
  ASSUME NEW n \in Nat
  PROVE  LoadAll(n) = [i \in 1 .. n |-> Op("load", i - 1, 0)]
<1> DEFINE g == [i \in 1 .. n |-> Op("load", i - 1, 0)]
           T == {Op("load", i - 1, 0) : i \in 1 .. n}
<1>1. g \in [1 .. n -> T]
  OBVIOUS
<1>2. LoadAll(n) = FlattenSeq([i \in 1 .. n |-> <<g[i]>>])
  <2>1. [i \in 1 .. n |-> TxLoad(i - 1)] = [i \in 1 .. n |-> <<g[i]>>]
    <3>1. \A i \in 1 .. n : TxLoad(i - 1) = <<g[i]>>
      BY DEF TxLoad
    <3> HIDE DEF g
    <3> QED
      BY <3>1
  <2> HIDE DEF g
  <2> QED
    BY <2>1, Zenon DEF LoadAll, Each
<1>3. FlattenSeq([i \in 1 .. n |-> <<g[i]>>]) = g
  <2> HIDE DEF g, T
  <2> QED
    BY <1>1, FlatOnes
<1> QED
  BY <1>2, <1>3

LEMMA RoundIs ==
  ASSUME NEW p
  PROVE  Each(LAMBDA i : TxLoad(RoundWord(p, i)), REPS) = [i \in 1 .. REPS |-> Op("load", RoundWord(p, i - 1), 0)]
<1> DEFINE g == [i \in 1 .. REPS |-> Op("load", RoundWord(p, i - 1), 0)]
           T == {Op("load", RoundWord(p, i - 1), 0) : i \in 1 .. REPS}
<1>1. g \in [1 .. REPS -> T]
  OBVIOUS
<1>2. Each(LAMBDA i : TxLoad(RoundWord(p, i)), REPS) = FlattenSeq([i \in 1 .. REPS |-> <<g[i]>>])
  <2>1. [i \in 1 .. REPS |-> TxLoad(RoundWord(p, i - 1))] = [i \in 1 .. REPS |-> <<g[i]>>]
    <3>1. \A i \in 1 .. REPS : TxLoad(RoundWord(p, i - 1)) = <<g[i]>>
      BY DEF TxLoad
    <3> HIDE DEF g
    <3> QED
      BY <3>1
  <2> HIDE DEF g
  <2> QED
    BY <2>1, Zenon DEF Each
<1>3. FlattenSeq([i \in 1 .. REPS |-> <<g[i]>>]) = g
  <2> HIDE DEF g, T
  <2> QED
    BY <1>1, RoundsFacts, FlatOnes
<1> QED
  BY <1>2, <1>3

\* A round reads words that it may read.
LEMMA RoundTyped ==
  ASSUME NEW p \in Apps, NEW i \in 0 .. REPS - 1, reps[p] \in Nat, prog = "tm3" => reps[p] <= Rounds
  PROVE  RoundWord(p, i) \in Readable
<1>1. PICK r \in Nat : r = reps[p]
  OBVIOUS
<1>2. Rounds \in Nat /\ REPS \in Nat \ {0} /\ Size \in Nat \ {0} /\ i \in Nat /\ i < REPS /\ p \in Nat
  BY RoundsFacts, SizeFacts
<1>3. PICK w \in Nat : w = i + (r + 1) * REPS
  BY <1>2
<1>4. CASE prog = "tm3"
  <2>1. (r + 1) * REPS <= (Rounds + 1) * REPS
    BY <1>1, <1>2, <1>4
  <2>2. (Rounds + 2) * REPS = (Rounds + 1) * REPS + REPS
    BY <1>2
  <2>3. (r + 1) * REPS \in Nat /\ (Rounds + 1) * REPS \in Nat /\ (Rounds + 2) * REPS \in Nat
    BY <1>2
  <2>4. w <= (Rounds + 2) * REPS - 1
    BY <1>2, <1>3, <2>1, <2>2, <2>3
  <2>5. RoundWord(p, i) = w
    BY <1>1, <1>3, <1>4 DEF RoundWord
  <2> QED
    BY <2>3, <2>4, <2>5 DEF Readable
<1>5. CASE prog # "tm3"
  <2>1. RoundWord(p, i) = (w + p) % Size
    BY <1>1, <1>3, <1>5 DEF RoundWord
  <2>2. (w + p) % Size \in 0 .. Size - 1
    BY <1>2
  <2> QED
    BY <2>1, <2>2, SizeFacts
<1> QED
  BY <1>4, <1>5

LEMMA StoreAllIs ==
  ASSUME NEW id
  PROVE  StoreAll(id) = [i \in 1 .. Size |-> Op("store", i - 1, id)]
<1> DEFINE g == [i \in 1 .. Size |-> Op("store", i - 1, id)]
           T == {Op("store", i - 1, id) : i \in 1 .. Size}
<1>1. g \in [1 .. Size -> T]
  OBVIOUS
<1>2. StoreAll(id) = FlattenSeq([i \in 1 .. Size |-> <<g[i]>>])
  <2>1. [i \in 1 .. Size |-> TxStore(i - 1, id)] = [i \in 1 .. Size |-> <<g[i]>>]
    <3>1. \A i \in 1 .. Size : TxStore(i - 1, id) = <<g[i]>>
      BY DEF TxStore
    <3> HIDE DEF g
    <3> QED
      BY <3>1
  <2> HIDE DEF g
  <2> QED
    BY <2>1, Zenon DEF StoreAll, Each
<1>3. FlattenSeq([i \in 1 .. Size |-> <<g[i]>>]) = g
  <2> HIDE DEF g, T
  <2> QED
    BY <1>1, SizeFacts, FlatOnes
<1> QED
  BY <1>2, <1>3

LEMMA WriteRepsIs ==
  ASSUME NEW p
  PROVE  WriteReps(p) = [i \in 1 .. Size |-> Op("store", i - 1, reps[p] + (i - 1))]
<1> DEFINE g == [i \in 1 .. Size |-> Op("store", i - 1, reps[p] + (i - 1))]
           T == {Op("store", i - 1, reps[p] + (i - 1)) : i \in 1 .. Size}
<1>1. g \in [1 .. Size -> T]
  OBVIOUS
<1>2. WriteReps(p) = FlattenSeq([i \in 1 .. Size |-> <<g[i]>>])
  <2>1. [i \in 1 .. Size |-> TxStore(i - 1, reps[p] + (i - 1))] = [i \in 1 .. Size |-> <<g[i]>>]
    <3>1. \A i \in 1 .. Size : TxStore(i - 1, reps[p] + (i - 1)) = <<g[i]>>
      BY DEF TxStore
    <3> HIDE DEF g
    <3> QED
      BY <3>1
  <2> HIDE DEF g
  <2> QED
    BY <2>1, Zenon DEF WriteReps, Each
<1>3. FlattenSeq([i \in 1 .. Size |-> <<g[i]>>]) = g
  <2> HIDE DEF g, T
  <2> QED
    BY <1>1, SizeFacts, FlatOnes
<1> QED
  BY <1>2, <1>3

\* The pieces of merge, and of the transaction of tm5
MergePiece(p, w) == IF w \in Classes /\ counted[p][w] # 0 THEN TxLoadStore(w, counted[p][w]) ELSE <<>>
IdPiece(p, w) == IF w >= p THEN TxStore(w, p) ELSE <<>>

LEMMA MergeIs ==
  ASSUME NEW p
  PROVE  Merge(p) = FlattenSeq([i \in 1 .. Size |-> MergePiece(p, i - 1)])
BY DEF Merge, MergePiece, Each

LEMMA PiecesTyped ==
  ASSUME NEW p \in Apps, NEW w \in Readable
  PROVE  /\ prog = "mr" /\ counted[p] \in [Classes -> Nat] => MergePiece(p, w) \in Seq(Ops)
         /\ prog # "mr" => IdPiece(p, w) \in Seq(Ops)
<1>1. p \in Int
  BY SizeFacts
<1>2. ASSUME prog = "mr", counted[p] \in [Classes -> Nat], w \in Classes PROVE TxLoadStore(w, counted[p][w]) \in Seq(Ops)
  <2>1. 0 \in Numbers /\ counted[p][w] \in Numbers
    BY <1>2 DEF Numbers
  <2>2. Op("wlock", w, 0) \in Ops /\ Op("add", w, counted[p][w]) \in Ops
    BY <2>1, OpsAre
  <2> QED
    BY <2>2 DEF TxLoadStore
<1>3. ASSUME prog # "mr" PROVE TxStore(w, p) \in Seq(Ops)
  <2>1. Op("store", w, p) \in Ops
    BY <1>1, <1>3, OpsAre DEF Numbers
  <2> QED
    BY <2>1 DEF TxStore
<1>4. <<>> \in Seq(Ops)
  OBVIOUS
<1> QED
  BY <1>2, <1>3, <1>4 DEF MergePiece, IdPiece

LEMMA FlattenTyped ==
  ASSUME NEW T, NEW s \in Seq(Seq(T))
  PROVE  FlattenSeq(s) \in Seq(T)
BY Flattened DEF Made

\* All the transactions of a program have operations of the same kind.
LEMMA BodiesTyped ==
  ASSUME prog \in Progs, NEW p \in Apps, NEW what \in Txs, reps[p] \in Nat, counted[p] \in [Classes -> Nat],
         prog = "tm3" => reps[p] <= Rounds
  PROVE  Bodies(p, what) \subseteq Seq(Ops)
<1>1. \A w \in Readable : \A v \in Numbers : \A do \in {"load", "store", "wlock", "add", "raw"} : Op(do, w, v) \in Ops
  BY OpsAre
<1>2. 0 \in Numbers /\ 1 \in Numbers /\ (prog # "mr" => Numbers = Int)
  BY DEF Numbers
<1>3. ASSUME NEW n \in 0 .. Size PROVE LoadAll(n) \in Seq(Ops)
  <2>1. n \in Nat
    BY SizeFacts
  <2>2. \A i \in 1 .. n : i - 1 \in Readable
    BY SizeFacts, <2>1
  <2> QED
    BY <1>1, <1>2, <2>1, <2>2, LoadAllIs
<1>4. \A i \in 1 .. Size : i - 1 \in Readable
  BY SizeFacts
<1>5. ASSUME prog # "mr" PROVE StoreAll(p) \in Seq(Ops)
  <2>1. p \in Numbers
    BY <1>2, <1>5, SizeFacts
  <2>2. \A i \in 1 .. Size : Op("store", i - 1, p) \in Ops
    BY <1>1, <1>4, <2>1
  <2> QED
    BY <2>2, StoreAllIs, SizeFacts
<1>6. ASSUME prog # "mr" PROVE WriteReps(p) \in Seq(Ops)
  <2>1. \A i \in 1 .. Size : reps[p] + (i - 1) \in Numbers
    BY <1>2, <1>6, SizeFacts
  <2>2. \A i \in 1 .. Size : Op("store", i - 1, reps[p] + (i - 1)) \in Ops
    BY <1>1, <1>4, <2>1
  <2> QED
    <3>1. [i \in 1 .. Size |-> Op("store", i - 1, reps[p] + (i - 1))] \in [1 .. Size -> Ops]
      BY <2>2
    <3>2. WriteReps(p) \in [1 .. Size -> Ops]
      BY <3>1, WriteRepsIs
    <3> QED
      BY <3>2, SizeFacts
<1>7. ASSUME prog = "mr" PROVE Merge(p) \in Seq(Ops)
  <2> DEFINE s == [i \in 1 .. Size |-> MergePiece(p, i - 1)]
  <2>1. \A i \in 1 .. Size : MergePiece(p, i - 1) \in Seq(Ops)
    BY <1>4, <1>7, PiecesTyped
  <2>2. s \in Seq(Seq(Ops))
    BY <2>1, SizeFacts
  <2>3. FlattenSeq(s) \in Seq(Ops)
    BY <2>2, FlattenTyped
  <2> QED
    BY <2>3, MergeIs
<1>8. ASSUME prog # "mr" PROVE Each(LAMBDA w : IF w >= p THEN TxStore(w, p) ELSE <<>>, Size) \in Seq(Ops)
  <2> DEFINE s == [i \in 1 .. Size |-> IdPiece(p, i - 1)]
  <2>1. \A i \in 1 .. Size : IdPiece(p, i - 1) \in Seq(Ops)
    BY <1>4, <1>8, PiecesTyped
  <2>2. s \in Seq(Seq(Ops))
    BY <2>1, SizeFacts
  <2>3. FlattenSeq(s) \in Seq(Ops)
    BY <2>2, FlattenTyped
  <2>4. Each(LAMBDA w : IF w >= p THEN TxStore(w, p) ELSE <<>>, Size) = FlattenSeq(s)
    BY DEF Each, IdPiece
  <2> QED
    BY <2>3, <2>4
<1>9. ASSUME NEW ops \in Seq(Ops), Len(ops) = Size PROVE From2(ops) \in Seq(Ops)
  BY <1>9, SizeFacts DEF From2
<1>10. CASE prog = "bank"
  <2>1. what \in {"empty", "bank"}
    BY <1>10 DEF Txs
  <2>2. LoadAll(NbAccounts) \in Seq(Ops) /\ -1 \in Numbers
    BY <1>2, <1>3, <1>10, SizeFacts
  <2>3. \A a \in Pairs : CheckAccs(a[1], a[2]) \in Seq(Ops) /\ Transfer(a[1], a[2]) \in Seq(Ops)
    <3> SUFFICES ASSUME NEW a \in Pairs PROVE CheckAccs(a[1], a[2]) \in Seq(Ops) /\ Transfer(a[1], a[2]) \in Seq(Ops)
      OBVIOUS
    <3>1. a[1] \in Readable /\ a[2] \in Readable
      BY SizeFacts DEF Pairs
    <3>2. /\ Op("load", a[1], 0) \in Ops /\ Op("load", a[2], 0) \in Ops
          /\ Op("wlock", a[1], 0) \in Ops /\ Op("wlock", a[2], 0) \in Ops
          /\ Op("add", a[1], -1) \in Ops /\ Op("add", a[2], 1) \in Ops
      BY <1>1, <1>2, <2>2, <3>1
    <3>3. TxLoad(a[1]) \in Seq(Ops) /\ TxLoad(a[2]) \in Seq(Ops) /\ TxLoadStore(a[1], -1) \in Seq(Ops) /\ TxLoadStore(a[2], 1) \in Seq(Ops)
      BY <3>2 DEF TxLoad, TxLoadStore
    <3> QED
      BY <3>3, ConcatProperties DEF CheckAccs, Transfer
  <2>4. BankBodies \subseteq Seq(Ops)
    BY <2>2, <2>3 DEF BankBodies
  <2>5. what = "empty" => Bodies(p, what) = {<<>>}
    BY DEF Bodies
  <2>6. what = "bank" => Bodies(p, what) = BankBodies
    BY DEF Bodies
  <2>7. <<>> \in Seq(Ops)
    OBVIOUS
  <2> QED
    BY <2>1, <2>4, <2>5, <2>6, <2>7, Zenon
<1>11. CASE prog = "mr"
  <2>1. what \in {"next_chunk", "merge"}
    BY <1>11 DEF Txs
  <2>2. NextChunk \in Seq(Ops)
    <3>1. 0 \in Readable
      BY SizeFacts
    <3>2. Op("wlock", 0, 0) \in Ops /\ Op("add", 0, 1) \in Ops /\ Op("raw", 0, 0) \in Ops
      BY <1>1, <1>2, <3>1
    <3>3. TxLoadStore(ChunkIndex, 1) \in Seq(Ops) /\ Raw(ChunkIndex) \in Seq(Ops)
      BY <3>2 DEF TxLoadStore, Raw, ChunkIndex
    <3> QED
      BY <3>3, ConcatProperties DEF NextChunk
  <2> QED
    BY <2>1, <2>2, <1>7, <1>11 DEF Bodies
<1>12. CASE prog \notin {"bank", "mr"}
  <2>1. /\ what \in {"write_reps", "read_reps", "load_all", "load_or_store", "load_or_store_0", "load_or_store_2",
                     "store_from_id", "load_some", "load_round"}
    <3>1. prog \in {"tm2", "tm3", "tm3_all", "tm4", "tm5", "tm6", "tm7", "tm8", "tm9"}
      BY <1>12, ClientsAssumption
    <3> QED
      BY <3>1 DEF Txs
  <2>2. LoadAll(Size) \in Seq(Ops) /\ Len(LoadAll(Size)) = Size
    <3>1. Size \in Nat /\ Size \in 0 .. Size
      BY SizeFacts
    <3>2. LoadAll(Size) = [i \in 1 .. Size |-> Op("load", i - 1, 0)]
      BY <3>1, LoadAllIs
    <3>3. Len(LoadAll(Size)) = Size
      BY <3>1, <3>2
    <3> QED
      BY <3>1, <3>3, <1>3
  <2>3. StoreAll(p) \in Seq(Ops) /\ Len(StoreAll(p)) = Size
    BY <1>5, <1>12, SizeFacts, StoreAllIs
  <2>4. From2(LoadAll(Size)) \in Seq(Ops) /\ From2(StoreAll(p)) \in Seq(Ops)
    BY <2>2, <2>3, <1>9
  <2>5. \A w \in 1 .. Size : TxLoad(w) \in Seq(Ops)
    <3> SUFFICES ASSUME NEW w \in 1 .. Size PROVE TxLoad(w) \in Seq(Ops)
      OBVIOUS
    <3>1. Op("load", w, 0) \in Ops
      BY <1>1, <1>2, SizeFacts
    <3> QED
      BY <3>1 DEF TxLoad
  <2>6. WriteReps(p) \in Seq(Ops)
    BY <1>6, <1>12
  <2>7. Each(LAMBDA w : IF w >= p THEN TxStore(w, p) ELSE <<>>, Size) \in Seq(Ops)
    BY <1>8, <1>12
  <2>8. Each(LAMBDA i : TxLoad(RoundWord(p, i)), REPS) \in Seq(Ops)
    <3>1. \A i \in 1 .. REPS : i - 1 \in 0 .. REPS - 1
      BY RoundsFacts
    <3>2. \A i \in 1 .. REPS : Op("load", RoundWord(p, i - 1), 0) \in Ops
      BY <3>1, <1>1, <1>2, RoundTyped
    <3>3. [i \in 1 .. REPS |-> Op("load", RoundWord(p, i - 1), 0)] \in Seq(Ops)
      BY <3>2, RoundsFacts
    <3> QED
      BY <3>3, RoundIs
  <2> QED
    BY <2>1, <2>2, <2>3, <2>4, <2>5, <2>6, <2>7, <2>8 DEF Bodies
<1> QED
  BY <1>10, <1>11, <1>12

-----------------------------------------------------------------------------
(* The invariant of the control.                                             *)

Attempts == [body : Seq(Ops), at : Nat, reads : SUBSET Readable, wlocks : SUBSET Readable, ws : Seq(Ops),
             vals : Seq(Numbers), raw : Numbers, lost : BOOLEAN]

\* Where node p is: not behind the time of its loop, at a barrier if it waits, and in a transaction of its
\* program if it is in one
Placed(p) ==
  /\ pc[p] \in 1 .. Len(Program(p)) + 1
  /\ reps[p] \in 1 .. Times + 1
  /\ InLoop(Program(p), pc[p]) => reps[p] <= Times
  /\ p \in arrived => At(p, "barrier")
  /\ InTx(p) => At(p, "tx") /\ tx[p].body \in Bodies(p, Stmt(p).what) /\ tx[p].at <= Len(tx[p].body) + 1
  /\ ~InTx(p) => tx[p] = NoTx

Typed ==
  /\ prog \in Progs
  /\ mem \in [Readable -> Numbers]
  /\ pc \in [Apps -> Nat] /\ reps \in [Apps -> Nat] /\ arrived \subseteq Apps
  /\ tx \in [Apps -> Attempts]
  /\ ci \in [Apps -> Nat] /\ done \in [Apps -> Nat] /\ counted \in [Apps -> [Classes -> Nat]]

\* The barriers node p has ahead of it
Ahead(p) == BarsFrom(Program(p), pc[p])

\* All nodes have equally many barriers ahead.
Level == prog # "tm2" => \A p, q \in Apps : Ahead(p) = Ahead(q)

Control == Typed /\ (\A p \in Apps : Placed(p)) /\ Level

LEMMA SameProgram ==
  ASSUME prog' = prog, NEW p
  PROVE  Program(p)' = Program(p)
BY DEF Program, Bank, BankTest, MapReduce, map_reduce, Tm2, Tm3, Tm3All, Tm4, Tm5, Tm6, Tm7, Tm8, Tm9

LEMMA SameNumbers ==
  ASSUME prog' = prog
  PROVE  /\ Numbers' = Numbers /\ Ops' = Ops /\ Attempts' = Attempts /\ Txs' = Txs /\ Plains' = Plains
         /\ Times' = Times
BY DEF Numbers, Ops, Attempts, Txs, Plains, OpeningPlains, RestPlains, Times

LEMMA SameBodies ==
  ASSUME NEW p, reps'[p] = reps[p], counted'[p] = counted[p]
  PROVE  \A what : Bodies(p, what)' = Bodies(p, what)
BY DEF Bodies, Merge, WriteReps, BankBodies, LoadAll, StoreAll, Each, RoundWord

\* A statement of a program
LEMMA Statement ==
  ASSUME prog \in Progs, NEW p, pc[p] \in 1 .. Len(Program(p)) + 1, ~Ended(p)
  PROVE  /\ pc[p] \in 1 .. Len(Program(p)) /\ Len(Program(p)) \in Nat /\ Stmt(p) \in Statements
         /\ Stmt(p).do = "tx" => Stmt(p).what \in Txs
         /\ Stmt(p).do = "plain" => Stmt(p).what \in Plains
<1>1. /\ Len(Program(p)) \in Nat /\ \A i \in 1 .. Len(Program(p)) : /\ SoundAt(Program(p), Txs, Plains, LoopDos, i)
                                                                    /\ Program(p)[i] \in Statements
  BY ProgramSound DEF Sound
<1>2. pc[p] \in 1 .. Len(Program(p))
  BY <1>1 DEF Ended
<1> QED
  BY <1>1, <1>2 DEF Stmt, SoundAt

\* What a step of node p leaves to another: all but the locks it loses
Untouched(q) ==
  /\ pc'[q] = pc[q] /\ reps'[q] = reps[q] /\ counted'[q] = counted[q] /\ (q \in arrived' <=> q \in arrived)
  /\ tx'[q] = tx[q] \/ (InTx(q) /\ tx'[q] = [tx[q] EXCEPT !.lost = TRUE])

LEMMA UntouchedStays ==
  ASSUME Typed, NEW q \in Apps, Placed(q), prog' = prog, Untouched(q)
  PROVE  Placed(q)' /\ Ahead(q)' = Ahead(q)
<1>1. Program(q)' = Program(q) /\ Times' = Times
  BY SameProgram, SameNumbers
<1>2. \A what : Bodies(q, what)' = Bodies(q, what)
  BY SameBodies DEF Untouched
<1>3. pc'[q] = pc[q] /\ reps'[q] = reps[q] /\ (q \in arrived' <=> q \in arrived)
  BY DEF Untouched
<1>4. tx[q] \in Attempts
  BY DEF Typed
<1>5. tx'[q].body = tx[q].body /\ tx'[q].at = tx[q].at /\ (~InTx(q) => tx'[q] = tx[q])
  BY <1>4 DEF Untouched, Attempts, InTx
<1>6. InTx(q)' = InTx(q)
  BY <1>5 DEF InTx
<1>7. Stmt(q)' = Stmt(q) /\ \A do : At(q, do)' = At(q, do)
  BY <1>1, <1>3 DEF Stmt, At, Ended
<1>8. Ahead(q)' = Ahead(q)
  BY <1>1, <1>3 DEF Ahead, BarsFrom
<1>9. InLoop(Program(q), pc[q])' = InLoop(Program(q), pc[q])
  BY <1>1, <1>3 DEF InLoop
<1> QED
  BY <1>1, <1>2, <1>3, <1>5, <1>6, <1>7, <1>8, <1>9 DEF Placed

\* A step of node p alone keeps the invariant if it keeps the place of p and its barriers.
LEMMA OneSteps ==
  ASSUME Control, NEW p \in Apps, prog' = prog, \A q \in Apps \ {p} : Untouched(q),
         Typed', Placed(p)', prog # "tm2" => Ahead(p)' = Ahead(p)
  PROVE  Control'
<1>1. \A q \in Apps \ {p} : Placed(q)' /\ Ahead(q)' = Ahead(q)
  BY UntouchedStays DEF Control
<1>2. \A q \in Apps : Placed(q)'
  BY <1>1
<1>3. Level'
  BY <1>1 DEF Level, Control
<1> QED
  BY <1>2, <1>3 DEF Control

\* Whoever loses locks has had some, and so is in a transaction.
LEMMA WinsOthers ==
  ASSUME Control, NEW p \in Apps, NEW words, NEW write \in BOOLEAN, NEW t \in Attempts,
         Wins(p, Against(p, words, write), t)
  PROVE  /\ tx' \in [Apps -> Attempts] /\ tx'[p] = t
         /\ \A q \in Apps \ {p} : tx'[q] = tx[q] \/ (InTx(q) /\ tx'[q] = [tx[q] EXCEPT !.lost = TRUE])
         /\ \A q \in Apps \ {p} : tx'[q] = [tx[q] EXCEPT !.lost = tx[q].lost \/ q \in Against(p, words, write)]
<1>1. tx \in [Apps -> Attempts]
  BY DEF Control, Typed
<1> DEFINE losers == Against(p, words, write)
<1>2. tx' = [q \in Apps |-> IF q = p THEN t ELSE [tx[q] EXCEPT !.lost = tx[q].lost \/ q \in losers]]
  BY DEF Wins
<1>3. \A q \in losers : InTx(q)
  <2> SUFFICES ASSUME NEW q \in losers PROVE InTx(q)
    OBVIOUS
  <2>1. tx[q].wlocks # {} \/ tx[q].reads # {}
    BY DEF Against
  <2>2. NoTx.wlocks = {} /\ NoTx.reads = {}
    BY DEF NoTx
  <2>3. q \in Apps
    BY DEF Against
  <2>4. ~InTx(q) => tx[q] = NoTx
    BY <2>3 DEF Control, Placed
  <2> QED
    BY <2>1, <2>2, <2>4
<1> HIDE DEF losers
<1>4. \A q \in Apps \ {p} : tx'[q] = [tx[q] EXCEPT !.lost = tx[q].lost \/ q \in losers]
  BY <1>2
<1>5. tx'[p] = t
  BY <1>2
<1>6. \A q \in Apps : tx[q] \in Attempts
  BY <1>1
<1>10. \A u \in Attempts : \A b \in BOOLEAN : [u EXCEPT !.lost = b] \in Attempts
  BY DEF Attempts
<1>7. \A q \in Apps \ {p} : tx'[q] \in Attempts
  <2> SUFFICES ASSUME NEW q \in Apps \ {p} PROVE tx'[q] \in Attempts
    OBVIOUS
  <2>1. PICK b \in BOOLEAN : b = (tx[q].lost \/ q \in losers)
    OBVIOUS
  <2> QED
    BY <2>1, <1>4, <1>6, <1>10
<1>8. tx' \in [Apps -> Attempts]
  BY <1>2, <1>5, <1>7
<1>9. \A q \in Apps \ {p} : tx'[q] = tx[q] \/ (InTx(q) /\ tx'[q] = [tx[q] EXCEPT !.lost = TRUE])
  <2> SUFFICES ASSUME NEW q \in Apps \ {p} PROVE tx'[q] = tx[q] \/ (InTx(q) /\ tx'[q] = [tx[q] EXCEPT !.lost = TRUE])
    OBVIOUS
  <2>1. tx[q] = [tx[q] EXCEPT !.lost = tx[q].lost] /\ tx[q].lost \in BOOLEAN
    BY <1>6 DEF Attempts
  <2>2. tx'[q] = [tx[q] EXCEPT !.lost = tx[q].lost \/ q \in losers]
    BY <1>4
  <2>3. CASE q \in losers
    <3>1. (tx[q].lost \/ q \in losers) = TRUE
      BY <2>3
    <3> QED
      BY <3>1, <2>2, <2>3, <1>3
  <2>4. CASE q \notin losers
    <3>1. (tx[q].lost \/ q \in losers) = tx[q].lost
      BY <2>1, <2>4
    <3> QED
      BY <3>1, <2>1, <2>2
  <2> QED
    BY <2>3, <2>4
<1> QED
  BY <1>4, <1>5, <1>8, <1>9 DEF losers

LEMMA InvInit == Init => Control
<1> SUFFICES ASSUME Init PROVE Control
  OBVIOUS
<1>1. prog \in Progs /\ Times \in Nat /\ Apps \subseteq Nat
  BY TimesTyped, SizeFacts DEF Init
<1>2. NoTx \in Attempts /\ NoTx.at = 0
  <2>1. <<>> \in Seq(Ops) /\ <<>> \in Seq(Numbers) /\ 0 \in Numbers
    BY DEF Numbers
  <2> QED
    BY <2>1 DEF NoTx, Attempts
<1>3. Typed
  <2>1. mem \in [Readable -> Numbers]
    BY DEF Init, Numbers
  <2>2. pc \in [Apps -> Nat] /\ reps \in [Apps -> Nat] /\ arrived \subseteq Apps
    BY DEF Init
  <2>3. tx \in [Apps -> Attempts]
    BY <1>2 DEF Init
  <2>4. ci \in [Apps -> Nat] /\ done \in [Apps -> Nat] /\ counted \in [Apps -> [Classes -> Nat]]
    BY DEF Init
  <2> QED
    BY <1>1, <2>1, <2>2, <2>3, <2>4 DEF Typed
<1>4. ASSUME NEW p \in Apps PROVE Placed(p) /\ Ahead(p) = AllBars
  <2>1. Len(Program(p)) \in Nat
    BY <1>1, ProgramSound
  <2>2. pc[p] = 1 /\ reps[p] = 1 /\ p \notin arrived /\ tx[p] = NoTx
    BY <1>4 DEF Init
  <2>3. ~InLoop(Program(p), pc[p])
    BY <2>1, <2>2 DEF InLoop
  <2>4. ~InTx(p)
    BY <1>2, <2>2 DEF InTx
  <2>5. Ahead(p) = AllBars
    BY <1>1, <2>1, <2>2, BarsFromEnds, ProgramSound DEF Ahead
  <2> QED
    BY <1>1, <2>1, <2>2, <2>3, <2>4, <2>5 DEF Placed
<1> QED
  BY <1>3, <1>4 DEF Control, Level

\* An operation of a transaction keeps the invariant.
LEMMA OperationKeeps ==
  ASSUME Control, NEW p \in Apps, UNCHANGED <<prog, mem, pc, reps, arrived, ci, done, counted>>, At(p, "tx"),
         tx' \in [Apps -> Attempts], tx'[p].body \in Bodies(p, Stmt(p).what), tx'[p].at \in 1 .. Len(tx'[p].body) + 1,
         \A q \in Apps \ {p} : tx'[q] = tx[q] \/ (InTx(q) /\ tx'[q] = [tx[q] EXCEPT !.lost = TRUE])
  PROVE  Control'
<1>1. Program(p)' = Program(p) /\ Attempts' = Attempts /\ Numbers' = Numbers
  BY SameProgram, SameNumbers
<1>2. \A what : Bodies(p, what)' = Bodies(p, what)
  BY SameBodies
<1>3. Stmt(p)' = Stmt(p) /\ \A do : At(p, do)' = At(p, do)
  BY <1>1 DEF Stmt, At, Ended
<1>4. InLoop(Program(p), pc[p])' = InLoop(Program(p), pc[p]) /\ Ahead(p)' = Ahead(p)
  BY <1>1 DEF InLoop, Ahead, BarsFrom
<1>5. InTx(p)'
  BY DEF InTx
<1>6. Placed(p)
  BY DEF Control
<1>7. Placed(p)'
  BY <1>1, <1>2, <1>3, <1>4, <1>5, <1>6, SameNumbers DEF Placed
<1>8. Typed'
  BY <1>1 DEF Control, Typed
<1>9. \A q \in Apps \ {p} : Untouched(q)
  BY DEF Untouched
<1> QED
  BY <1>4, <1>7, <1>8, <1>9, OneSteps

LEMMA SteppedTyped ==
  ASSUME NEW p, NEW t \in Attempts
  PROVE  Step(p, t) \in Attempts /\ Step(p, t).body = t.body /\ Step(p, t).at = t.at + 1
BY DEF Step, Attempts

\* The operation node p is at
LEMMA WorkingFacts ==
  ASSUME Control, NEW p \in Apps, Working(p)
  PROVE  /\ At(p, "tx") /\ InTx(p) /\ tx[p] \in Attempts /\ Cur(p) \in Ops
         /\ tx[p].body \in Bodies(p, Stmt(p).what) /\ tx[p].at \in 1 .. Len(tx[p].body) /\ Len(tx[p].body) \in Nat
<1>1. InTx(p) /\ tx[p].at > 0 /\ tx[p].at <= Len(tx[p].body)
  BY DEF Working, InTx
<1>2. tx[p] \in Attempts
  BY DEF Control, Typed
<1>3. tx[p].body \in Seq(Ops) /\ tx[p].at \in Nat
  BY <1>2 DEF Attempts
<1>4. tx[p].at \in 1 .. Len(tx[p].body) /\ Len(tx[p].body) \in Nat
  BY <1>1, <1>3
<1>5. Cur(p) \in Ops
  BY <1>3, <1>4 DEF Cur
<1> QED
  BY <1>1, <1>2, <1>4, <1>5 DEF Control, Placed

LEMMA StartTyped ==
  ASSUME NEW body \in Seq(Ops)
  PROVE  /\ Start(body) \in Attempts /\ Start(body).body = body /\ Start(body).at = 1 /\ Start(body).lost = FALSE
         /\ Start(body).reads = {} /\ Start(body).wlocks = {} /\ Start(body).ws = <<>> /\ Start(body).vals = <<>>
<1>1. <<>> \in Seq(Ops) /\ <<>> \in Seq(Numbers) /\ 0 \in Numbers /\ 1 \in Nat
  BY DEF Numbers
<1>2. NoTx \in Attempts
  BY <1>1 DEF NoTx, Attempts
<1>3. /\ NoTx.reads = {} /\ NoTx.wlocks = {} /\ NoTx.ws = <<>> /\ NoTx.vals = <<>> /\ NoTx.lost = FALSE
  BY DEF NoTx
<1>4. ASSUME NEW t \in Attempts
      PROVE  LET u == [t EXCEPT !.body = body, !.at = 1]
             IN  /\ u \in Attempts /\ u.body = body /\ u.at = 1 /\ u.lost = t.lost
                 /\ u.reads = t.reads /\ u.wlocks = t.wlocks /\ u.ws = t.ws /\ u.vals = t.vals
  BY <1>1 DEF Attempts
<1>5. PICK n : n = NoTx
  OBVIOUS
<1>6. Start(body) = [n EXCEPT !.body = body, !.at = 1]
  BY <1>5 DEF Start
<1> QED
  BY <1>2, <1>3, <1>4, <1>5, <1>6

\* A node of tm3 reads a round only while there is one.
LEMMA RoundAt ==
  ASSUME Control, NEW p \in Apps, At(p, "tx")
  PROVE  prog = "tm3" => reps[p] <= Rounds
<1> SUFFICES ASSUME prog = "tm3" PROVE reps[p] <= Rounds
  OBVIOUS
<1>1. PICK s : s = Program(p)
  OBVIOUS
<1>2. Tm3At(p)
  BY Tm3Program
<1>3. pc[p] \in 1 .. Len(s) /\ s[pc[p]].do = "tx"
  <2>1. prog \in Progs /\ pc[p] \in 1 .. Len(Program(p)) + 1 /\ ~Ended(p) /\ Stmt(p).do = "tx"
    BY DEF Control, Typed, Placed, At
  <2> QED
    BY <2>1, <1>1, Statement DEF Stmt
<1>4. LoopOf(1).do = "loop" /\ LoopOf(1).len = 1 /\ AgainOf(1).do = "again"
  BY DEF LoopOf, AgainOf
<1>5. Len(s) = 5 /\ s[2].do = "loop" /\ s[2].len = 1 /\ pc[p] = 3
  <2>1. CASE p = min_app_id
    <3>1. /\ Len(s) = 5 /\ s[1].do = "barrier" /\ s[2].do = "loop" /\ s[2].len = 1 /\ s[4].do = "again"
          /\ s[5].do = "barrier"
      BY <2>1, <1>1, <1>2, <1>4 DEF Tm3At
    <3>2. pc[p] \in {1, 2, 3, 4, 5}
      BY <3>1, <1>3
    <3> QED
      BY <3>1, <3>2, <1>3
  <2>2. CASE p # min_app_id
    <3>1. Len(s) = 2 /\ s[1].do = "barrier" /\ s[2].do = "barrier"
      BY <2>2, <1>1, <1>2 DEF Tm3At
    <3>2. pc[p] \in {1, 2}
      BY <3>1, <1>3
    <3> QED
      BY <3>1, <3>2, <1>3
  <2> QED
    BY <2>1, <2>2
<1>6. InLoop(s, 3)
  <2>1. 2 \in 1 .. Len(s) /\ 3 \in 2 + 1 .. 2 + s[2].len + 1
    BY <1>5
  <2> QED
    BY <2>1, <1>5 DEF InLoop
<1>7. reps[p] <= Times
  BY <1>1, <1>5, <1>6 DEF Control, Placed
<1> QED
  BY <1>7 DEF Times, Tm3s

LEMMA BeginKeeps ==
  ASSUME Control, NEW p \in Apps, Begin(p)
  PROVE  Control'
<1>1. PICK body \in Bodies(p, Stmt(p).what) : tx' = [tx EXCEPT ![p] = Start(body)]
  BY DEF Begin
<1>2. At(p, "tx") /\ UNCHANGED <<prog, mem, pc, reps, arrived, ci, done, counted>>
  BY DEF Begin
<1>3. body \in Seq(Ops)
  <2>1. prog \in Progs /\ pc[p] \in 1 .. Len(Program(p)) + 1 /\ ~Ended(p) /\ Stmt(p).do = "tx"
    BY <1>2 DEF Control, Typed, Placed, At
  <2>2. Stmt(p).what \in Txs
    BY <2>1, Statement
  <2>3. reps[p] \in Nat /\ counted[p] \in [Classes -> Nat]
    BY DEF Control, Typed
  <2>4. prog = "tm3" => reps[p] <= Rounds
    BY <1>2, RoundAt
  <2> QED
    BY <2>1, <2>2, <2>3, <2>4, <1>1, BodiesTyped
<1>4. Start(body) \in Attempts /\ Start(body).body = body /\ Start(body).at = 1
  BY <1>3, StartTyped
<1>5. tx \in [Apps -> Attempts]
  BY DEF Control, Typed
<1>6. tx' \in [Apps -> Attempts] /\ tx'[p] = Start(body) /\ \A q \in Apps \ {p} : tx'[q] = tx[q]
  BY <1>1, <1>4, <1>5
<1>7. 1 \in 1 .. Len(body) + 1
  BY <1>3
<1> QED
  BY <1>1, <1>2, <1>4, <1>6, <1>7, OperationKeeps

LEMMA AbortKeeps ==
  ASSUME Control, NEW p \in Apps, Abort(p)
  PROVE  Control'
<1>1. tx' = [tx EXCEPT ![p] = Start(tx[p].body)] /\ InTx(p) /\ UNCHANGED <<prog, mem, pc, reps, arrived, ci, done, counted>>
  BY DEF Abort
<1>2. tx \in [Apps -> Attempts] /\ At(p, "tx") /\ tx[p].body \in Bodies(p, Stmt(p).what)
  BY <1>1 DEF Control, Typed, Placed
<1>3. tx[p].body \in Seq(Ops)
  BY <1>2 DEF Attempts
<1>4. PICK t : t = Start(tx[p].body)
  OBVIOUS
<1>5. t \in Attempts /\ t.body = tx[p].body /\ t.at = 1
  BY <1>3, <1>4, StartTyped
<1>6. tx' \in [Apps -> Attempts] /\ tx'[p] = t /\ \A q \in Apps \ {p} : tx'[q] = tx[q]
  BY <1>1, <1>2, <1>4, <1>5
<1>7. 1 \in 1 .. Len(t.body) + 1
  BY <1>3, <1>5
<1> QED
  BY <1>1, <1>2, <1>5, <1>6, <1>7, OperationKeeps

\* What operations make of an attempt
Loaded(t, w, v) == [t EXCEPT !.reads = @ \cup {w}, !.vals = Append(@, v)]
Stored(t, op) == [t EXCEPT !.ws = Append(@, op)]
Locked(t, w) == [t EXCEPT !.wlocks = @ \cup {w}]
Seen(t, v) == [t EXCEPT !.raw = v]

LEMMA OperationsTyped ==
  ASSUME NEW t \in Attempts
  PROVE  /\ \A w \in Readable : \A v \in Numbers : Loaded(t, w, v) \in Attempts
         /\ \A op \in Ops : Stored(t, op) \in Attempts
         /\ \A w \in Readable : Locked(t, w) \in Attempts
         /\ \A v \in Numbers : Seen(t, v) \in Attempts
         /\ \A w, v : Loaded(t, w, v).body = t.body /\ Loaded(t, w, v).at = t.at
         /\ \A op : Stored(t, op).body = t.body /\ Stored(t, op).at = t.at
         /\ \A w : Locked(t, w).body = t.body /\ Locked(t, w).at = t.at
         /\ \A v : Seen(t, v).body = t.body /\ Seen(t, v).at = t.at
<1>5. t.reads \in SUBSET Readable /\ t.wlocks \in SUBSET Readable /\ t.vals \in Seq(Numbers) /\ t.ws \in Seq(Ops)
  BY DEF Attempts
<1>6. \A R \in SUBSET Readable : \A u \in Seq(Numbers) : [t EXCEPT !.reads = R, !.vals = u] \in Attempts
  BY DEF Attempts
<1>7. /\ \A R \in SUBSET Readable : [t EXCEPT !.wlocks = R] \in Attempts
      /\ \A u \in Seq(Ops) : [t EXCEPT !.ws = u] \in Attempts
  BY DEF Attempts
<1>1. ASSUME NEW w \in Readable, NEW v \in Numbers PROVE Loaded(t, w, v) \in Attempts
  <2>1. t.reads \cup {w} \in SUBSET Readable
    BY <1>5
  <2>2. Append(t.vals, v) \in Seq(Numbers)
    BY <1>5
  <2>3. Loaded(t, w, v) = [t EXCEPT !.reads = t.reads \cup {w}, !.vals = Append(t.vals, v)]
    BY DEF Loaded
  <2> QED
    BY <2>1, <2>2, <2>3, <1>6
<1>2. ASSUME NEW op \in Ops PROVE Stored(t, op) \in Attempts
  <2>1. Append(t.ws, op) \in Seq(Ops)
    BY <1>5
  <2> QED
    BY <2>1, <1>7 DEF Stored
<1>3. \A v \in Numbers : Seen(t, v) \in Attempts
  BY DEF Seen, Attempts
<1>8. ASSUME NEW w \in Readable PROVE Locked(t, w) \in Attempts
  <2>1. t.wlocks \cup {w} \in SUBSET Readable
    BY <1>5
  <2> QED
    BY <2>1, <1>7 DEF Locked
<1>4. /\ \A w, v : Loaded(t, w, v).body = t.body /\ Loaded(t, w, v).at = t.at
      /\ \A op : Stored(t, op).body = t.body /\ Stored(t, op).at = t.at
      /\ \A w : Locked(t, w).body = t.body /\ Locked(t, w).at = t.at
      /\ \A v : Seen(t, v).body = t.body /\ Seen(t, v).at = t.at
  BY DEF Loaded, Stored, Locked, Seen, Attempts
<1> QED
  BY <1>1, <1>2, <1>3, <1>4, <1>8

LEMMA LoadKeeps ==
  ASSUME Control, NEW p \in Apps, Load(p)
  PROVE  Control'
<1>1. Working(p) /\ UNCHANGED <<prog, mem, pc, reps, arrived, ci, done, counted>>
  BY DEF Load, Does
<1>2. PICK t, w : w = Cur(p).w /\ t = Step(p, Loaded(tx[p], w, mem[w]))
  OBVIOUS
<1>3. Wins(p, Against(p, {w}, FALSE), t)
  BY <1>2 DEF Load, Loaded
<1>4. w \in Readable /\ mem[w] \in Numbers
  BY <1>1, <1>2, WorkingFacts DEF Ops, Control, Typed
<1>5. t \in Attempts /\ t.body = tx[p].body /\ t.at = tx[p].at + 1
  BY <1>1, <1>2, <1>4, WorkingFacts, OperationsTyped, SteppedTyped, SMTT(30)
<1>6. t.at \in 1 .. Len(t.body) + 1 /\ t.body \in Bodies(p, Stmt(p).what) /\ At(p, "tx")
  BY <1>1, <1>5, WorkingFacts
<1>7. /\ tx' \in [Apps -> Attempts] /\ tx'[p] = t
      /\ \A q \in Apps \ {p} : tx'[q] = tx[q] \/ (InTx(q) /\ tx'[q] = [tx[q] EXCEPT !.lost = TRUE])
  BY <1>3, <1>5, WinsOthers
<1> QED
  BY <1>1, <1>6, <1>7, OperationKeeps

LEMMA WlockKeeps ==
  ASSUME Control, NEW p \in Apps, Wlock(p)
  PROVE  Control'
<1>1. Working(p) /\ UNCHANGED <<prog, mem, pc, reps, arrived, ci, done, counted>>
  BY DEF Wlock, Does
<1>2. PICK t, w : w = Cur(p).w /\ t = Step(p, Locked(tx[p], w))
  OBVIOUS
<1>3. Wins(p, Against(p, {w}, TRUE), t)
  BY <1>2 DEF Wlock, Locked
<1>4. w \in Readable
  BY <1>1, <1>2, WorkingFacts DEF Ops
<1>5. t \in Attempts /\ t.body = tx[p].body /\ t.at = tx[p].at + 1
  BY <1>1, <1>2, <1>4, WorkingFacts, OperationsTyped, SteppedTyped
<1>6. t.at \in 1 .. Len(t.body) + 1 /\ t.body \in Bodies(p, Stmt(p).what) /\ At(p, "tx")
  BY <1>1, <1>5, WorkingFacts
<1>7. /\ tx' \in [Apps -> Attempts] /\ tx'[p] = t
      /\ \A q \in Apps \ {p} : tx'[q] = tx[q] \/ (InTx(q) /\ tx'[q] = [tx[q] EXCEPT !.lost = TRUE])
  BY <1>3, <1>5, WinsOthers
<1> QED
  BY <1>1, <1>6, <1>7, OperationKeeps

\* The operations that concern nobody else
LEMMA OwnKeeps ==
  ASSUME Control, NEW p \in Apps, Working(p), UNCHANGED <<prog, mem, pc, reps, arrived, ci, done, counted>>,
         NEW t \in Attempts, t.body = tx[p].body, t.at = tx[p].at, tx' = [tx EXCEPT ![p] = Step(p, t)]
  PROVE  Control'
<1>1. Step(p, t) \in Attempts /\ Step(p, t).body = tx[p].body /\ Step(p, t).at = tx[p].at + 1
  BY SteppedTyped
<1>2. tx \in [Apps -> Attempts]
  BY DEF Control, Typed
<1>3. tx' \in [Apps -> Attempts] /\ tx'[p] = Step(p, t) /\ \A q \in Apps \ {p} : tx'[q] = tx[q]
  BY <1>1, <1>2
<1>4. tx'[p].at \in 1 .. Len(tx'[p].body) + 1 /\ tx'[p].body \in Bodies(p, Stmt(p).what) /\ At(p, "tx")
  BY <1>1, <1>3, WorkingFacts
<1> QED
  BY <1>3, <1>4, OperationKeeps

LEMMA StoreKeeps ==
  ASSUME Control, NEW p \in Apps, Store(p)
  PROVE  Control'
<1>1. Working(p) /\ UNCHANGED <<prog, mem, pc, reps, arrived, ci, done, counted>>
  BY DEF Store, Does
<1>2. PICK t : t = Stored(tx[p], Cur(p))
  OBVIOUS
<1>3. t \in Attempts /\ t.body = tx[p].body /\ t.at = tx[p].at
  BY <1>1, <1>2, WorkingFacts, OperationsTyped
<1>4. tx' = [tx EXCEPT ![p] = Step(p, t)]
  BY <1>2 DEF Store, Stored
<1> QED
  BY <1>1, <1>3, <1>4, OwnKeeps

LEMMA AddKeeps ==
  ASSUME Control, NEW p \in Apps, Add(p)
  PROVE  Control'
<1>1. Working(p) /\ UNCHANGED <<prog, mem, pc, reps, arrived, ci, done, counted>>
  BY DEF Add, Does
<1>2. PICK t, op : op = Op("store", Cur(p).w, mem[Cur(p).w] + Cur(p).v) /\ t = Stored(tx[p], op)
  OBVIOUS
<1>3. op \in Ops
  <2>1. Cur(p).w \in Readable /\ Cur(p).v \in Numbers
    BY <1>1, WorkingFacts DEF Ops
  <2>2. mem[Cur(p).w] \in Numbers
    BY <2>1 DEF Control, Typed
  <2>3. mem[Cur(p).w] + Cur(p).v \in Numbers
    BY <2>1, <2>2 DEF Numbers
  <2> QED
    BY <2>1, <2>3, <1>2, OpsAre
<1>4. t \in Attempts /\ t.body = tx[p].body /\ t.at = tx[p].at
  BY <1>1, <1>2, <1>3, WorkingFacts, OperationsTyped
<1>5. tx' = [tx EXCEPT ![p] = Step(p, t)]
  BY <1>2 DEF Add, Stored
<1> QED
  BY <1>1, <1>4, <1>5, OwnKeeps

LEMMA ReadRawKeeps ==
  ASSUME Control, NEW p \in Apps, ReadRaw(p)
  PROVE  Control'
<1>1. Working(p) /\ UNCHANGED <<prog, mem, pc, reps, arrived, ci, done, counted>>
  BY DEF ReadRaw, Does
<1>2. PICK t : t = Seen(tx[p], mem[Cur(p).w])
  OBVIOUS
<1>3. mem[Cur(p).w] \in Numbers
  BY <1>1, WorkingFacts DEF Control, Typed, Ops
<1>4. t \in Attempts /\ t.body = tx[p].body /\ t.at = tx[p].at
  BY <1>1, <1>2, <1>3, WorkingFacts, OperationsTyped
<1>5. tx' = [tx EXCEPT ![p] = Step(p, t)]
  BY <1>2 DEF ReadRaw, Seen
<1> QED
  BY <1>1, <1>4, <1>5, OwnKeeps

\* A node goes on to statement j of its program.
LEMMA MoveKeeps ==
  ASSUME Control, NEW p \in Apps, ~Ended(p), Stmt(p).do # "barrier", NEW j \in 1 .. Len(Program(p)) + 1,
         prog' = prog, pc' = [pc EXCEPT ![p] = j], arrived' = arrived,
         mem' \in [Readable -> Numbers], reps' \in [Apps -> Nat], tx' \in [Apps -> Attempts],
         ci' \in [Apps -> Nat], done' \in [Apps -> Nat], counted' \in [Apps -> [Classes -> Nat]],
         \A q \in Apps \ {p} : /\ reps'[q] = reps[q] /\ counted'[q] = counted[q]
                               /\ tx'[q] = tx[q] \/ (InTx(q) /\ tx'[q] = [tx[q] EXCEPT !.lost = TRUE]),
         tx'[p] = NoTx, reps'[p] \in 1 .. Times + 1,
         InLoop(Program(p), j) => reps'[p] <= Times,
         prog # "tm2" => BarsFrom(Program(p), j) = BarsFrom(Program(p), pc[p])
  PROVE  Control'
<1>1. Program(p)' = Program(p) /\ Attempts' = Attempts /\ Numbers' = Numbers /\ Times' = Times
  BY SameProgram, SameNumbers
<1>2. pc \in [Apps -> Nat] /\ prog \in Progs
  BY DEF Control, Typed
<1>3. pc'[p] = j /\ \A q \in Apps \ {p} : pc'[q] = pc[q]
  BY <1>2
<1>4. j \in Nat /\ pc' \in [Apps -> Nat]
  <2>1. Len(Program(p)) \in Nat
    BY <1>2, ProgramSound
  <2> QED
    BY <2>1, <1>2
<1>5. p \notin arrived'
  BY DEF Control, Placed, At
<1>6. ~InTx(p)'
  BY DEF InTx, NoTx
<1>7. InLoop(Program(p), pc[p])' => InLoop(Program(p), j)
  BY <1>1, <1>3 DEF InLoop
<1>8. prog # "tm2" => Ahead(p)' = Ahead(p)
  BY <1>1, <1>3 DEF Ahead, BarsFrom
<1>9. Placed(p)'
  BY <1>1, <1>3, <1>5, <1>6, <1>7 DEF Placed
<1>10. Typed'
  BY <1>1, <1>2, <1>4 DEF Control, Typed
<1>11. \A q \in Apps \ {p} : Untouched(q)
  BY <1>3 DEF Untouched
<1> QED
  BY <1>8, <1>9, <1>10, <1>11, OneSteps

LEMMA AtFacts ==
  ASSUME Control, NEW p \in Apps, NEW do, At(p, do)
  PROVE  /\ ~Ended(p) /\ Stmt(p).do = do /\ Stmt(p) \in Statements
         /\ pc[p] \in 1 .. Len(Program(p)) /\ Len(Program(p)) \in Nat /\ Stmt(p) = Program(p)[pc[p]]
         /\ do = "tx" => Stmt(p).what \in Txs
         /\ do = "plain" => Stmt(p).what \in Plains
         /\ do # "tx" => tx[p] = NoTx /\ ~InTx(p)
<1>1. prog \in Progs /\ pc[p] \in 1 .. Len(Program(p)) + 1 /\ ~Ended(p) /\ Stmt(p).do = do
  BY DEF Control, Typed, Placed, At
<1>2. InTx(p) => Stmt(p).do = "tx"
  BY DEF Control, Placed, At
<1>3. ~InTx(p) => tx[p] = NoTx
  BY DEF Control, Placed
<1> QED
  BY <1>1, <1>2, <1>3, Statement DEF Stmt

\* On to the next statement
LEMMA NextStatement ==
  ASSUME Control, NEW p \in Apps, NEW do, At(p, do), do # "barrier"
  PROVE  /\ pc[p] + 1 \in 1 .. Len(Program(p)) + 1
         /\ BarsFrom(Program(p), pc[p] + 1) = BarsFrom(Program(p), pc[p])
         /\ do # "loop" /\ InLoop(Program(p), pc[p] + 1) => reps[p] <= Times
<1>1. /\ pc[p] \in 1 .. Len(Program(p)) /\ Len(Program(p)) \in Nat /\ Program(p)[pc[p]].do = do
  BY AtFacts
<1>2. BarsFrom(Program(p), pc[p] + 1) = BarsFrom(Program(p), pc[p])
  <2>1. \A k \in pc[p] .. (pc[p] + 1) - 1 : k <= Len(Program(p)) => Program(p)[k].do # "barrier"
    BY <1>1
  <2>2. pc[p] \in Nat /\ pc[p] + 1 \in Nat /\ pc[p] <= pc[p] + 1
    BY <1>1
  <2> QED
    BY <1>1, <2>1, <2>2, BarsFromSame
<1>3. Sound(Program(p), Txs, Plains, LoopDos)
  BY ProgramSound DEF Control, Typed
<1>4. do # "loop" /\ InLoop(Program(p), pc[p] + 1) => InLoop(Program(p), pc[p])
  BY <1>1, <1>3, LoopMoves
<1>5. InLoop(Program(p), pc[p]) => reps[p] <= Times
  BY DEF Control, Placed
<1> QED
  BY <1>1, <1>2, <1>4, <1>5

LEMMA RepsBound ==
  ASSUME Control, NEW p \in Apps
  PROVE  Times \in Nat /\ reps[p] \in 1 .. Times + 1
BY TimesTyped DEF Control, Typed, Placed

\* A loop, its body without barriers (but in tm2) and its end
LEMMA LoopBars ==
  ASSUME prog \in Progs, prog # "tm2", NEW p, NEW i \in 1 .. Len(Program(p)), Program(p)[i].do = "loop"
  PROVE  /\ i + Program(p)[i].len + 2 \in 1 .. Len(Program(p)) + 1
         /\ Program(p)[i].len \in Nat
         /\ BarsFrom(Program(p), i + Program(p)[i].len + 2) = BarsFrom(Program(p), i)
         /\ BarsFrom(Program(p), i + Program(p)[i].len + 1) = BarsFrom(Program(p), i)
<1>1. PICK s, n : s = Program(p) /\ n = s[i].len
  OBVIOUS
<1>2. Len(s) \in Nat /\ SoundAt(s, Txs, Plains, LoopDos, i) /\ s[i] \in Statements
  BY <1>1, ProgramSound DEF Sound
<1>3. n \in Nat /\ i + n + 1 <= Len(s) /\ s[i + n + 1] = AgainOf(n) /\ \A k \in i + 1 .. i + n : s[k].do \in LoopDos
  BY <1>1, <1>2 DEF SoundAt, Statements
<1>4. AgainOf(n).do = "again" /\ LoopDos = {"tx"}
  BY DEF AgainOf, LoopDos
<1>5. \A k \in i .. i + n + 1 : s[k].do # "barrier"
  <2> SUFFICES ASSUME NEW k \in i .. i + n + 1 PROVE s[k].do # "barrier"
    OBVIOUS
  <2>1. k = i \/ k = i + n + 1 \/ k \in i + 1 .. i + n
    BY <1>3
  <2> QED
    BY <2>1, <1>1, <1>3, <1>4
<1>6. i \in Nat /\ i + n + 2 \in Nat /\ i + n + 1 \in Nat /\ i <= i + n + 2 /\ i <= i + n + 1
  BY <1>3
<1>7. BarsFrom(s, i) = BarsFrom(s, i + n + 2)
  <2>1. \A k \in i .. (i + n + 2) - 1 : k <= Len(s) => s[k].do # "barrier"
    BY <1>3, <1>5
  <2> QED
    BY <2>1, <1>2, <1>6, BarsFromSame
<1>8. BarsFrom(s, i) = BarsFrom(s, i + n + 1)
  <2>1. \A k \in i .. (i + n + 1) - 1 : k <= Len(s) => s[k].do # "barrier"
    BY <1>3, <1>5
  <2> QED
    BY <2>1, <1>2, <1>6, BarsFromSame
<1> QED
  BY <1>1, <1>3, <1>7, <1>8

\* The steps that only change where a node is
LEMMA JumpKeeps ==
  ASSUME Control, NEW p \in Apps, NEW do, At(p, do), do \notin {"barrier", "tx"}, NEW j \in 1 .. Len(Program(p)) + 1,
         pc' = [pc EXCEPT ![p] = j], UNCHANGED <<prog, mem, reps, arrived, tx, ci, done, counted>>,
         InLoop(Program(p), j) => reps[p] <= Times,
         prog # "tm2" => BarsFrom(Program(p), j) = BarsFrom(Program(p), pc[p])
  PROVE  Control'
<1>1. ~Ended(p) /\ Stmt(p).do # "barrier" /\ tx[p] = NoTx
  BY AtFacts
<1>2. /\ mem \in [Readable -> Numbers] /\ reps \in [Apps -> Nat] /\ tx \in [Apps -> Attempts]
      /\ ci \in [Apps -> Nat] /\ done \in [Apps -> Nat] /\ counted \in [Apps -> [Classes -> Nat]]
  BY DEF Control, Typed
<1>3. reps[p] \in 1 .. Times + 1
  BY RepsBound
<1> QED
  BY <1>1, <1>2, <1>3, MoveKeeps

LEMMA EnterLoopKeeps ==
  ASSUME Control, NEW p \in Apps, EnterLoop(p)
  PROVE  Control'
<1>1. At(p, "loop") /\ UNCHANGED <<prog, mem, reps, arrived, tx, ci, done, counted>>
  BY DEF EnterLoop
<1>2. PICK n : n = Stmt(p).len
  OBVIOUS
<1>3. /\ pc[p] \in 1 .. Len(Program(p)) /\ Len(Program(p)) \in Nat /\ Stmt(p) = Program(p)[pc[p]]
      /\ Stmt(p).do = "loop" /\ n \in Nat /\ prog \in Progs
  BY <1>1, <1>2, AtFacts DEF Statements, Control, Typed
<1>4. Sound(Program(p), Txs, Plains, LoopDos)
  BY <1>3, ProgramSound
<1>5. pc[p] + n + 2 \in 1 .. Len(Program(p)) + 1
  BY <1>2, <1>3, <1>4 DEF Sound, SoundAt
<1>6. CASE pc' = [pc EXCEPT ![p] = pc[p] + n + 2]
  <2>1. ~InLoop(Program(p), pc[p] + n + 2)
    BY <1>2, <1>3, <1>4, LoopMoves
  <2>2. prog # "tm2" => BarsFrom(Program(p), pc[p] + n + 2) = BarsFrom(Program(p), pc[p])
    BY <1>2, <1>3, LoopBars
  <2> QED
    BY <1>1, <1>5, <1>6, <2>1, <2>2, JumpKeeps
<1>7. CASE reps[p] <= Times /\ pc' = [pc EXCEPT ![p] = pc[p] + 1]
  <2>1. pc[p] + 1 \in 1 .. Len(Program(p)) + 1 /\ BarsFrom(Program(p), pc[p] + 1) = BarsFrom(Program(p), pc[p])
    BY <1>1, NextStatement
  <2> QED
    BY <1>1, <1>7, <2>1, JumpKeeps
<1>8. pc' = [pc EXCEPT ![p] = pc[p] + n + 2] \/ (reps[p] <= Times /\ pc' = [pc EXCEPT ![p] = pc[p] + 1])
  <2>5. pc[p] \in Int /\ n \in Int
    BY <1>3
  <2>1. pc[p] + (n + 2) = pc[p] + n + 2
    BY <2>5
  <2>2. Advance(p, Stmt(p).len + 2) \/ (reps[p] <= Times /\ Advance(p, 1))
    BY DEF EnterLoop
  <2>3. ASSUME Advance(p, Stmt(p).len + 2)
        PROVE  pc' = [pc EXCEPT ![p] = pc[p] + n + 2]
    <3>1. pc' = [pc EXCEPT ![p] = pc[p] + (Stmt(p).len + 2)]
      BY <2>3 DEF Advance
    <3>2. pc[p] + (Stmt(p).len + 2) = pc[p] + n + 2
      BY <2>1, <1>2
    <3> QED
      BY <3>1, <3>2, Zenon
  <2>4. Advance(p, 1) => pc' = [pc EXCEPT ![p] = pc[p] + 1]
    BY DEF Advance
  <2> QED
    BY <2>2, <2>3, <2>4
<1> QED
  BY <1>6, <1>7, <1>8

LEMMA AgainKeeps ==
  ASSUME Control, NEW p \in Apps, Again(p)
  PROVE  Control'
<1>1. At(p, "again") /\ UNCHANGED <<prog, mem, arrived, tx, ci, done, counted>>
  BY DEF Again
<1>2. PICK n, i, s : n = Stmt(p).len /\ i = pc[p] - n - 1 /\ s = Program(p)
  OBVIOUS
<1>3. /\ pc[p] \in 1 .. Len(s) /\ Len(s) \in Nat /\ Stmt(p) = s[pc[p]]
      /\ Stmt(p).do = "again" /\ n \in Nat /\ prog \in Progs /\ tx[p] = NoTx /\ ~Ended(p)
  BY <1>1, <1>2, AtFacts DEF Statements, Control, Typed
<1>4. Sound(s, Txs, Plains, LoopDos)
  BY <1>2, <1>3, ProgramSound
<1>5. i >= 1 /\ s[i] = LoopOf(n)
  BY <1>2, <1>3, <1>4 DEF Sound, SoundAt
<1>6. i \in 1 .. Len(s) /\ s[i].do = "loop" /\ s[i].len = n /\ i + n + 1 = pc[p]
  <2>1. LoopOf(n).do = "loop" /\ LoopOf(n).len = n
    BY DEF LoopOf
  <2> QED
    BY <2>1, <1>2, <1>3, <1>5
<1>7. ~InLoop(s, i)
  BY <1>2, <1>3, <1>4, LoopMoves
<1>8. prog # "tm2" => BarsFrom(s, i) = BarsFrom(s, pc[p])
  <2>1. prog # "tm2" => BarsFrom(s, i + n + 1) = BarsFrom(s, i)
    BY <1>2, <1>3, <1>6, LoopBars
  <2> QED
    BY <2>1, <1>6
<1>9. pc' = [pc EXCEPT ![p] = i]
  <2>1. pc[p] + (-(n + 1)) = i
    BY <1>2, <1>3
  <2> QED
    BY <2>1, <1>2 DEF Again, Advance
<1>10. prog # "tm2" => reps[p] <= Times
  <2>1. prog # "tm2" => InLoop(s, pc[p])
    BY <1>3, <1>4, LoopMoves
  <2> QED
    BY <2>1, <1>2 DEF Control, Placed
<1>11. reps[p] \in 1 .. Times + 1 /\ Times \in Nat
  BY RepsBound
<1>12. reps' = [reps EXCEPT ![p] = IF prog = "tm2" THEN reps[p] ELSE reps[p] + 1]
  BY DEF Again
<1>13. /\ mem \in [Readable -> Numbers] /\ reps \in [Apps -> Nat] /\ tx \in [Apps -> Attempts]
       /\ ci \in [Apps -> Nat] /\ done \in [Apps -> Nat] /\ counted \in [Apps -> [Classes -> Nat]]
  BY DEF Control, Typed
<1>14. /\ reps' \in [Apps -> Nat] /\ reps'[p] \in 1 .. Times + 1 /\ \A q \in Apps \ {p} : reps'[q] = reps[q]
  BY <1>10, <1>11, <1>12, <1>13
<1>15. i \in 1 .. Len(Program(p)) + 1
  BY <1>2, <1>3, <1>6
<1> QED
  BY <1>1, <1>2, <1>3, <1>7, <1>8, <1>9, <1>13, <1>14, <1>15, MoveKeeps

LEMMA ChunksInMr ==
  ASSUME Control, NEW p \in Apps, NEW do \in {"while_chunk", "end_chunk"}, At(p, do)
  PROVE  prog = "mr"
<1>1. pc[p] \in 1 .. Len(Program(p)) /\ Program(p)[pc[p]].do = do
  BY AtFacts
<1>2. Sound(Program(p), Txs, Plains, LoopDos)
  BY ProgramSound DEF Control, Typed
<1>3. "chunk" \in Plains
  BY <1>1, <1>2 DEF Sound, SoundAt
<1>4. prog \in {"bank", "mr", "tm2", "tm3", "tm3_all", "tm4", "tm5", "tm6", "tm7", "tm8", "tm9"}
  BY ClientsAssumption DEF Control, Typed
<1> QED
  BY <1>3, <1>4 DEF Plains, OpeningPlains, RestPlains

\* map_reduce has no timed loop and no barrier before its end.
LEMMA MrPlaces ==
  ASSUME prog = "mr", NEW p, NEW o, MrFrom(p, o)
  PROVE  /\ \A i \in Nat : ~InLoop(Program(p), i)
         /\ \A i, j \in o + 1 .. o + 7 : BarsFrom(Program(p), i) = BarsFrom(Program(p), j)
         /\ \A i \in 1 .. Len(Program(p)) : Program(p)[i].do = "while_chunk" <=> i = o + 2
         /\ \A i \in 1 .. Len(Program(p)) : Program(p)[i].do = "end_chunk" <=> i = o + 5
<1>1. PICK s : s = Program(p)
  OBVIOUS
<1>2. /\ o \in {2, 3} /\ Len(s) = o + 8
      /\ \A i \in 1 .. o : s[i].do \in {"barrier", "plain"}
      /\ s[o + 1].do = "tx" /\ s[o + 2].do = "while_chunk" /\ s[o + 3].do = "plain" /\ s[o + 4].do = "tx"
      /\ s[o + 5].do = "end_chunk" /\ s[o + 6].do = "tx" /\ s[o + 7].do = "barrier" /\ s[o + 8].do = "barrier"
  BY <1>1 DEF MrFrom
<1>3. \A i \in 1 .. o + 8 : i \in 1 .. o \/ i = o + 1 \/ i = o + 2 \/ i = o + 3 \/ i = o + 4 \/ i = o + 5
                              \/ i = o + 6 \/ i = o + 7 \/ i = o + 8
  BY <1>2
<1>4. \A i \in 1 .. Len(s) : s[i].do # "loop" /\ (s[i].do = "while_chunk" <=> i = o + 2) /\ (s[i].do = "end_chunk" <=> i = o + 5)
  <2> SUFFICES ASSUME NEW i \in 1 .. Len(s)
               PROVE  s[i].do # "loop" /\ (s[i].do = "while_chunk" <=> i = o + 2) /\ (s[i].do = "end_chunk" <=> i = o + 5)
    OBVIOUS
  <2> QED
    BY <1>2, <1>3
<1>5. \A i \in o + 1 .. o + 7 : BarsFrom(s, i) = BarsFrom(s, o + 7)
  <2> SUFFICES ASSUME NEW i \in o + 1 .. o + 7 PROVE BarsFrom(s, i) = BarsFrom(s, o + 7)
    OBVIOUS
  <2>1. \A k \in i .. (o + 7) - 1 : k <= Len(s) => s[k].do # "barrier"
    <3> SUFFICES ASSUME NEW k \in i .. (o + 7) - 1 PROVE s[k].do # "barrier"
      OBVIOUS
    <3>1. k = o + 1 \/ k = o + 2 \/ k = o + 3 \/ k = o + 4 \/ k = o + 5 \/ k = o + 6
      BY <1>2
    <3> QED
      BY <3>1, <1>2
  <2>2. i \in Nat /\ o + 7 \in Nat /\ i <= o + 7 /\ Len(s) \in Nat
    BY <1>2
  <2> QED
    BY <2>1, <2>2, BarsFromSame
<1>6. \A i \in Nat : ~InLoop(s, i)
  BY <1>4 DEF InLoop
<1>7. \A i, j \in o + 1 .. o + 7 : BarsFrom(s, i) = BarsFrom(s, j)
  BY <1>5
<1> QED
  BY <1>1, <1>4, <1>6, <1>7

\* Where the loop over chunks begins, ends and goes on
LEMMA WhileChunkTo ==
  ASSUME Control, NEW p \in Apps, WhileChunk(p), NEW o, MrFrom(p, o)
  PROVE  pc[p] = o + 2 /\ pc' = [pc EXCEPT ![p] = IF ci[p] * ChunkSize < FileSize THEN o + 3 ELSE o + 6]
<1>1. At(p, "while_chunk")
  BY DEF WhileChunk
<1>2. prog = "mr" /\ pc[p] \in 1 .. Len(Program(p)) /\ Program(p)[pc[p]].do = "while_chunk"
  BY <1>1, ChunksInMr, AtFacts
<1>3. pc[p] = o + 2 /\ o \in {2, 3} /\ Len(Program(p)) = o + 8
  <2>1. \A i \in 1 .. Len(Program(p)) : Program(p)[i].do = "while_chunk" <=> i = o + 2
    BY <1>2, MrPlaces
  <2>2. o \in {2, 3} /\ Len(Program(p)) = o + 8
    BY DEF MrFrom
  <2> QED
    BY <2>1, <2>2, <1>2
<1> DEFINE C == CHOOSE n \in 1 .. Len(Program(p)) - pc[p] + 1 : Program(p)[pc[p] + n - 1].do = "end_chunk"
<1>4. C = 4
  <2> DEFINE P(n) == Program(p)[pc[p] + n - 1].do = "end_chunk"
             S == 1 .. Len(Program(p)) - pc[p] + 1
  <2>1. \A n \in S : P(n) <=> n = 4
    <3> SUFFICES ASSUME NEW n \in S PROVE P(n) <=> n = 4
      OBVIOUS
    <3>1. pc[p] + n - 1 \in 1 .. Len(Program(p)) /\ (pc[p] + n - 1 = o + 5 <=> n = 4)
      BY <1>3
    <3> QED
      BY <3>1, <1>2, MrPlaces
  <2>2. 4 \in S
    BY <1>3
  <2>3. C = CHOOSE n \in S : P(n)
    OBVIOUS
  <2> HIDE DEF P, S, C
  <2>4. (CHOOSE n \in S : P(n)) \in S /\ P(CHOOSE n \in S : P(n))
    BY <2>1, <2>2
  <2> QED
    BY <2>1, <2>3, <2>4
<1>5. pc' = [pc EXCEPT ![p] = pc[p] + (IF ci[p] * ChunkSize < FileSize THEN 1 ELSE C)]
  BY Zenon DEF WhileChunk, Advance
<1> HIDE DEF C
<1>6. pc[p] + 1 = o + 3 /\ pc[p] + C = o + 6
  BY <1>3, <1>4
<1> QED
  BY <1>3, <1>5, <1>6

LEMMA EndChunkTo ==
  ASSUME Control, NEW p \in Apps, EndChunk(p), NEW o, MrFrom(p, o)
  PROVE  pc[p] = o + 5 /\ pc' = [pc EXCEPT ![p] = o + 2]
<1>1. At(p, "end_chunk")
  BY DEF EndChunk
<1>2. prog = "mr" /\ pc[p] \in 1 .. Len(Program(p)) /\ Program(p)[pc[p]].do = "end_chunk"
  BY <1>1, ChunksInMr, AtFacts
<1>3. pc[p] = o + 5 /\ o \in {2, 3} /\ Len(Program(p)) = o + 8
  <2>1. \A i \in 1 .. Len(Program(p)) : Program(p)[i].do = "end_chunk" <=> i = o + 5
    BY <1>2, MrPlaces
  <2>2. o \in {2, 3} /\ Len(Program(p)) = o + 8
    BY DEF MrFrom
  <2> QED
    BY <2>1, <2>2, <1>2
<1> DEFINE C == CHOOSE n \in 1 .. pc[p] - 1 : Program(p)[pc[p] - n].do = "while_chunk"
<1>4. C = 3
  <2> DEFINE P(n) == Program(p)[pc[p] - n].do = "while_chunk"
             S == 1 .. pc[p] - 1
  <2>1. \A n \in S : P(n) <=> n = 3
    <3> SUFFICES ASSUME NEW n \in S PROVE P(n) <=> n = 3
      OBVIOUS
    <3>1. pc[p] - n \in 1 .. Len(Program(p)) /\ (pc[p] - n = o + 2 <=> n = 3)
      BY <1>3
    <3> QED
      BY <3>1, <1>2, MrPlaces
  <2>2. 3 \in S
    BY <1>3
  <2>3. C = CHOOSE n \in S : P(n)
    OBVIOUS
  <2> HIDE DEF P, S, C
  <2>4. (CHOOSE n \in S : P(n)) \in S /\ P(CHOOSE n \in S : P(n))
    BY <2>1, <2>2
  <2> QED
    BY <2>1, <2>3, <2>4
<1>5. pc' = [pc EXCEPT ![p] = pc[p] + (-C)]
  BY Zenon DEF EndChunk, Advance
<1> HIDE DEF C
<1>6. pc[p] + (-C) = o + 2
  BY <1>3, <1>4
<1> QED
  BY <1>3, <1>5, <1>6

LEMMA ChunkLoopKeeps ==
  ASSUME Control, NEW p \in Apps, WhileChunk(p) \/ EndChunk(p)
  PROVE  Control'
<1>1. PICK do \in {"while_chunk", "end_chunk"} : At(p, do)
  BY DEF WhileChunk, EndChunk
<1>2. prog = "mr"
  BY <1>1, ChunksInMr
<1>3. PICK o : MrFrom(p, o)
  BY <1>2, MrProgram
<1>4. o \in {2, 3} /\ Len(Program(p)) = o + 8
  BY <1>3 DEF MrFrom
<1>5. PICK j \in {o + 2, o + 3, o + 6} : pc' = [pc EXCEPT ![p] = j]
  <2>1. CASE WhileChunk(p)
    BY <2>1, <1>3, WhileChunkTo
  <2>2. CASE EndChunk(p)
    BY <2>2, <1>3, EndChunkTo
  <2> QED
    BY <2>1, <2>2
<1>6. pc[p] \in o + 1 .. o + 7
  <2>1. pc[p] = o + 2 \/ pc[p] = o + 5
    BY <1>3, WhileChunkTo, EndChunkTo
  <2> QED
    BY <2>1, <1>4
<1>7. j \in o + 1 .. o + 7 /\ j \in 1 .. Len(Program(p)) + 1 /\ j \in Nat
  BY <1>4
<1>8. BarsFrom(Program(p), j) = BarsFrom(Program(p), pc[p]) /\ ~InLoop(Program(p), j)
  BY <1>2, <1>3, <1>6, <1>7, MrPlaces
<1>9. UNCHANGED <<prog, mem, reps, arrived, tx, ci, done, counted>>
  BY DEF WhileChunk, EndChunk
<1> QED
  BY <1>1, <1>5, <1>7, <1>8, <1>9, JumpKeeps

\* The last of some positions
LEMMA LastOf ==
  ASSUME NEW n \in Nat, NEW S, S \subseteq 1 .. n, S # {}
  PROVE  \E i \in S : \A j \in S : j <= i
<1> DEFINE T == {n - i : i \in S}
<1>1. T \subseteq Nat /\ T # {}
  <2>1. \A i \in S : i \in Int /\ n - i \in Nat
    OBVIOUS
  <2>2. \E i \in S : n - i \in T
    OBVIOUS
  <2> QED
    BY <2>1, <2>2
<1>2. PICK m \in T : \A k \in T : m <= k
  <2> HIDE DEF T
  <2> QED
    BY <1>1, LeastIn
<1>3. PICK i \in S : m = n - i
  BY <1>2
<1>4. \A j \in S : n - j \in T
  OBVIOUS
<1>5. \A j \in S : j <= i
  <2> SUFFICES ASSUME NEW j \in S PROVE j <= i
    OBVIOUS
  <2>1. n - i <= n - j /\ i \in 1 .. n /\ j \in 1 .. n
    BY <1>2, <1>3, <1>4
  <2> QED
    BY <2>1
<1> QED
  BY <1>5

\* What write_set_persist leaves in a word is the last value stored in it.
LEMMA PersistedIs ==
  ASSUME NEW T, NEW ws \in Seq(T)
  PROVE  /\ DOMAIN Persisted(ws) = Readable /\ Persisted(ws) = [w \in Readable |-> Persisted(ws)[w]]
         /\ \A w \in Readable :
              \/ (\A i \in 1 .. Len(ws) : ws[i].w # w) /\ Persisted(ws)[w] = mem[w]
              \/ \E i \in 1 .. Len(ws) : /\ ws[i].w = w /\ Persisted(ws)[w] = ws[i].v
                                         /\ \A j \in 1 .. Len(ws) : ws[j].w = w => j <= i
<1> DEFINE At0(w) == {i \in DOMAIN ws : ws[i].w = w}
           V(w) == IF At0(w) = {} THEN mem[w] ELSE ws[CHOOSE i \in At0(w) : \A j \in At0(w) : j <= i].v
<1>1. Persisted(ws) = [w \in Readable |-> V(w)]
  BY Zenon DEF Persisted
<1>2. ASSUME NEW w \in Readable
      PROVE  \/ (\A i \in 1 .. Len(ws) : ws[i].w # w) /\ V(w) = mem[w]
             \/ \E i \in 1 .. Len(ws) : ws[i].w = w /\ V(w) = ws[i].v /\ \A j \in 1 .. Len(ws) : ws[j].w = w => j <= i
  <2>1. CASE At0(w) = {}
    <3>1. V(w) = mem[w]
      BY <2>1
    <3>2. \A i \in 1 .. Len(ws) : ws[i].w # w
      BY <2>1
    <3> QED
      BY <3>1, <3>2
  <2>2. CASE At0(w) # {}
    <3>1. At0(w) \subseteq 1 .. Len(ws) /\ Len(ws) \in Nat
      OBVIOUS
    <3>2. \E i \in At0(w) : \A j \in At0(w) : j <= i
      <4>1. PICK S : S = At0(w)
        OBVIOUS
      <4>2. \E i \in S : \A j \in S : j <= i
        <5>1. S \subseteq 1 .. Len(ws) /\ S # {} /\ Len(ws) \in Nat
          BY <4>1, <3>1, <2>2
        <5> QED
          BY <5>1, LastOf
      <4> QED
        BY <4>1, <4>2
    <3>3. PICK c : c = CHOOSE i \in At0(w) : \A j \in At0(w) : j <= i
      OBVIOUS
    <3>4. c \in At0(w) /\ \A j \in At0(w) : j <= c
      <4> HIDE DEF At0
      <4> QED
        BY <3>2, <3>3, Zenon
    <3>5. V(w) = ws[c].v
      BY <3>3, <2>2, Zenon
    <3>6. c \in 1 .. Len(ws) /\ ws[c].w = w /\ \A j \in 1 .. Len(ws) : ws[j].w = w => j <= c
      BY <3>4
    <3> HIDE DEF V, At0
    <3> QED
      BY <3>5, <3>6
  <2> QED
    BY <2>1, <2>2
<1> HIDE DEF V
<1>3. DOMAIN Persisted(ws) = Readable /\ Persisted(ws) = [w \in Readable |-> Persisted(ws)[w]]
  BY <1>1
<1>4. \A w \in Readable : Persisted(ws)[w] = V(w)
  BY <1>1
<1> QED
  BY <1>2, <1>3, <1>4

LEMMA PersistedTyped ==
  ASSUME NEW ws \in Seq(Ops), mem \in [Readable -> Numbers]
  PROVE  Persisted(ws) \in [Readable -> Numbers]
<1>1. \A i \in 1 .. Len(ws) : ws[i].v \in Numbers
  <2>1. \A i \in 1 .. Len(ws) : ws[i] \in Ops
    OBVIOUS
  <2> QED
    BY <2>1 DEF Ops
<1>2. \A w \in Readable : Persisted(ws)[w] \in Numbers
  <2> SUFFICES ASSUME NEW w \in Readable PROVE Persisted(ws)[w] \in Numbers
    OBVIOUS
  <2>1. Persisted(ws)[w] = mem[w] \/ \E i \in 1 .. Len(ws) : Persisted(ws)[w] = ws[i].v
    BY PersistedIs
  <2> QED
    BY <2>1, <1>1
<1>3. Persisted(ws) = [w \in Readable |-> Persisted(ws)[w]]
  BY PersistedIs
<1> QED
  BY <1>2, <1>3

\* read_reps is the end of the loop of tm2.
LEMMA ReadRepsAt ==
  ASSUME Control, NEW p \in Apps, At(p, "tx"), Stmt(p).what = "read_reps"
  PROVE  prog = "tm2" /\ pc[p] = 5 /\ InLoop(Program(p), 5) /\ ~InLoop(Program(p), 6)
<1>1. prog \in {"bank", "mr", "tm2", "tm3", "tm3_all", "tm4", "tm5", "tm6", "tm7", "tm8", "tm9"}
  BY ClientsAssumption DEF Control, Typed
<1>2. prog = "tm2"
  <2>1. "read_reps" \in Txs
    BY AtFacts
  <2> QED
    BY <1>1, <2>1 DEF Txs
<1>3. Tm2At(p)
  BY <1>2, Tm2Program
<1>4. PICK s : s = Program(p)
  OBVIOUS
<1>5. LoopOf(3).do = "loop" /\ LoopOf(3).len = 3 /\ AgainOf(3).do = "again"
  BY DEF LoopOf, AgainOf
<1>6. /\ Len(s) = 6 /\ s[1].do = "barrier" /\ s[2].do = "loop" /\ s[2].len = 3 /\ s[3].do = "barrier"
      /\ s[4].do = "tx" /\ s[4].what = "write_reps" /\ s[5].do = "tx" /\ s[6].do = "again"
  BY <1>3, <1>4, <1>5 DEF Tm2At
<1>7. pc[p] \in 1 .. 6 /\ s[pc[p]].do = "tx" /\ s[pc[p]].what = "read_reps"
  BY <1>4, <1>6, AtFacts
<1>8. pc[p] = 5
  BY <1>6, <1>7
<1>9. InLoop(s, 5) /\ ~InLoop(s, 6)
  <2>1. \A l \in 1 .. Len(s) : s[l].do = "loop" <=> l = 2
    BY <1>6
  <2>2. \A i : InLoop(s, i) <=> i \in 2 + 1 .. 2 + s[2].len + 0
    <3>1. 2 \in 1 .. Len(s)
      BY <1>6
    <3>2. (IF prog = "tm2" THEN 0 ELSE 1) = 0
      BY <1>2
    <3> QED
      BY <3>1, <3>2, <2>1, Zenon DEF InLoop
  <2> QED
    BY <2>2, <1>6
<1> QED
  BY <1>2, <1>4, <1>8, <1>9

LEMMA CommitKeeps ==
  ASSUME Control, NEW p \in Apps, Commit(p)
  PROVE  Control'
<1>1. /\ InTx(p) /\ mem' = Persisted(tx[p].ws) /\ prog' = prog /\ arrived' = arrived /\ done' = done /\ counted' = counted
      /\ pc' = [pc EXCEPT ![p] = pc[p] + 1]
      /\ ci' = [ci EXCEPT ![p] = IF Stmt(p).what = "next_chunk" THEN tx[p].raw ELSE ci[p]]
      /\ reps' = [reps EXCEPT ![p] = IF Stmt(p).what = "read_reps" THEN reps[p] + 1 ELSE reps[p]]
  BY DEF Commit, Advance
<1>2. At(p, "tx") /\ tx[p] \in Attempts
  BY <1>1 DEF Control, Placed, Typed
<1>3. /\ mem \in [Readable -> Numbers] /\ reps \in [Apps -> Nat] /\ tx \in [Apps -> Attempts]
      /\ ci \in [Apps -> Nat] /\ done \in [Apps -> Nat] /\ counted \in [Apps -> [Classes -> Nat]]
  BY DEF Control, Typed
<1>4. tx[p].ws \in Seq(Ops) /\ tx[p].raw \in Numbers
  BY <1>2 DEF Attempts
<1>5. mem' \in [Readable -> Numbers]
  BY <1>1, <1>3, <1>4, PersistedTyped
<1>6. ci' \in [Apps -> Nat]
  <2>1. Stmt(p).what = "next_chunk" => prog = "mr"
    <3>1. Stmt(p).what \in Txs
      BY <1>2, AtFacts
    <3>2. prog \in {"bank", "mr", "tm2", "tm3", "tm3_all", "tm4", "tm5", "tm6", "tm7", "tm8", "tm9"}
      BY ClientsAssumption DEF Control, Typed
    <3> QED
      BY <3>1, <3>2 DEF Txs
  <2>2. Stmt(p).what = "next_chunk" => tx[p].raw \in Nat
    BY <2>1, <1>4 DEF Numbers
  <2> QED
    BY <2>2, <1>1, <1>3
<1>7. NoTx \in Attempts
  <2>1. <<>> \in Seq(Ops) /\ <<>> \in Seq(Numbers) /\ 0 \in Numbers
    BY DEF Numbers
  <2> QED
    BY <2>1 DEF NoTx, Attempts
<1>8. /\ tx' \in [Apps -> Attempts] /\ tx'[p] = NoTx
      /\ \A q \in Apps \ {p} : tx'[q] = tx[q] \/ (InTx(q) /\ tx'[q] = [tx[q] EXCEPT !.lost = TRUE])
  <2>1. Wins(p, Against(p, {op.w : op \in ToSet(tx[p].ws)}, TRUE), NoTx)
    BY DEF Commit
  <2> QED
    BY <2>1, <1>7, WinsOthers
<1>9. /\ pc[p] + 1 \in 1 .. Len(Program(p)) + 1 /\ BarsFrom(Program(p), pc[p] + 1) = BarsFrom(Program(p), pc[p])
      /\ InLoop(Program(p), pc[p] + 1) => reps[p] <= Times
  BY <1>2, NextStatement
<1>10. Times \in Nat /\ reps[p] \in 1 .. Times + 1
  BY RepsBound
<1>13. ~Ended(p) /\ Stmt(p).do # "barrier"
  BY <1>2, AtFacts
<1>11. CASE Stmt(p).what = "read_reps"
  <2>1. pc[p] = 5 /\ InLoop(Program(p), 5) /\ ~InLoop(Program(p), 6)
    BY <1>2, <1>11, ReadRepsAt
  <2>2. reps[p] <= Times
    BY <2>1 DEF Control, Placed
  <2>3. reps' \in [Apps -> Nat] /\ reps'[p] = reps[p] + 1 /\ \A q \in Apps \ {p} : reps'[q] = reps[q]
    BY <1>1, <1>3, <1>11
  <2>4. reps'[p] \in 1 .. Times + 1 /\ ~InLoop(Program(p), pc[p] + 1)
    BY <2>1, <2>2, <2>3, <1>10
  <2> QED
    BY <2>3, <2>4, <1>1, <1>2, <1>3, <1>5, <1>6, <1>8, <1>9, <1>13, MoveKeeps
<1>12. CASE Stmt(p).what # "read_reps"
  <2>1. reps' = reps
    BY <1>1, <1>3, <1>12
  <2> QED
    BY <2>1, <1>1, <1>2, <1>3, <1>5, <1>6, <1>8, <1>9, <1>10, <1>13, MoveKeeps
<1> QED
  BY <1>11, <1>12

\* A statement without a transaction, on to the next one
LEMMA PlainKeeps ==
  ASSUME Control, NEW p \in Apps, At(p, "plain"), pc' = [pc EXCEPT ![p] = pc[p] + 1],
         UNCHANGED <<prog, reps, arrived, tx, ci>>, mem' \in [Readable -> Numbers],
         done' \in [Apps -> Nat], counted' \in [Apps -> [Classes -> Nat]], \A q \in Apps \ {p} : counted'[q] = counted[q]
  PROVE  Control'
<1>1. /\ pc[p] + 1 \in 1 .. Len(Program(p)) + 1 /\ BarsFrom(Program(p), pc[p] + 1) = BarsFrom(Program(p), pc[p])
      /\ InLoop(Program(p), pc[p] + 1) => reps[p] <= Times
  BY NextStatement
<1>2. ~Ended(p) /\ Stmt(p).do # "barrier" /\ tx[p] = NoTx
  BY AtFacts
<1>3. reps \in [Apps -> Nat] /\ tx \in [Apps -> Attempts] /\ ci \in [Apps -> Nat]
  BY DEF Control, Typed
<1>4. reps[p] \in 1 .. Times + 1
  BY RepsBound
<1> QED
  BY <1>1, <1>2, <1>3, <1>4, MoveKeeps

\* Sets of bytes of the file are finite.
LEMMA CountTyped ==
  ASSUME NEW B \in SUBSET (1 .. FileSize)
  PROVE  IsFiniteSet(B) /\ CountBytes(B) \in [Classes -> Nat]
<1>1. FileSize \in Nat
  BY ClientsAssumption DEF FileSize
<1>2. IsFiniteSet(B)
  <2>1. IsFiniteSet(1 .. FileSize)
    BY <1>1, FS_Interval
  <2> QED
    BY <2>1, FS_Subset
<1>3. \A c \in Classes : Cardinality({b \in B : ClassOf(b) = c}) \in Nat
  <2> SUFFICES ASSUME NEW c \in Classes PROVE Cardinality({b \in B : ClassOf(b) = c}) \in Nat
    OBVIOUS
  <2>1. IsFiniteSet({b \in B : ClassOf(b) = c})
    BY <1>2, FS_Subset
  <2> QED
    BY <2>1, FS_CardinalityType
<1> QED
  BY <1>2, <1>3 DEF CountBytes

LEMMA ChunkTyped == \A c : ChunkBytes(c) \in SUBSET (1 .. FileSize)
BY DEF ChunkBytes

LEMMA CountChunkKeeps ==
  ASSUME Control, NEW p \in Apps, CountChunk(p)
  PROVE  Control'
<1>1. /\ At(p, "plain") /\ pc' = [pc EXCEPT ![p] = pc[p] + 1] /\ UNCHANGED <<prog, mem, reps, arrived, tx, ci>>
      /\ done' = [done EXCEPT ![p] = done[p] + 1]
  BY DEF CountChunk, Advance
<1>2. counted' = [counted EXCEPT ![p] = [c \in Classes |-> counted[p][c] + CountBytes(ChunkBytes(ci[p]))[c]]]
  BY DEF CountChunk
<1>3. mem \in [Readable -> Numbers] /\ done \in [Apps -> Nat] /\ counted \in [Apps -> [Classes -> Nat]]
  BY DEF Control, Typed
<1>4. CountBytes(ChunkBytes(ci[p])) \in [Classes -> Nat]
  BY ChunkTyped, CountTyped
<1>5. [c \in Classes |-> counted[p][c] + CountBytes(ChunkBytes(ci[p]))[c]] \in [Classes -> Nat]
  BY <1>3, <1>4
<1>6. counted' \in [Apps -> [Classes -> Nat]] /\ \A q \in Apps \ {p} : counted'[q] = counted[q]
  BY <1>2, <1>3, <1>5
<1>7. done' \in [Apps -> Nat]
  BY <1>1, <1>3
<1> QED
  BY <1>1, <1>3, <1>6, <1>7, PlainKeeps

LEMMA PlainWriteKeeps ==
  ASSUME Control, NEW p \in Apps, PlainWrite(p)
  PROVE  Control'
<1>1. /\ At(p, "plain") /\ pc' = [pc EXCEPT ![p] = pc[p] + 1]
      /\ UNCHANGED <<prog, reps, arrived, tx, ci, done, counted>> /\ Stmt(p).what \in {"zero", "init"}
  BY DEF PlainWrite, Advance
<1>2. /\ mem \in [Readable -> Numbers] /\ done \in [Apps -> Nat] /\ counted \in [Apps -> [Classes -> Nat]]
      /\ prog \in Progs
  BY DEF Control, Typed
<1>3. Stmt(p).what = "init" => prog # "mr"
  <2>1. Stmt(p).what \in Plains
    BY <1>1, AtFacts
  <2> QED
    BY <2>1 DEF Plains, OpeningPlains, RestPlains
<1>4. mem' \in [Readable -> Numbers]
  <2>1. CASE Stmt(p).what = "zero"
    <3>1. mem' = [w \in Readable |-> 0]
      BY <2>1 DEF PlainWrite
    <3> QED
      BY <3>1 DEF Numbers
  <2>2. CASE Stmt(p).what = "init"
    <3>1. mem' = [w \in Readable |-> IF w \in InitWords(p) THEN -1 ELSE mem[w]]
      BY <2>2 DEF PlainWrite
    <3>2. -1 \in Numbers
      BY <2>2, <1>3 DEF Numbers
    <3> QED
      BY <3>1, <3>2, <1>2
  <2> QED
    BY <2>1, <2>2, <1>1
<1> QED
  BY <1>1, <1>2, <1>4, PlainKeeps

LEMMA PlainTotalKeeps ==
  ASSUME Control, NEW p \in Apps, PlainTotal(p)
  PROVE  Control'
<1>1. /\ At(p, "plain") /\ pc' = [pc EXCEPT ![p] = pc[p] + 1]
      /\ UNCHANGED <<prog, mem, reps, arrived, tx, ci, done, counted>>
  BY DEF PlainTotal, Advance
<1>2. mem \in [Readable -> Numbers] /\ done \in [Apps -> Nat] /\ counted \in [Apps -> [Classes -> Nat]]
  BY DEF Control, Typed
<1> QED
  BY <1>1, <1>2, PlainKeeps

\* The last to arrive lets everybody go on: all have one barrier less ahead.
LEMMA ArriveKeeps ==
  ASSUME Control, NEW p \in Apps, Arrive(p)
  PROVE  Control'
<1>1. At(p, "barrier") /\ UNCHANGED <<prog, mem, reps, tx, ci, done, counted>>
  BY DEF Arrive
<1>2. Numbers' = Numbers /\ Attempts' = Attempts /\ \A q : Program(q)' = Program(q)
  BY <1>1, SameNumbers, SameProgram
<1>3. Typed /\ (\A q \in Apps : Placed(q)) /\ Level
  BY DEF Control
<1>4. CASE arrived \cup {p} = Apps
  <2>1. arrived' = {} /\ pc' = [q \in Apps |-> pc[q] + 1]
    BY <1>4 DEF Arrive
  <2>2. \A q \in Apps : At(q, "barrier")
    BY <1>1, <1>3, <1>4 DEF Placed
  <2>3. ASSUME NEW q \in Apps PROVE Placed(q)' /\ Ahead(q)' = Ahead(q) - 1 /\ Ahead(q) \in Nat
    <3>1. /\ pc[q] \in 1 .. Len(Program(q)) /\ Len(Program(q)) \in Nat /\ Program(q)[pc[q]].do = "barrier"
          /\ tx[q] = NoTx /\ ~InTx(q)
      BY <2>2, AtFacts
    <3>2. pc'[q] = pc[q] + 1 /\ reps'[q] = reps[q] /\ tx'[q] = tx[q] /\ q \notin arrived'
      BY <2>1, <1>1
    <3>3. Sound(Program(q), Txs, Plains, LoopDos)
      BY ProgramSound DEF Control, Typed
    <3>4. InLoop(Program(q), pc[q] + 1) => InLoop(Program(q), pc[q])
      BY <3>1, <3>3, LoopMoves
    <3>5. InLoop(Program(q), pc[q])' => InLoop(Program(q), pc[q])
      BY <3>2, <3>4, <1>1, <1>2 DEF InLoop
    <3>6. BarsFrom(Program(q), pc[q]) = BarsFrom(Program(q), pc[q] + 1) + 1
      BY <3>1, BarsFromBarrier
    <3>7. BarsFrom(Program(q), pc[q] + 1) \in Nat
      <4>1. pc[q] + 1 \in Nat
        BY <3>1
      <4> QED
        BY <4>1, <3>1, BarsFromFinite
    <3>8. Ahead(q)' = BarsFrom(Program(q), pc[q] + 1)
      BY <3>2, <1>2 DEF Ahead, BarsFrom
    <3>9. ~InTx(q)'
      BY <3>1, <3>2 DEF InTx
    <3>10. Placed(q)'
      BY <3>1, <3>2, <3>5, <3>9, <1>1, <1>2, <1>3, SameNumbers DEF Placed
    <3> QED
      BY <3>6, <3>7, <3>8, <3>10 DEF Ahead
  <2>4. Typed'
    <3>1. pc' \in [Apps -> Nat]
      BY <2>1, <1>3 DEF Typed
    <3> QED
      BY <3>1, <2>1, <1>1, <1>2, <1>3 DEF Typed
  <2>5. Level'
    BY <2>3, <1>1, <1>3 DEF Level
  <2> QED
    BY <2>3, <2>4, <2>5 DEF Control
<1>5. CASE arrived \cup {p} # Apps
  <2>1. arrived' = arrived \cup {p} /\ pc' = pc
    BY <1>5 DEF Arrive
  <2>2. Typed'
    BY <2>1, <1>1, <1>2, <1>3 DEF Typed
  <2>3. \A q \in Apps \ {p} : Untouched(q)
    BY <2>1, <1>1 DEF Untouched
  <2>4. Ahead(p)' = Ahead(p)
    BY <2>1, <1>2 DEF Ahead, BarsFrom
  <2>5. /\ \A do : At(p, do)' = At(p, do)
        /\ Stmt(p)' = Stmt(p) /\ InTx(p)' = InTx(p)
    BY <2>1, <1>1, <1>2 DEF At, Stmt, Ended, InTx
  <2>6. InLoop(Program(p), pc[p])' = InLoop(Program(p), pc[p])
    BY <2>1, <1>1, <1>2 DEF InLoop
  <2>7. ~InTx(p) /\ tx[p] = NoTx
    BY <1>1, AtFacts
  <2>8. Placed(p)'
    BY <2>1, <2>5, <2>6, <2>7, <1>1, <1>2, <1>3, SameNumbers DEF Placed
  <2> QED
    BY <2>2, <2>3, <2>4, <2>8, <1>1, OneSteps
<1> QED
  BY <1>4, <1>5

LEMMA StutterKeeps == Control /\ UNCHANGED vars => Control'
<1> SUFFICES ASSUME Control, UNCHANGED vars PROVE Control'
  OBVIOUS
<1>1. UNCHANGED <<prog, mem, pc, reps, arrived, tx, ci, done, counted>>
  BY DEF vars
<1>2. Numbers' = Numbers /\ Attempts' = Attempts /\ \A q : Program(q)' = Program(q)
  BY <1>1, SameNumbers, SameProgram
<1>3. \A q \in Apps : Untouched(q)
  BY <1>1 DEF Untouched
<1>4. \A q \in Apps : Placed(q)' /\ Ahead(q)' = Ahead(q)
  BY <1>1, <1>3, UntouchedStays DEF Control
<1>5. Typed'
  BY <1>1, <1>2 DEF Control, Typed
<1> QED
  BY <1>1, <1>4, <1>5 DEF Control, Level

LEMMA InvStep == Control /\ [Next]_vars => Control'
<1> SUFFICES ASSUME Control, [Next]_vars PROVE Control'
  OBVIOUS
<1>1. ASSUME NEW p \in Apps, Transactional(p) PROVE Control'
  BY <1>1, BeginKeeps, LoadKeeps, StoreKeeps, WlockKeeps, AddKeeps, ReadRawKeeps, AbortKeeps, CommitKeeps DEF Transactional
<1>2. ASSUME NEW p \in Apps, Sequential(p) PROVE Control'
  BY <1>2, ArriveKeeps, EnterLoopKeeps, AgainKeeps, ChunkLoopKeeps, CountChunkKeeps, PlainWriteKeeps, PlainTotalKeeps
     DEF Sequential
<1>3. CASE Terminated
  BY <1>3, StutterKeeps DEF Terminated
<1>4. CASE UNCHANGED vars
  BY <1>4, StutterKeeps
<1> QED
  BY <1>1, <1>2, <1>3, <1>4 DEF Next

THEOREM ControlHolds == Spec => []Control
BY InvInit, InvStep, PTL DEF Spec

\* The variables keep their types; locals of a transaction only exist inside one, and a node waits only at a
\* barrier.  The time of a loop ends it (EnterLoop), and no jump leads out of a program.
THEOREM TypesHold == Spec => []TypeOK
<1>1. Control => TypeOK
  <2> SUFFICES ASSUME Control PROVE TypeOK
    OBVIOUS
  <2>1. Typed /\ \A p \in Apps : Placed(p)
    BY DEF Control
  <2>2. mem \in [Readable -> Values]
    BY <2>1 DEF Typed, Numbers, Values
  <2>3. ASSUME NEW p \in Apps
        PROVE  /\ pc[p] \in Nat \ {0} /\ pc[p] <= Len(Program(p)) + 1 /\ reps[p] \in 1 .. Times + 1
               /\ p \in arrived => At(p, "barrier")
               /\ InTx(p) => At(p, "tx") /\ tx[p].at <= Len(tx[p].body) + 1
               /\ ~InTx(p) => tx[p] = NoTx
    BY <2>1, ProgramSound DEF Placed, Typed
  <2>4. pc \in [Apps -> Nat \ {0}] /\ reps \in [Apps -> 1 .. Times + 1]
    BY <2>1, <2>3 DEF Typed
  <2> QED
    BY <2>1, <2>2, <2>3, <2>4 DEF Typed, TypeOK
<1> QED
  BY <1>1, ControlHolds, PTL

\* No node waits at a barrier that another one will never reach (BARRIER of the clients): all have the same
\* number of barriers ahead, whatever the clocks of their loops do, and a node that has ended has none.
THEOREM BarriersHold == Spec => []BarriersMatch
<1>1. Control => BarriersMatch
  <2> SUFFICES ASSUME Control, prog # "tm2", NEW q \in arrived, NEW p \in Apps, Ended(p) PROVE FALSE
    BY DEF BarriersMatch
  <2>1. q \in Apps /\ At(q, "barrier") /\ Ahead(p) = Ahead(q)
    BY DEF Control, Typed, Placed, Level
  <2>2. Ahead(q) = BarsFrom(Program(q), pc[q] + 1) + 1 /\ BarsFrom(Program(q), pc[q] + 1) \in Nat
    <3>1. pc[q] \in 1 .. Len(Program(q)) /\ Len(Program(q)) \in Nat /\ Program(q)[pc[q]].do = "barrier"
      BY <2>1, AtFacts
    <3>2. pc[q] + 1 \in Nat
      BY <3>1
    <3>3. BarsFrom(Program(q), pc[q] + 1) \in Nat
      BY <3>1, <3>2, BarsFromFinite
    <3> QED
      BY <3>1, <3>3, BarsFromBarrier DEF Ahead
  <2>3. Ahead(p) = 0
    <3>1. Len(Program(p)) \in Nat /\ pc[p] \in 1 .. Len(Program(p)) + 1
      BY ProgramSound DEF Control, Typed, Placed
    <3>2. pc[p] = Len(Program(p)) + 1
      BY <3>1 DEF Ended
    <3> QED
      BY <3>1, <3>2, BarsFromEnds DEF Ahead
  <2> QED
    BY <2>1, <2>2, <2>3
<1> QED
  BY <1>1, ControlHolds, PTL

-----------------------------------------------------------------------------
(* What an attempt knows, whatever it does.                                  *)

Puts == {"store", "add"}

\* A body stores each word once at most, locks for writing what it increments and reads in place,
\* and reads one word in place at most.
Shape(body) ==
  /\ \A k, l \in 1 .. Len(body) : body[k].do \in Puts /\ body[l].do \in Puts /\ body[k].w = body[l].w => k = l
  /\ \A k \in 1 .. Len(body) : body[k].do \in {"add", "raw"} =>
       \E l \in 1 .. k - 1 : body[l].do = "wlock" /\ body[l].w = body[k].w
  /\ \A k, l \in 1 .. Len(body) : body[k].do = "raw" /\ body[l].do = "raw" => k = l

Reader(body) == \A k \in 1 .. Len(body) : body[k].do = "load"
Writer(body) == \A k \in 1 .. Len(body) : body[k].do # "load"

\* Entry e of a write set comes from operation op, with memory m.
FromOp(e, op, lost, m) ==
  /\ op.do \in Puts /\ e.w = op.w
  /\ op.do = "store" => e.v = op.v
  /\ op.do = "add" /\ ~lost => e.v = m[op.w] + op.v

\* The locks, the write set and the values of attempt t come from the operations it has done; the values are
\* those of memory m unless it has lost.
Tracks(t, m) ==
  /\ \A k \in 1 .. t.at - 1 : /\ t.body[k].do = "load" => t.body[k].w \in t.reads
                              /\ t.body[k].do = "wlock" => t.body[k].w \in t.wlocks
                              /\ t.body[k].do \in Puts => \E i \in 1 .. Len(t.ws) : t.ws[i].w = t.body[k].w
                              /\ t.body[k].do = "raw" /\ ~t.lost => t.raw = m[t.body[k].w]
  /\ \A i \in 1 .. Len(t.ws) : \E k \in 1 .. t.at - 1 : FromOp(t.ws[i], t.body[k], t.lost, m)
  /\ Reader(t.body) => /\ Len(t.vals) = t.at - 1
                       /\ ~t.lost => \A k \in 1 .. t.at - 1 : t.vals[k] = m[t.body[k].w]
  /\ Writer(t.body) => t.vals = <<>>

Tracked(p) == InTx(p) => Shape(tx[p].body) /\ Tracks(tx[p], mem)

-----------------------------------------------------------------------------
(* The memory of each program between transactions.                          *)

Balances(m) == [i \in 1 .. NbAccounts |-> m[i - 1]]
InBank == prog = "bank" => SumOf(Balances(mem)) = 0

\* The barriers a node of tm2 has passed
Passed(p) == IF pc[p] = 1 THEN 0 ELSE IF pc[p] \in {4, 5} THEN reps[p] + 1 ELSE reps[p]
InTm2 == prog = "tm2" =>
  /\ \A p, q \in Apps : Passed(p) = Passed(q)
  /\ \A p \in Apps : /\ pc[p] = 1 => reps[p] = 1
                     /\ pc[p] = 5 => \A w \in Words : mem[w] = reps[p] + w

\* The initial words: those of the nodes that have written theirs, if they do
Inits == prog \in {"tm4", "tm6", "tm8"}
Marked == \A w \in Words : mem[w] = IF Inits /\ w % NUM_UES \in Apps /\ pc[w % NUM_UES] > 1 THEN -1 ELSE 0
\* One node has written all.
Owned == \E id \in Apps : \A w \in Words : mem[w] = id
InTms ==
  /\ prog \in {"tm6", "tm8"} => Marked
  /\ prog \in {"tm4", "tm9"} => Marked \/ (Owned /\ (Inits => \A p \in Apps : pc[p] > 1))

SeenBy(p) ==
  LET what == last[p].what
      vals == last[p].vals
  IN  /\ what = "total" => SumOf(vals) = 0
      /\ what = "bank" /\ Len(vals) = NbAccounts => SumOf(vals) = 0
      /\ what = "read_reps" => prog = "tm2" /\ SumOf(vals) = SumOf([i \in 1 .. Size |-> reps[p] - 1 + i - 1])
      /\ what = "load_or_store" /\ p = min_app_id =>
           \/ vals = IF prog = "tm4" THEN Initially ELSE Zeros
           \/ \E id \in Apps : vals = [i \in 1 .. Size |-> id]
      /\ what = "load_or_store_2" => vals = SubSeq(Initially, 3, Size)
      /\ what \in {"load_all", "load_or_store_0"} => vals = Initially

SeenInv == DOMAIN last = Apps /\ (\A p \in Apps : Tracked(p)) /\ InBank /\ InTm2 /\ InTms /\ \A p \in Apps : SeenBy(p)

-----------------------------------------------------------------------------
(* Each operation keeps what an attempt knows.                               *)

LEMMA StepFields ==
  ASSUME NEW p, NEW t \in Attempts
  PROVE  LET u == Step(p, t)
         IN  /\ u.body = t.body /\ u.at = t.at + 1 /\ u.reads = t.reads /\ u.wlocks = t.wlocks /\ u.ws = t.ws
             /\ u.vals = t.vals /\ u.raw = t.raw /\ u.lost = t.lost
BY DEF Step, Attempts

LEMMA LoadedFields ==
  ASSUME NEW t \in Attempts, NEW w, NEW v, NEW u, u = Loaded(t, w, v)
  PROVE  /\ u.body = t.body /\ u.at = t.at /\ u.reads = t.reads \cup {w} /\ u.wlocks = t.wlocks
         /\ u.ws = t.ws /\ u.vals = Append(t.vals, v) /\ u.raw = t.raw /\ u.lost = t.lost
BY DEF Loaded, Attempts

LEMMA StoredFields ==
  ASSUME NEW t \in Attempts, NEW op, NEW u, u = Stored(t, op)
  PROVE  /\ u.body = t.body /\ u.at = t.at /\ u.reads = t.reads /\ u.wlocks = t.wlocks
         /\ u.ws = Append(t.ws, op) /\ u.vals = t.vals /\ u.raw = t.raw /\ u.lost = t.lost
BY DEF Stored, Attempts

LEMMA LockedFields ==
  ASSUME NEW t \in Attempts, NEW w, NEW u, u = Locked(t, w)
  PROVE  /\ u.body = t.body /\ u.at = t.at /\ u.reads = t.reads /\ u.wlocks = t.wlocks \cup {w}
         /\ u.ws = t.ws /\ u.vals = t.vals /\ u.raw = t.raw /\ u.lost = t.lost
BY DEF Locked, Attempts

LEMMA SeenFields ==
  ASSUME NEW t \in Attempts, NEW v, NEW u, u = Seen(t, v)
  PROVE  /\ u.body = t.body /\ u.at = t.at /\ u.reads = t.reads /\ u.wlocks = t.wlocks
         /\ u.ws = t.ws /\ u.vals = t.vals /\ u.raw = v /\ u.lost = t.lost
BY DEF Seen, Attempts

LEMMA TrackStart ==
  ASSUME NEW body \in Seq(Ops), NEW m
  PROVE  Tracks(Start(body), m)
<1>1. PICK t : t = Start(body)
  OBVIOUS
<1>2. t.body = body /\ t.at = 1 /\ t.ws = <<>> /\ t.vals = <<>>
  BY <1>1, StartTyped
<1>3. 1 .. t.at - 1 = {} /\ Len(t.ws) = 0 /\ Len(t.vals) = t.at - 1
  BY <1>2
<1> QED
  BY <1>1, <1>2, <1>3 DEF Tracks

\* An attempt u that differs from t in that operation n is over
After(t, u, n) ==
  /\ t \in Attempts /\ n = t.at /\ n \in 1 .. Len(t.body) /\ u.body = t.body /\ u.at = n + 1 /\ u.lost = t.lost
  /\ t.reads \subseteq u.reads /\ t.wlocks \subseteq u.wlocks

LEMMA AfterRange ==
  ASSUME NEW t, NEW u, NEW n, After(t, u, n)
  PROVE  /\ n \in Nat /\ u.at - 1 = n /\ t.at - 1 = n - 1
         /\ \A k \in 1 .. u.at - 1 : k = n \/ k \in 1 .. t.at - 1
         /\ \A k \in 1 .. t.at - 1 : k \in 1 .. u.at - 1
         /\ n \in 1 .. u.at - 1
<1>1. n \in Nat /\ n >= 1 /\ u.at = n + 1 /\ t.at = n
  BY DEF After
<1> QED
  BY <1>1

LEMMA TrackLoad ==
  ASSUME NEW t \in Attempts, NEW u, NEW n, NEW m, Tracks(t, m), After(t, u, n), t.body[n].do = "load",
         t.body[n].w \in u.reads, u.ws = t.ws, u.raw = t.raw, u.vals = Append(t.vals, m[t.body[n].w])
  PROVE  Tracks(u, m)
<1>1. /\ n \in Nat /\ u.at - 1 = n /\ t.at - 1 = n - 1 /\ u.body = t.body /\ u.lost = t.lost /\ n \in 1 .. u.at - 1
      /\ \A k \in 1 .. u.at - 1 : k = n \/ k \in 1 .. t.at - 1
      /\ \A k \in 1 .. t.at - 1 : k \in 1 .. u.at - 1
      /\ t.reads \subseteq u.reads /\ t.wlocks \subseteq u.wlocks
  BY AfterRange DEF After
<1>2. ASSUME NEW k \in 1 .. u.at - 1
      PROVE  /\ u.body[k].do = "load" => u.body[k].w \in u.reads
             /\ u.body[k].do = "wlock" => u.body[k].w \in u.wlocks
             /\ u.body[k].do \in Puts => \E i \in 1 .. Len(u.ws) : u.ws[i].w = u.body[k].w
             /\ u.body[k].do = "raw" /\ ~u.lost => u.raw = m[u.body[k].w]
  <2>1. CASE k = n
    BY <2>1, <1>1 DEF Puts
  <2>2. CASE k \in 1 .. t.at - 1
    BY <2>2, <1>1 DEF Tracks
  <2> QED
    BY <2>1, <2>2, <1>1
<1>3. \A i \in 1 .. Len(u.ws) : \E k \in 1 .. u.at - 1 : FromOp(u.ws[i], u.body[k], u.lost, m)
  BY <1>1 DEF Tracks
<1>4. ASSUME Reader(u.body)
      PROVE  /\ Len(u.vals) = u.at - 1
             /\ ~u.lost => \A k \in 1 .. u.at - 1 : u.vals[k] = m[u.body[k].w]
  <2>1. Len(t.vals) = n - 1 /\ (~t.lost => \A k \in 1 .. n - 1 : t.vals[k] = m[t.body[k].w])
    BY <1>1, <1>4 DEF Tracks
  <2>2. t.vals \in Seq(Numbers)
    BY DEF Attempts
  <2>3. Len(u.vals) = n /\ u.vals[n] = m[t.body[n].w] /\ \A k \in 1 .. n - 1 : u.vals[k] = t.vals[k]
    BY <2>1, <2>2, <1>1
  <2> QED
    BY <2>1, <2>3, <1>1
<1>5. ~Writer(u.body)
  BY <1>1 DEF Writer, After
<1> QED
  BY <1>2, <1>3, <1>4, <1>5 DEF Tracks

LEMMA TrackPut ==
  ASSUME NEW t \in Attempts, NEW u, NEW n, NEW m, NEW e, Tracks(t, m), After(t, u, n),
         FromOp(e, t.body[n], t.lost, m), u.ws = Append(t.ws, e), u.raw = t.raw, u.vals = t.vals
  PROVE  Tracks(u, m)
<1>1. /\ n \in Nat /\ u.at - 1 = n /\ t.at - 1 = n - 1 /\ u.body = t.body /\ u.lost = t.lost /\ n \in 1 .. u.at - 1
      /\ \A k \in 1 .. u.at - 1 : k = n \/ k \in 1 .. t.at - 1
      /\ \A k \in 1 .. t.at - 1 : k \in 1 .. u.at - 1
      /\ t.reads \subseteq u.reads /\ t.wlocks \subseteq u.wlocks
  BY AfterRange DEF After
<1>5. t.ws \in Seq(Ops)
  BY DEF Attempts
<1>6. PICK l \in Nat : l = Len(t.ws)
  BY <1>5
<1>7. Len(u.ws) = l + 1 /\ u.ws[l + 1] = e /\ \A i \in 1 .. l : u.ws[i] = t.ws[i]
  BY <1>5, <1>6
<1>8. t.body[n].do \in Puts /\ e.w = t.body[n].w
  BY DEF FromOp
<1>9. (\A i \in 1 .. l + 1 : i = l + 1 \/ i \in 1 .. l) /\ l + 1 \in 1 .. l + 1 /\ (\A i \in 1 .. l : i \in 1 .. l + 1)
  OBVIOUS
<1>2. ASSUME NEW k \in 1 .. u.at - 1
      PROVE  /\ u.body[k].do = "load" => u.body[k].w \in u.reads
             /\ u.body[k].do = "wlock" => u.body[k].w \in u.wlocks
             /\ u.body[k].do \in Puts => \E i \in 1 .. Len(u.ws) : u.ws[i].w = u.body[k].w
             /\ u.body[k].do = "raw" /\ ~u.lost => u.raw = m[u.body[k].w]
  <2>1. CASE k = n
    <3>1. u.ws[l + 1].w = u.body[k].w /\ l + 1 \in 1 .. Len(u.ws)
      BY <2>1, <1>1, <1>7, <1>8, <1>9
    <3> QED
      BY <3>1, <2>1, <1>1, <1>8 DEF Puts
  <2>2. CASE k \in 1 .. t.at - 1
    <3>1. t.body[k].do \in Puts => \E i \in 1 .. l : t.ws[i].w = t.body[k].w
      BY <2>2, <1>6 DEF Tracks
    <3>2. u.body[k].do \in Puts => \E i \in 1 .. Len(u.ws) : u.ws[i].w = u.body[k].w
      BY <3>1, <1>1, <1>7, <1>9
    <3> QED
      BY <3>2, <2>2, <1>1 DEF Tracks
  <2> QED
    BY <2>1, <2>2, <1>1
<1>3. ASSUME NEW i \in 1 .. Len(u.ws)
      PROVE  \E k \in 1 .. u.at - 1 : FromOp(u.ws[i], u.body[k], u.lost, m)
  <2>1. CASE i = l + 1
    BY <2>1, <1>1, <1>7
  <2>2. CASE i \in 1 .. l
    <3>1. \E k \in 1 .. t.at - 1 : FromOp(t.ws[i], t.body[k], t.lost, m)
      BY <2>2, <1>6 DEF Tracks
    <3> QED
      BY <3>1, <2>2, <1>1, <1>7
  <2> QED
    BY <2>1, <2>2, <1>7, <1>9
<1>4. ~Reader(u.body)
  BY <1>1, <1>8 DEF Reader, Puts, After
<1>10. Writer(u.body) => u.vals = <<>>
  BY <1>1 DEF Tracks
<1> QED
  BY <1>2, <1>3, <1>4, <1>10 DEF Tracks

LEMMA TrackLock ==
  ASSUME NEW t \in Attempts, NEW u, NEW n, NEW m, Tracks(t, m), After(t, u, n), t.body[n].do = "wlock",
         t.body[n].w \in u.wlocks, u.ws = t.ws, u.raw = t.raw, u.vals = t.vals
  PROVE  Tracks(u, m)
<1>1. /\ n \in Nat /\ u.at - 1 = n /\ t.at - 1 = n - 1 /\ u.body = t.body /\ u.lost = t.lost /\ n \in 1 .. u.at - 1
      /\ \A k \in 1 .. u.at - 1 : k = n \/ k \in 1 .. t.at - 1
      /\ \A k \in 1 .. t.at - 1 : k \in 1 .. u.at - 1
      /\ t.reads \subseteq u.reads /\ t.wlocks \subseteq u.wlocks
  BY AfterRange DEF After
<1>2. ASSUME NEW k \in 1 .. u.at - 1
      PROVE  /\ u.body[k].do = "load" => u.body[k].w \in u.reads
             /\ u.body[k].do = "wlock" => u.body[k].w \in u.wlocks
             /\ u.body[k].do \in Puts => \E i \in 1 .. Len(u.ws) : u.ws[i].w = u.body[k].w
             /\ u.body[k].do = "raw" /\ ~u.lost => u.raw = m[u.body[k].w]
  <2>1. CASE k = n
    BY <2>1, <1>1 DEF Puts
  <2>2. CASE k \in 1 .. t.at - 1
    BY <2>2, <1>1 DEF Tracks
  <2> QED
    BY <2>1, <2>2, <1>1
<1>3. \A i \in 1 .. Len(u.ws) : \E k \in 1 .. u.at - 1 : FromOp(u.ws[i], u.body[k], u.lost, m)
  BY <1>1 DEF Tracks
<1>4. ~Reader(u.body)
  BY <1>1 DEF Reader, After
<1>10. Writer(u.body) => u.vals = <<>>
  BY <1>1 DEF Tracks
<1> QED
  BY <1>2, <1>3, <1>4, <1>10 DEF Tracks

LEMMA TrackRaw ==
  ASSUME NEW t \in Attempts, NEW u, NEW n, NEW m, Tracks(t, m), After(t, u, n), t.body[n].do = "raw", Shape(t.body),
         u.ws = t.ws, u.raw = m[t.body[n].w], u.vals = t.vals
  PROVE  Tracks(u, m)
<1>1. /\ n \in Nat /\ u.at - 1 = n /\ t.at - 1 = n - 1 /\ u.body = t.body /\ u.lost = t.lost /\ n \in 1 .. u.at - 1
      /\ \A k \in 1 .. u.at - 1 : k = n \/ k \in 1 .. t.at - 1
      /\ \A k \in 1 .. t.at - 1 : k \in 1 .. u.at - 1
      /\ t.reads \subseteq u.reads /\ t.wlocks \subseteq u.wlocks
  BY AfterRange DEF After
<1>5. ASSUME NEW k \in 1 .. t.at - 1
      PROVE  t.body[k].do # "raw"
  <2>1. k \in 1 .. Len(t.body) /\ n \in 1 .. Len(t.body) /\ k # n
    BY <1>1 DEF After
  <2> QED
    BY <2>1 DEF Shape
<1>2. ASSUME NEW k \in 1 .. u.at - 1
      PROVE  /\ u.body[k].do = "load" => u.body[k].w \in u.reads
             /\ u.body[k].do = "wlock" => u.body[k].w \in u.wlocks
             /\ u.body[k].do \in Puts => \E i \in 1 .. Len(u.ws) : u.ws[i].w = u.body[k].w
             /\ u.body[k].do = "raw" /\ ~u.lost => u.raw = m[u.body[k].w]
  <2>1. CASE k = n
    BY <2>1, <1>1 DEF Puts
  <2>2. CASE k \in 1 .. t.at - 1
    BY <2>2, <1>1, <1>5 DEF Tracks
  <2> QED
    BY <2>1, <2>2, <1>1
<1>3. \A i \in 1 .. Len(u.ws) : \E k \in 1 .. u.at - 1 : FromOp(u.ws[i], u.body[k], u.lost, m)
  BY <1>1 DEF Tracks
<1>4. ~Reader(u.body)
  BY <1>1 DEF Reader, After
<1>10. Writer(u.body) => u.vals = <<>>
  BY <1>1 DEF Tracks
<1> QED
  BY <1>2, <1>3, <1>4, <1>10 DEF Tracks

\* Another node takes locks away, or writes words that this attempt has not locked.
LEMMA TrackStays ==
  ASSUME NEW t \in Attempts, NEW u, NEW m, NEW n, Tracks(t, m), Shape(t.body), t.at <= Len(t.body) + 1,
         u.body = t.body, u.at = t.at, u.reads = t.reads, u.wlocks = t.wlocks, u.ws = t.ws, u.vals = t.vals,
         u.raw = t.raw, t.lost => u.lost, ~u.lost => \A w \in t.reads \cup t.wlocks : n[w] = m[w]
  PROVE  Tracks(u, n)
<1>1. t.at \in Nat /\ t.body \in Seq(Ops) /\ \A k \in 1 .. t.at - 1 : k \in 1 .. Len(t.body)
  BY DEF Attempts
<1>2. ASSUME NEW k \in 1 .. t.at - 1, t.body[k].do \in {"add", "raw"}
      PROVE  t.body[k].w \in t.wlocks
  <2>1. PICK l \in 1 .. k - 1 : t.body[l].do = "wlock" /\ t.body[l].w = t.body[k].w
    BY <1>1, <1>2 DEF Shape
  <2>2. l \in 1 .. t.at - 1
    BY <1>1
  <2> QED
    BY <2>1, <2>2 DEF Tracks
<1>3. ASSUME NEW k \in 1 .. u.at - 1
      PROVE  /\ u.body[k].do = "load" => u.body[k].w \in u.reads
             /\ u.body[k].do = "wlock" => u.body[k].w \in u.wlocks
             /\ u.body[k].do \in Puts => \E i \in 1 .. Len(u.ws) : u.ws[i].w = u.body[k].w
             /\ u.body[k].do = "raw" /\ ~u.lost => u.raw = n[u.body[k].w]
  BY <1>2 DEF Tracks
<1>4. ASSUME NEW i \in 1 .. Len(u.ws)
      PROVE  \E k \in 1 .. u.at - 1 : FromOp(u.ws[i], u.body[k], u.lost, n)
  <2>1. PICK k \in 1 .. t.at - 1 : FromOp(t.ws[i], t.body[k], t.lost, m)
    BY DEF Tracks
  <2>2. FromOp(u.ws[i], u.body[k], u.lost, n)
    BY <2>1, <1>2 DEF FromOp
  <2> QED
    BY <2>2
<1>5. ASSUME Reader(u.body)
      PROVE  /\ Len(u.vals) = u.at - 1
             /\ ~u.lost => \A k \in 1 .. u.at - 1 : u.vals[k] = n[u.body[k].w]
  <2>1. Len(t.vals) = t.at - 1 /\ (~t.lost => \A k \in 1 .. t.at - 1 : t.vals[k] = m[t.body[k].w])
    BY <1>5 DEF Tracks
  <2>2. \A k \in 1 .. t.at - 1 : t.body[k].w \in t.reads
    BY <1>1, <1>5 DEF Tracks, Reader
  <2> QED
    BY <2>1, <2>2
<1>6. Writer(u.body) => u.vals = <<>>
  BY DEF Tracks
<1> QED
  BY <1>3, <1>4, <1>5, <1>6 DEF Tracks

-----------------------------------------------------------------------------
(* The bodies of the transactions.                                           *)

LEMMA OpIs == \A do, w, v : Op(do, w, v).do = do /\ Op(do, w, v).w = w /\ Op(do, w, v).v = v
BY DEF Op

\* A body that loads words from a on, one after the other
LoadsFrom(body, n, a) == /\ Len(body) = n
                         /\ \A k \in 1 .. n : body[k].do = "load" /\ body[k].w = a + k - 1

LEMMA LoadAllLoads ==
  ASSUME NEW n \in Nat
  PROVE  LoadAll(n) \in Seq({Op("load", i - 1, 0) : i \in 1 .. n}) /\ LoadsFrom(LoadAll(n), n, 0)
<1>1. LoadAll(n) = [i \in 1 .. n |-> Op("load", i - 1, 0)]
  BY LoadAllIs
<1>2. \A k \in 1 .. n : Op("load", k - 1, 0).do = "load" /\ Op("load", k - 1, 0).w = k - 1
  BY OpIs
<1>3. PICK f : f = [i \in 1 .. n |-> Op("load", i - 1, 0)]
  OBVIOUS
<1>4. f \in Seq({Op("load", i - 1, 0) : i \in 1 .. n}) /\ Len(f) = n /\ \A k \in 1 .. n : f[k] = Op("load", k - 1, 0)
  <2>1. PICK T : T = {Op("load", i - 1, 0) : i \in 1 .. n}
    OBVIOUS
  <2>2. \A k \in 1 .. n : f[k] = Op("load", k - 1, 0) /\ f[k] \in T
    BY Zenon, <1>3, <2>1
  <2>3. f \in [1 .. n -> T]
    BY <1>3, <2>2
  <2>4. f \in Seq(T) /\ Len(f) = n
    BY <2>3
  <2> QED
    BY Zenon, <2>1, <2>2, <2>4
<1>6. ASSUME NEW k \in 1 .. n
      PROVE  f[k].do = "load" /\ f[k].w = 0 + k - 1
  <2>1. f[k] = Op("load", k - 1, 0)
    BY <1>4
  <2>2. f[k].do = "load" /\ f[k].w = k - 1
    BY <2>1, OpIs
  <2>3. k - 1 = 0 + k - 1
    OBVIOUS
  <2> QED
    BY <2>2, <2>3
<1>5. LoadsFrom(f, n, 0)
  BY Zenon, <1>6, <1>4 DEF LoadsFrom
<1> QED
  BY <1>1, <1>3, <1>4, <1>5

LEMMA FromTwoLoads == LoadsFrom(From2(LoadAll(Size)), Size - 2, 2)
<1>1. Size \in Nat /\ Size >= 3
  BY SizeFacts
<1>2. PICK s, T : s = LoadAll(Size) /\ s \in Seq(T) /\ LoadsFrom(s, Size, 0)
  BY <1>1, LoadAllLoads
<1>3. From2(s) = [i \in 1 .. Size - 2 |-> s[i + 2]]
  <2>1. Size - 3 + 1 = Size - 2 /\ \A i \in 1 .. Size - 2 : i + 3 - 1 = i + 2
    BY <1>1
  <2> QED
    BY <2>1, <1>1, <1>2 DEF From2, LoadsFrom
<1>4. PICK r : r = From2(s)
  OBVIOUS
<1>5. Len(r) = Size - 2
  BY <1>1, <1>3, <1>4
<1>6. ASSUME NEW k \in 1 .. Size - 2
      PROVE  r[k].do = "load" /\ r[k].w = 2 + k - 1
  <2>1. r[k] = s[k + 2] /\ k + 2 \in 1 .. Size
    BY <1>1, <1>3, <1>4
  <2>2. s[k + 2].do = "load" /\ s[k + 2].w = 0 + (k + 2) - 1
    BY <2>1, <1>2 DEF LoadsFrom
  <2> QED
    BY <2>1, <2>2
<1> QED
  BY <1>2, <1>4, <1>5, <1>6 DEF LoadsFrom

LEMMA LoadsRead ==
  ASSUME NEW body, NEW n, NEW a, LoadsFrom(body, n, a)
  PROVE  Reader(body)
BY DEF LoadsFrom, Reader

LEMMA ReaderShape ==
  ASSUME NEW body, Reader(body)
  PROVE  Shape(body)
BY DEF Reader, Shape, Puts

\* A body that stores f(i) in each word i
StoresAll(body, f) == /\ Len(body) = Size
                      /\ \A k \in 1 .. Size : body[k].do = "store" /\ body[k].w = k - 1 /\ body[k].v = f[k - 1]

LEMMA StoresShape ==
  ASSUME NEW body, NEW f, StoresAll(body, f)
  PROVE  Shape(body)
<1>1. Size \in Nat
  BY SizeFacts
<1>2. \A k, l \in 1 .. Size : k - 1 = l - 1 => k = l
  BY <1>1
<1> QED
  BY <1>1, <1>2 DEF StoresAll, Shape, Puts

LEMMA StoreAllStores ==
  ASSUME NEW id
  PROVE  StoresAll(StoreAll(id), [w \in Words |-> id])
<1>1. Size \in Nat /\ Words = 0 .. Size - 1
  BY SizeFacts
<1>2. StoreAll(id) = [i \in 1 .. Size |-> Op("store", i - 1, id)]
  BY StoreAllIs
<1>3. \A k \in 1 .. Size : /\ Op("store", k - 1, id).do = "store" /\ Op("store", k - 1, id).w = k - 1
                           /\ Op("store", k - 1, id).v = id /\ k - 1 \in Words
  BY <1>1, OpIs
<1>4. Len([i \in 1 .. Size |-> Op("store", i - 1, id)]) = Size
  BY <1>1
<1> QED
  BY <1>2, <1>3, <1>4 DEF StoresAll

LEMMA WriteRepsStores ==
  ASSUME NEW p
  PROVE  StoresAll(WriteReps(p), [w \in Words |-> reps[p] + w])
<1>1. Size \in Nat /\ Words = 0 .. Size - 1
  BY SizeFacts
<1>2. WriteReps(p) = [i \in 1 .. Size |-> Op("store", i - 1, reps[p] + (i - 1))]
  BY WriteRepsIs
<1>3. \A k \in 1 .. Size : LET op == Op("store", k - 1, reps[p] + (k - 1))
                           IN  op.do = "store" /\ op.w = k - 1 /\ op.v = reps[p] + (k - 1) /\ k - 1 \in Words
  BY <1>1, OpIs
<1>4. Len([i \in 1 .. Size |-> Op("store", i - 1, reps[p] + (i - 1))]) = Size
  BY <1>1
<1> QED
  BY <1>2, <1>3, <1>4 DEF StoresAll

\* Operations one after the other
LEMMA TwoAndTwo ==
  ASSUME NEW a, NEW b, NEW c, NEW d
  PROVE  LET r == <<a, b>> \o <<c, d>> IN Len(r) = 4 /\ r[1] = a /\ r[2] = b /\ r[3] = c /\ r[4] = d
<1>1. <<a, b>> \in Seq({a, b, c, d}) /\ <<c, d>> \in Seq({a, b, c, d})
  OBVIOUS
<1> QED
  BY <1>1, ConcatProperties

LEMMA TwoAndOne ==
  ASSUME NEW a, NEW b, NEW c
  PROVE  LET r == <<a, b>> \o <<c>> IN Len(r) = 3 /\ r[1] = a /\ r[2] = b /\ r[3] = c
<1>1. <<a, b>> \in Seq({a, b, c}) /\ <<c>> \in Seq({a, b, c})
  OBVIOUS
<1> QED
  BY <1>1, ConcatProperties

LEMMA OneAndOne ==
  ASSUME NEW a, NEW b
  PROVE  LET r == <<a>> \o <<b>> IN Len(r) = 2 /\ r[1] = a /\ r[2] = b
<1>1. <<a>> \in Seq({a, b}) /\ <<b>> \in Seq({a, b})
  OBVIOUS
<1> QED
  BY <1>1, ConcatProperties

\* A transfer: two increments, each after the lock of its word
TransferOf(body, src, dst) ==
  /\ Len(body) = 4
  /\ body[1].do = "wlock" /\ body[1].w = src /\ body[2].do = "add" /\ body[2].w = src /\ body[2].v = -1
  /\ body[3].do = "wlock" /\ body[3].w = dst /\ body[4].do = "add" /\ body[4].w = dst /\ body[4].v = 1

LEMMA TransferIs ==
  ASSUME NEW src, NEW dst
  PROVE  TransferOf(Transfer(src, dst), src, dst)
<1>1. Transfer(src, dst) = <<Op("wlock", src, 0), Op("add", src, -1)>> \o <<Op("wlock", dst, 0), Op("add", dst, 1)>>
  BY DEF Transfer, TxLoadStore
<1>2. PICK b : b = Transfer(src, dst)
  OBVIOUS
<1>3. /\ Len(b) = 4 /\ b[1] = Op("wlock", src, 0) /\ b[2] = Op("add", src, -1)
      /\ b[3] = Op("wlock", dst, 0) /\ b[4] = Op("add", dst, 1)
  BY <1>1, <1>2, TwoAndTwo
<1>4. TransferOf(b, src, dst)
  BY <1>3, OpIs DEF TransferOf
<1> QED
  BY <1>2, <1>4

LEMMA TransferShape ==
  ASSUME NEW body, NEW src, NEW dst, TransferOf(body, src, dst), src # dst
  PROVE  Shape(body)
<1>1. \A k \in 1 .. Len(body) : k = 1 \/ k = 2 \/ k = 3 \/ k = 4
  BY DEF TransferOf
<1>2. \A k \in 1 .. Len(body) : /\ body[k].do \in Puts => (k = 2 /\ body[k].w = src) \/ (k = 4 /\ body[k].w = dst)
                                /\ body[k].do # "raw"
  BY <1>1 DEF TransferOf, Puts
<1>3. \A k \in 1 .. Len(body) : body[k].do \in {"add", "raw"} => k - 1 \in 1 .. k - 1 /\ body[k - 1].do = "wlock" /\ body[k - 1].w = body[k].w
  BY <1>1 DEF TransferOf
<1> QED
  BY <1>2, <1>3 DEF Shape

LEMMA CheckIs ==
  ASSUME NEW src, NEW dst
  PROVE  LET b == CheckAccs(src, dst)
         IN  /\ Len(b) = 2 /\ b[1].do = "load" /\ b[1].w = src /\ b[2].do = "load" /\ b[2].w = dst /\ Reader(b)
<1>1. PICK b : b = CheckAccs(src, dst)
  OBVIOUS
<1>2. b = <<Op("load", src, 0)>> \o <<Op("load", dst, 0)>>
  BY <1>1 DEF CheckAccs, TxLoad
<1>3. Len(b) = 2 /\ b[1] = Op("load", src, 0) /\ b[2] = Op("load", dst, 0)
  BY <1>2, OneAndOne
<1>4. \A k \in 1 .. Len(b) : k = 1 \/ k = 2
  BY <1>3
<1>5. Reader(b)
  BY <1>3, <1>4, OpIs DEF Reader
<1> QED
  BY <1>1, <1>3, <1>5, OpIs

NextChunkOf(body) ==
  /\ Len(body) = 3
  /\ body[1].do = "wlock" /\ body[1].w = ChunkIndex /\ body[2].do = "add" /\ body[2].w = ChunkIndex /\ body[2].v = 1
  /\ body[3].do = "raw" /\ body[3].w = ChunkIndex

LEMMA NextChunkIs == NextChunkOf(NextChunk) /\ Shape(NextChunk)
<1>1. NextChunk = <<Op("wlock", ChunkIndex, 0), Op("add", ChunkIndex, 1)>> \o <<Op("raw", ChunkIndex, 0)>>
  BY DEF NextChunk, TxLoadStore, Raw
<1>3. PICK b : b = NextChunk
  OBVIOUS
<1>7. Len(b) = 3 /\ b[1] = Op("wlock", ChunkIndex, 0) /\ b[2] = Op("add", ChunkIndex, 1) /\ b[3] = Op("raw", ChunkIndex, 0)
  BY <1>1, <1>3, TwoAndOne
<1>2. NextChunkOf(b)
  BY <1>7, OpIs DEF NextChunkOf
<1>4. \A k \in 1 .. Len(b) : k = 1 \/ k = 2 \/ k = 3
  BY <1>7
<1>5. \A k \in 1 .. Len(b) : (b[k].do \in Puts <=> k = 2) /\ (b[k].do = "raw" <=> k = 3)
  BY <1>2, <1>3, <1>4 DEF NextChunkOf, Puts
<1>6. \A k \in 1 .. Len(b) : b[k].do \in {"add", "raw"} => 1 \in 1 .. k - 1 /\ b[1].do = "wlock" /\ b[1].w = b[k].w
  BY <1>2, <1>3, <1>4 DEF NextChunkOf
<1> QED
  BY <1>2, <1>3, <1>5, <1>6 DEF Shape

\* The merge of map-reduce: the increments of the classes that occur
MergeOf(body, p) ==
  /\ \A k \in 1 .. Len(body) : body[k].do \in {"wlock", "add"}
  /\ \A k \in 1 .. Len(body) : body[k].do = "add" =>
       /\ body[k].w \in Classes /\ counted[p][body[k].w] # 0 /\ body[k].v = counted[p][body[k].w]
       /\ k - 1 \in 1 .. Len(body) /\ body[k - 1].do = "wlock" /\ body[k - 1].w = body[k].w
  /\ \A k, l \in 1 .. Len(body) : body[k].do = "add" /\ body[l].do = "add" /\ body[k].w = body[l].w => k = l
  /\ \A c \in Classes : counted[p][c] # 0 => \E k \in 1 .. Len(body) : body[k].do = "add" /\ body[k].w = c

LEMMA MergeBody ==
  ASSUME prog = "mr", NEW p \in Apps, counted[p] \in [Classes -> Nat]
  PROVE  MergeOf(Merge(p), p)
<1> DEFINE s == [i \in 1 .. Size |-> MergePiece(p, i - 1)]
<1>1. Size \in Nat /\ (\A i \in 1 .. Size : i - 1 \in Readable) /\ (\A c \in Classes : c + 1 \in 1 .. Size /\ (c + 1) - 1 = c)
  BY SizeFacts DEF Classes
<1>2. s \in Seq(Seq(Ops)) /\ Len(s) = Size
  <2>1. \A i \in 1 .. Size : MergePiece(p, i - 1) \in Seq(Ops)
    BY <1>1, PiecesTyped
  <2> QED
    BY <2>1, <1>1
<1>3. PICK r : r = Merge(p)
  OBVIOUS
<1>4. r = FlattenSeq(s)
  BY <1>3, MergeIs
<1>5. \A i \in 1 .. Size : s[i] = MergePiece(p, i - 1)
  OBVIOUS
<1> HIDE DEF s
<1>6. PICK a, b : Made(Ops, s, Size, r, a, b)
  BY <1>2, <1>4, Flattened
<1>7. /\ r \in Seq(Ops) /\ a \in [1 .. Len(r) -> 1 .. Size] /\ b \in [1 .. Len(r) -> Nat \ {0}]
      /\ \A k \in 1 .. Len(r) : /\ b[k] <= Len(s[a[k]]) /\ r[k] = s[a[k]][b[k]]
                                /\ b[k] > 1 => k > 1 /\ a[k - 1] = a[k] /\ b[k - 1] = b[k] - 1
      /\ \A i \in 1 .. Size : \A j \in 1 .. Len(s[i]) : \E k \in 1 .. Len(r) : a[k] = i /\ b[k] = j
      /\ \A k, l \in 1 .. Len(r) : a[k] = a[l] /\ b[k] = b[l] => k = l
  BY <1>6, Zenon DEF Made
\* What a piece is
<1>8. ASSUME NEW i \in 1 .. Size
      PROVE  IF i - 1 \in Classes /\ counted[p][i - 1] # 0
             THEN /\ Len(s[i]) = 2 /\ s[i][1].do = "wlock" /\ s[i][1].w = i - 1
                  /\ s[i][2].do = "add" /\ s[i][2].w = i - 1 /\ s[i][2].v = counted[p][i - 1]
             ELSE Len(s[i]) = 0
  <2>1. CASE i - 1 \in Classes /\ counted[p][i - 1] # 0
    <3>1. s[i] = <<Op("wlock", i - 1, 0), Op("add", i - 1, counted[p][i - 1])>>
      BY <2>1, <1>5 DEF MergePiece, TxLoadStore
    <3> QED
      BY <3>1, <2>1, OpIs
  <2>2. CASE ~(i - 1 \in Classes /\ counted[p][i - 1] # 0)
    <3>1. s[i] = <<>>
      BY <2>2, <1>5 DEF MergePiece
    <3> QED
      BY <3>1, <2>2
  <2> QED
    BY <2>1, <2>2
\* Where an operation comes from
<1>9. ASSUME NEW k \in 1 .. Len(r)
      PROVE  /\ a[k] - 1 \in Classes /\ counted[p][a[k] - 1] # 0 /\ r[k].w = a[k] - 1
             /\ b[k] = 1 => r[k].do = "wlock"
             /\ b[k] = 2 => r[k].do = "add" /\ r[k].v = counted[p][a[k] - 1]
             /\ b[k] = 1 \/ b[k] = 2
  <2>1. a[k] \in 1 .. Size /\ b[k] \in Nat \ {0} /\ b[k] <= Len(s[a[k]]) /\ r[k] = s[a[k]][b[k]]
    BY <1>7
  <2>2. a[k] - 1 \in Classes /\ counted[p][a[k] - 1] # 0
    BY <2>1, <1>8
  <2>3. b[k] = 1 \/ b[k] = 2
    BY <2>1, <2>2, <1>8
  <2> QED
    BY <2>1, <2>2, <2>3, <1>8
<1>10. \A k \in 1 .. Len(r) : r[k].do = "add" <=> b[k] = 2
  BY <1>9
<1>11. ASSUME NEW k \in 1 .. Len(r), r[k].do = "add"
       PROVE  k - 1 \in 1 .. Len(r) /\ r[k - 1].do = "wlock" /\ r[k - 1].w = r[k].w
  <2>1. b[k] = 2 /\ k > 1 /\ a[k - 1] = a[k] /\ b[k - 1] = 1
    BY <1>7, <1>10, <1>11
  <2>2. k - 1 \in 1 .. Len(r)
    BY <2>1, <1>7
  <2> QED
    BY <2>1, <2>2, <1>9
<1>12. ASSUME NEW k \in 1 .. Len(r), NEW l \in 1 .. Len(r), r[k].do = "add", r[l].do = "add", r[k].w = r[l].w
       PROVE  k = l
  <2>3. b[k] = 2 /\ b[l] = 2 /\ r[k].w = a[k] - 1 /\ r[l].w = a[l] - 1
    BY <1>9, <1>10, <1>12
  <2>4. a[k] \in 1 .. Size /\ a[l] \in 1 .. Size
    BY <1>7
  <2>1. a[k] - 1 = a[l] - 1 /\ a[k] \in Int /\ a[l] \in Int
    BY <2>3, <2>4, <1>12
  <2>2. a[k] = a[l]
    BY <2>1
  <2> QED
    BY <2>2, <2>3, <1>7
<1>13. ASSUME NEW c \in Classes, counted[p][c] # 0
       PROVE  \E k \in 1 .. Len(r) : r[k].do = "add" /\ r[k].w = c
  <2>1. PICK i \in 1 .. Size : i = c + 1 /\ i - 1 = c
    BY <1>1
  <2>2. Len(s[i]) = 2
    BY <2>1, <1>8, <1>13
  <2>3. 2 \in 1 .. Len(s[i])
    BY <2>2
  <2>4. PICK k \in 1 .. Len(r) : a[k] = i /\ b[k] = 2
    BY <2>3, <1>7
  <2> QED
    BY <2>1, <2>4, <1>9
<1>14. \A k \in 1 .. Len(r) : r[k].do \in {"wlock", "add"}
  BY <1>9
<1>15. \A k \in 1 .. Len(r) : r[k].do = "add" => r[k].w \in Classes /\ counted[p][r[k].w] # 0 /\ r[k].v = counted[p][r[k].w]
  BY <1>9, <1>10
<1>16. MergeOf(r, p)
  BY <1>11, <1>12, <1>13, <1>14, <1>15 DEF MergeOf
<1> QED
  BY <1>3, <1>16

LEMMA MergeShape ==
  ASSUME NEW p, NEW body \in Seq(Ops), MergeOf(body, p)
  PROVE  Shape(body)
<1>1. \A k \in 1 .. Len(body) : (body[k].do \in Puts => body[k].do = "add") /\ body[k].do # "raw"
  BY DEF MergeOf, Puts
<1>2. \A k \in 1 .. Len(body) : body[k].do \in {"add", "raw"} => \E l \in 1 .. k - 1 : body[l].do = "wlock" /\ body[l].w = body[k].w
  <2> SUFFICES ASSUME NEW k \in 1 .. Len(body), body[k].do = "add"
               PROVE  k - 1 \in 1 .. k - 1 /\ body[k - 1].do = "wlock" /\ body[k - 1].w = body[k].w
    BY <1>1
  <2> QED
    BY DEF MergeOf
<1> QED
  BY <1>1, <1>2 DEF Shape, MergeOf

\* The stores of tm5
LEMMA FromIdShape ==
  ASSUME prog # "mr", NEW p \in Apps
  PROVE  Shape(Each(LAMBDA w : IF w >= p THEN TxStore(w, p) ELSE <<>>, Size))
<1> DEFINE s == [i \in 1 .. Size |-> IdPiece(p, i - 1)]
<1>1. Size \in Nat /\ (\A i \in 1 .. Size : i - 1 \in Readable)
  BY SizeFacts
<1>2. s \in Seq(Seq(Ops)) /\ Len(s) = Size
  <2>1. \A i \in 1 .. Size : IdPiece(p, i - 1) \in Seq(Ops)
    BY <1>1, PiecesTyped
  <2> QED
    BY <2>1, <1>1
<1>3. PICK r : r = Each(LAMBDA w : IF w >= p THEN TxStore(w, p) ELSE <<>>, Size)
  OBVIOUS
<1>4. r = FlattenSeq(s)
  BY <1>3 DEF Each, IdPiece
<1>5. \A i \in 1 .. Size : s[i] = IdPiece(p, i - 1)
  OBVIOUS
<1> HIDE DEF s
<1>6. PICK a, b : Made(Ops, s, Size, r, a, b)
  BY <1>2, <1>4, Flattened
<1>7. /\ r \in Seq(Ops) /\ a \in [1 .. Len(r) -> 1 .. Size] /\ b \in [1 .. Len(r) -> Nat \ {0}]
      /\ \A k \in 1 .. Len(r) : b[k] <= Len(s[a[k]]) /\ r[k] = s[a[k]][b[k]]
      /\ \A k, l \in 1 .. Len(r) : a[k] = a[l] /\ b[k] = b[l] => k = l
  BY <1>6, Zenon DEF Made
<1>8. ASSUME NEW i \in 1 .. Size
      PROVE  Len(s[i]) = 0 \/ (Len(s[i]) = 1 /\ s[i][1].do = "store" /\ s[i][1].w = i - 1)
  <2>1. CASE i - 1 >= p
    <3>1. s[i] = <<Op("store", i - 1, p)>>
      BY <2>1, <1>5 DEF IdPiece, TxStore
    <3> QED
      BY <3>1, OpIs
  <2>2. CASE ~(i - 1 >= p)
    BY <2>2, <1>5 DEF IdPiece
  <2> QED
    BY <2>1, <2>2
<1>9. ASSUME NEW k \in 1 .. Len(r)
      PROVE  b[k] = 1 /\ r[k].do = "store" /\ r[k].w = a[k] - 1
  <2>1. a[k] \in 1 .. Size /\ b[k] \in Nat \ {0} /\ b[k] <= Len(s[a[k]]) /\ r[k] = s[a[k]][b[k]]
    BY <1>7
  <2> QED
    BY <2>1, <1>8
<1>10. \A k, l \in 1 .. Len(r) : r[k].w = r[l].w => k = l
  <2> SUFFICES ASSUME NEW k \in 1 .. Len(r), NEW l \in 1 .. Len(r), r[k].w = r[l].w PROVE k = l
    OBVIOUS
  <2>1. a[k] \in Int /\ a[l] \in Int /\ a[k] - 1 = a[l] - 1 /\ b[k] = b[l]
    BY <1>7, <1>9
  <2>2. a[k] = a[l]
    BY <2>1
  <2> QED
    BY <2>1, <2>2, <1>7
<1>11. Shape(r)
  BY <1>9, <1>10 DEF Shape
<1> QED
  BY <1>3, <1>11

LEMMA FromTwoStores ==
  ASSUME NEW id
  PROVE  Shape(From2(StoreAll(id)))
<1>1. Size \in Nat /\ Size >= 3
  BY SizeFacts
<1>2. StoreAll(id) = [i \in 1 .. Size |-> Op("store", i - 1, id)]
  BY StoreAllIs
<1>3. From2(StoreAll(id)) = [i \in 1 .. Size - 2 |-> Op("store", i + 1, id)]
  <2>1. PICK s : s = StoreAll(id)
    OBVIOUS
  <2>2. Size - 3 + 1 = Size - 2 /\ \A i \in 1 .. Size - 2 : i + 3 - 1 = i + 2 /\ i + 2 \in 1 .. Size /\ (i + 2) - 1 = i + 1
    BY <1>1
  <2>3. From2(s) = [i \in 1 .. Size - 2 |-> s[i + 2]]
    BY <1>1, <2>2 DEF From2
  <2>4. \A i \in 1 .. Size - 2 : s[i + 2] = Op("store", i + 1, id)
    BY <1>2, <2>1, <2>2
  <2> QED
    BY <2>1, <2>3, <2>4
<1>4. PICK r : r = From2(StoreAll(id))
  OBVIOUS
<1>5. Len(r) = Size - 2 /\ \A k \in 1 .. Size - 2 : r[k].do = "store" /\ r[k].w = k + 1
  BY <1>1, <1>3, <1>4, OpIs
<1>6. \A k, l \in 1 .. Size - 2 : k + 1 = l + 1 => k = l
  BY <1>1
<1> QED
  BY <1>4, <1>5, <1>6 DEF Shape

\* The bodies of all transactions have this shape.
LEMMA BodiesShaped ==
  ASSUME prog \in Progs, NEW p \in Apps, NEW what \in Txs, counted[p] \in [Classes -> Nat], reps[p] \in Nat,
         NEW body \in Bodies(p, what)
  PROVE  Shape(body)
<1>1. prog \in {"bank", "mr", "tm2", "tm3", "tm3_all", "tm4", "tm5", "tm6", "tm7", "tm8", "tm9"}
  BY ClientsAssumption
<1>2. /\ what \in {"empty", "bank", "next_chunk", "merge", "write_reps", "read_reps", "load_all", "load_or_store",
                   "load_or_store_0", "load_or_store_2", "store_from_id", "load_some", "load_round"}
      /\ what = "merge" => prog = "mr"
      /\ what = "store_from_id" => prog # "mr"
  BY <1>1 DEF Txs
<1>3. Shape(LoadAll(Size)) /\ Shape(LoadAll(NbAccounts)) /\ Shape(From2(LoadAll(Size)))
  BY SizeFacts, LoadAllLoads, FromTwoLoads, LoadsRead, ReaderShape
<1>4. Shape(StoreAll(p)) /\ Shape(WriteReps(p)) /\ Shape(From2(StoreAll(p)))
  BY StoreAllStores, WriteRepsStores, StoresShape, FromTwoStores
<1>5. CASE what = "empty"
  <2>1. body = <<>>
    BY <1>5 DEF Bodies
  <2>2. Reader(body)
    BY <2>1 DEF Reader
  <2> QED
    BY <2>2, ReaderShape
<1>6. CASE what = "bank"
  <2>1. body \in BankBodies
    BY <1>6 DEF Bodies
  <2>2. CASE body = LoadAll(NbAccounts)
    BY <2>2, <1>3
  <2>3. CASE \E a \in Pairs : body = CheckAccs(a[1], a[2])
    BY <2>3, CheckIs, ReaderShape
  <2>4. CASE \E a \in Pairs : body = Transfer(a[1], a[2])
    <3>1. PICK a \in Pairs : body = Transfer(a[1], a[2])
      BY <2>4
    <3>2. a[1] # a[2]
      BY DEF Pairs
    <3> QED
      BY <3>1, <3>2, TransferIs, TransferShape
  <2> QED
    BY <2>1, <2>2, <2>3, <2>4 DEF BankBodies
<1>7. CASE what = "next_chunk"
  <2>1. body = NextChunk
    BY <1>7 DEF Bodies
  <2> QED
    BY <2>1, NextChunkIs
<1>8. CASE what = "merge"
  <2>1. body = Merge(p)
    BY <1>8 DEF Bodies
  <2>2. body \in Seq(Ops)
    BY <1>2, <1>8, BodiesTyped
  <2> QED
    BY <2>1, <2>2, <1>2, <1>8, MergeBody, MergeShape
<1>9. CASE what = "write_reps"
  <2>1. body = WriteReps(p)
    BY <1>9 DEF Bodies
  <2> QED
    BY <2>1, <1>4
<1>10. CASE what \in {"read_reps", "load_all"}
  <2>1. body = LoadAll(Size)
    BY <1>10 DEF Bodies
  <2> QED
    BY <2>1, <1>3
<1>11. CASE what = "load_or_store"
  <2>1. body \in {LoadAll(Size), StoreAll(p)}
    BY <1>11 DEF Bodies
  <2> QED
    BY <2>1, <1>3, <1>4
<1>12. CASE what = "load_or_store_0"
  <2>1. body \in {LoadAll(Size), StoreAll(p)}
    BY <1>12 DEF Bodies
  <2> QED
    BY <2>1, <1>3, <1>4
<1>13. CASE what = "load_or_store_2"
  <2>1. body \in {From2(LoadAll(Size)), From2(StoreAll(p))}
    BY <1>13 DEF Bodies
  <2> QED
    BY <2>1, <1>3, <1>4
<1>14. CASE what = "store_from_id"
  <2>1. body = Each(LAMBDA w : IF w >= p THEN TxStore(w, p) ELSE <<>>, Size)
    BY <1>14 DEF Bodies
  <2> QED
    BY <2>1, <1>2, <1>14, FromIdShape
<1>15. CASE what = "load_some"
  <2>1. PICK w : body = TxLoad(w)
    BY <1>15 DEF Bodies
  <2>2. Reader(body)
    BY <2>1, OpIs DEF Reader, TxLoad
  <2> QED
    BY <2>2, ReaderShape
<1>16. CASE what = "load_round"
  <2>1. body = [i \in 1 .. REPS |-> Op("load", RoundWord(p, i - 1), 0)]
    BY <1>16, RoundIs DEF Bodies
  <2>2. Reader(body)
    <3>1. Len(body) = REPS
      BY <2>1, RoundsFacts
    <3> QED
      BY <2>1, <3>1, OpIs DEF Reader
  <2> QED
    BY <2>2, ReaderShape
<1> QED
  BY <1>2, <1>5, <1>6, <1>7, <1>8, <1>9, <1>10, <1>11, <1>12, <1>13, <1>14, <1>15, <1>16

-----------------------------------------------------------------------------
(* Words written without a transaction: nobody is in one.                    *)

JoinOf(r, s, t, n, m) ==
  Len(r) = n + m /\ (\A i \in 1 .. n : r[i] = s[i]) /\ (\A j \in 1 .. m : r[n + j] = t[j])

LEMMA Joined ==
  ASSUME NEW T, NEW s \in Seq(T), NEW t \in Seq(T)
  PROVE  JoinOf(s \o t, s, t, Len(s), Len(t))
<1>1. PICK n \in Nat, m \in Nat : n = Len(s) /\ m = Len(t)
  OBVIOUS
<1>2. \A i \in 1 .. n : i \in 1 .. n + m /\ i <= n
  OBVIOUS
<1>3. \A j \in 1 .. m : n + j \in 1 .. n + m /\ ~(n + j <= n) /\ (n + j) - n = j
  OBVIOUS
<1> QED
  BY <1>1, <1>2, <1>3, ConcatProperties DEF JoinOf

LEMMA BarsFromLess ==
  ASSUME NEW s, Len(s) \in Nat, NEW i \in Nat, NEW j \in Nat, i <= j
  PROVE  BarsFrom(s, j) <= BarsFrom(s, i)
<1> DEFINE S(k) == {l \in k .. Len(s) : s[l].do = "barrier"}
<1>1. IsFiniteSet(S(i)) /\ BarsFrom(s, i) = Cardinality(S(i)) /\ BarsFrom(s, j) = Cardinality(S(j))
  BY BarsFromFinite DEF BarsFrom
<1>2. S(j) \subseteq S(i)
  <2>1. \A l \in j .. Len(s) : l \in i .. Len(s)
    OBVIOUS
  <2> QED
    BY <2>1
<1> HIDE DEF S
<1> QED
  BY <1>1, <1>2, FS_Subset

\* Program p is an opening of n statements, without transactions, a barrier, and the rest.
SplitAt(s, n) ==
  /\ n \in Nat /\ Len(s) \in Nat /\ n < Len(s)
  /\ \A i \in 1 .. Len(s) : s[i].do = "tx" => i > n + 1
  /\ \A i \in 1 .. Len(s) : s[i].do = "plain" /\ s[i].what \in {"zero", "init"} => i <= n
  /\ \A i \in 1 .. n + 1 : BarsFrom(s, i) > RestBars
  /\ \A i \in Nat : i > n + 1 => BarsFrom(s, i) <= RestBars

LEMMA Split ==
  ASSUME prog \in Progs, NEW p
  PROVE  SplitAt(Program(p), Len(Opening(p)))
<1>1. Parts(p) /\ RestBars \in Nat
  BY ProgramParts, BarsOf
<1>2. PICK s, o, r : s = Program(p) /\ o = Opening(p) /\ r = Rest(p)
  OBVIOUS
<1>3. s = (o \o Barrier) \o r
  BY <1>1, <1>2 DEF Parts
<1>4. /\ Sound(o, {}, OpeningPlains, {}) /\ Sound(r, Txs, RestPlains, LoopDos) /\ Bars(r) = RestBars
  BY <1>1, <1>2 DEF Parts, Counts
<1>5. o \in Seq(Statements) /\ r \in Seq(Statements)
  BY <1>4 DEF Sound
<1>6. PICK n \in Nat, m \in Nat : n = Len(o) /\ m = Len(r)
  BY <1>5
<1>7. PICK b \in Statements : Barrier = <<b>> /\ b.do = "barrier"
  <2>1. Barrier = <<[do |-> "barrier", what |-> "", len |-> 0]>>
    BY DEF Barrier, St
  <2>2. [do |-> "barrier", what |-> "", len |-> 0] \in Statements
    BY DEF Statements, Dos, Whats
  <2> QED
    BY <2>1, <2>2
<1>8. PICK t : t = o \o Barrier
  OBVIOUS
<1>9. Longer(Statements, o, b, t)
  BY <1>5, <1>7, <1>8, OneMore
<1>10. t \in Seq(Statements) /\ Len(t) = n + 1 /\ t[n + 1] = b /\ \A i \in 1 .. n : t[i] = o[i]
  BY <1>6, <1>9 DEF Longer
<1>11. /\ Len(s) = n + 1 + m
       /\ \A i \in 1 .. n + 1 : s[i] = t[i]
       /\ \A i \in 1 .. m : s[n + 1 + i] = r[i]
  <2>1. s = t \o r /\ Len(t) = n + 1 /\ Len(r) = m
    BY <1>3, <1>6, <1>8, <1>10
  <2>4. PICK l \in Nat : l = n + 1
    OBVIOUS
  <2>5. s = t \o r /\ l = Len(t) /\ m = Len(r)
    BY <2>1, <2>4
  <2>6. t \in Seq(Statements) /\ r \in Seq(Statements) /\ l \in Nat /\ m \in Nat
    BY <1>5, <1>10
  <2>3. Len(s) = l + m /\ (\A i \in 1 .. l : s[i] = t[i]) /\ (\A j \in 1 .. m : s[l + j] = r[j])
    <3>1. JoinOf(t \o r, t, r, Len(t), Len(r))
      BY Zenon, <2>6, Joined
    <3>2. JoinOf(s, t, r, l, m)
      BY Zenon, <2>5, <3>1
    <3> QED
      BY Zenon, <3>2 DEF JoinOf
  <2> QED
    BY <2>3, <2>4
<1>12. \A i \in 1 .. Len(s) : i \in 1 .. n \/ i = n + 1 \/ \E j \in 1 .. m : i = n + 1 + j
  <2> SUFFICES ASSUME NEW i \in 1 .. Len(s), i > n + 1 PROVE \E j \in 1 .. m : i = n + 1 + j
    BY <1>11
  <2>1. i - (n + 1) \in 1 .. m /\ i = n + 1 + (i - (n + 1))
    BY <1>11
  <2> QED
    BY <2>1
<1>13. \A i \in 1 .. n : s[i] = o[i] /\ SoundAt(o, {}, OpeningPlains, {}, i)
  BY <1>4, <1>6, <1>10, <1>11 DEF Sound
<1>14. \A j \in 1 .. m : SoundAt(r, Txs, RestPlains, LoopDos, j)
  BY <1>4, <1>6 DEF Sound
<1>15. \A i \in 1 .. Len(s) : s[i].do = "tx" => i > n + 1
  <2> SUFFICES ASSUME NEW i \in 1 .. Len(s), s[i].do = "tx" PROVE i > n + 1
    OBVIOUS
  <2>1. i \notin 1 .. n
    BY <1>13 DEF SoundAt
  <2>2. i # n + 1
    <3>1. n + 1 \in 1 .. n + 1
      OBVIOUS
    <3> QED
      BY <3>1, <1>7, <1>10, <1>11
  <2> QED
    BY <2>1, <2>2, <1>12
<1>16. \A i \in 1 .. Len(s) : s[i].do = "plain" /\ s[i].what \in {"zero", "init"} => i <= n
  <2> SUFFICES ASSUME NEW i \in 1 .. Len(s), s[i].do = "plain", s[i].what \in {"zero", "init"} PROVE i <= n
    OBVIOUS
  <2>1. i # n + 1
    <3>1. n + 1 \in 1 .. n + 1
      OBVIOUS
    <3> QED
      BY <3>1, <1>7, <1>10, <1>11
  <2>2. ASSUME NEW j \in 1 .. m, i = n + 1 + j PROVE FALSE
    <3>1. s[i] = r[j] /\ SoundAt(r, Txs, RestPlains, LoopDos, j)
      BY <2>2, <1>11, <1>14
    <3>2. r[j].what \in RestPlains
      BY <3>1 DEF SoundAt
    <3> QED
      BY <3>1, <3>2 DEF RestPlains
  <2> QED
    BY <2>1, <2>2, <1>12
<1>17. BarsFrom(s, n + 2) = RestBars
  <2>1. BarsIn(r) \in SUBSET Int /\ IsFiniteSet(BarsIn(r)) /\ Cardinality(BarsIn(r)) = RestBars
    <3>1. IsFiniteSet(BarsIn(r)) /\ BarsIn(r) \subseteq 1 .. Len(r) /\ Len(r) \in Nat
      BY <1>6, BarsFinite
    <3>2. BarsIn(r) \subseteq Int
      BY <3>1
    <3> QED
      BY <3>1, <3>2, <1>4 DEF Bars
  <2>2. PICK d \in Int : d = n + 1
    OBVIOUS
  <2>3. Cardinality({i + d : i \in BarsIn(r)}) = RestBars
    BY <2>1, Shifted
  <2>4. {k \in n + 2 .. Len(s) : s[k].do = "barrier"} = {i + d : i \in BarsIn(r)}
    <3>1. ASSUME NEW k \in n + 2 .. Len(s), s[k].do = "barrier"
          PROVE  \E i \in BarsIn(r) : k = i + d
      <4>1. k - d \in 1 .. m /\ k = n + 1 + (k - d) /\ k = (k - d) + d
        BY <2>2, <1>11
      <4>2. r[k - d].do = "barrier"
        BY <4>1, <3>1, <1>11
      <4>3. k - d \in BarsIn(r)
        BY <4>1, <4>2, <1>6 DEF BarsIn
      <4> QED
        BY <4>1, <4>3
    <3>2. ASSUME NEW i \in BarsIn(r)
          PROVE  i + d \in n + 2 .. Len(s) /\ s[i + d].do = "barrier"
      <4>1. i \in 1 .. m /\ r[i].do = "barrier"
        BY <1>6 DEF BarsIn
      <4>2. i + d = n + 1 + i /\ i + d \in n + 2 .. Len(s)
        BY <4>1, <2>2, <1>11
      <4> QED
        BY <4>1, <4>2, <1>11
    <3> QED
      BY <3>1, <3>2
  <2> QED
    BY <2>3, <2>4 DEF BarsFrom
<1>18. Len(s) \in Nat /\ n + 1 \in 1 .. Len(s) /\ s[n + 1].do = "barrier"
  <2>1. n + 1 \in 1 .. n + 1 /\ Len(s) \in Nat /\ n + 1 \in 1 .. Len(s)
    BY <1>11
  <2> QED
    BY <2>1, <1>7, <1>10, <1>11
<1>19. BarsFrom(s, n + 1) = RestBars + 1
  <2>1. BarsFrom(s, n + 1) = BarsFrom(s, (n + 1) + 1) + 1
    BY <1>18, BarsFromBarrier
  <2>2. (n + 1) + 1 = n + 2
    OBVIOUS
  <2> QED
    BY <2>1, <2>2, <1>17
<1>20. \A i \in 1 .. n + 1 : BarsFrom(s, i) > RestBars
  <2> SUFFICES ASSUME NEW i \in 1 .. n + 1 PROVE BarsFrom(s, i) > RestBars
    OBVIOUS
  <2>1. i \in Nat /\ n + 1 \in Nat /\ i <= n + 1
    OBVIOUS
  <2>2. BarsFrom(s, n + 1) <= BarsFrom(s, i) /\ BarsFrom(s, i) \in Nat
    BY <2>1, <1>18, BarsFromLess, BarsFromFinite
  <2> QED
    BY <2>2, <1>1, <1>19
<1>21. \A i \in Nat : i > n + 1 => BarsFrom(s, i) <= RestBars
  <2> SUFFICES ASSUME NEW i \in Nat, i > n + 1 PROVE BarsFrom(s, i) <= RestBars
    OBVIOUS
  <2>1. n + 2 \in Nat /\ n + 2 <= i
    OBVIOUS
  <2> QED
    BY <2>1, <1>17, <1>18, BarsFromLess
<1>22. n < Len(s)
  BY <1>11
<1> QED
  BY <1>2, <1>6, <1>15, <1>16, <1>18, <1>20, <1>21, <1>22 DEF SplitAt

\* Whoever is in a transaction, or has done one, knows that all have written their initial words.
LEMMA StartedTogether ==
  ASSUME Control, prog # "tm2", NEW p \in Apps, NEW q \in Apps, At(p, "plain"), Stmt(p).what \in {"zero", "init"}
  PROVE  ~At(q, "tx")
<1> SUFFICES ASSUME At(q, "tx") PROVE FALSE
  OBVIOUS
<1>1. prog \in Progs /\ RestBars \in Nat
  BY BarsOf DEF Control, Typed
<1>2. PICK n, m : SplitAt(Program(p), n) /\ SplitAt(Program(q), m)
  BY <1>1, Split
<1>3. /\ pc[p] \in 1 .. Len(Program(p)) /\ Program(p)[pc[p]].do = "plain" /\ Program(p)[pc[p]].what \in {"zero", "init"}
      /\ pc[q] \in 1 .. Len(Program(q)) /\ Program(q)[pc[q]].do = "tx"
  BY AtFacts
<1>4. Ahead(p) > RestBars
  <2>1. pc[p] <= n /\ n \in Nat /\ Len(Program(p)) \in Nat
    BY <1>2, <1>3 DEF SplitAt
  <2>2. pc[p] \in 1 .. n + 1
    BY <2>1, <1>3
  <2> QED
    BY <2>2, <1>2 DEF SplitAt, Ahead
<1>5. Ahead(q) <= RestBars
  <2>1. pc[q] > m + 1 /\ pc[q] \in Nat
    BY <1>2, <1>3 DEF SplitAt
  <2> QED
    BY <2>1, <1>2 DEF SplitAt, Ahead
<1>6. Ahead(p) = Ahead(q) /\ Ahead(q) \in Nat
  <2>1. Ahead(p) = Ahead(q)
    BY DEF Control, Level
  <2>2. Len(Program(q)) \in Nat /\ pc[q] \in Nat
    BY <1>2, <1>3 DEF SplitAt
  <2> QED
    BY <2>1, <2>2, BarsFromFinite DEF Ahead
<1> QED
  BY <1>1, <1>4, <1>5, <1>6

LEMMA NobodyIn ==
  ASSUME Control, NEW p \in Apps, PlainWrite(p)
  PROVE  \A q \in Apps : ~InTx(q)
<1>1. At(p, "plain") /\ Stmt(p).what \in {"zero", "init"}
  BY DEF PlainWrite
<1>2. prog # "tm2"
  <2>1. Stmt(p).what \in Plains
    BY <1>1, AtFacts
  <2> QED
    BY <2>1 DEF Plains, OpeningPlains, RestPlains
<1> QED
  BY <1>1, <1>2, StartedTogether DEF Control, Placed

-----------------------------------------------------------------------------
(* All steps keep what the attempts know.                                    *)

\* A step of node p leaves another its attempt, but for locks it may lose, and the words it has locks for.
LeavesTo(q) ==
  /\ tx'[q] = tx[q] \/ (InTx(q) /\ tx'[q] = [tx[q] EXCEPT !.lost = TRUE])
  /\ InTx(q) /\ ~tx'[q].lost => \A w \in tx[q].reads \cup tx[q].wlocks : mem'[w] = mem[w]

LEMMA OtherTracked ==
  ASSUME Control, NEW q \in Apps, Tracked(q), LeavesTo(q)
  PROVE  Tracked(q)'
<1> SUFFICES ASSUME InTx(q)' PROVE Shape(tx'[q].body) /\ Tracks(tx'[q], mem')
  BY DEF Tracked
<1>1. PICK t, u : t = tx[q] /\ u = tx'[q]
  OBVIOUS
<1>2. t \in Attempts
  BY <1>1 DEF Control, Typed
<1>3. /\ u.body = t.body /\ u.at = t.at /\ u.reads = t.reads /\ u.wlocks = t.wlocks /\ u.ws = t.ws /\ u.vals = t.vals
      /\ u.raw = t.raw /\ (t.lost => u.lost)
  <2>1. CASE u = t
    BY <2>1
  <2>2. CASE u = [t EXCEPT !.lost = TRUE]
    BY <2>2, <1>2 DEF Attempts
  <2> QED
    BY <2>1, <2>2, <1>1 DEF LeavesTo
<1>4. InTx(q)
  BY <1>1, <1>3 DEF InTx
<1>5. Shape(t.body) /\ Tracks(t, mem) /\ t.at <= Len(t.body) + 1
  BY <1>1, <1>4 DEF Tracked, Control, Placed
<1>6. ~u.lost => \A w \in t.reads \cup t.wlocks : mem'[w] = mem[w]
  BY <1>1, <1>4 DEF LeavesTo
<1>7. PICK m, n : m = mem /\ n = mem'
  OBVIOUS
<1>8. Tracks(u, n)
  BY <1>2, <1>3, <1>5, <1>6, <1>7, TrackStays
<1> QED
  BY <1>1, <1>3, <1>5, <1>7, <1>8

LEMMA AllTracked ==
  ASSUME Control, NEW p \in Apps, \A q \in Apps : Tracked(q), Tracked(p)', \A q \in Apps \ {p} : LeavesTo(q)
  PROVE  \A q \in Apps : Tracked(q)'
BY OtherTracked

\* An operation of p that changes no word
OperationLeaves(p) ==
  mem' = mem /\ \A q \in Apps \ {p} : tx'[q] = tx[q] \/ (InTx(q) /\ tx'[q] = [tx[q] EXCEPT !.lost = TRUE])

LEMMA OperationTracked ==
  ASSUME Control, NEW p \in Apps, \A q \in Apps : Tracked(q), OperationLeaves(p),
         Shape(tx'[p].body) /\ Tracks(tx'[p], mem)
  PROVE  \A q \in Apps : Tracked(q)'
<1>1. Tracked(p)'
  BY DEF OperationLeaves, Tracked
<1>2. \A q \in Apps \ {p} : LeavesTo(q)
  BY DEF OperationLeaves, LeavesTo
<1> QED
  BY <1>1, <1>2, AllTracked

LEMMA WorkingTracked ==
  ASSUME Control, NEW p \in Apps, Tracked(p), Working(p)
  PROVE  /\ tx[p] \in Attempts /\ Shape(tx[p].body) /\ Tracks(tx[p], mem)
         /\ tx[p].at \in 1 .. Len(tx[p].body) /\ Cur(p) = tx[p].body[tx[p].at] /\ Cur(p) \in Ops
         /\ Cur(p).w \in Readable /\ mem[Cur(p).w] \in Numbers /\ Cur(p).v \in Numbers
<1>1. InTx(p) /\ tx[p] \in Attempts /\ Cur(p) \in Ops /\ tx[p].at \in 1 .. Len(tx[p].body)
  BY WorkingFacts
<1>2. mem \in [Readable -> Numbers]
  BY DEF Control, Typed
<1>3. Cur(p).w \in Readable /\ Cur(p).v \in Numbers
  BY <1>1 DEF Ops
<1> QED
  BY <1>1, <1>2, <1>3 DEF Tracked, Cur

LEMMA BeginTracked ==
  ASSUME Control, NEW p \in Apps, \A q \in Apps : Tracked(q), Begin(p)
  PROVE  \A q \in Apps : Tracked(q)'
<1>1. At(p, "tx") /\ mem' = mem
  BY DEF Begin
<1>2. PICK body \in Bodies(p, Stmt(p).what) : tx' = [tx EXCEPT ![p] = Start(body)]
  BY DEF Begin
<1>3. /\ prog \in Progs /\ reps[p] \in Nat /\ counted[p] \in [Classes -> Nat] /\ tx \in [Apps -> Attempts]
  BY DEF Control, Typed
<1>4. Stmt(p).what \in Txs
  BY <1>1, AtFacts
<1>5. body \in Seq(Ops) /\ Shape(body)
  <2>1. prog = "tm3" => reps[p] <= Rounds
    BY <1>1, RoundAt
  <2> QED
    BY <2>1, <1>3, <1>4, BodiesTyped, BodiesShaped
<1>6. tx'[p] = Start(body) /\ \A q \in Apps \ {p} : tx'[q] = tx[q]
  BY <1>2, <1>3
<1>7. Shape(tx'[p].body) /\ Tracks(tx'[p], mem)
  BY <1>5, <1>6, TrackStart, StartTyped
<1> QED
  BY <1>1, <1>6, <1>7, OperationTracked DEF OperationLeaves

LEMMA AbortTracked ==
  ASSUME Control, NEW p \in Apps, \A q \in Apps : Tracked(q), Abort(p)
  PROVE  \A q \in Apps : Tracked(q)'
<1>1. InTx(p) /\ mem' = mem /\ tx' = [tx EXCEPT ![p] = Start(tx[p].body)]
  BY DEF Abort
<1>2. tx \in [Apps -> Attempts] /\ Shape(tx[p].body)
  BY <1>1 DEF Control, Typed, Tracked
<1>3. tx[p].body \in Seq(Ops)
  BY <1>2 DEF Attempts
<1>4. tx'[p] = Start(tx[p].body) /\ \A q \in Apps \ {p} : tx'[q] = tx[q]
  BY <1>1, <1>2
<1>5. Shape(tx'[p].body) /\ Tracks(tx'[p], mem)
  BY <1>2, <1>3, <1>4, TrackStart, StartTyped
<1> QED
  BY <1>1, <1>4, <1>5, OperationTracked DEF OperationLeaves

LEMMA LoadTracked ==
  ASSUME Control, NEW p \in Apps, \A q \in Apps : Tracked(q), Load(p)
  PROVE  \A q \in Apps : Tracked(q)'
<1>1. Working(p) /\ Cur(p).do = "load" /\ mem' = mem
  BY DEF Load, Does, Cur
<1>2. PICK t, w, s, u : t = tx[p] /\ w = Cur(p).w /\ s = Loaded(t, w, mem[w]) /\ u = Step(p, s)
  OBVIOUS
<1>3. Wins(p, Against(p, {w}, FALSE), u)
  BY <1>2 DEF Load, Loaded
<1>4. /\ t \in Attempts /\ Shape(t.body) /\ Tracks(t, mem) /\ t.at \in 1 .. Len(t.body) /\ Cur(p) = t.body[t.at]
      /\ w \in Readable /\ mem[w] \in Numbers
  BY <1>1, <1>2, WorkingTracked
<1>5. s \in Attempts /\ u \in Attempts
  BY <1>2, <1>4, OperationsTyped, SteppedTyped
<1>6. /\ s.body = t.body /\ s.at = t.at /\ s.reads = t.reads \cup {w} /\ s.wlocks = t.wlocks
      /\ s.ws = t.ws /\ s.vals = Append(t.vals, mem[w]) /\ s.raw = t.raw /\ s.lost = t.lost
  <2>1. PICK f : f = Loaded(t, w, mem[w])
    OBVIOUS
  <2>2. s = f /\ t \in Attempts
    BY <1>2, <1>4, <2>1
  <2> QED
    BY <2>1, <2>2, LoadedFields
<1>7. /\ u.body = s.body /\ u.at = s.at + 1 /\ u.reads = s.reads /\ u.wlocks = s.wlocks /\ u.ws = s.ws
      /\ u.vals = s.vals /\ u.raw = s.raw /\ u.lost = s.lost
  BY <1>2, <1>5, StepFields
<1>8. PICK n : n = t.at
  OBVIOUS
<1>9. After(t, u, n) /\ t.body[n].do = "load" /\ t.body[n].w = w
  BY <1>1, <1>2, <1>4, <1>6, <1>7, <1>8 DEF After
<1>10. Tracks(u, mem)
  <2>1. w \in u.reads /\ u.ws = t.ws /\ u.raw = t.raw /\ u.vals = Append(t.vals, mem[w])
    BY <1>6, <1>7
  <2> QED
    BY <2>1, <1>4, <1>9, TrackLoad
<1>11. tx'[p] = u /\ \A q \in Apps \ {p} : tx'[q] = tx[q] \/ (InTx(q) /\ tx'[q] = [tx[q] EXCEPT !.lost = TRUE])
  BY <1>3, <1>5, WinsOthers
<1>12. Shape(tx'[p].body) /\ Tracks(tx'[p], mem)
  BY <1>4, <1>6, <1>7, <1>10, <1>11
<1> QED
  BY <1>1, <1>11, <1>12, OperationTracked DEF OperationLeaves

LEMMA WlockTracked ==
  ASSUME Control, NEW p \in Apps, \A q \in Apps : Tracked(q), Wlock(p)
  PROVE  \A q \in Apps : Tracked(q)'
<1>1. Working(p) /\ Cur(p).do = "wlock" /\ mem' = mem
  BY DEF Wlock, Does, Cur
<1>2. PICK t, w, s, u : t = tx[p] /\ w = Cur(p).w /\ s = Locked(t, w) /\ u = Step(p, s)
  OBVIOUS
<1>3. Wins(p, Against(p, {w}, TRUE), u)
  BY <1>2 DEF Wlock, Locked
<1>4. /\ t \in Attempts /\ Shape(t.body) /\ Tracks(t, mem) /\ t.at \in 1 .. Len(t.body) /\ Cur(p) = t.body[t.at]
      /\ w \in Readable
  BY <1>1, <1>2, WorkingTracked
<1>5. s \in Attempts /\ u \in Attempts
  BY <1>2, <1>4, OperationsTyped, SteppedTyped
<1>6. /\ s.body = t.body /\ s.at = t.at /\ s.reads = t.reads /\ s.wlocks = t.wlocks \cup {w}
      /\ s.ws = t.ws /\ s.vals = t.vals /\ s.raw = t.raw /\ s.lost = t.lost
  <2>1. PICK f : f = Locked(t, w)
    OBVIOUS
  <2>2. s = f /\ t \in Attempts
    BY <1>2, <1>4, <2>1
  <2> QED
    BY <2>1, <2>2, LockedFields
<1>7. /\ u.body = s.body /\ u.at = s.at + 1 /\ u.reads = s.reads /\ u.wlocks = s.wlocks /\ u.ws = s.ws
      /\ u.vals = s.vals /\ u.raw = s.raw /\ u.lost = s.lost
  BY <1>2, <1>5, StepFields
<1>8. PICK n : n = t.at
  OBVIOUS
<1>9. After(t, u, n) /\ t.body[n].do = "wlock" /\ t.body[n].w = w
  BY <1>1, <1>2, <1>4, <1>6, <1>7, <1>8 DEF After
<1>10. Tracks(u, mem)
  <2>1. w \in u.wlocks /\ u.ws = t.ws /\ u.raw = t.raw /\ u.vals = t.vals
    BY <1>6, <1>7
  <2> QED
    BY <2>1, <1>4, <1>9, TrackLock
<1>11. tx'[p] = u /\ \A q \in Apps \ {p} : tx'[q] = tx[q] \/ (InTx(q) /\ tx'[q] = [tx[q] EXCEPT !.lost = TRUE])
  BY <1>3, <1>5, WinsOthers
<1>12. Shape(tx'[p].body) /\ Tracks(tx'[p], mem)
  BY <1>4, <1>6, <1>7, <1>10, <1>11
<1> QED
  BY <1>1, <1>11, <1>12, OperationTracked DEF OperationLeaves

\* The entry of a store or of an increment
LEMMA PutTracked ==
  ASSUME Control, NEW p \in Apps, \A q \in Apps : Tracked(q), Working(p), mem' = mem,
         NEW e \in Ops, FromOp(e, Cur(p), tx[p].lost, mem), tx' = [tx EXCEPT ![p] = Step(p, Stored(tx[p], e))]
  PROVE  \A q \in Apps : Tracked(q)'
<1>2. PICK t, s, u : t = tx[p] /\ s = Stored(t, e) /\ u = Step(p, s)
  OBVIOUS
<1>4. /\ t \in Attempts /\ Shape(t.body) /\ Tracks(t, mem) /\ t.at \in 1 .. Len(t.body) /\ Cur(p) = t.body[t.at]
  BY <1>2, WorkingTracked
<1>5. s \in Attempts
  BY <1>2, <1>4, OperationsTyped
<1>6. /\ s.body = t.body /\ s.at = t.at /\ s.reads = t.reads /\ s.wlocks = t.wlocks
      /\ s.ws = Append(t.ws, e) /\ s.vals = t.vals /\ s.raw = t.raw /\ s.lost = t.lost
  BY <1>2, <1>4, StoredFields
<1>7. /\ u.body = s.body /\ u.at = s.at + 1 /\ u.reads = s.reads /\ u.wlocks = s.wlocks /\ u.ws = s.ws
      /\ u.vals = s.vals /\ u.raw = s.raw /\ u.lost = s.lost
  BY <1>2, <1>5, StepFields
<1>8. PICK n : n = t.at
  OBVIOUS
<1>9. After(t, u, n) /\ FromOp(e, t.body[n], t.lost, mem)
  BY <1>2, <1>4, <1>6, <1>7, <1>8 DEF After
<1>10. Tracks(u, mem)
  <2>1. u.ws = Append(t.ws, e) /\ u.raw = t.raw /\ u.vals = t.vals
    BY <1>6, <1>7
  <2> QED
    BY <2>1, <1>4, <1>9, TrackPut
<1>11. tx'[p] = u /\ \A q \in Apps \ {p} : tx'[q] = tx[q]
  BY <1>2 DEF Control, Typed
<1>12. Shape(tx'[p].body) /\ Tracks(tx'[p], mem)
  BY <1>4, <1>6, <1>7, <1>10, <1>11
<1> QED
  BY <1>11, <1>12, OperationTracked DEF OperationLeaves

LEMMA StoreTracked ==
  ASSUME Control, NEW p \in Apps, \A q \in Apps : Tracked(q), Store(p)
  PROVE  \A q \in Apps : Tracked(q)'
<1>1. Working(p) /\ Cur(p).do = "store" /\ mem' = mem
  BY DEF Store, Does, Cur
<1>2. PICK e : e = Cur(p)
  OBVIOUS
<1>3. tx' = [tx EXCEPT ![p] = Step(p, Stored(tx[p], e))]
  BY <1>2 DEF Store, Stored
<1>4. e \in Ops /\ FromOp(e, Cur(p), tx[p].lost, mem)
  BY <1>1, <1>2, WorkingFacts DEF FromOp, Puts
<1> QED
  BY <1>1, <1>3, <1>4, PutTracked

LEMMA AddTracked ==
  ASSUME Control, NEW p \in Apps, \A q \in Apps : Tracked(q), Add(p)
  PROVE  \A q \in Apps : Tracked(q)'
<1>1. Working(p) /\ Cur(p).do = "add" /\ mem' = mem
  BY DEF Add, Does, Cur
<1>2. PICK e : e = Op("store", Cur(p).w, mem[Cur(p).w] + Cur(p).v)
  OBVIOUS
<1>3. tx' = [tx EXCEPT ![p] = Step(p, Stored(tx[p], e))]
  BY <1>2 DEF Add, Stored
<1>4. Cur(p).w \in Readable /\ mem[Cur(p).w] \in Numbers /\ Cur(p).v \in Numbers
  BY <1>1, WorkingTracked
<1>5. mem[Cur(p).w] + Cur(p).v \in Numbers
  BY <1>4 DEF Numbers
<1>6. e \in Ops /\ e.w = Cur(p).w /\ e.v = mem[Cur(p).w] + Cur(p).v
  BY <1>2, <1>4, <1>5, OpsAre
<1>7. FromOp(e, Cur(p), tx[p].lost, mem)
  BY <1>1, <1>6 DEF FromOp, Puts
<1> QED
  BY <1>1, <1>3, <1>6, <1>7, PutTracked

LEMMA ReadRawTracked ==
  ASSUME Control, NEW p \in Apps, \A q \in Apps : Tracked(q), ReadRaw(p)
  PROVE  \A q \in Apps : Tracked(q)'
<1>1. Working(p) /\ Cur(p).do = "raw" /\ mem' = mem
  BY DEF ReadRaw, Does, Cur
<1>2. PICK t, w, s, u : t = tx[p] /\ w = Cur(p).w /\ s = Seen(t, mem[w]) /\ u = Step(p, s)
  OBVIOUS
<1>3. tx' = [tx EXCEPT ![p] = u]
  BY <1>2 DEF ReadRaw, Seen
<1>4. /\ t \in Attempts /\ Shape(t.body) /\ Tracks(t, mem) /\ t.at \in 1 .. Len(t.body) /\ Cur(p) = t.body[t.at]
      /\ w \in Readable /\ mem[w] \in Numbers
  BY <1>1, <1>2, WorkingTracked
<1>5. s \in Attempts
  BY <1>2, <1>4, OperationsTyped
<1>6. /\ s.body = t.body /\ s.at = t.at /\ s.reads = t.reads /\ s.wlocks = t.wlocks
      /\ s.ws = t.ws /\ s.vals = t.vals /\ s.raw = mem[w] /\ s.lost = t.lost
  <2>1. PICK f : f = Seen(t, mem[w])
    OBVIOUS
  <2>2. s = f /\ t \in Attempts
    BY <1>2, <1>4, <2>1
  <2> QED
    BY <2>1, <2>2, SeenFields
<1>7. /\ u.body = s.body /\ u.at = s.at + 1 /\ u.reads = s.reads /\ u.wlocks = s.wlocks /\ u.ws = s.ws
      /\ u.vals = s.vals /\ u.raw = s.raw /\ u.lost = s.lost
  BY <1>2, <1>5, StepFields
<1>8. PICK n : n = t.at
  OBVIOUS
<1>9. After(t, u, n) /\ t.body[n].do = "raw" /\ t.body[n].w = w
  BY <1>1, <1>2, <1>4, <1>6, <1>7, <1>8 DEF After
<1>10. Tracks(u, mem)
  <2>1. u.ws = t.ws /\ u.raw = mem[t.body[n].w] /\ u.vals = t.vals
    BY <1>6, <1>7, <1>9
  <2> QED
    BY <2>1, <1>4, <1>9, TrackRaw
<1>11. tx'[p] = u /\ \A q \in Apps \ {p} : tx'[q] = tx[q]
  BY <1>3 DEF Control, Typed
<1>12. Shape(tx'[p].body) /\ Tracks(tx'[p], mem)
  BY <1>4, <1>6, <1>7, <1>10, <1>11
<1> QED
  BY <1>1, <1>11, <1>12, OperationTracked DEF OperationLeaves

\* Who keeps its locks has none for a word that is written.
LEMMA CommitTracked ==
  ASSUME Control, NEW p \in Apps, \A q \in Apps : Tracked(q), Commit(p)
  PROVE  \A q \in Apps : Tracked(q)'
<1>1. mem' = Persisted(tx[p].ws) /\ tx[p] \in Attempts
  BY DEF Commit, Control, Typed
<1>2. PICK W : W = {op.w : op \in ToSet(tx[p].ws)}
  OBVIOUS
<1>3. Wins(p, Against(p, W, TRUE), NoTx)
  BY <1>2 DEF Commit
<1>4. NoTx \in Attempts /\ NoTx.at = 0
  <2>1. <<>> \in Seq(Ops) /\ <<>> \in Seq(Numbers) /\ 0 \in Numbers
    BY DEF Numbers
  <2> QED
    BY <2>1 DEF NoTx, Attempts
<1>8. /\ tx'[p] = NoTx
      /\ \A q \in Apps \ {p} : tx'[q] = tx[q] \/ (InTx(q) /\ tx'[q] = [tx[q] EXCEPT !.lost = TRUE])
  BY <1>3, <1>4, WinsOthers
<1>9. \A q \in Apps \ {p} : tx'[q] = [tx[q] EXCEPT !.lost = tx[q].lost \/ q \in Against(p, W, TRUE)]
  <2>1. TRUE \in BOOLEAN
    OBVIOUS
  <2> QED
    BY Zenon, <2>1, <1>3, <1>4, WinsOthers
<1>5. /\ tx'[p] = NoTx
      /\ \A q \in Apps \ {p} : tx'[q] = tx[q] \/ (InTx(q) /\ tx'[q] = [tx[q] EXCEPT !.lost = TRUE])
      /\ \A q \in Apps \ {p} : tx'[q] = [tx[q] EXCEPT !.lost = tx[q].lost \/ q \in Against(p, W, TRUE)]
  BY Zenon, <1>8, <1>9
<1>6. Tracked(p)'
  BY <1>4, <1>5 DEF Tracked, InTx
<1>7. ASSUME NEW q \in Apps \ {p}
      PROVE  LeavesTo(q)
  <2> SUFFICES ASSUME InTx(q), ~tx'[q].lost, NEW w \in tx[q].reads \cup tx[q].wlocks PROVE mem'[w] = mem[w]
    BY <1>5 DEF LeavesTo
  <2>1. tx[q] \in Attempts
    BY DEF Control, Typed
  <2>2. ~tx[q].lost /\ q \notin Against(p, W, TRUE)
    <3>1. tx'[q].lost = (tx[q].lost \/ q \in Against(p, W, TRUE))
      BY <1>5, <2>1 DEF Attempts
    <3> QED
      BY <3>1
  <2>3. w \notin W
    BY <2>2 DEF Against
  <2>4. w \in Readable /\ tx[p].ws \in Seq(Ops)
    BY <2>1, <1>1 DEF Attempts
  <2>5. \A i \in 1 .. Len(tx[p].ws) : tx[p].ws[i].w # w
    <3>1. \A i \in 1 .. Len(tx[p].ws) : tx[p].ws[i] \in ToSet(tx[p].ws)
      BY <2>4 DEF ToSet
    <3> QED
      BY <3>1, <2>3, <1>2
  <2> QED
    BY <2>4, <2>5, <1>1, PersistedIs
<1> QED
  BY <1>6, <1>7, AllTracked

\* Steps without a transaction
LEMMA PlainTracked ==
  ASSUME Control, \A q \in Apps : Tracked(q), tx' = tx, mem' = mem
  PROVE  \A q \in Apps : Tracked(q)'
BY DEF Tracked, InTx

LEMMA PlainWriteTracked ==
  ASSUME Control, NEW p \in Apps, \A q \in Apps : Tracked(q), PlainWrite(p)
  PROVE  \A q \in Apps : Tracked(q)'
BY NobodyIn DEF PlainWrite, Tracked, InTx

LEMMA TrackedStep ==
  ASSUME Control, \A q \in Apps : Tracked(q), [Next]_vars
  PROVE  \A q \in Apps : Tracked(q)'
<1>1. ASSUME NEW p \in Apps, Transactional(p) PROVE \A q \in Apps : Tracked(q)'
  BY <1>1, BeginTracked, LoadTracked, StoreTracked, WlockTracked, AddTracked, ReadRawTracked, AbortTracked, CommitTracked
     DEF Transactional
<1>2. ASSUME NEW p \in Apps, Sequential(p) PROVE \A q \in Apps : Tracked(q)'
  <2>1. CASE PlainWrite(p)
    BY <2>1, PlainWriteTracked
  <2>2. CASE ~PlainWrite(p)
    <3>1. tx' = tx /\ mem' = mem
      BY <1>2, <2>2 DEF Sequential, Arrive, EnterLoop, Again, WhileChunk, EndChunk, CountChunk, PlainTotal
    <3> QED
      BY <3>1, PlainTracked
  <2> QED
    BY <2>1, <2>2
<1>3. CASE Terminated
  BY <1>3, PlainTracked DEF Terminated, vars
<1>4. CASE UNCHANGED vars
  BY <1>4, PlainTracked DEF vars
<1> QED
  BY <1>1, <1>2, <1>3, <1>4 DEF Next

-----------------------------------------------------------------------------
(* Sums of words.                                                            *)

LEMMA SumOfUnfold ==
  ASSUME NEW vals
  PROVE  SumOf(vals) = (CHOOSE h : FoldStep(DOMAIN vals, vals, h))[DOMAIN vals]
BY Zenon DEF SumOf, FoldSeq, FoldFunction, FoldFunctionOnSet, MapThenFoldSet, FoldStep

LEMMA SumOfIs ==
  ASSUME NEW n \in Nat, NEW vals \in [1 .. n -> Int], NEW f, IsSum(1 .. n, vals, f)
  PROVE  SumOf(vals) = f[1 .. n]
<1>1. DOMAIN vals = 1 .. n /\ IsFiniteSet(1 .. n)
  BY FS_Interval
<1>2. PICK g : g = CHOOSE h : FoldStep(1 .. n, vals, h)
  OBVIOUS
<1>3. FoldStep(1 .. n, vals, g)
  BY <1>2, FoldChosen
<1>4. SumOf(vals) = g[1 .. n]
  BY <1>1, <1>2, SumOfUnfold
<1> QED
  BY <1>1, <1>3, <1>4, FoldIs

LEMMA ZerosSum ==
  ASSUME NEW n \in Nat, NEW vals \in [1 .. n -> Int], \A i \in 1 .. n : vals[i] = 0
  PROVE  SumOf(vals) = 0
<1>1. PICK f : f = [s \in SUBSET (1 .. n) |-> 0]
  OBVIOUS
<1>2. IsSum(1 .. n, vals, f)
  BY <1>1 DEF IsSum
<1> QED
  BY <1>1, <1>2, SumOfIs

\* What one place loses and another gains does not change the sum.
Moves(n, g, h, a, b) ==
  /\ n \in Nat /\ g \in [1 .. n -> Int] /\ h \in [1 .. n -> Int] /\ a \in 1 .. n /\ b \in 1 .. n /\ a # b
  /\ h[a] = g[a] - 1 /\ h[b] = g[b] + 1 /\ \A i \in 1 .. n : i # a /\ i # b => h[i] = g[i]

LEMMA TransferSum ==
  ASSUME NEW n, NEW g, NEW h, NEW a, NEW b, Moves(n, g, h, a, b)
  PROVE  SumOf(h) = SumOf(g)
<1> USE DEF Moves
<1>1. PICK S : S = 1 .. n
  OBVIOUS
<1>2. IsFiniteSet(S)
  BY <1>1, FS_Interval
<1>3. PICK f \in [SUBSET S -> Int] : IsSum(S, g, f)
  BY <1>1, <1>2, SumExists
<1>4. PICK e \in [SUBSET S -> Int] : IsSum(S, h, e)
  BY <1>1, <1>2, SumExists
<1>5. PICK R : R = (S \ {a}) \ {b}
  OBVIOUS
<1>6. R \subseteq S /\ IsFiniteSet(R) /\ a \notin R /\ b \notin R
  BY <1>2, <1>5, FS_Subset
<1>7. e[R] = f[R]
  <2>1. ASSUME NEW s \in SUBSET R, s # {}
        PROVE  \E x \in s : e[s \ {x}] = f[s \ {x}] => e[s] = f[s]
    <3>1. PICK x \in s : TRUE
      BY <2>1
    <3>2. s \in SUBSET S /\ x \in 1 .. n /\ x # a /\ x # b
      BY <3>1, <1>1, <1>6
    <3>3. e[s] = h[x] + e[s \ {x}] /\ f[s] = g[x] + f[s \ {x}] /\ h[x] = g[x]
      BY <3>1, <3>2, <1>3, <1>4 DEF IsSum
    <3> QED
      BY <3>3
  <2>2. e[{}] = f[{}]
    BY <1>3, <1>4 DEF IsSum
  <2> QED
    BY <2>1, <2>2, <1>6, SameFold
<1>8. S \ {a} \in SUBSET S /\ R \in SUBSET S /\ b \in S \ {a} /\ a \in S /\ S \in SUBSET S
  BY <1>1, <1>6
<1>13. PICK A : A = S \ {a}
  OBVIOUS
<1>14. A \in SUBSET S /\ b \in A /\ R = A \ {b}
  BY <1>5, <1>8, <1>13
<1>9. f[S] = g[a] + f[A] /\ f[A] = g[b] + f[R]
  BY Zenon, <1>3, <1>8, <1>13, <1>14 DEF IsSum
<1>10. e[S] = h[a] + e[A] /\ e[A] = h[b] + e[R]
  BY Zenon, <1>4, <1>8, <1>13, <1>14 DEF IsSum
<1>11. f[R] \in Int /\ g[a] \in Int /\ g[b] \in Int
  BY <1>3, <1>8
<1>12. e[S] = f[S]
  <2>1. PICK r, x, y : r = f[R] /\ x = g[a] /\ y = g[b]
    OBVIOUS
  <2>2. f[S] = x + (y + r)
    BY <2>1, <1>9
  <2>3. e[S] = (x - 1) + ((y + 1) + r)
    BY <2>1, <1>7, <1>10
  <2>4. r \in Int /\ x \in Int /\ y \in Int
    BY <2>1, <1>11
  <2> QED
    BY <2>2, <2>3, <2>4
<1>15. SumOf(g) = f[S] /\ SumOf(h) = e[S]
  BY Zenon, <1>1, <1>3, <1>4, SumOfIs
<1> QED
  BY <1>12, <1>15

LEMMA TwoSum ==
  ASSUME NEW g \in [1 .. 2 -> Int]
  PROVE  SumOf(g) = g[1] + g[2]
<1>1. PICK S : S = 1 .. 2
  OBVIOUS
<1>2. IsFiniteSet(S)
  <2>1. 1 \in Int /\ 2 \in Int
    OBVIOUS
  <2> QED
    BY <2>1, <1>1, FS_Interval
<1>8. g \in [S -> Int]
  BY <1>1
<1>3. PICK f \in [SUBSET S -> Int] : IsSum(S, g, f)
  BY <1>2, <1>8, SumExists
<1>4. S \in SUBSET S /\ 1 \in S /\ S \ {1} = {2} /\ {2} \in SUBSET S /\ {2} \ {2} = {}
  BY <1>1
<1>5. f[S] = g[1] + f[{2}] /\ f[{2}] = g[2] + f[{}] /\ f[{}] = 0
  BY <1>3, <1>4 DEF IsSum
<1>6. g[1] \in Int /\ g[2] \in Int
  OBVIOUS
<1>7. f[S] = g[1] + g[2]
  BY <1>5, <1>6
<1> QED
  BY <1>1, <1>3, <1>7, SumOfIs

-----------------------------------------------------------------------------
(* What a commit writes, and what it has read.                               *)

\* The commit of body b with values v makes m of memory mem.
Commits(b, v, m) ==
  /\ \A k \in 1 .. Len(b) : /\ b[k].do = "store" => m[b[k].w] = b[k].v
                            /\ b[k].do = "add" => m[b[k].w] = mem[b[k].w] + b[k].v
  /\ \A w \in Readable : (\A k \in 1 .. Len(b) : b[k].do \in Puts => b[k].w # w) => m[w] = mem[w]
  /\ Reader(b) => m = mem /\ v = [k \in 1 .. Len(b) |-> mem[b[k].w]]
  /\ Writer(b) => v = <<>>

LEMMA CommitIs ==
  ASSUME Control, NEW p \in Apps, Tracked(p), Commit(p)
  PROVE  /\ tx[p] \in Attempts /\ At(p, "tx") /\ Stmt(p).what \in Txs /\ tx[p].body \in Bodies(p, Stmt(p).what)
         /\ tx[p].body \in Seq(Ops) /\ Commits(tx[p].body, tx[p].vals, mem')
<1>1. /\ InTx(p) /\ ~Working(p) /\ ~tx[p].lost /\ tx[p] \in Attempts /\ mem' = Persisted(tx[p].ws)
      /\ mem \in [Readable -> Numbers]
  BY DEF Commit, Control, Typed
<1>2. At(p, "tx") /\ tx[p].body \in Bodies(p, Stmt(p).what) /\ tx[p].at <= Len(tx[p].body) + 1
  BY <1>1 DEF Control, Placed
<1>3. Stmt(p).what \in Txs
  BY <1>2, AtFacts
<1>4. PICK t, b, s, m : t = tx[p] /\ b = t.body /\ s = t.ws /\ m = mem'
  OBVIOUS
<1>5. b \in Seq(Ops) /\ s \in Seq(Ops) /\ t.at \in Nat /\ t.vals \in Seq(Numbers) /\ ~t.lost
  BY <1>1, <1>4 DEF Attempts
<1>6. t.at - 1 = Len(b)
  <2>1. t.at > Len(b) /\ t.at <= Len(b) + 1 /\ Len(b) \in Nat
    BY <1>1, <1>2, <1>4, <1>5 DEF Working
  <2> QED
    BY <2>1, <1>5
<1>7. Shape(b) /\ Tracks(t, mem)
  BY <1>1, <1>4 DEF Tracked
<1>8. ASSUME NEW i \in 1 .. Len(s)
      PROVE  \E k \in 1 .. Len(b) : FromOp(s[i], b[k], FALSE, mem)
  <2>1. \E k \in 1 .. t.at - 1 : FromOp(t.ws[i], t.body[k], t.lost, mem)
    BY <1>4, <1>7 DEF Tracks
  <2>2. t.lost = FALSE
    BY <1>1, <1>4 DEF Attempts
  <2> QED
    BY <2>1, <2>2, <1>4, <1>6
<1>9. ASSUME NEW w \in Readable
      PROVE  \/ (\A i \in 1 .. Len(s) : s[i].w # w) /\ m[w] = mem[w]
             \/ \E i \in 1 .. Len(s) : s[i].w = w /\ m[w] = s[i].v
  BY <1>1, <1>4, <1>5, PersistedIs
<1>10. ASSUME NEW k \in 1 .. Len(b), b[k].do \in Puts
       PROVE  /\ b[k].do = "store" => m[b[k].w] = b[k].v
              /\ b[k].do = "add" => m[b[k].w] = mem[b[k].w] + b[k].v
  <2>1. PICK i \in 1 .. Len(s) : s[i].w = b[k].w
    BY <1>4, <1>6, <1>7, <1>10 DEF Tracks
  <2>2. b[k].w \in Readable
    <3>1. b[k] \in Ops
      BY <1>5
    <3> QED
      BY <3>1 DEF Ops
  <2>3. PICK j \in 1 .. Len(s) : s[j].w = b[k].w /\ m[b[k].w] = s[j].v
    BY <2>1, <2>2, <1>9
  <2>4. PICK l \in 1 .. Len(b) : FromOp(s[j], b[l], FALSE, mem)
    BY <1>8
  <2>5. l = k
    BY <2>3, <2>4, <1>7, <1>10 DEF FromOp, Shape
  <2> QED
    BY <2>3, <2>4, <2>5 DEF FromOp
<1>11. ASSUME NEW w \in Readable, \A k \in 1 .. Len(b) : b[k].do \in Puts => b[k].w # w
       PROVE  m[w] = mem[w]
  <2>1. ASSUME NEW i \in 1 .. Len(s), s[i].w = w PROVE FALSE
    <3>1. PICK k \in 1 .. Len(b) : FromOp(s[i], b[k], FALSE, mem)
      BY <1>8
    <3> QED
      BY <3>1, <2>1, <1>11 DEF FromOp
  <2> QED
    BY <2>1, <1>9
<1>12. ASSUME Reader(b)
       PROVE  m = mem /\ t.vals = [k \in 1 .. Len(b) |-> mem[b[k].w]]
  <2>1. \A w \in Readable : m[w] = mem[w]
    BY <1>11, <1>12 DEF Reader, Puts
  <2>2. m = [w \in Readable |-> m[w]]
    BY <1>1, <1>4, <1>5, PersistedIs
  <2>3. m = mem
    BY <2>1, <2>2, <1>1
  <2>4. Len(t.vals) = Len(b) /\ \A k \in 1 .. Len(b) : t.vals[k] = mem[b[k].w]
    BY <1>4, <1>5, <1>6, <1>7, <1>12 DEF Tracks
  <2>5. t.vals = [k \in 1 .. Len(t.vals) |-> t.vals[k]]
    BY <1>5
  <2> QED
    BY <2>3, <2>4, <2>5
<1>13. Writer(b) => t.vals = <<>>
  BY <1>4, <1>7 DEF Tracks
<1>14. Commits(b, t.vals, m)
  <2>1. \A k \in 1 .. Len(b) : /\ b[k].do = "store" => m[b[k].w] = b[k].v
                               /\ b[k].do = "add" => m[b[k].w] = mem[b[k].w] + b[k].v
    BY <1>10 DEF Puts
  <2> QED
    BY <2>1, <1>11, <1>12, <1>13 DEF Commits
<1> QED
  BY <1>1, <1>2, <1>3, <1>4, <1>5, <1>14

\* What the transactions read
LEMMA LoadsSeen ==
  ASSUME NEW b, NEW n \in Nat, NEW a \in Nat, LoadsFrom(b, n, a), NEW v, NEW m, Commits(b, v, m)
  PROVE  m = mem /\ v = [k \in 1 .. n |-> mem[a + k - 1]]
<1>1. Reader(b)
  BY LoadsRead
<1>2. m = mem /\ v = [k \in 1 .. Len(b) |-> mem[b[k].w]]
  BY <1>1 DEF Commits
<1>3. Len(b) = n /\ \A k \in 1 .. n : b[k].w = a + k - 1
  BY DEF LoadsFrom
<1> QED
  BY <1>2, <1>3

\* What the transactions that write all words leave
LEMMA StoresDone ==
  ASSUME NEW b, NEW f, StoresAll(b, f), NEW v, NEW m, Commits(b, v, m)
  PROVE  \A w \in Words : m[w] = f[w]
<1> SUFFICES ASSUME NEW w \in Words PROVE m[w] = f[w]
  OBVIOUS
<1>1. w + 1 \in 1 .. Size /\ (w + 1) - 1 = w
  BY SizeFacts
<1>2. Len(b) = Size /\ b[w + 1].do = "store" /\ b[w + 1].w = w /\ b[w + 1].v = f[w]
  BY <1>1 DEF StoresAll
<1> QED
  BY <1>1, <1>2 DEF Commits

\* The programs of the transactions
LEMMA TxOf ==
  ASSUME Control
  PROVE  /\ prog \in {"bank", "mr", "tm2", "tm3", "tm3_all", "tm4", "tm5", "tm6", "tm7", "tm8", "tm9"}
         /\ \A what \in Txs :
              /\ what # "total" /\ what # "none"
              /\ what \in {"empty", "bank"} <=> prog = "bank"
              /\ what \in {"write_reps", "read_reps"} <=> prog = "tm2"
              /\ what = "load_all" <=> prog = "tm6"
              /\ what = "load_or_store" <=> prog \in {"tm4", "tm9"}
              /\ what \in {"load_or_store_2", "load_or_store_0"} <=> prog = "tm8"
<1>1. prog \in {"bank", "mr", "tm2", "tm3", "tm3_all", "tm4", "tm5", "tm6", "tm7", "tm8", "tm9"}
  BY ClientsAssumption DEF Control, Typed
<1> QED
  BY <1>1 DEF Txs

LEMMA AppsPositive == \A p \in Apps : p \in Nat /\ p >= 1
<1> SUFFICES ASSUME NEW p \in Apps PROVE p \in Nat /\ p # 0
  OBVIOUS
<1>1. p \in Nat /\ p % DslPerNode # 0
  BY ClientsAssumption DEF Apps, Nodes, is_app_core
<1>2. 0 % DslPerNode = 0
  BY ClientsAssumption
<1> QED
  BY <1>1, <1>2

-----------------------------------------------------------------------------
(* The bank.                                                                 *)

LEMMA BalancesTyped ==
  ASSUME NEW m, \A w \in Readable : m[w] \in Int
  PROVE  /\ Balances(m) \in [1 .. NbAccounts -> Int]
         /\ \A w \in Accounts : w + 1 \in 1 .. NbAccounts /\ Balances(m)[w + 1] = m[w] /\ w \in Readable
         /\ \A i \in 1 .. NbAccounts : i - 1 \in Accounts /\ Balances(m)[i] = m[i - 1]
<1>1. /\ \A w \in Accounts : w + 1 \in 1 .. NbAccounts /\ (w + 1) - 1 = w /\ w \in Readable
      /\ \A i \in 1 .. NbAccounts : i - 1 \in Accounts
  BY SizeFacts
<1> QED
  BY <1>1 DEF Balances

LEMMA AllRead ==
  ASSUME InBank, prog = "bank", NEW v, NEW m, NEW b, b = LoadAll(NbAccounts), Commits(b, v, m)
  PROVE  m = mem /\ SumOf(v) = 0
<1>1. NbAccounts \in Nat /\ 0 \in Nat
  BY SizeFacts
<1>2. LoadsFrom(b, NbAccounts, 0)
  BY <1>1, LoadAllLoads
<1>3. m = mem /\ v = [k \in 1 .. NbAccounts |-> mem[0 + k - 1]]
  BY <1>1, <1>2, LoadsSeen
<1>4. \A k \in 1 .. NbAccounts : 0 + k - 1 = k - 1
  OBVIOUS
<1>5. v = Balances(mem)
  BY <1>3, <1>4 DEF Balances
<1> QED
  BY <1>3, <1>5 DEF InBank

LEMMA BothRead ==
  ASSUME InBank, prog = "bank", \A w \in Readable : mem[w] \in Int, NEW v, NEW m, NEW b, NEW a \in Pairs,
         b = CheckAccs(a[1], a[2]), Commits(b, v, m)
  PROVE  m = mem /\ (Len(v) = NbAccounts => SumOf(v) = 0)
<1>1. a[1] \in Accounts /\ a[2] \in Accounts /\ a[1] # a[2]
  BY DEF Pairs
<1>2. Reader(b) /\ Len(b) = 2 /\ b[1].w = a[1] /\ b[2].w = a[2]
  BY CheckIs
<1>3. m = mem /\ v = [k \in 1 .. 2 |-> mem[b[k].w]]
  BY <1>2 DEF Commits
<1>4. Len(v) = 2 /\ v[1] = mem[a[1]] /\ v[2] = mem[a[2]] /\ DOMAIN v = 1 .. 2
  BY <1>2, <1>3
<1>5. mem[a[1]] \in Int /\ mem[a[2]] \in Int
  BY <1>1, BalancesTyped
<1>6. v \in [1 .. 2 -> Int]
  <2>1. \A k \in 1 .. 2 : k = 1 \/ k = 2
    OBVIOUS
  <2>2. \A k \in 1 .. 2 : mem[b[k].w] \in Int
    BY <2>1, <1>2, <1>5
  <2> QED
    BY <2>2, <1>3
<1>7. SumOf(v) = v[1] + v[2]
  BY <1>6, TwoSum
<1>8. ASSUME NbAccounts = 2
      PROVE  SumOf(v) = 0
  <2>1. \/ a[1] = 0 /\ a[2] = 1
        \/ a[1] = 1 /\ a[2] = 0
    BY <1>1, <1>8, SizeFacts
  <2>2. PICK g : g = Balances(mem)
    OBVIOUS
  <2>3. g \in [1 .. 2 -> Int]
    BY <2>2, <1>8, BalancesTyped
  <2>6. 0 \in Accounts /\ 1 \in Accounts
    BY <1>8, SizeFacts
  <2>7. g[0 + 1] = mem[0] /\ g[1 + 1] = mem[1]
    BY <2>2, <2>6, BalancesTyped
  <2>4. g[1] = mem[0] /\ g[2] = mem[1]
    BY <2>7
  <2>5. SumOf(g) = g[1] + g[2]
    BY <2>3, TwoSum
  <2>8. SumOf(g) = 0
    BY <2>2 DEF InBank
  <2> QED
    BY <2>1, <2>4, <2>5, <2>8, <1>4, <1>5, <1>7
<1> QED
  BY <1>3, <1>4, <1>8

LEMMA Transferred ==
  ASSUME InBank, prog = "bank", \A w \in Readable : mem[w] \in Int, NEW v, NEW m, \A w \in Readable : m[w] \in Int,
         NEW b, NEW a \in Pairs, b = Transfer(a[1], a[2]), Commits(b, v, m)
  PROVE  SumOf(Balances(m)) = 0 /\ Len(v) # NbAccounts
<1>1. PICK x, y : x = a[1] /\ y = a[2]
  OBVIOUS
<1>2. x \in Accounts /\ y \in Accounts /\ x # y
  BY <1>1 DEF Pairs
<1>3. TransferOf(b, x, y)
  BY <1>1, TransferIs
<1>4. \A k \in 1 .. Len(b) : k = 1 \/ k = 2 \/ k = 3 \/ k = 4
  BY <1>3 DEF TransferOf
<1>5. 2 \in 1 .. Len(b) /\ 4 \in 1 .. Len(b)
  BY <1>3 DEF TransferOf
<1>6. m[x] = mem[x] + (-1) /\ m[y] = mem[y] + 1
  BY <1>3, <1>5 DEF TransferOf, Commits
<1>7. ASSUME NEW w \in Readable, w # x, w # y
      PROVE  m[w] = mem[w]
  <2>1. \A k \in 1 .. Len(b) : b[k].w = x \/ b[k].w = y
    BY <1>3, <1>4 DEF TransferOf
  <2> QED
    BY <2>1, <1>7 DEF Commits
<1>8. PICK g, h, n : g = Balances(mem) /\ h = Balances(m) /\ n = NbAccounts
  OBVIOUS
<1>9. n \in Nat /\ g \in [1 .. n -> Int] /\ h \in [1 .. n -> Int]
  BY <1>8, BalancesTyped, SizeFacts
<1>10. PICK i, j : i = x + 1 /\ j = y + 1
  OBVIOUS
<1>11. i \in 1 .. n /\ j \in 1 .. n /\ i # j
  BY <1>2, <1>8, <1>10, SizeFacts
<1>12. g[i] = mem[x] /\ h[i] = m[x] /\ g[j] = mem[y] /\ h[j] = m[y] /\ mem[x] \in Int /\ mem[y] \in Int
  BY <1>2, <1>8, <1>10, BalancesTyped
<1>13. h[i] = g[i] - 1 /\ h[j] = g[j] + 1
  BY <1>6, <1>12
<1>14. ASSUME NEW k \in 1 .. n, k # i, k # j
       PROVE  h[k] = g[k]
  <2>1. k - 1 \in Accounts /\ h[k] = m[k - 1] /\ g[k] = mem[k - 1]
    BY <1>8, BalancesTyped
  <2>2. k - 1 \in Readable /\ k - 1 # x /\ k - 1 # y
    BY <2>1, <1>2, <1>10, <1>14, SizeFacts
  <2> QED
    BY <2>1, <2>2, <1>7
<1>15. SumOf(h) = SumOf(g)
  <2>1. \A k \in 1 .. n : k # i /\ k # j => h[k] = g[k]
    BY <1>14
  <2> QED
    <3>1. Moves(n, g, h, i, j)
      BY <2>1, <1>9, <1>11, <1>13 DEF Moves
    <3> QED
      BY Zenon, <3>1, TransferSum
<1>16. v = <<>>
  <2>1. Writer(b)
    BY <1>3, <1>4 DEF TransferOf, Writer
  <2> QED
    BY <2>1 DEF Commits
<1>17. Len(v) # NbAccounts
  BY <1>16, SizeFacts
<1> QED
  BY <1>8, <1>15, <1>17 DEF InBank

LEMMA BankCommits ==
  ASSUME Control, InBank, NEW p \in Apps, Tracked(p), Commit(p), prog = "bank"
  PROVE  /\ SumOf(Balances(mem')) = 0
         /\ Stmt(p).what = "bank" /\ Len(tx[p].vals) = NbAccounts => SumOf(tx[p].vals) = 0
<1>1. PICK b, v, m : b = tx[p].body /\ v = tx[p].vals /\ m = mem'
  OBVIOUS
<1>2. Stmt(p).what \in Txs /\ b \in Bodies(p, Stmt(p).what) /\ Commits(b, v, m)
  BY <1>1, CommitIs
<1>3. Stmt(p).what \in {"empty", "bank"}
  BY <1>2 DEF Txs
<1>4. (\A w \in Readable : mem[w] \in Int) /\ (\A w \in Readable : m[w] \in Int)
  <2>1. Control'
    BY CommitKeeps
  <2>2. prog' = prog
    BY DEF Commit
  <2>3. mem \in [Readable -> Numbers] /\ mem' \in [Readable -> Numbers']
    BY <2>1 DEF Control, Typed
  <2>4. Numbers = Int /\ Numbers' = Int
    BY <2>2 DEF Numbers
  <2> QED
    BY <2>3, <2>4, <1>1
<1>5. CASE Stmt(p).what = "empty"
  <2>1. b = <<>>
    BY <1>2, <1>5 DEF Bodies
  <2>2. Reader(b)
    BY <2>1 DEF Reader
  <2>3. m = mem
    BY <2>2, <1>2 DEF Commits
  <2> QED
    BY <2>3, <1>1, <1>5 DEF InBank
<1>6. CASE Stmt(p).what = "bank"
  <2>1. b \in BankBodies
    BY <1>2, <1>6 DEF Bodies
  <2>2. CASE b = LoadAll(NbAccounts)
    <3>1. m = mem /\ SumOf(v) = 0
      BY <2>2, <1>2, AllRead
    <3> QED
      BY <3>1, <1>1 DEF InBank
  <2>3. ASSUME NEW a \in Pairs, b = CheckAccs(a[1], a[2])
        PROVE  SumOf(Balances(m)) = 0 /\ (Len(v) = NbAccounts => SumOf(v) = 0)
    <3>1. m = mem /\ (Len(v) = NbAccounts => SumOf(v) = 0)
      BY <2>3, <1>2, <1>4, BothRead
    <3> QED
      BY <3>1 DEF InBank
  <2>4. ASSUME NEW a \in Pairs, b = Transfer(a[1], a[2])
        PROVE  SumOf(Balances(m)) = 0 /\ (Len(v) = NbAccounts => SumOf(v) = 0)
    BY <2>4, <1>2, <1>4, Transferred
  <2> QED
    BY <2>1, <2>2, <2>3, <2>4, <1>1 DEF BankBodies
<1> QED
  BY <1>3, <1>5, <1>6

-----------------------------------------------------------------------------
(* The test applications.                                                    *)

LEMMA BeginsInit ==
  ASSUME prog \in Progs, Inits, NEW q
  PROVE  LET s == Program(q)
         IN  /\ Len(s) \in Nat /\ 1 \in 1 .. Len(s) /\ s[1].do = "plain" /\ s[1].what = "init"
             /\ \A i \in 1 .. Len(s) : s[i].do = "plain" /\ s[i].what \in {"zero", "init"} => i = 1
<1>1. PICK x : x = [do |-> "plain", what |-> "init", len |-> 0]
  OBVIOUS
<1>2. Opening(q) = <<x>>
  BY <1>1 DEF Inits, Opening, Plain, St
<1>3. SplitAt(Program(q), Len(Opening(q))) /\ Parts(q)
  BY Split, ProgramParts
<1>4. PICK s, o, t, r : s = Program(q) /\ o = Opening(q) /\ t = o \o Barrier /\ r = Rest(q)
  OBVIOUS
<1>5. s = t \o r
  BY <1>3, <1>4 DEF Parts
<1>6. o \in Seq(Statements) /\ r \in Seq(Statements) /\ Barrier \in Seq(Statements)
  <2>1. Barrier \in Seq(Statements)
    BY CountsOne, CountsSeq
  <2> QED
    BY <2>1, <1>3, <1>4, CountsSeq DEF Parts
<1>7. t \in Seq(Statements) /\ JoinOf(t, o, Barrier, Len(o), Len(Barrier)) /\ JoinOf(s, t, r, Len(t), Len(r))
  <2>1. t \in Seq(Statements)
    BY <1>4, <1>6, ConcatProperties
  <2>2. JoinOf(t, o, Barrier, Len(o), Len(Barrier))
    BY Zenon, <1>4, <1>6, Joined
  <2>3. JoinOf(s, t, r, Len(t), Len(r))
    BY Zenon, <1>5, <1>6, <2>1, Joined
  <2> QED
    BY <2>1, <2>2, <2>3
<1>8. Len(o) = 1 /\ o[1] = x
  BY <1>2, <1>4
<1>9. Len(Barrier) = 1
  BY DEF Barrier, St
<1>10. t[1] = x /\ Len(t) = 2
  <2>1. JoinOf(t, o, Barrier, 1, 1)
    BY <1>7, <1>8, <1>9
  <2>2. Len(t) = 1 + 1 /\ \A i \in 1 .. 1 : t[i] = o[i]
    BY <2>1 DEF JoinOf
  <2> QED
    BY <2>2, <1>8
<1>11. s[1] = x
  <2>1. \A i \in 1 .. 2 : s[i] = t[i]
    BY Zenon, <1>7, <1>10 DEF JoinOf
  <2>2. 1 \in 1 .. 2
    OBVIOUS
  <2> QED
    BY <2>1, <2>2, <1>10
<1>12. \A i \in 1 .. Len(s) : s[i].do = "plain" /\ s[i].what \in {"zero", "init"} => i <= 1
  BY <1>3, <1>4, <1>8 DEF SplitAt
<1>13. Len(s) \in Nat /\ 1 \in 1 .. Len(s)
  BY <1>3, <1>4, <1>8 DEF SplitAt
<1>14. \A i \in 1 .. Len(s) : i <= 1 => i = 1
  BY <1>13
<1> QED
  BY <1>1, <1>4, <1>11, <1>12, <1>13, <1>14

\* The first statement is the one that writes the initial words.
LEMMA FirstIsInit ==
  ASSUME Control, Inits, NEW q \in Apps
  PROVE  /\ pc[q] \in Nat /\ pc[q] >= 1
         /\ pc[q] = 1 => At(q, "plain") /\ Stmt(q).what = "init"
         /\ \A do : do # "plain" /\ At(q, do) => pc[q] > 1
         /\ At(q, "plain") => pc[q] = 1 /\ Stmt(q).what = "init"
<1>1. prog \in Progs
  BY DEF Control, Typed
<1>2. PICK s : s = Program(q)
  OBVIOUS
<1>3. /\ Len(s) \in Nat /\ 1 \in 1 .. Len(s) /\ s[1].do = "plain" /\ s[1].what = "init"
      /\ \A i \in 1 .. Len(s) : s[i].do = "plain" /\ s[i].what \in {"zero", "init"} => i = 1
  BY <1>1, <1>2, BeginsInit
<1>4. pc[q] \in 1 .. Len(s) + 1
  BY <1>2 DEF Control, Placed
<1>5. pc[q] \in Nat /\ pc[q] >= 1
  BY <1>3, <1>4
<1>6. ASSUME pc[q] = 1
      PROVE  At(q, "plain") /\ Stmt(q).what = "init"
  <2>1. ~Ended(q)
    BY <1>2, <1>3, <1>6 DEF Ended
  <2>2. Stmt(q) = s[1]
    BY <1>2, <1>6 DEF Stmt
  <2> QED
    BY <2>1, <2>2, <1>3 DEF At
<1>7. ASSUME NEW do, do # "plain", At(q, do)
      PROVE  pc[q] > 1
  <2>1. pc[q] # 1
    BY <1>6, <1>7 DEF At
  <2> QED
    BY <2>1, <1>5
<1>8. ASSUME At(q, "plain")
      PROVE  pc[q] = 1 /\ Stmt(q).what = "init"
  <2>1. Stmt(q).what \in Plains /\ Stmt(q) = s[pc[q]] /\ pc[q] \in 1 .. Len(s) /\ Stmt(q).do = "plain"
    BY <1>2, <1>8, AtFacts
  <2>2. Plains = {"init"}
    BY DEF Inits, Plains, OpeningPlains, RestPlains
  <2> QED
    BY <2>1, <2>2, <1>3
<1> QED
  BY <1>5, <1>6, <1>7, <1>8

\* Whoever is in a transaction knows that all have written their initial words.
LEMMA AllStarted ==
  ASSUME Control, Inits, NEW p \in Apps, At(p, "tx")
  PROVE  \A q \in Apps : pc[q] > 1
<1> SUFFICES ASSUME NEW q \in Apps, ~(pc[q] > 1) PROVE FALSE
  OBVIOUS
<1>1. pc[q] = 1
  BY FirstIsInit
<1>2. At(q, "plain") /\ Stmt(q).what = "init"
  BY <1>1, FirstIsInit
<1>3. prog # "tm2"
  BY DEF Inits
<1> QED
  BY <1>2, <1>3, StartedTogether

\* Nobody comes to the first statement again.
LEMMA FirstStays ==
  ASSUME Control, Inits, NEW p \in Apps, Transactional(p) \/ Sequential(p), ~PlainWrite(p)
  PROVE  \A q \in Apps : pc'[q] > 1 <=> pc[q] > 1
<1>1. pc \in [Apps -> Nat] /\ prog \in Progs /\ prog # "mr"
  BY DEF Control, Typed, Inits
<1>2. \A q \in Apps : pc[q] \in Nat /\ pc[q] >= 1
  BY FirstIsInit
<1>3. ASSUME pc[p] > 1, NEW j \in Int, j > 1, pc' = [pc EXCEPT ![p] = j]
      PROVE  \A q \in Apps : pc'[q] > 1 <=> pc[q] > 1
  BY <1>1, <1>3
<1>4. CASE pc' = pc
  BY <1>4
<1>5. CASE Commit(p)
  <2>1. At(p, "tx")
    BY <1>5 DEF Commit, Control, Placed
  <2>2. pc[p] > 1
    <3>1. "tx" # "plain"
      OBVIOUS
    <3> QED
      BY <2>1, <3>1, FirstIsInit
  <2>3. pc' = [pc EXCEPT ![p] = pc[p] + 1] /\ pc[p] + 1 \in Int /\ pc[p] + 1 > 1
    BY <1>2, <1>5, <2>2 DEF Commit, Advance
  <2> QED
    BY <2>2, <2>3, <1>3
<1>6. CASE Arrive(p)
  <2>1. CASE arrived \cup {p} = Apps
    <3>1. pc' = [q \in Apps |-> pc[q] + 1]
      BY <2>1, <1>6 DEF Arrive
    <3>2. ASSUME NEW q \in Apps
          PROVE  pc[q] > 1
      <4>1. At(q, "barrier")
        BY <2>1, <1>6 DEF Arrive, Control, Placed
      <4>2. "barrier" # "plain"
        OBVIOUS
      <4> QED
        BY <4>1, <4>2, FirstIsInit
    <3> QED
      BY <3>1, <3>2, <1>2
  <2>2. CASE arrived \cup {p} # Apps
    BY <2>2, <1>6 DEF Arrive
  <2> QED
    BY <2>1, <2>2
<1>7. CASE EnterLoop(p)
  <2>1. At(p, "loop")
    BY <1>7 DEF EnterLoop
  <2>2. pc[p] > 1
    <3>1. "loop" # "plain"
      OBVIOUS
    <3> QED
      BY <2>1, <3>1, FirstIsInit
  <2>3. Stmt(p).len \in Nat
    BY <2>1, AtFacts DEF Statements
  <2>4. \E j \in Int : j > 1 /\ pc' = [pc EXCEPT ![p] = j]
    <3>1. pc' = [pc EXCEPT ![p] = pc[p] + (Stmt(p).len + 2)] \/ pc' = [pc EXCEPT ![p] = pc[p] + 1]
      BY <1>7 DEF EnterLoop, Advance
    <3>2. /\ pc[p] + (Stmt(p).len + 2) \in Int /\ pc[p] + (Stmt(p).len + 2) > 1
          /\ pc[p] + 1 \in Int /\ pc[p] + 1 > 1
      BY <1>2, <2>2, <2>3
    <3> QED
      BY <3>1, <3>2
  <2> QED
    BY <2>2, <2>4, <1>3
<1>8. CASE Again(p)
  <2>1. At(p, "again")
    BY <1>8 DEF Again
  <2>2. pc[p] > 1
    <3>1. "again" # "plain"
      OBVIOUS
    <3> QED
      BY <2>1, <3>1, FirstIsInit
  <2>3. PICK s, i, n : s = Program(p) /\ i = pc[p] /\ n = s[i].len
    OBVIOUS
  <2>4. Stmt(p) = s[i] /\ s[i].do = "again" /\ i \in 1 .. Len(s) /\ n \in Nat
    BY <2>1, <2>3, AtFacts DEF Statements
  <2>5. Sound(s, Txs, Plains, LoopDos)
    BY <2>3, <1>1, ProgramSound
  <2>6. i - n - 1 >= 1 /\ s[i - n - 1] = LoopOf(n)
    BY <2>3, <2>4, <2>5 DEF Sound, SoundAt
  <2>7. s[1].do = "plain"
    BY <2>3, <1>1, BeginsInit
  <2>8. i - n - 1 # 1
    <3>1. PICK j : j = i - n - 1
      OBVIOUS
    <3>4. s[j] = LoopOf(n)
      BY Zenon, <3>1, <2>6
    <3>5. LoopOf(n).do = "loop"
      BY DEF LoopOf
    <3>2. s[j].do = "loop"
      BY <3>4, <3>5
    <3>3. j # 1
      BY <3>2, <2>7
    <3> QED
      BY <3>1, <3>3
  <2>9. pc' = [pc EXCEPT ![p] = i - n - 1]
    <3>1. pc' = [pc EXCEPT ![p] = pc[p] + (-(Stmt(p).len + 1))]
      BY <1>8 DEF Again, Advance
    <3>2. pc[p] + (-(Stmt(p).len + 1)) = i - n - 1
      BY <2>3, <2>4, <1>2
    <3> QED
      BY <3>1, <3>2
  <2>10. i - n - 1 \in Int /\ i - n - 1 > 1
    BY <2>3, <2>4, <2>6, <2>8, <1>2
  <2> QED
    BY <2>2, <2>9, <2>10, <1>3
<1>9. ~WhileChunk(p) /\ ~EndChunk(p)
  BY <1>1, ChunksInMr DEF WhileChunk, EndChunk
<1>10. ~CountChunk(p) /\ ~PlainTotal(p)
  <2>1. "chunk" # "init" /\ "total" # "init"
    OBVIOUS
  <2> QED
    BY <2>1, FirstIsInit DEF CountChunk, PlainTotal
<1>11. Begin(p) \/ Load(p) \/ Store(p) \/ Wlock(p) \/ Add(p) \/ ReadRaw(p) \/ Abort(p) => pc' = pc
  BY DEF Begin, Load, Store, Wlock, Add, ReadRaw, Abort
<1> QED
  BY <1>4, <1>5, <1>6, <1>7, <1>8, <1>9, <1>10, <1>11 DEF Transactional, Sequential

LEMMA TmBodies ==
  ASSUME NEW p \in Apps, NEW what \in Txs, NEW b \in Bodies(p, what), prog \in {"tm4", "tm6", "tm8", "tm9"}
  PROVE  /\ Reader(b) \/ (prog \in {"tm4", "tm9"} /\ b = StoreAll(p))
         /\ what \in {"load_all", "load_or_store_0"} \/ (what = "load_or_store" /\ p = min_app_id) => b = LoadAll(Size)
         /\ what = "load_or_store_2" => b = From2(LoadAll(Size))
<1>1. \/ what = "load_all"
      \/ what = "load_or_store" /\ prog \in {"tm4", "tm9"}
      \/ what = "load_or_store_0"
      \/ what = "load_or_store_2"
  BY DEF Txs
<1>2. Reader(LoadAll(Size)) /\ Reader(From2(LoadAll(Size)))
  <2>1. Size \in Nat
    BY SizeFacts
  <2>2. LoadsFrom(LoadAll(Size), Size, 0)
    BY <2>1, LoadAllLoads
  <2>3. LoadsFrom(From2(LoadAll(Size)), Size - 2, 2)
    BY FromTwoLoads
  <2> QED
    BY <2>2, <2>3, LoadsRead
<1>3. p >= 1
  BY AppsPositive
<1>4. CASE what = "load_all"
  <2>1. b = LoadAll(Size)
    BY <1>4 DEF Bodies
  <2> QED
    BY <2>1, <1>2, <1>4
<1>5. CASE what = "load_or_store" /\ prog \in {"tm4", "tm9"}
  <2>1. b = IF p = min_app_id THEN LoadAll(Size) ELSE StoreAll(p)
    BY <1>5 DEF Bodies
  <2> QED
    BY <2>1, <1>2, <1>5
<1>6. CASE what = "load_or_store_0"
  <2>1. b = LoadAll(Size)
    BY <1>3, <1>6 DEF Bodies
  <2> QED
    BY <2>1, <1>2, <1>6
<1>7. CASE what = "load_or_store_2"
  <2>1. b = From2(LoadAll(Size))
    BY <1>3, <1>7 DEF Bodies
  <2> QED
    BY <2>1, <1>2, <1>7
<1> QED
  BY <1>1, <1>4, <1>5, <1>6, <1>7

LEMMA TmsKept ==
  ASSUME InTms, prog' = prog, \A w \in Words : mem'[w] = mem[w], Inits => \A q \in Apps : pc'[q] > 1 <=> pc[q] > 1
  PROVE  InTms'
<1>1. Inits' = Inits
  BY DEF Inits
<1>2. Marked => Marked'
  <2> SUFFICES ASSUME Marked, NEW w \in Words
               PROVE  mem'[w] = IF Inits /\ w % NUM_UES \in Apps /\ pc'[w % NUM_UES] > 1 THEN -1 ELSE 0
    BY <1>1 DEF Marked
  <2>1. mem[w] = IF Inits /\ w % NUM_UES \in Apps /\ pc[w % NUM_UES] > 1 THEN -1 ELSE 0
    BY DEF Marked
  <2> QED
    BY <2>1
<1>3. Owned => Owned'
  BY DEF Owned
<1>4. (Inits => \A p \in Apps : pc[p] > 1) => (Inits' => \A p \in Apps : pc'[p] > 1)
  BY <1>1
<1> QED
  BY <1>2, <1>3, <1>4 DEF InTms

\* A node writes its initial words, which nobody has written yet.
LEMMA InitWrites ==
  ASSUME Control, InTms, NEW p \in Apps, PlainWrite(p)
  PROVE  InTms'
<1>1. At(p, "plain") /\ Stmt(p).what \in {"zero", "init"} /\ prog' = prog /\ pc' = [pc EXCEPT ![p] = pc[p] + 1]
  BY DEF PlainWrite, Advance
<1>2. Inits' = Inits /\ pc \in [Apps -> Nat]
  BY <1>1 DEF Inits, Control, Typed
<1>3. CASE Inits
  <2>1. pc[p] = 1 /\ Stmt(p).what = "init"
    BY <1>1, <1>3, FirstIsInit
  <2>2. pc'[p] = 2 /\ \A q \in Apps \ {p} : pc'[q] = pc[q]
    BY <1>1, <1>2, <2>1
  <2>3. Marked
    <3>1. ~(\A q \in Apps : pc[q] > 1)
      BY <2>1
    <3> QED
      BY <3>1, <1>3 DEF InTms, Inits
  <2>4. mem' = [w \in Readable |-> IF w \in InitWords(p) THEN -1 ELSE mem[w]]
    BY <2>1 DEF PlainWrite
  <2>5. ASSUME NEW w \in Words
        PROVE  mem'[w] = IF w % NUM_UES \in Apps /\ pc'[w % NUM_UES] > 1 THEN -1 ELSE 0
    <3>1. w \in Readable /\ (w \in InitWords(p) <=> w % NUM_UES = p)
      BY SizeFacts DEF InitWords
    <3>2. mem[w] = IF w % NUM_UES \in Apps /\ pc[w % NUM_UES] > 1 THEN -1 ELSE 0
      BY <2>3, <1>3 DEF Marked
    <3>3. PICK x : x = w % NUM_UES
      OBVIOUS
    <3>4. CASE x = p
      BY <3>1, <3>3, <3>4, <2>2, <2>4
    <3>5. CASE x # p
      BY <3>1, <3>2, <3>3, <3>5, <2>2, <2>4
    <3> QED
      BY <3>4, <3>5
  <2>6. Marked'
    BY <2>5, <1>2, <1>3 DEF Marked
  <2> QED
    BY <2>6 DEF InTms
<1>4. CASE ~Inits
  <2>1. Stmt(p).what \in Plains
    BY <1>1, AtFacts
  <2>2. prog # "tm9"
    BY <2>1 DEF Plains, OpeningPlains, RestPlains
  <2> QED
    BY <2>2, <1>1, <1>4 DEF InTms, Inits
<1> QED
  BY <1>3, <1>4

LEMMA TmCommits ==
  ASSUME Control, InTms, NEW p \in Apps, Tracked(p), Commit(p)
  PROVE  InTms'
<1>1. PICK b, v, m : b = tx[p].body /\ v = tx[p].vals /\ m = mem'
  OBVIOUS
<1>2. /\ At(p, "tx") /\ Stmt(p).what \in Txs /\ b \in Bodies(p, Stmt(p).what) /\ Commits(b, v, m)
  BY <1>1, CommitIs
<1>3. prog' = prog /\ Inits' = Inits
  BY DEF Commit, Inits
<1>4. Inits => \A q \in Apps : pc'[q] > 1 <=> pc[q] > 1
  <2>1. ~PlainWrite(p)
    BY <1>2, AtFacts DEF PlainWrite, At
  <2> QED
    BY <2>1, FirstStays DEF Transactional
<1>5. CASE prog \notin {"tm4", "tm6", "tm8", "tm9"}
  BY <1>3, <1>5 DEF InTms
<1>6. CASE prog \in {"tm4", "tm6", "tm8", "tm9"}
  <2>1. CASE Reader(b)
    <3>1. m = mem
      BY <2>1, <1>2 DEF Commits
    <3> QED
      BY <3>1, <1>1, <1>3, <1>4, TmsKept
  <2>2. CASE ~Reader(b)
    <3>1. prog \in {"tm4", "tm9"} /\ b = StoreAll(p)
      BY <2>2, <1>2, <1>6, TmBodies
    <3>2. \A w \in Words : m[w] = p
      <4>1. PICK f : f = [w \in Words |-> p]
        OBVIOUS
      <4>2. StoresAll(b, f)
        BY <3>1, <4>1, StoreAllStores
      <4>3. \A w \in Words : m[w] = f[w]
        BY <4>2, <1>2, StoresDone
      <4> QED
        BY <4>1, <4>3
    <3>3. Owned'
      BY <3>2, <1>1 DEF Owned
    <3>4. Inits => \A q \in Apps : pc'[q] > 1
      BY <1>2, <1>4, AllStarted
    <3> QED
      BY <3>1, <3>3, <3>4, <1>3 DEF InTms
  <2> QED
    BY <2>1, <2>2
<1> QED
  BY <1>5, <1>6

LEMMA TmsStep ==
  ASSUME Control, InTms, NEW p \in Apps, Tracked(p), Transactional(p) \/ Sequential(p)
  PROVE  InTms'
<1>1. CASE Commit(p)
  BY <1>1, TmCommits
<1>2. CASE PlainWrite(p)
  BY <1>2, InitWrites
<1>3. CASE ~Commit(p) /\ ~PlainWrite(p)
  <2>1. mem' = mem /\ prog' = prog
    BY <1>3 DEF Transactional, Sequential, Begin, Load, Store, Wlock, Add, ReadRaw, Abort, Arrive, EnterLoop, Again,
                WhileChunk, EndChunk, CountChunk, PlainTotal
  <2>2. Inits => \A q \in Apps : pc'[q] > 1 <=> pc[q] > 1
    BY <1>3, FirstStays
  <2> QED
    BY <2>1, <2>2, TmsKept
<1> QED
  BY <1>1, <1>2, <1>3

-----------------------------------------------------------------------------
(* The rounds of tm2.                                                        *)

LEMMA Tm2Places ==
  ASSUME Control, prog = "tm2", NEW p \in Apps
  PROVE  /\ pc[p] \in 1 .. 7 /\ reps[p] \in Nat
         /\ At(p, "barrier") => pc[p] \in {1, 3}
         /\ At(p, "loop") => pc[p] = 2 /\ Stmt(p).len = 3
         /\ At(p, "again") => pc[p] = 6 /\ Stmt(p).len = 3
         /\ At(p, "tx") => \/ pc[p] = 4 /\ Stmt(p).what = "write_reps"
                           \/ pc[p] = 5 /\ Stmt(p).what = "read_reps"
         /\ ~At(p, "plain") /\ ~At(p, "while_chunk") /\ ~At(p, "end_chunk")
<1>1. Tm2At(p) /\ pc[p] \in 1 .. Len(Program(p)) + 1 /\ reps[p] \in Nat
  BY Tm2Program DEF Control, Placed, Typed
<1>2. PICK s, i : s = Program(p) /\ i = pc[p]
  OBVIOUS
<1>3. /\ Len(s) = 6 /\ s[1].do = "barrier" /\ s[2].do = "loop" /\ s[2].len = 3 /\ s[3].do = "barrier"
      /\ s[4].do = "tx" /\ s[4].what = "write_reps" /\ s[5].do = "tx" /\ s[5].what = "read_reps"
      /\ s[6].do = "again" /\ s[6].len = 3
  <2>1. LoopOf(3).do = "loop" /\ LoopOf(3).len = 3 /\ AgainOf(3).do = "again" /\ AgainOf(3).len = 3
    BY DEF LoopOf, AgainOf
  <2> QED
    BY <1>1, <1>2, <2>1 DEF Tm2At
<1>4. i \in 1 .. 7
  BY <1>1, <1>2, <1>3
<1>5. ASSUME NEW do, At(p, do)
      PROVE  /\ Stmt(p) = s[i] /\ s[i].do = do
             /\ i = 1 \/ i = 2 \/ i = 3 \/ i = 4 \/ i = 5 \/ i = 6
  <2>1. Stmt(p) = s[i] /\ s[i].do = do /\ i \in 1 .. Len(s)
    BY <1>2, <1>5, AtFacts
  <2> QED
    BY <2>1, <1>3
<1> QED
  BY <1>1, <1>2, <1>3, <1>4, <1>5

LEMMA Tm2Keeps ==
  ASSUME InTm2, prog = "tm2", prog' = prog,
         \A q \in Apps : Passed(q)' = Passed(q),
         \A q \in Apps : pc'[q] = 1 => pc[q] = 1 /\ reps'[q] = reps[q],
         \A q \in Apps : pc'[q] = 5 => \A w \in Words : mem'[w] = reps'[q] + w
  PROVE  InTm2'
<1>1. \A p, q \in Apps : Passed(p)' = Passed(q)'
  BY DEF InTm2
<1>2. \A q \in Apps : pc'[q] = 1 => reps'[q] = 1
  BY DEF InTm2
<1> QED
  BY <1>1, <1>2 DEF InTm2

LEMMA Tm2Commits ==
  ASSUME Control, InTm2, prog = "tm2", NEW p \in Apps, Tracked(p), Commit(p)
  PROVE  InTm2'
<1>1. PICK b, v, m : b = tx[p].body /\ v = tx[p].vals /\ m = mem'
  OBVIOUS
<1>2. /\ At(p, "tx") /\ b \in Bodies(p, Stmt(p).what) /\ Commits(b, v, m)
  BY <1>1, CommitIs
<1>3. /\ prog' = prog /\ pc' = [pc EXCEPT ![p] = pc[p] + 1]
      /\ reps' = [reps EXCEPT ![p] = IF Stmt(p).what = "read_reps" THEN reps[p] + 1 ELSE reps[p]]
  BY DEF Commit, Advance
<1>4. pc \in [Apps -> Nat] /\ reps \in [Apps -> Nat]
  BY DEF Control, Typed
<1>5. \A q \in Apps \ {p} : pc'[q] = pc[q] /\ reps'[q] = reps[q] /\ Passed(q)' = Passed(q)
  <2>1. \A q \in Apps \ {p} : pc'[q] = pc[q] /\ reps'[q] = reps[q]
    BY <1>3, <1>4
  <2> QED
    BY <2>1 DEF Passed
<1>6. CASE pc[p] = 4 /\ Stmt(p).what = "write_reps"
  <2>1. pc'[p] = 5 /\ reps'[p] = reps[p]
    BY <1>3, <1>4, <1>6
  <2>2. Passed(p)' = Passed(p) /\ Passed(p) = reps[p] + 1
    BY <2>1, <1>6 DEF Passed
  <2>3. \A w \in Words : m[w] = reps[p] + w
    <3>1. b = WriteReps(p)
      BY <1>2, <1>6 DEF Bodies
    <3>2. PICK f : f = [w \in Words |-> reps[p] + w]
      OBVIOUS
    <3>3. StoresAll(b, f)
      BY <3>1, <3>2, WriteRepsStores
    <3>4. \A w \in Words : m[w] = f[w]
      BY <3>3, <1>2, StoresDone
    <3> QED
      BY <3>2, <3>4
  <2>4. ASSUME NEW q \in Apps, pc'[q] = 5
        PROVE  \A w \in Words : mem'[w] = reps'[q] + w
    <3>1. CASE q = p
      BY <3>1, <2>1, <2>3, <1>1
    <3>2. CASE q # p
      <4>3. pc[q] = 5
        BY <3>2, <2>4, <1>5
      <4>4. Passed(q) = reps[q] + 1
        BY <4>3 DEF Passed
      <4>5. Passed(q) = Passed(p)
        BY DEF InTm2
      <4>1. Passed(q) = Passed(p) /\ Passed(q) = reps[q] + 1
        BY <4>4, <4>5
      <4>6. PICK x \in Nat, y \in Nat : x = reps[p] /\ y = reps[q]
        BY <1>4
      <4>7. x + 1 = y + 1
        BY <4>1, <4>6, <2>2
      <4>8. x = y
        BY <4>7
      <4>2. reps'[q] = reps[p]
        BY <4>6, <4>8, <3>2, <1>5
      <4> QED
        BY <4>2, <2>3, <1>1
    <3> QED
      BY <3>1, <3>2
  <2>5. \A q \in Apps : pc'[q] = 1 => pc[q] = 1 /\ reps'[q] = reps[q]
    BY <2>1, <1>5
  <2> QED
    BY <2>2, <2>4, <2>5, <1>3, <1>5, Tm2Keeps
<1>7. CASE pc[p] = 5 /\ Stmt(p).what = "read_reps"
  <2>1. pc'[p] = 6 /\ reps'[p] = reps[p] + 1
    BY <1>3, <1>4, <1>7
  <2>2. Passed(p)' = Passed(p)
    BY <2>1, <1>7 DEF Passed
  <2>3. m = mem
    <3>3. b = LoadAll(Size)
      BY <1>2, <1>7 DEF Bodies
    <3>1. b = LoadAll(Size) /\ Size \in Nat /\ 0 \in Nat
      BY <3>3, SizeFacts
    <3>2. LoadsFrom(b, Size, 0)
      BY <3>1, LoadAllLoads
    <3>4. Reader(b)
      BY <3>2, LoadsRead
    <3> QED
      BY <3>4, <1>2 DEF Commits
  <2>4. \A q \in Apps : pc'[q] = 5 => \A w \in Words : mem'[w] = reps'[q] + w
    BY <2>1, <2>3, <1>1, <1>5 DEF InTm2
  <2>5. \A q \in Apps : pc'[q] = 1 => pc[q] = 1 /\ reps'[q] = reps[q]
    BY <2>1, <1>5
  <2> QED
    BY <2>2, <2>4, <2>5, <1>3, <1>5, Tm2Keeps
<1> QED
  BY <1>2, <1>6, <1>7, Tm2Places

\* The last to arrive: all pass one barrier more.
LEMMA Tm2Arrives ==
  ASSUME Control, InTm2, prog = "tm2", NEW p \in Apps, Arrive(p)
  PROVE  InTm2'
<1>1. mem' = mem /\ reps' = reps /\ prog' = prog /\ pc \in [Apps -> Nat]
  BY DEF Arrive, Control, Typed
<1>2. CASE arrived \cup {p} = Apps
  <2>1. pc' = [q \in Apps |-> pc[q] + 1]
    BY <1>2 DEF Arrive
  <2>2. ASSUME NEW q \in Apps
        PROVE  Passed(q)' = Passed(q) + 1 /\ pc'[q] \in {2, 4}
    <3>1. At(q, "barrier")
      BY <1>2 DEF Arrive, Control, Placed
    <3>2. pc[q] \in {1, 3} /\ reps[q] \in Nat
      BY <3>1, Tm2Places
    <3>3. pc'[q] = pc[q] + 1 /\ reps'[q] = reps[q]
      BY <1>1, <2>1
    <3>4. pc[q] = 1 => reps[q] = 1
      BY DEF InTm2
    <3> QED
      BY <3>2, <3>3, <3>4 DEF Passed
  <2>3. \A r, q \in Apps : Passed(r)' = Passed(q)'
    BY <2>2 DEF InTm2
  <2> QED
    BY <2>2, <2>3, <1>1 DEF InTm2
<1>3. CASE arrived \cup {p} # Apps
  <2>1. pc' = pc
    BY <1>3 DEF Arrive
  <2>2. \A q \in Apps : Passed(q)' = Passed(q)
    BY <2>1, <1>1 DEF Passed
  <2> QED
    BY <2>1, <2>2, <1>1 DEF InTm2
<1> QED
  BY <1>2, <1>3

\* A node goes on without a transaction.
LEMMA Tm2Goes ==
  ASSUME Control, InTm2, prog = "tm2", NEW p \in Apps, EnterLoop(p) \/ Again(p)
  PROVE  InTm2'
<1>1. mem' = mem /\ prog' = prog /\ pc \in [Apps -> Nat] /\ reps \in [Apps -> Nat]
  BY DEF EnterLoop, Again, Control, Typed
<1>2. reps' = reps
  BY <1>1 DEF EnterLoop, Again
<1>3. pc[p] \in {2, 6} /\ \E j \in {2, 3, 7} : pc' = [pc EXCEPT ![p] = j]
  <2>1. CASE EnterLoop(p)
    <3>1. pc[p] = 2 /\ Stmt(p).len = 3
      BY <2>1, Tm2Places DEF EnterLoop
    <3>2. pc' = [pc EXCEPT ![p] = pc[p] + (Stmt(p).len + 2)] \/ pc' = [pc EXCEPT ![p] = pc[p] + 1]
      BY <2>1 DEF EnterLoop, Advance
    <3> QED
      BY <3>1, <3>2
  <2>2. CASE Again(p)
    <3>1. pc[p] = 6 /\ Stmt(p).len = 3
      BY <2>2, Tm2Places DEF Again
    <3>2. pc' = [pc EXCEPT ![p] = pc[p] + (-(Stmt(p).len + 1))]
      BY <2>2 DEF Again, Advance
    <3> QED
      BY <3>1, <3>2
  <2> QED
    BY <2>1, <2>2
<1>4. pc'[p] \in {2, 3, 7} /\ \A q \in Apps \ {p} : pc'[q] = pc[q]
  BY <1>1, <1>3
<1>5. \A q \in Apps : Passed(q)' = Passed(q)
  BY <1>2, <1>3, <1>4 DEF Passed
<1>6. \A q \in Apps : /\ pc'[q] = 1 => pc[q] = 1 /\ reps'[q] = reps[q]
                      /\ pc'[q] = 5 => \A w \in Words : mem'[w] = reps'[q] + w
  BY <1>1, <1>2, <1>4 DEF InTm2
<1> QED
  BY <1>1, <1>5, <1>6, Tm2Keeps

LEMMA Tm2Step ==
  ASSUME Control, InTm2, NEW p \in Apps, Tracked(p), Transactional(p) \/ Sequential(p)
  PROVE  InTm2'
<1>1. prog' = prog
  BY DEF Transactional, Sequential, Begin, Load, Store, Wlock, Add, ReadRaw, Abort, Commit, Arrive, EnterLoop, Again,
         WhileChunk, EndChunk, CountChunk, PlainWrite, PlainTotal
<1>2. CASE prog # "tm2"
  BY <1>1, <1>2 DEF InTm2
<1>3. CASE prog = "tm2"
  <2>1. CASE Begin(p) \/ Load(p) \/ Store(p) \/ Wlock(p) \/ Add(p) \/ ReadRaw(p) \/ Abort(p)
    <3>1. pc' = pc /\ reps' = reps /\ mem' = mem
      BY <2>1 DEF Begin, Load, Store, Wlock, Add, ReadRaw, Abort
    <3>2. \A q \in Apps : Passed(q)' = Passed(q)
      BY <3>1 DEF Passed
    <3> QED
      BY <3>1, <3>2, <1>1 DEF InTm2
  <2>2. ~WhileChunk(p) /\ ~EndChunk(p) /\ ~CountChunk(p) /\ ~PlainWrite(p) /\ ~PlainTotal(p)
    BY <1>3, Tm2Places DEF WhileChunk, EndChunk, CountChunk, PlainWrite, PlainTotal
  <2> QED
    BY <2>1, <2>2, <1>3, Tm2Commits, Tm2Arrives, Tm2Goes DEF Transactional, Sequential
<1> QED
  BY <1>2, <1>3

-----------------------------------------------------------------------------
(* What the committed readers have seen.                                     *)

LEMMA BankStep ==
  ASSUME Control, InBank, NEW p \in Apps, Tracked(p), Transactional(p) \/ Sequential(p)
  PROVE  InBank'
<1>1. prog' = prog
  BY DEF Transactional, Sequential, Begin, Load, Store, Wlock, Add, ReadRaw, Abort, Commit, Arrive, EnterLoop, Again,
         WhileChunk, EndChunk, CountChunk, PlainWrite, PlainTotal
<1> SUFFICES ASSUME prog = "bank" PROVE SumOf(Balances(mem')) = 0
  BY <1>1 DEF InBank
<1>2. CASE Commit(p)
  BY <1>2, BankCommits
<1>3. CASE PlainWrite(p)
  <2>1. Stmt(p).what \in Plains /\ Stmt(p).what \in {"zero", "init"}
    BY <1>3, AtFacts DEF PlainWrite
  <2>2. Stmt(p).what = "zero"
    BY <2>1 DEF Plains, OpeningPlains, RestPlains
  <2>3. mem' = [w \in Readable |-> 0]
    BY <2>2, <1>3 DEF PlainWrite
  <2>4. PICK m : m = mem'
    OBVIOUS
  <2>5. \A w \in Readable : m[w] = 0
    BY <2>3, <2>4
  <2>6. Balances(m) \in [1 .. NbAccounts -> Int]
    BY <2>5, BalancesTyped
  <2>7. \A i \in 1 .. NbAccounts : Balances(m)[i] = 0
    <3> SUFFICES ASSUME NEW i \in 1 .. NbAccounts PROVE Balances(m)[i] = 0
      OBVIOUS
    <3>1. i - 1 \in Readable /\ Balances(m)[i] = m[i - 1]
      BY <2>5, SizeFacts, BalancesTyped
    <3> QED
      BY <3>1, <2>5
  <2> QED
    BY <2>4, <2>6, <2>7, SizeFacts, ZerosSum
<1>4. CASE ~Commit(p) /\ ~PlainWrite(p)
  <2>1. mem' = mem
    BY <1>4 DEF Transactional, Sequential, Begin, Load, Store, Wlock, Add, ReadRaw, Abort, Arrive, EnterLoop, Again,
                WhileChunk, EndChunk, CountChunk, PlainTotal
  <2> QED
    BY <2>1 DEF InBank
<1> QED
  BY <1>2, <1>3, <1>4

\* A reading of the whole array
LEMMA ArrayRead ==
  ASSUME NEW b, b = LoadAll(Size), NEW v, NEW m, Commits(b, v, m)
  PROVE  v = [i \in 1 .. Size |-> mem[i - 1]]
<1>1. Size \in Nat /\ 0 \in Nat
  BY SizeFacts
<1>2. LoadsFrom(b, Size, 0)
  BY <1>1, LoadAllLoads
<1>3. Reader(b)
  BY <1>2, LoadsRead
<1>4. v = [k \in 1 .. Len(b) |-> mem[b[k].w]]
  BY <1>3 DEF Commits
<1>5. Len(b) = Size /\ \A k \in 1 .. Size : b[k].w = k - 1
  BY <1>2 DEF LoadsFrom
<1> QED
  BY <1>4, <1>5

LEMMA MarkedRead ==
  ASSUME Marked, Inits => \A q \in Apps : pc[q] > 1
  PROVE  [i \in 1 .. Size |-> mem[i - 1]] = IF Inits THEN Initially ELSE Zeros
<1>1. \A i \in 1 .. Size : i - 1 \in Words
  BY SizeFacts
<1>2. \A w \in Words : mem[w] = IF Inits THEN InitialWord(w) ELSE 0
  BY DEF Marked, InitialWord
<1>3. \A i \in 1 .. Size : mem[i - 1] = IF Inits THEN InitialWord(i - 1) ELSE 0
  BY <1>1, <1>2
<1>4. CASE Inits
  BY <1>3, <1>4 DEF Initially
<1>5. CASE ~Inits
  BY <1>3, <1>5 DEF Zeros
<1> QED
  BY <1>4, <1>5

LEMMA SecondRead ==
  ASSUME Marked, Inits, \A q \in Apps : pc[q] > 1, NEW b, b = From2(LoadAll(Size)), NEW v, NEW m, Commits(b, v, m)
  PROVE  v = SubSeq(Initially, 3, Size)
<1>1. Size \in Nat /\ Size >= 3
  BY SizeFacts
<1>2. LoadsFrom(b, Size - 2, 2)
  BY FromTwoLoads
<1>3. Reader(b)
  BY <1>2, LoadsRead
<1>4. v = [k \in 1 .. Len(b) |-> mem[b[k].w]]
  BY <1>3 DEF Commits
<1>5. Len(b) = Size - 2 /\ \A k \in 1 .. Size - 2 : b[k].w = 2 + k - 1
  BY <1>2 DEF LoadsFrom
<1>6. \A k \in 1 .. Size - 2 : 2 + k - 1 = k + 1 /\ k + 1 \in Words
  BY <1>1, SizeFacts
<1>7. \A w \in Words : mem[w] = InitialWord(w)
  BY DEF Marked, InitialWord
<1>8. v = [k \in 1 .. Size - 2 |-> InitialWord(k + 1)]
  BY <1>4, <1>5, <1>6, <1>7
<1>9. PICK f : f = Initially
  OBVIOUS
<1>10. Len(f) = Size /\ \A k \in 1 .. Size - 2 : f[k + 2] = InitialWord(k + 1)
  <2>1. \A k \in 1 .. Size - 2 : k + 2 \in 1 .. Size /\ (k + 2) - 1 = k + 1
    BY <1>1
  <2> QED
    BY <2>1, <1>1, <1>9 DEF Initially
<1>11. SubSeq(f, 3, Size) = [k \in 1 .. Size - 2 |-> f[k + 2]]
  <2>1. Size - 3 + 1 = Size - 2 /\ \A k \in 1 .. Size - 2 : k + 3 - 1 = k + 2
    BY <1>1
  <2> QED
    BY <2>1, <1>1
<1> QED
  BY <1>8, <1>9, <1>10, <1>11

\* The last transaction of p that committed is this one.
LEMMA CommitSeen ==
  ASSUME Control, SeenInv, NEW p \in Apps, Commit(p)
  PROVE  SeenBy(p)'
<1>1. PICK b, v, m, what : b = tx[p].body /\ v = tx[p].vals /\ m = mem' /\ what = Stmt(p).what
  OBVIOUS
<1>2. At(p, "tx") /\ what \in Txs /\ b \in Bodies(p, what) /\ Commits(b, v, m)
  BY <1>1, CommitIs DEF SeenInv
<1>3. last'[p].what = what /\ last'[p].vals = v /\ prog' = prog
  BY <1>1 DEF Commit, SeenInv
<1>4. /\ what # "total" /\ what # "none"
      /\ what \in {"empty", "bank"} <=> prog = "bank"
      /\ what \in {"write_reps", "read_reps"} <=> prog = "tm2"
      /\ what = "load_all" <=> prog = "tm6"
      /\ what = "load_or_store" <=> prog \in {"tm4", "tm9"}
      /\ what \in {"load_or_store_2", "load_or_store_0"} <=> prog = "tm8"
  BY <1>2, TxOf
<1>5. what = "bank" /\ Len(v) = NbAccounts => SumOf(v) = 0
  BY <1>1, <1>4, BankCommits DEF SeenInv
<1>6. ASSUME what = "read_reps"
      PROVE  prog = "tm2" /\ SumOf(v) = SumOf([i \in 1 .. Size |-> reps'[p] - 1 + i - 1])
  <2>1. prog = "tm2" /\ pc[p] = 5
    BY <1>1, <1>2, <1>6, ReadRepsAt
  <2>2. v = [i \in 1 .. Size |-> mem[i - 1]]
    <3>1. b = LoadAll(Size)
      BY <1>2, <1>6 DEF Bodies
    <3> QED
      BY <3>1, <1>2, ArrayRead
  <2>3. PICK r \in Nat : r = reps[p] /\ reps'[p] = r + 1
    BY <1>1, <1>6 DEF Commit, Control, Typed
  <2>4. ASSUME NEW i \in 1 .. Size
        PROVE  mem[i - 1] = reps'[p] - 1 + i - 1
    <3>1. i - 1 \in Words
      BY SizeFacts
    <3>2. mem[i - 1] = r + (i - 1)
      BY <3>1, <2>1, <2>3 DEF SeenInv, InTm2
    <3> QED
      BY <3>2, <2>3
  <2>5. v = [i \in 1 .. Size |-> reps'[p] - 1 + i - 1]
    BY <2>2, <2>4
  <2> QED
    BY <2>1, <2>5
<1>7. Inits => \A q \in Apps : pc[q] > 1
  BY <1>2, AllStarted
<1>8. what \in {"load_all", "load_or_store_0"} \/ (what = "load_or_store" /\ p = min_app_id) =>
        v = [i \in 1 .. Size |-> mem[i - 1]]
  BY <1>2, <1>4, TmBodies, ArrayRead
<1>9. ASSUME what = "load_or_store", p = min_app_id
      PROVE  \/ v = IF prog = "tm4" THEN Initially ELSE Zeros
             \/ \E id \in Apps : v = [i \in 1 .. Size |-> id]
  <2>1. CASE Marked
    <3>1. v = IF Inits THEN Initially ELSE Zeros
      BY <2>1, <1>7, <1>8, <1>9, MarkedRead
    <3> QED
      BY <3>1, <1>4, <1>9 DEF Inits
  <2>2. CASE Owned
    <3>1. PICK id \in Apps : \A w \in Words : mem[w] = id
      BY <2>2 DEF Owned
    <3>2. \A i \in 1 .. Size : i - 1 \in Words
      BY SizeFacts
    <3>3. v = [i \in 1 .. Size |-> id]
      BY <3>1, <3>2, <1>8, <1>9
    <3> QED
      BY <3>3
  <2> QED
    BY <2>1, <2>2, <1>4, <1>9 DEF SeenInv, InTms
<1>10. ASSUME what = "load_or_store_2"
       PROVE  v = SubSeq(Initially, 3, Size)
  <2>1. prog = "tm8" /\ Inits /\ Marked
    BY <1>4, <1>10 DEF Inits, SeenInv, InTms
  <2>2. b = From2(LoadAll(Size))
    BY <2>1, <1>2, <1>10, TmBodies
  <2> QED
    BY <2>1, <2>2, <1>2, <1>7, SecondRead
<1>11. ASSUME what \in {"load_all", "load_or_store_0"}
       PROVE  v = Initially
  <2>1. prog \in {"tm6", "tm8"} /\ Marked
    BY <1>4, <1>11 DEF SeenInv, InTms
  <2>2. v = IF Inits THEN Initially ELSE Zeros
    BY <2>1, <1>7, <1>8, <1>11, MarkedRead
  <2> QED
    BY <2>1, <2>2 DEF Inits
<1> QED
  BY <1>3, <1>4, <1>5, <1>6, <1>9, <1>10, <1>11 DEF SeenBy

LEMMA SeenStays ==
  ASSUME NEW q \in Apps, SeenBy(q), prog' = prog, last'[q] = last[q], prog = "tm2" => reps'[q] = reps[q]
  PROVE  SeenBy(q)'
<1>1. prog = "tm2" => [i \in 1 .. Size |-> reps'[q] - 1 + i - 1] = [i \in 1 .. Size |-> reps[q] - 1 + i - 1]
  BY Zenon
<1>2. PICK what, vals : what = last[q].what /\ vals = last[q].vals
  OBVIOUS
<1>3. what = last'[q].what /\ vals = last'[q].vals
  BY <1>2
<1>4. what = "total" => SumOf(vals) = 0
  BY <1>2 DEF SeenBy
<1>5. what = "bank" /\ Len(vals) = NbAccounts => SumOf(vals) = 0
  BY <1>2 DEF SeenBy
<1>6. what = "read_reps" => prog' = "tm2" /\ SumOf(vals) = SumOf([i \in 1 .. Size |-> reps'[q] - 1 + i - 1])
  <2>1. what = "read_reps" => prog = "tm2" /\ SumOf(vals) = SumOf([i \in 1 .. Size |-> reps[q] - 1 + i - 1])
    BY <1>2, Zenon DEF SeenBy
  <2> QED
    BY <2>1, <1>1, Zenon
<1>7. what = "load_or_store" /\ q = min_app_id =>
         \/ vals = IF prog' = "tm4" THEN Initially ELSE Zeros
         \/ \E id \in Apps : vals = [i \in 1 .. Size |-> id]
  BY <1>2, Zenon DEF SeenBy
<1>8. what = "load_or_store_2" => vals = SubSeq(Initially, 3, Size)
  BY <1>2, Zenon DEF SeenBy
<1>9. what \in {"load_all", "load_or_store_0"} => vals = Initially
  BY <1>2, Zenon DEF SeenBy
<1> QED
  BY <1>3, <1>4, <1>5, <1>6, <1>7, <1>8, <1>9, Zenon DEF SeenBy

LEMMA TotalSeen ==
  ASSUME Control, SeenInv, NEW p \in Apps, PlainTotal(p)
  PROVE  SeenBy(p)'
<1>1. last'[p].what = "total" /\ last'[p].vals = Balances(mem) /\ prog' = prog
  BY DEF PlainTotal, SeenInv, Balances
<1>2. prog = "bank"
  <2>1. "total" \in Plains
    BY AtFacts DEF PlainTotal
  <2> QED
    BY <2>1 DEF Plains, OpeningPlains, RestPlains
<1>3. SumOf(Balances(mem)) = 0
  BY <1>2 DEF SeenInv, InBank
<1> QED
  BY <1>1, <1>3 DEF SeenBy

LEMMA SeenByStep ==
  ASSUME Control, SeenInv, NEW p \in Apps, Transactional(p) \/ Sequential(p)
  PROVE  DOMAIN last' = Apps /\ \A q \in Apps : SeenBy(q)'
<1>1. prog' = prog /\ DOMAIN last = Apps /\ (\A q \in Apps : SeenBy(q)) /\ reps \in [Apps -> Nat]
  BY DEF Transactional, Sequential, Begin, Load, Store, Wlock, Add, ReadRaw, Abort, Commit, Arrive, EnterLoop, Again,
         WhileChunk, EndChunk, CountChunk, PlainWrite, PlainTotal, SeenInv, Control, Typed
<1>2. CASE Commit(p)
  <2>1. DOMAIN last' = Apps /\ \A q \in Apps \ {p} : last'[q] = last[q] /\ reps'[q] = reps[q]
    BY <1>1, <1>2 DEF Commit
  <2> QED
    BY <2>1, <1>1, <1>2, CommitSeen, SeenStays
<1>3. CASE PlainTotal(p)
  <2>1. DOMAIN last' = Apps /\ \A q \in Apps \ {p} : last'[q] = last[q] /\ reps'[q] = reps[q]
    BY <1>1, <1>3 DEF PlainTotal
  <2> QED
    BY <2>1, <1>1, <1>3, TotalSeen, SeenStays
<1>4. CASE ~Commit(p) /\ ~PlainTotal(p)
  <2>1. last' = last
    BY <1>4 DEF Transactional, Sequential, Begin, Load, Store, Wlock, Add, ReadRaw, Abort, Arrive, EnterLoop, Again,
         WhileChunk, EndChunk, CountChunk, PlainWrite
  <2>2. prog = "tm2" => reps' = reps
    <3>1. CASE Again(p)
      BY <3>1, <1>1 DEF Again
    <3>2. CASE ~Again(p)
      BY <3>2, <1>4 DEF Transactional, Sequential, Begin, Load, Store, Wlock, Add, ReadRaw, Abort, Arrive, EnterLoop,
         WhileChunk, EndChunk, CountChunk, PlainWrite
    <3> QED
      BY <3>1, <3>2
  <2> QED
    BY <2>1, <2>2, <1>1, SeenStays
<1> QED
  BY <1>2, <1>3, <1>4

LEMMA SeenInit == Init => SeenInv
<1> SUFFICES ASSUME Init PROVE SeenInv
  OBVIOUS
<1>1. /\ mem = [w \in Readable |-> 0] /\ pc = [p \in Apps |-> 1] /\ reps = [p \in Apps |-> 1]
      /\ tx = [p \in Apps |-> NoTx] /\ last = [p \in Apps |-> NothingRead] /\ NoTx.at = 0 /\ NothingRead.what = "none"
  BY DEF Init, NoTx, NothingRead
<1>2. \A p \in Apps : Tracked(p)
  BY <1>1 DEF Tracked, InTx
<1>3. Marked
  <2>1. \A w \in Words : w \in Readable
    BY SizeFacts
  <2> QED
    BY <2>1, <1>1 DEF Marked
<1>4. InBank
  <2>1. \A w \in Readable : mem[w] = 0
    BY <1>1
  <2>2. Balances(mem) \in [1 .. NbAccounts -> Int]
    BY <2>1, BalancesTyped
  <2>3. \A i \in 1 .. NbAccounts : Balances(mem)[i] = 0
    <3> SUFFICES ASSUME NEW i \in 1 .. NbAccounts PROVE Balances(mem)[i] = 0
      OBVIOUS
    <3>1. i - 1 \in Readable /\ Balances(mem)[i] = mem[i - 1]
      BY <2>1, SizeFacts, BalancesTyped
    <3> QED
      BY <3>1, <2>1
  <2> QED
    BY <2>2, <2>3, SizeFacts, ZerosSum DEF InBank
<1>5. InTm2
  BY <1>1 DEF InTm2, Passed
<1>6. \A p \in Apps : SeenBy(p)
  BY <1>1 DEF SeenBy
<1> QED
  BY <1>1, <1>2, <1>3, <1>4, <1>5, <1>6 DEF SeenInv, InTms

LEMMA SeenStep == Control /\ SeenInv /\ [Next]_vars => SeenInv'
<1> SUFFICES ASSUME Control, SeenInv, [Next]_vars PROVE SeenInv'
  OBVIOUS
<1>1. \A p \in Apps : Tracked(p)'
  BY TrackedStep DEF SeenInv
<1>2. ASSUME NEW p \in Apps, Transactional(p) \/ Sequential(p)
      PROVE  SeenInv'
  <2>1. InBank' /\ InTm2' /\ InTms'
    BY <1>2, BankStep, Tm2Step, TmsStep DEF SeenInv
  <2> QED
    BY <2>1, <1>1, <1>2, SeenByStep DEF SeenInv
<1>3. ASSUME UNCHANGED vars
      PROVE  SeenInv'
  <2>1. prog' = prog /\ mem' = mem /\ pc' = pc /\ reps' = reps /\ last' = last
    BY <1>3 DEF vars
  <2>2. InBank' /\ InTm2' /\ InTms'
    BY <2>1 DEF SeenInv, InBank, InTm2, Passed, InTms, Marked, Owned, Inits
  <2>3. \A p \in Apps : SeenBy(p)'
    BY <2>1, SeenStays DEF SeenInv
  <2> QED
    BY <2>1, <2>2, <2>3, <1>1 DEF SeenInv
<1> QED
  BY <1>2, <1>3 DEF Next, Terminated

\* What the readers of each client have seen is a state between transactions (total and check_accs of bank.c,
\* the comparisons of tm2 to tm9): the accounts add up to 0, the sum is the one that was written, and an array
\* is as one node, or nobody, has written it.  Each attempt that still has its locks has read the memory as it is
\* now, so its commit adds one whole transaction to what the others left.
THEOREM SeenHolds == Spec => []SeenWhole
<1>1. SeenInv => SeenWhole
  <2> SUFFICES ASSUME SeenInv, NEW p \in Apps
               PROVE  LET vals == last[p].vals
                      IN  CASE last[p].what = "total" -> SumOf(vals) = 0
                            [] last[p].what = "bank" -> Len(vals) = NbAccounts => SumOf(vals) = 0
                            [] last[p].what = "read_reps" ->
                                 SumOf(vals) = SumOf([i \in 1 .. Size |-> reps[p] - 1 + i - 1])
                            [] last[p].what = "load_or_store" /\ p = min_app_id ->
                                 \/ vals = IF prog = "tm4" THEN Initially ELSE Zeros
                                 \/ \E id \in Apps : vals = [i \in 1 .. Size |-> id]
                            [] last[p].what = "load_or_store_2" -> vals = SubSeq(Initially, 3, Size)
                            [] last[p].what \in {"load_all", "load_or_store_0"} -> vals = Initially
                            [] OTHER -> TRUE
    BY DEF SeenWhole
  <2>1. SeenBy(p)
    BY DEF SeenInv
  <2> QED
    BY <2>1 DEF SeenBy
<1>2. Spec => []SeenInv
  BY SeenInit, SeenStep, ControlHolds, PTL DEF Spec
<1> QED
  BY <1>1, <1>2, PTL
=============================================================================
