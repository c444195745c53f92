--------------------------- MODULE Selection_proof ---------------------------
(* Facts about sequences: a queue kept as a history (what the reader took)  *)
(* followed by the waiting part, which is the shape of every queue between  *)
(* two tasks of a servicer; slices; and the operators of Selection, for     *)
(* every sequence.  Those rest on induction over the natural numbers,       *)
(* stated for a set instead of a predicate, and on the existence of         *)
(* functions defined by recursion.                                          *)
EXTENDS Selection, SequenceTheorems, WellFoundedInduction, TLAPS

-----------------------------------------------------------------------------
(* A history and the queue that follows it, and slices. *)

(* Taking the head of the waiting part leaves the whole unchanged. *)
LEMMA TakeHead ==
    ASSUME NEW S, NEW s \in Seq(S), NEW q \in Seq(S), q # <<>>
    PROVE  /\ Append(s, Head(q)) \o Tail(q) = s \o q
           /\ Append(s, Head(q)) \in Seq(S)
           /\ Tail(q) \in Seq(S)
           /\ Head(q) \in S
           /\ Len(s) < Len(s \o q)
           /\ (s \o q)[Len(s) + 1] = Head(q)
<1>1. q[1] = Head(q) /\ Len(q) \in Nat \ {0} /\ Head(q) \in S
  OBVIOUS
<1>2. Tail(q) \in Seq(S) /\ Len(Tail(q)) = Len(q) - 1
      /\ \A i \in 1..Len(Tail(q)) : Tail(q)[i] = q[i + 1]
  OBVIOUS
<1>3. Append(s, Head(q)) \in Seq(S) /\ Len(Append(s, Head(q))) = Len(s) + 1
      /\ Append(s, Head(q))[Len(s) + 1] = Head(q)
      /\ \A i \in 1..Len(s) : Append(s, Head(q))[i] = s[i]
  BY <1>1
<1>4. /\ s \o q \in Seq(S) /\ Len(s \o q) = Len(s) + Len(q)
      /\ \A i \in 1..Len(s) : (s \o q)[i] = s[i]
      /\ (s \o q)[Len(s) + 1] = q[1]
  BY <1>1
<1>5. Append(s, Head(q)) \o Tail(q) = s \o q
  <2> DEFINE l == Append(s, Head(q)) \o Tail(q)
  <2>1. l \in Seq(S) /\ Len(l) = Len(s \o q)
    BY <1>2, <1>3, <1>4
  <2>2. ASSUME NEW i \in 1..Len(l) PROVE l[i] = (s \o q)[i]
    <3>1. CASE i <= Len(s) + 1
      BY <3>1, <1>1, <1>2, <1>3, <1>4
    <3>2. CASE i > Len(s) + 1
      <4>1. l[i] = Tail(q)[i - (Len(s) + 1)]
        BY <3>2, <1>2, <1>3, <2>1, <1>4
      <4>2. (s \o q)[i] = q[i - Len(s)]
        BY <3>2, <1>4, <2>1
      <4> QED BY <3>2, <4>1, <4>2, <1>2, <2>1, <1>4
    <3> QED BY <3>1, <3>2, <2>1, <1>4
  <2> QED BY <2>1, <2>2, <1>4, SeqEqual
<1> QED BY <1>1, <1>2, <1>3, <1>4, <1>5

(* Putting on the waiting part is putting on the whole. *)
LEMMA PutLast ==
    ASSUME NEW S, NEW s \in Seq(S), NEW q \in Seq(S), NEW x \in S
    PROVE  /\ s \o Append(q, x) = Append(s \o q, x)
           /\ Append(q, x) \in Seq(S)
           /\ s \o q \in Seq(S)
<1> DEFINE l == s \o Append(q, x)
           r == Append(s \o q, x)
<1>1. l \in Seq(S) /\ r \in Seq(S) /\ Len(l) = Len(r) /\ Len(r) = Len(s) + Len(q) + 1
  OBVIOUS
<1>2. ASSUME NEW i \in 1..Len(l) PROVE l[i] = r[i]
  OBVIOUS
<1>3. l = r
  BY <1>1, <1>2, SeqEqual
<1> QED BY <1>3

(* The length and the elements of a slice. *)
LEMMA Slice ==
    ASSUME NEW S, NEW s \in Seq(S), NEW m \in 1..(Len(s) + 1), NEW n \in 0..Len(s),
           NEW p, p = SubSeq(s, m, n)
    PROVE  /\ p \in Seq(S) /\ Len(p) = (IF m <= n THEN n - m + 1 ELSE 0)
           /\ \A i \in 1..Len(p) : p[i] = s[m + i - 1]
<1>1. m \in Int /\ n \in Int /\ \A i \in m..n : s[i] \in S
  OBVIOUS
<1>2. /\ SubSeq(s, m, n) \in Seq(S)
      /\ Len(SubSeq(s, m, n)) = IF m <= n THEN n - m + 1 ELSE 0
      /\ \A i \in 1..(n - m + 1) : SubSeq(s, m, n)[i] = s[m + i - 1]
  BY <1>1, SubSeqProperties
<1>3. Len(p) \in Nat /\ \A i \in 1..Len(p) : i \in 1..(n - m + 1)
  BY <1>2
<1> QED BY <1>2, <1>3

(* A prefix of a whole that reaches into its second part. *)
LEMMA PrefixOfConcat ==
    ASSUME NEW S, NEW s \in Seq(S), NEW t \in Seq(S), NEW n \in 0..Len(t)
    PROVE  /\ SubSeq(s \o t, 1, Len(s) + n) = s \o SubSeq(t, 1, n)
           /\ SubSeq(t, 1, n) \in Seq(S)
<1>1. PICK w : w = s \o t /\ w \in Seq(S)
  <2>1. s \o t \in Seq(S)
    OBVIOUS
  <2> QED BY <2>1
<1>2. /\ Len(w) = Len(s) + Len(t)
      /\ \A i \in 1..Len(w) : w[i] = IF i <= Len(s) THEN s[i] ELSE t[i - Len(s)]
  BY <1>1
<1>3. PICK p : p = SubSeq(t, 1, n)
  OBVIOUS
<1>4. p \in Seq(S) /\ Len(p) = n /\ \A i \in 1..n : p[i] = t[i]
  <2>1. 1 \in 1..(Len(t) + 1)
    OBVIOUS
  <2>2. p \in Seq(S) /\ Len(p) = n /\ \A i \in 1..Len(p) : p[i] = t[1 + i - 1]
    BY <1>3, <2>1, Slice
  <2> QED BY <2>2
<1>5. PICK q : q = SubSeq(w, 1, Len(s) + n)
  OBVIOUS
<1>6. q \in Seq(S) /\ Len(q) = Len(s) + n /\ \A i \in 1..(Len(s) + n) : q[i] = w[i]
  <2>1. 1 \in 1..(Len(w) + 1) /\ Len(s) + n \in 0..Len(w)
    BY <1>2
  <2>2. q \in Seq(S) /\ Len(q) = Len(s) + n /\ \A i \in 1..Len(q) : q[i] = w[1 + i - 1]
    BY <1>1, <1>5, <2>1, Slice
  <2> QED BY <2>2
<1>7. PICK r : r = s \o p /\ r \in Seq(S)
  <2>1. s \o p \in Seq(S)
    BY <1>4
  <2> QED BY <2>1
<1>8. /\ Len(r) = Len(s) + n
      /\ \A i \in 1..(Len(s) + n) : r[i] = IF i <= Len(s) THEN s[i] ELSE p[i - Len(s)]
  <2>1. p \in Seq(S) /\ Len(p) = n
    BY <1>4
  <2>2. /\ Len(s \o p) = Len(s) + Len(p)
        /\ \A i \in 1..(Len(s) + Len(p)) :
             (s \o p)[i] = IF i <= Len(s) THEN s[i] ELSE p[i - Len(s)]
    BY <2>1, ConcatProperties
  <2> QED BY <1>7, <2>1, <2>2
<1>9. ASSUME NEW i \in 1..(Len(s) + n) PROVE q[i] = r[i]
  <2>1. CASE i <= Len(s)
    BY <2>1, <1>2, <1>6, <1>8
  <2>2. CASE i > Len(s)
    <3>1. i - Len(s) \in 1..n /\ i \in 1..Len(w)
      BY <2>2, <1>2
    <3>2. q[i] = t[i - Len(s)] /\ r[i] = p[i - Len(s)]
      BY <2>2, <3>1, <1>2, <1>6, <1>8
    <3> QED BY <3>1, <3>2, <1>4
  <2> QED BY <2>1, <2>2
<1>10. q = r
  BY <1>6, <1>7, <1>8, <1>9, SeqEqual
<1> QED BY <1>1, <1>3, <1>4, <1>5, <1>7, <1>10

(* A prefix of a whole that stays in its first part. *)
LEMMA PrefixOfFirst ==
    ASSUME NEW S, NEW s \in Seq(S), NEW t \in Seq(S), NEW n \in 0..Len(s)
    PROVE  SubSeq(s \o t, 1, n) = SubSeq(s, 1, n)
<1>1. PICK w : w = s \o t /\ w \in Seq(S)
  <2>1. s \o t \in Seq(S)
    OBVIOUS
  <2> QED BY <2>1
<1>2. Len(w) = Len(s) + Len(t) /\ \A i \in 1..Len(s) : w[i] = s[i]
  BY <1>1
<1>3. PICK p : p = SubSeq(s, 1, n)
  OBVIOUS
<1>4. p \in Seq(S) /\ Len(p) = n /\ \A i \in 1..n : p[i] = s[i]
  <2>1. 1 \in 1..(Len(s) + 1)
    OBVIOUS
  <2>2. /\ p \in Seq(S) /\ Len(p) = (IF 1 <= n THEN n - 1 + 1 ELSE 0)
        /\ \A i \in 1..Len(p) : p[i] = s[1 + i - 1]
    BY <1>3, <2>1, Slice
  <2> QED BY <2>2
<1>5. PICK q : q = SubSeq(w, 1, n)
  OBVIOUS
<1>6. q \in Seq(S) /\ Len(q) = n /\ \A i \in 1..n : q[i] = w[i]
  <2>1. 1 \in 1..(Len(w) + 1) /\ n \in 0..Len(w)
    BY <1>2
  <2>2. /\ q \in Seq(S) /\ Len(q) = (IF 1 <= n THEN n - 1 + 1 ELSE 0)
        /\ \A i \in 1..Len(q) : q[i] = w[1 + i - 1]
    BY <1>1, <1>5, <2>1, Slice
  <2> QED BY <2>2
<1>7. p = q
  <2>1. \A i \in 1..Len(p) : p[i] = q[i]
    BY <1>2, <1>4, <1>6
  <2> QED BY <1>4, <1>6, <2>1, SeqEqual
<1> QED BY <1>1, <1>3, <1>5, <1>7

(* A slice of a sequence that grows is the slice it was. *)
LEMMA SliceOfAppend ==
    ASSUME NEW S, NEW s \in Seq(S), NEW x \in S, NEW m \in 1..(Len(s) + 1), NEW n \in 0..Len(s)
    PROVE  SubSeq(Append(s, x), m, n) = SubSeq(s, m, n)
<1>1. PICK w : w = Append(s, x) /\ w \in Seq(S)
  <2>1. Append(s, x) \in Seq(S)
    OBVIOUS
  <2> QED BY <2>1
<1>2. Len(w) = Len(s) + 1 /\ \A i \in 1..Len(s) : w[i] = s[i]
  BY <1>1
<1>3. PICK p : p = SubSeq(s, m, n)
  OBVIOUS
<1>4. /\ p \in Seq(S) /\ Len(p) = (IF m <= n THEN n - m + 1 ELSE 0)
      /\ \A i \in 1..Len(p) : p[i] = s[m + i - 1]
  BY <1>3, Slice
<1>5. PICK q : q = SubSeq(w, m, n)
  OBVIOUS
<1>6. /\ q \in Seq(S) /\ Len(q) = (IF m <= n THEN n - m + 1 ELSE 0)
      /\ \A i \in 1..Len(q) : q[i] = w[m + i - 1]
  <2>1. m \in 1..(Len(w) + 1) /\ n \in 0..Len(w)
    BY <1>2
  <2> QED BY <1>1, <1>5, <2>1, Slice
<1>7. ASSUME NEW i \in 1..Len(p) PROVE p[i] = q[i]
  <2>1. i \in 1..Len(q) /\ m + i - 1 \in 1..Len(s)
    BY <1>4, <1>6
  <2> QED BY <1>2, <1>4, <1>6, <2>1
<1>8. p = q
  <2>1. Len(p) = Len(q)
    BY <1>4, <1>6
  <2> QED BY <1>4, <1>6, <1>7, <2>1, SeqEqual
<1> QED BY <1>1, <1>3, <1>5, <1>8

(* A slice that takes in one more element. *)
LEMMA SliceGrows ==
    ASSUME NEW S, NEW s \in Seq(S), NEW n \in 0..(Len(s) - 1), NEW m \in 1..(n + 1)
    PROVE  /\ SubSeq(s, m, n + 1) = Append(SubSeq(s, m, n), s[n + 1])
           /\ SubSeq(s, m, n) \in Seq(S)
<1>1. m \in 1..(Len(s) + 1) /\ n \in 0..Len(s) /\ n + 1 \in 0..Len(s) /\ s[n + 1] \in S
  OBVIOUS
<1>2. PICK p : p = SubSeq(s, m, n)
  OBVIOUS
<1>3. /\ p \in Seq(S) /\ Len(p) = n - m + 1 /\ \A i \in 1..Len(p) : p[i] = s[m + i - 1]
  <2>1. /\ p \in Seq(S) /\ Len(p) = (IF m <= n THEN n - m + 1 ELSE 0)
        /\ \A i \in 1..Len(p) : p[i] = s[m + i - 1]
    BY <1>1, <1>2, Slice
  <2> QED BY <2>1
<1>4. PICK q : q = SubSeq(s, m, n + 1)
  OBVIOUS
<1>5. /\ q \in Seq(S) /\ Len(q) = n - m + 2 /\ \A i \in 1..Len(q) : q[i] = s[m + i - 1]
  <2>1. /\ q \in Seq(S) /\ Len(q) = (IF m <= n + 1 THEN n + 1 - m + 1 ELSE 0)
        /\ \A i \in 1..Len(q) : q[i] = s[m + i - 1]
    BY <1>1, <1>4, Slice
  <2> QED BY <2>1
<1>6. PICK x \in S : x = s[n + 1]
  BY <1>1
<1>7. PICK r : r = Append(p, x)
  OBVIOUS
<1>8. /\ r \in Seq(S) /\ Len(r) = n - m + 2 /\ r[n - m + 2] = s[n + 1]
      /\ \A i \in 1..Len(p) : r[i] = p[i]
  <2>1. /\ r \in Seq(S) /\ Len(r) = Len(p) + 1 /\ r[Len(p) + 1] = x
        /\ \A i \in 1..Len(p) : r[i] = p[i]
    <3>1. p \in Seq(S)
      BY <1>3
    <3> QED BY <3>1, <1>7, AppendProperties
  <2>2. Len(p) + 1 = n - m + 2
    BY <1>3
  <2> QED BY <1>6, <2>1, <2>2
<1>9. ASSUME NEW i \in 1..Len(q) PROVE q[i] = r[i]
  <2>1. CASE i = n - m + 2
    <3>1. m + i - 1 = n + 1
      BY <2>1
    <3> QED BY <1>5, <1>8, <2>1, <3>1
  <2>2. CASE i # n - m + 2
    <3>1. i \in 1..Len(p)
      BY <2>2, <1>3, <1>5
    <3> QED BY <1>3, <1>5, <1>8, <3>1
  <2> QED BY <2>1, <2>2
<1>10. q = r
  <2>1. Len(q) = Len(r)
    BY <1>5, <1>8
  <2> QED BY <1>5, <1>8, <1>9, <2>1, SeqEqual
<1> QED BY <1>2, <1>3, <1>4, <1>6, <1>7, <1>10

-----------------------------------------------------------------------------
(* Induction and recursion. *)

(* Every nonempty set of natural numbers has a least element. *)
LEMMA LeastElement ==
    ASSUME NEW T, T \subseteq Nat, T # {}
    PROVE  \E x \in T : \A y \in T : x <= y
<1> DEFINE R == {p \in Nat \X Nat : p[1] < p[2]}
<1>1. IsWellFoundedOn(R, Nat)
  BY NatLessThanWellFounded DEF OpToRel
<1>2. \E x \in T : \A y \in T : ~(<<y, x>> \in R)
  <2> HIDE DEF R
  <2> QED BY <1>1, WFMin
<1>3. ASSUME NEW x \in Nat, NEW y \in Nat, ~(<<y, x>> \in R) PROVE x <= y
  <2>1. <<y, x>> \in Nat \X Nat
    OBVIOUS
  <2>2. ~(<<y, x>>[1] < <<y, x>>[2])
    BY <1>3, <2>1
  <2> QED BY <2>2
<1>4. PICK x \in T : \A y \in T : ~(<<y, x>> \in R)
  BY <1>2
<1>5. ASSUME NEW y \in T PROVE x <= y
  <2> HIDE DEF R
  <2> QED BY <1>3, <1>4
<1> QED BY <1>5

(* A set that holds 0 and every successor of a member holds every natural. *)
LEMMA SetInduction ==
    ASSUME NEW T, 0 \in T, \A n \in Nat : n \in T => n + 1 \in T
    PROVE  \A n \in Nat : n \in T
<1> SUFFICES ASSUME NEW m \in Nat, m \notin T PROVE FALSE
  OBVIOUS
<1> DEFINE U == {n \in Nat : n \notin T}
<1>1. PICK x \in U : \A y \in U : x <= y
  <2>1. U # {} /\ U \subseteq Nat
    OBVIOUS
  <2> HIDE DEF U
  <2> QED BY <2>1, LeastElement
<1>2. x # 0 /\ x \in Nat /\ x - 1 \in Nat
  OBVIOUS
<1>3. x - 1 \in T
  BY <1>1, <1>2
<1> QED BY <1>2, <1>3

(* A function over 0..N given by its first value and by a step. *)
LEMMA RecursionExists ==
    ASSUME NEW V, NEW c \in V, NEW N \in Nat, NEW D \in [1..N -> [V -> V]]
    PROVE  \E g \in [0..N -> V] : g[0] = c /\ \A i \in 1..N : g[i] = D[i][g[i - 1]]
<1> DEFINE P(n) == \E g \in [0..n -> V] : g[0] = c /\ \A i \in 1..n : g[i] = D[i][g[i - 1]]
           T == {n \in Nat : n <= N => P(n)}
<1>1. 0 \in T
  <2> DEFINE g == [i \in 0..0 |-> c]
  <2>1. g \in [0..0 -> V] /\ g[0] = c
    OBVIOUS
  <2>2. \A i \in 1..0 : g[i] = D[i][g[i - 1]]
    OBVIOUS
  <2>3. P(0)
    <3> HIDE DEF g
    <3> QED BY <2>1, <2>2
  <2> QED BY <2>3
<1>2. ASSUME NEW n \in Nat, n \in T PROVE n + 1 \in T
  <2> SUFFICES ASSUME n + 1 <= N PROVE P(n + 1)
    OBVIOUS
  <2>1. PICK g \in [0..n -> V] : g[0] = c /\ \A i \in 1..n : g[i] = D[i][g[i - 1]]
    BY <1>2
  <2> DEFINE h == [i \in 0..(n+1) |-> IF i = n + 1 THEN D[n + 1][g[n]] ELSE g[i]]
  <2>2. g[n] \in V /\ n + 1 \in 1..N
    OBVIOUS
  <2>3. D[n + 1][g[n]] \in V
    BY <2>2
  <2>4. h \in [0..(n+1) -> V]
    BY <2>3
  <2>5. h[0] = c
    BY <2>1
  <2>6. ASSUME NEW i \in 1..(n+1) PROVE h[i] = D[i][h[i - 1]]
    <3>1. i - 1 \in 0..n /\ h[i - 1] = g[i - 1]
      OBVIOUS
    <3>2. CASE i = n + 1
      BY <3>1, <3>2
    <3>3. CASE i # n + 1
      <4>1. i \in 1..n /\ h[i] = g[i]
        BY <3>3
      <4> QED BY <2>1, <3>1, <4>1
    <3> QED BY <3>2, <3>3
  <2> HIDE DEF h
  <2> QED BY <2>4, <2>5, <2>6
<1>3. \A n \in Nat : n \in T
  <2> HIDE DEF T
  <2> QED BY <1>1, <1>2, SetInduction
<1> QED BY <1>3

-----------------------------------------------------------------------------
(* Keep. *)

(* The equation of KeptUpto, and a function that satisfies it. *)
IsKept(s, K, N, f) ==
    f = [n \in 0..N |-> IF n = 0 THEN <<>>
                    ELSE IF s[n] \in K THEN Append(f[n - 1], s[n]) ELSE f[n - 1]]

(* Some function satisfies the equation. *)
LEMMA KeptUptoExists ==
    ASSUME NEW S, NEW N \in Nat, NEW s, NEW K, \A i \in 1..N : s[i] \in S
    PROVE  \E g : IsKept(s, K, N, g)
<1>1. PICK V : V = Seq(S \cap K)
  OBVIOUS
<1>2. PICK c \in V : c = <<>>
  <2>1. <<>> \in V
    BY <1>1
  <2> QED BY <2>1
<1>3. PICK D : D \in [1..N -> [V -> V]] /\
        \A i \in 1..N : \A v \in V : D[i][v] = IF s[i] \in K THEN Append(v, s[i]) ELSE v
  <2> DEFINE E == [i \in 1..N |-> [v \in V |-> IF s[i] \in K THEN Append(v, s[i]) ELSE v]]
  <2>1. ASSUME NEW i \in 1..N, NEW v \in V
        PROVE  (IF s[i] \in K THEN Append(v, s[i]) ELSE v) \in V
    BY <1>1
  <2>2. E \in [1..N -> [V -> V]]
    BY <2>1
  <2>3. \A i \in 1..N : \A v \in V : E[i][v] = IF s[i] \in K THEN Append(v, s[i]) ELSE v
    OBVIOUS
  <2> HIDE DEF E
  <2> QED BY <2>2, <2>3
<1>4. PICK g \in [0..N -> V] : g[0] = c /\ \A i \in 1..N : g[i] = D[i][g[i - 1]]
  <2>1. D \in [1..N -> [V -> V]]
    BY <1>3
  <2> QED BY <2>1, RecursionExists
<1> DEFINE G == [n \in 0..N |-> IF n = 0 THEN <<>>
                    ELSE IF s[n] \in K THEN Append(g[n - 1], s[n]) ELSE g[n - 1]]
<1>5. ASSUME NEW n \in 0..N PROVE g[n] = G[n]
  <2>1. CASE n = 0
    BY <1>2, <1>4, <2>1
  <2>2. CASE n # 0
    <3>1. n \in 1..N /\ g[n - 1] \in V
      BY <2>2
    <3>2. g[n] = IF s[n] \in K THEN Append(g[n - 1], s[n]) ELSE g[n - 1]
      BY <1>3, <1>4, <3>1
    <3> QED BY <2>2, <3>2
  <2> QED BY <2>1, <2>2
<1>6. g = G
  <2>1. G = [n \in 0..N |-> G[n]] /\ g = [n \in 0..N |-> g[n]]
    OBVIOUS
  <2> HIDE DEF G
  <2> QED BY <1>5, <2>1
<1> QED BY <1>6 DEF IsKept

(* The prefixes of s, as KeptUpto defines them. *)
Scans(f, s, K, N) ==
    /\ f[0] = <<>>
    /\ \A n \in 1..N : f[n] = IF s[n] \in K THEN Append(f[n - 1], s[n]) ELSE f[n - 1]

(* So KeptUpto satisfies it, and what is kept are elements of s in K. *)
LEMMA KeptUptoDef ==
    ASSUME NEW S, NEW s \in Seq(S), NEW K
    PROVE  Scans(KeptUpto(s, K), s, K, Len(s)) /\ Keep(s, K) \in Seq(S \cap K)
<1>1. PICK N \in Nat : N = Len(s)
  OBVIOUS
<1>2. PICK f : f = KeptUpto(s, K)
  OBVIOUS
<1>3. IsKept(s, K, N, f)
  <2>1. N \in Nat /\ \A i \in 1..N : s[i] \in S
    BY <1>1
  <2>2. f = CHOOSE g : IsKept(s, K, N, g)
    BY <1>1, <1>2 DEF KeptUpto, IsKept
  <2>3. \E g : IsKept(s, K, N, g)
    BY <2>1, KeptUptoExists
  <2> QED BY <2>2, <2>3, Zenon
<1>4. f[0] = <<>>
  BY <1>3 DEF IsKept
<1>5. ASSUME NEW n \in 1..N
      PROVE  f[n] = IF s[n] \in K THEN Append(f[n - 1], s[n]) ELSE f[n - 1]
  <2>1. n \in 0..N /\ n # 0
    OBVIOUS
  <2> QED BY <1>3, <2>1, Zenon DEF IsKept
<1> DEFINE T == {n \in Nat : n <= N => f[n] \in Seq(S \cap K)}
<1>6. 0 \in T
  <2>1. <<>> \in Seq(S \cap K)
    OBVIOUS
  <2> QED BY <1>4, <2>1
<1>7. ASSUME NEW n \in Nat, n \in T PROVE n + 1 \in T
  <2> SUFFICES ASSUME n + 1 <= N PROVE f[n + 1] \in Seq(S \cap K)
    OBVIOUS
  <2>1. f[n] \in Seq(S \cap K) /\ n + 1 \in 1..N /\ (n + 1) - 1 = n
    BY <1>7
  <2>2. f[n + 1] = IF s[n + 1] \in K THEN Append(f[n], s[n + 1]) ELSE f[n]
    BY <1>5, <2>1
  <2>3. s[n + 1] \in S
    BY <1>1, <2>1
  <2> QED BY <2>1, <2>2, <2>3
<1>8. \A n \in Nat : n \in T
  <2> HIDE DEF T
  <2> QED BY <1>6, <1>7, SetInduction
<1>9. f[N] \in Seq(S \cap K)
  BY <1>8
<1>10. Scans(f, s, K, N)
  BY <1>4, <1>5 DEF Scans
<1> QED BY <1>1, <1>2, <1>9, <1>10 DEF Keep

(* What is kept is a sequence over the elements of s, all of them in K. *)
LEMMA KeepType ==
    ASSUME NEW S, NEW s \in Seq(S), NEW K
    PROVE  Keep(s, K) \in Seq(S) /\ Keep(s, K) \in Seq(S \cap K)
<1>1. PICK k : k = Keep(s, K) /\ k \in Seq(S \cap K)
  BY KeptUptoDef
<1>2. k \in Seq(S)
  BY <1>1
<1> QED BY <1>1, <1>2

(* Nothing is kept of nothing. *)
LEMMA KeepEmpty == ASSUME NEW K PROVE Keep(<<>>, K) = <<>>
<1>1. <<>> \in Seq({}) /\ Len(<<>>) = 0
  OBVIOUS
<1>2. Scans(KeptUpto(<<>>, K), <<>>, K, Len(<<>>))
  BY <1>1, KeptUptoDef, Zenon
<1> QED BY <1>1, <1>2 DEF Scans, Keep

(* One more element is kept exactly if it is in K. *)
LEMMA KeepAppend ==
    ASSUME NEW S, NEW s \in Seq(S), NEW x \in S, NEW K
    PROVE  /\ Keep(s, K) \in Seq(S \cap K)
           /\ Keep(Append(s, x), K) = IF x \in K THEN Append(Keep(s, K), x) ELSE Keep(s, K)
<1>1. PICK t : t \in Seq(S) /\ t = Append(s, x)
  <2>1. Append(s, x) \in Seq(S)
    OBVIOUS
  <2> QED BY <2>1
<1>2. PICK N \in Nat : N = Len(s)
  OBVIOUS
<1>3. Len(t) = N + 1 /\ t[N + 1] = x /\ \A i \in 1..N : t[i] = s[i]
  BY <1>1, <1>2
<1>4. PICK f : f = KeptUpto(s, K)
  OBVIOUS
<1>5. PICK g : g = KeptUpto(t, K)
  OBVIOUS
<1>6. /\ f[0] = <<>>
      /\ \A n \in 1..N : f[n] = IF s[n] \in K THEN Append(f[n - 1], s[n]) ELSE f[n - 1]
  <2>1. Scans(f, s, K, N)
    BY <1>2, <1>4, KeptUptoDef
  <2> QED BY <2>1 DEF Scans
<1>7. /\ g[0] = <<>>
      /\ \A n \in 1..(N + 1) : g[n] = IF t[n] \in K THEN Append(g[n - 1], t[n]) ELSE g[n - 1]
  <2>1. Scans(g, t, K, N + 1)
    BY <1>1, <1>3, <1>5, KeptUptoDef
  <2> QED BY <2>1 DEF Scans
<1> DEFINE T == {n \in Nat : n <= N => f[n] = g[n]}
<1>8. 0 \in T
  BY <1>6, <1>7
<1>9. ASSUME NEW n \in Nat, n \in T PROVE n + 1 \in T
  <2> SUFFICES ASSUME n + 1 <= N PROVE f[n + 1] = g[n + 1]
    OBVIOUS
  <2>1. n + 1 \in 1..N /\ n + 1 \in 1..(N + 1) /\ (n + 1) - 1 = n /\ f[n] = g[n]
    BY <1>9
  <2> QED BY <1>3, <1>6, <1>7, <2>1
<1>10. \A n \in Nat : n \in T
  <2> HIDE DEF T
  <2> QED BY <1>8, <1>9, SetInduction
<1>11. f[N] = g[N]
  BY <1>10
<1>12. g[N + 1] = IF x \in K THEN Append(f[N], x) ELSE f[N]
  <2>1. N + 1 \in 1..(N + 1) /\ (N + 1) - 1 = N
    OBVIOUS
  <2> QED BY <1>3, <1>7, <1>11, <2>1
<1>13. Keep(s, K) = f[N] /\ Keep(t, K) = g[N + 1]
  BY <1>2, <1>3, <1>4, <1>5 DEF Keep
<1> QED BY <1>1, <1>12, <1>13, KeptUptoDef

-----------------------------------------------------------------------------
(* Sequences element by element. *)

(* A set that holds the empty sequence, and with a sequence every longer by *)
(* one, holds every sequence.                                               *)
LEMMA AppendInduction ==
    ASSUME NEW S, NEW T, <<>> \in T,
           \A s \in Seq(S), x \in S : s \in T => Append(s, x) \in T
    PROVE  \A s \in Seq(S) : s \in T
<1> DEFINE U == {n \in Nat : \A s \in Seq(S) : Len(s) = n => s \in T}
<1>1. 0 \in U
  <2>1. ASSUME NEW s \in Seq(S), Len(s) = 0 PROVE s = <<>>
    BY <2>1
  <2> QED BY <2>1
<1>2. ASSUME NEW n \in Nat, n \in U PROVE n + 1 \in U
  <2> SUFFICES ASSUME NEW s \in Seq(S), Len(s) = n + 1 PROVE s \in T
    OBVIOUS
  <2> DEFINE front == [i \in 1..n |-> s[i]]
  <2>1. front \in Seq(S) /\ Len(front) = n /\ s[n + 1] \in S
    OBVIOUS
  <2>2. s = Append(front, s[n + 1])
    <3>1. PICK f \in Seq(S) : f = front
      BY <2>1
    <3>2. Len(f) = n /\ \A i \in 1..n : f[i] = s[i]
      BY <3>1, <2>1
    <3>3. PICK x \in S : x = s[n + 1]
      BY <2>1
    <3> HIDE DEF front
    <3>4. PICK t : t \in Seq(S) /\ t = Append(f, x)
      <4>1. Append(f, x) \in Seq(S)
        OBVIOUS
      <4> QED BY <4>1
    <3>5. Len(t) = n + 1 /\ t[n + 1] = x /\ \A i \in 1..n : t[i] = f[i]
      BY <3>2, <3>4
    <3>6. \A i \in 1..Len(s) : t[i] = s[i]
      BY <3>2, <3>3, <3>5
    <3>7. t = s
      <4>1. t \in Seq(S) /\ Len(t) = Len(s)
        BY <3>4, <3>5
      <4> QED BY <3>5, <3>6, <4>1, SeqEqual
    <3> QED BY <3>1, <3>3, <3>4, <3>7
  <2>3. front \in T
    BY <1>2, <2>1
  <2> HIDE DEF front
  <2> QED BY <2>1, <2>2, <2>3
<1>3. \A n \in Nat : n \in U
  <2> HIDE DEF U
  <2> QED BY <1>1, <1>2, SetInduction
<1> QED BY <1>3

(* What two sequences hold of K, one after the other. *)
LEMMA KeepConcat ==
    ASSUME NEW S, NEW s \in Seq(S), NEW t \in Seq(S), NEW K
    PROVE  Keep(s \o t, K) = Keep(s, K) \o Keep(t, K)
<1> DEFINE T == {u \in Seq(S) : Keep(s \o u, K) = Keep(s, K) \o Keep(u, K)}
<1>1. <<>> \in T
  <2>1. s \o <<>> = s /\ <<>> \in Seq(S)
    OBVIOUS
  <2>2. PICK k \in Seq(S \cap K) : k = Keep(s, K)
    <3>1. CASE S = {}
      <4>1. s = <<>>
        BY <3>1
      <4>2. <<>> \in Seq(S \cap K)
        OBVIOUS
      <4> QED BY <4>1, <4>2, KeepEmpty
    <3>2. CASE S # {}
      BY <3>2, KeepAppend
    <3> QED BY <3>1, <3>2
  <2>3. k \o <<>> = k
    OBVIOUS
  <2> QED BY <2>1, <2>2, <2>3, KeepEmpty
<1>2. ASSUME NEW u \in Seq(S), NEW x \in S, u \in T PROVE Append(u, x) \in T
  <2>1. PICK k \in Seq(S \cap K) : k = Keep(s, K)
    BY KeepAppend
  <2>2. PICK l \in Seq(S \cap K) : l = Keep(u, K)
    BY KeepAppend
  <2>3. /\ s \o u \in Seq(S) /\ s \o Append(u, x) = Append(s \o u, x)
        /\ Append(u, x) \in Seq(S)
    BY PutLast
  <2>4. Keep(s \o u, K) = k \o l
    BY <1>2, <2>1, <2>2
  <2>5. Keep(Append(s \o u, x), K) = IF x \in K THEN Append(k \o l, x) ELSE k \o l
    BY <2>3, <2>4, KeepAppend
  <2>6. Keep(Append(u, x), K) = IF x \in K THEN Append(l, x) ELSE l
    BY <2>2, KeepAppend
  <2>7. x \in K => k \o Append(l, x) = Append(k \o l, x)
    BY PutLast
  <2>8. Keep(s \o Append(u, x), K) = Keep(s, K) \o Keep(Append(u, x), K)
    BY <2>1, <2>3, <2>5, <2>6, <2>7
  <2> QED BY <2>3, <2>8
<1>3. \A u \in Seq(S) : u \in T
  <2> HIDE DEF T
  <2> QED BY <1>1, <1>2, AppendInduction
<1> QED BY <1>3

(* Two sets that hold the same elements of a sequence keep the same of it. *)
LEMMA KeepAgree ==
    ASSUME NEW S, NEW s \in Seq(S), NEW K, NEW L, \A x \in S : x \in K <=> x \in L
    PROVE  Keep(s, K) = Keep(s, L)
<1> DEFINE T == {u \in Seq(S) : Keep(u, K) = Keep(u, L)}
<1>1. <<>> \in T
  <2>1. <<>> \in Seq(S)
    OBVIOUS
  <2> QED BY <2>1, KeepEmpty
<1>2. ASSUME NEW u \in Seq(S), NEW x \in S, u \in T PROVE Append(u, x) \in T
  <2>1. Append(u, x) \in Seq(S)
    OBVIOUS
  <2>2. Keep(Append(u, x), K) = IF x \in K THEN Append(Keep(u, K), x) ELSE Keep(u, K)
    BY KeepAppend
  <2>3. Keep(Append(u, x), L) = IF x \in L THEN Append(Keep(u, L), x) ELSE Keep(u, L)
    BY KeepAppend
  <2>4. Keep(u, K) = Keep(u, L) /\ (x \in K <=> x \in L)
    BY <1>2
  <2> QED BY <2>1, <2>2, <2>3, <2>4, Zenon
<1>3. \A u \in Seq(S) : u \in T
  <2> HIDE DEF T
  <2> QED BY <1>1, <1>2, AppendInduction
<1> QED BY <1>3

(* A sequence of elements of K is kept whole. *)
LEMMA KeepAll ==
    ASSUME NEW K, NEW s \in Seq(K)
    PROVE  Keep(s, K) = s
<1> DEFINE T == {u \in Seq(K) : Keep(u, K) = u}
<1>1. <<>> \in T
  <2>1. <<>> \in Seq(K)
    OBVIOUS
  <2> QED BY <2>1, KeepEmpty
<1>2. ASSUME NEW u \in Seq(K), NEW x \in K, u \in T PROVE Append(u, x) \in T
  <2>1. Append(u, x) \in Seq(K)
    OBVIOUS
  <2>2. Keep(Append(u, x), K) = Append(Keep(u, K), x)
    BY KeepAppend
  <2>3. Keep(u, K) = u
    BY <1>2
  <2> QED BY <2>1, <2>2, <2>3, Zenon
<1>3. \A u \in Seq(K) : u \in T
  <2> HIDE DEF T
  <2> QED BY <1>1, <1>2, AppendInduction
<1> QED BY <1>3

(* Of a sequence without elements of K nothing is kept. *)
LEMMA KeepNone ==
    ASSUME NEW S, NEW s \in Seq(S), NEW K, \A x \in S : x \notin K
    PROVE  Keep(s, K) = <<>>
<1>1. Keep(s, K) \in Seq(S \cap K)
  BY KeepType
<1>2. S \cap K = {}
  OBVIOUS
<1> QED BY <1>1, <1>2

-----------------------------------------------------------------------------
(* Each. *)

(* No elements have no images. *)
LEMMA EachEmpty == ASSUME NEW f PROVE Each(<<>>, f) = <<>>
BY DEF Each

(* There is one image for every element, at its position. *)
LEMMA EachType ==
    ASSUME NEW S, NEW R, NEW f \in [S -> R], NEW s \in Seq(S)
    PROVE  /\ Each(s, f) \in Seq(R) /\ Len(Each(s, f)) = Len(s)
           /\ \A i \in 1..Len(s) : Each(s, f)[i] = f[s[i]]
<1>1. \A i \in 1..Len(s) : f[s[i]] \in R
  OBVIOUS
<1> QED BY <1>1 DEF Each

(* Functions that agree on its elements have the same images of a sequence. *)
LEMMA EachAgree ==
    ASSUME NEW S, NEW s \in Seq(S), NEW f, NEW g, \A x \in S : f[x] = g[x]
    PROVE  Each(s, f) = Each(s, g)
<1>1. \A i \in 1..Len(s) : f[s[i]] = g[s[i]]
  OBVIOUS
<1> QED BY <1>1 DEF Each

(* One more element adds its image at the end. *)
LEMMA EachAppend ==
    ASSUME NEW S, NEW s \in Seq(S), NEW x \in S, NEW f
    PROVE  Each(Append(s, x), f) = Append(Each(s, f), f[x])
<1> DEFINE R == {f[z] : z \in S}
<1>a. ASSUME NEW z \in Seq(S) PROVE Each(z, f) \in Seq(R)
  <2>1. \A i \in 1..Len(z) : f[z[i]] \in R
    OBVIOUS
  <2> QED BY <2>1 DEF Each
<1>b. f[x] \in R
  OBVIOUS
<1> HIDE DEF R
<1>1. PICK t : t = Append(s, x) /\ t \in Seq(S)
  <2>1. Append(s, x) \in Seq(S)
    OBVIOUS
  <2> QED BY <2>1
<1>2. Len(t) = Len(s) + 1 /\ t[Len(s) + 1] = x /\ \A i \in 1..Len(s) : t[i] = s[i]
  BY <1>1
<1>3. PICK e : e = Each(s, f) /\ e \in Seq(R)
  BY <1>a
<1>4. Len(e) = Len(s) /\ \A i \in 1..Len(s) : e[i] = f[s[i]]
  BY <1>3 DEF Each
<1>5. PICK d : d = Each(t, f) /\ d \in Seq(R)
  BY <1>1, <1>a
<1>6. Len(d) = Len(s) + 1 /\ \A i \in 1..(Len(s) + 1) : d[i] = f[t[i]]
  BY <1>2, <1>5 DEF Each
<1>7. PICK y : y = f[x] /\ y \in R
  BY <1>b
<1>8. PICK a : a = Append(e, y) /\ a \in Seq(R)
  <2>1. Append(e, y) \in Seq(R)
    BY <1>3, <1>7
  <2> QED BY <2>1
<1>9. Len(a) = Len(s) + 1 /\ a[Len(s) + 1] = y /\ \A i \in 1..Len(s) : a[i] = e[i]
  BY <1>3, <1>4, <1>7, <1>8
<1>10. ASSUME NEW i \in 1..(Len(s) + 1) PROVE d[i] = a[i]
  <2>1. CASE i = Len(s) + 1
    BY <2>1, <1>2, <1>6, <1>7, <1>9
  <2>2. CASE i # Len(s) + 1
    <3>1. i \in 1..Len(s)
      BY <2>2
    <3> QED BY <3>1, <1>2, <1>4, <1>6, <1>9
  <2> QED BY <2>1, <2>2
<1>11. d = a
  BY <1>5, <1>6, <1>8, <1>9, <1>10, SeqEqual
<1> QED BY <1>1, <1>3, <1>4, <1>5, <1>7, <1>8, <1>11

(* The images of two sequences, one after the other. *)
LEMMA EachConcat ==
    ASSUME NEW S, NEW s \in Seq(S), NEW t \in Seq(S), NEW f
    PROVE  Each(s \o t, f) = Each(s, f) \o Each(t, f)
<1> DEFINE R == {f[x] : x \in S}
<1>a. ASSUME NEW z \in Seq(S) PROVE Each(z, f) \in Seq(R)
  <2>1. \A i \in 1..Len(z) : f[z[i]] \in R
    OBVIOUS
  <2> QED BY <2>1 DEF Each
<1> HIDE DEF R
<1>1. PICK u : u = s \o t /\ u \in Seq(S)
  <2>1. s \o t \in Seq(S)
    OBVIOUS
  <2> QED BY <2>1
<1>2. PICK c : c = Each(s, f) /\ c \in Seq(R)
  BY <1>a
<1>3. PICK d : d = Each(t, f) /\ d \in Seq(R)
  BY <1>a
<1>4. PICK e : e = Each(u, f) /\ e \in Seq(R)
  BY <1>1, <1>a
<1>5. PICK b : b = c \o d /\ b \in Seq(R)
  <2>1. c \o d \in Seq(R)
    BY <1>2, <1>3
  <2> QED BY <2>1
<1>6. /\ Len(c) = Len(s) /\ Len(d) = Len(t) /\ Len(u) = Len(s) + Len(t)
      /\ Len(e) = Len(u) /\ Len(b) = Len(c) + Len(d)
  BY <1>1, <1>2, <1>3, <1>4, <1>5 DEF Each
<1>7. ASSUME NEW i \in 1..(Len(s) + Len(t)) PROVE e[i] = b[i]
  <2>1. e[i] = f[u[i]]
    BY <1>4, <1>6 DEF Each
  <2>2. CASE i <= Len(s)
    <3>1. u[i] = s[i] /\ b[i] = c[i] /\ c[i] = f[s[i]]
      BY <1>1, <1>2, <1>3, <1>5, <1>6, <2>2 DEF Each
    <3> QED BY <2>1, <3>1
  <2>3. CASE i > Len(s)
    <3>1. i - Len(s) \in 1..Len(t)
      BY <2>3
    <3>2. u[i] = t[i - Len(s)] /\ b[i] = d[i - Len(s)]
      BY <1>1, <1>2, <1>3, <1>5, <1>6, <2>3
    <3>3. d[i - Len(s)] = f[t[i - Len(s)]]
      BY <1>3, <3>1 DEF Each
    <3> QED BY <2>1, <3>2, <3>3
  <2> QED BY <2>2, <2>3
<1>8. e = b
  BY <1>4, <1>5, <1>6, <1>7, SeqEqual
<1> QED BY <1>1, <1>2, <1>3, <1>4, <1>5, <1>8

-----------------------------------------------------------------------------
(* Joined. *)

(* The equation of JoinedUpto, and a function that satisfies it. *)
IsJoined(ss, N, f) == f = [n \in 0..N |-> IF n = 0 THEN <<>> ELSE f[n - 1] \o ss[n]]

(* Some function satisfies the equation. *)
LEMMA JoinedUptoExists ==
    ASSUME NEW S, NEW N \in Nat, NEW ss, \A i \in 1..N : ss[i] \in Seq(S)
    PROVE  \E g : IsJoined(ss, N, g)
<1>1. PICK V : V = Seq(S)
  OBVIOUS
<1>2. PICK c \in V : c = <<>>
  <2>1. <<>> \in V
    BY <1>1
  <2> QED BY <2>1
<1>3. PICK D : D \in [1..N -> [V -> V]] /\ \A i \in 1..N : \A v \in V : D[i][v] = v \o ss[i]
  <2> DEFINE E == [i \in 1..N |-> [v \in V |-> v \o ss[i]]]
  <2>1. ASSUME NEW i \in 1..N, NEW v \in V PROVE v \o ss[i] \in V
    BY <1>1
  <2>2. E \in [1..N -> [V -> V]]
    BY <2>1
  <2>3. \A i \in 1..N : \A v \in V : E[i][v] = v \o ss[i]
    OBVIOUS
  <2> HIDE DEF E
  <2> QED BY <2>2, <2>3
<1>4. PICK g \in [0..N -> V] : g[0] = c /\ \A i \in 1..N : g[i] = D[i][g[i - 1]]
  <2>1. D \in [1..N -> [V -> V]]
    BY <1>3
  <2> QED BY <2>1, RecursionExists
<1> DEFINE G == [n \in 0..N |-> IF n = 0 THEN <<>> ELSE g[n - 1] \o ss[n]]
<1>5. ASSUME NEW n \in 0..N PROVE g[n] = G[n]
  <2>1. CASE n = 0
    BY <1>2, <1>4, <2>1
  <2>2. CASE n # 0
    <3>1. n \in 1..N /\ g[n - 1] \in V
      BY <2>2
    <3>2. g[n] = g[n - 1] \o ss[n]
      BY <1>3, <1>4, <3>1
    <3> QED BY <2>2, <3>2
  <2> QED BY <2>1, <2>2
<1>6. g = G
  <2>1. G = [n \in 0..N |-> G[n]] /\ g = [n \in 0..N |-> g[n]]
    OBVIOUS
  <2> HIDE DEF G
  <2> QED BY <1>5, <2>1
<1> QED BY <1>6 DEF IsJoined

(* The prefixes of ss, as JoinedUpto joins them. *)
Joins(f, ss, N) == f[0] = <<>> /\ \A n \in 1..N : f[n] = f[n - 1] \o ss[n]

(* So JoinedUpto satisfies it, and what it joins is a sequence. *)
LEMMA JoinedUptoDef ==
    ASSUME NEW S, NEW ss \in Seq(Seq(S))
    PROVE  Joins(JoinedUpto(ss), ss, Len(ss)) /\ Joined(ss) \in Seq(S)
<1>1. PICK N \in Nat : N = Len(ss)
  OBVIOUS
<1>2. PICK f : f = JoinedUpto(ss)
  OBVIOUS
<1>3. \A i \in 1..N : ss[i] \in Seq(S)
  BY <1>1
<1>4. IsJoined(ss, N, f)
  <2>1. f = CHOOSE g : IsJoined(ss, N, g)
    BY <1>1, <1>2 DEF JoinedUpto, IsJoined
  <2>2. \E g : IsJoined(ss, N, g)
    BY <1>3, JoinedUptoExists
  <2> QED BY <2>1, <2>2, Zenon
<1>5. f[0] = <<>>
  BY <1>4 DEF IsJoined
<1>6. ASSUME NEW n \in 1..N PROVE f[n] = f[n - 1] \o ss[n]
  <2>1. n \in 0..N /\ n # 0
    OBVIOUS
  <2> QED BY <1>4, <2>1, Zenon DEF IsJoined
<1> DEFINE T == {n \in Nat : n <= N => f[n] \in Seq(S)}
<1>7. 0 \in T
  <2>1. <<>> \in Seq(S)
    OBVIOUS
  <2> QED BY <1>5, <2>1
<1>8. ASSUME NEW n \in Nat, n \in T PROVE n + 1 \in T
  <2> SUFFICES ASSUME n + 1 <= N PROVE f[n + 1] \in Seq(S)
    OBVIOUS
  <2>1. f[n] \in Seq(S) /\ n + 1 \in 1..N /\ (n + 1) - 1 = n
    BY <1>8
  <2>2. f[n + 1] = f[n] \o ss[n + 1] /\ ss[n + 1] \in Seq(S)
    BY <1>3, <1>6, <2>1
  <2> QED BY <2>1, <2>2
<1>9. \A n \in Nat : n \in T
  <2> HIDE DEF T
  <2> QED BY <1>7, <1>8, SetInduction
<1>10. f[N] \in Seq(S)
  BY <1>9
<1>11. Joins(f, ss, N)
  BY <1>5, <1>6 DEF Joins
<1> QED BY <1>1, <1>2, <1>10, <1>11 DEF Joined

(* Nothing joined is nothing. *)
LEMMA JoinedEmpty == Joined(<<>>) = <<>>
<1>1. <<>> \in Seq(Seq({})) /\ Len(<<>>) = 0
  OBVIOUS
<1>2. Joins(JoinedUpto(<<>>), <<>>, Len(<<>>))
  BY <1>1, JoinedUptoDef, Zenon
<1> QED BY <1>1, <1>2 DEF Joins, Joined

(* One more piece comes after all the others. *)
LEMMA JoinedAppend ==
    ASSUME NEW S, NEW ss \in Seq(Seq(S)), NEW x \in Seq(S)
    PROVE  Joined(ss) \in Seq(S) /\ Joined(Append(ss, x)) = Joined(ss) \o x
<1>1. PICK t : t \in Seq(Seq(S)) /\ t = Append(ss, x)
  <2>1. Append(ss, x) \in Seq(Seq(S))
    OBVIOUS
  <2> QED BY <2>1
<1>2. PICK N \in Nat : N = Len(ss)
  OBVIOUS
<1>3. Len(t) = N + 1 /\ t[N + 1] = x /\ \A i \in 1..N : t[i] = ss[i]
  BY <1>1, <1>2
<1>4. PICK f : f = JoinedUpto(ss)
  OBVIOUS
<1>5. PICK g : g = JoinedUpto(t)
  OBVIOUS
<1>6. f[0] = <<>> /\ \A n \in 1..N : f[n] = f[n - 1] \o ss[n]
  <2>1. Joins(f, ss, N)
    BY <1>2, <1>4, JoinedUptoDef
  <2> QED BY <2>1 DEF Joins
<1>7. g[0] = <<>> /\ \A n \in 1..(N + 1) : g[n] = g[n - 1] \o t[n]
  <2>1. Joins(g, t, N + 1)
    BY <1>1, <1>3, <1>5, JoinedUptoDef
  <2> QED BY <2>1 DEF Joins
<1> DEFINE T == {n \in Nat : n <= N => f[n] = g[n]}
<1>8. 0 \in T
  BY <1>6, <1>7
<1>9. ASSUME NEW n \in Nat, n \in T PROVE n + 1 \in T
  <2> SUFFICES ASSUME n + 1 <= N PROVE f[n + 1] = g[n + 1]
    OBVIOUS
  <2>1. n + 1 \in 1..N /\ n + 1 \in 1..(N + 1) /\ (n + 1) - 1 = n /\ f[n] = g[n]
    BY <1>9
  <2>2. f[n + 1] = f[n] \o ss[n + 1] /\ g[n + 1] = g[n] \o t[n + 1] /\ t[n + 1] = ss[n + 1]
    BY <1>3, <1>6, <1>7, <2>1
  <2> QED BY <2>1, <2>2
<1>10. \A n \in Nat : n \in T
  <2> HIDE DEF T
  <2> QED BY <1>8, <1>9, SetInduction
<1>11. f[N] = g[N]
  BY <1>10
<1>12. g[N + 1] = f[N] \o x
  <2>1. N + 1 \in 1..(N + 1) /\ (N + 1) - 1 = N
    OBVIOUS
  <2>2. g[N + 1] = g[N] \o t[N + 1]
    BY <1>7, <2>1
  <2> QED BY <1>3, <1>11, <2>2
<1>13. Joined(ss) = f[N] /\ Joined(t) = g[N + 1]
  BY <1>2, <1>3, <1>4, <1>5 DEF Joined
<1> QED BY <1>1, <1>12, <1>13, JoinedUptoDef

(* Choosing from a concatenation and taking images is concatenating what   *)
(* the parts give.                                                         *)
LEMMA ChosenConcat ==
    ASSUME NEW S, NEW s \in Seq(S), NEW t \in Seq(S), NEW K, NEW f
    PROVE  Each(Keep(s \o t, K), f) = Each(Keep(s, K), f) \o Each(Keep(t, K), f)
<1>1. Keep(s \o t, K) = Keep(s, K) \o Keep(t, K)
  BY KeepConcat
<1>2. PICK k \in Seq(S) : k = Keep(s, K)
  BY KeepType
<1>3. PICK l \in Seq(S) : l = Keep(t, K)
  BY KeepType
<1>4. Each(k \o l, f) = Each(k, f) \o Each(l, f)
  BY EachConcat, SMTT(30)
<1> QED BY <1>1, <1>2, <1>3, <1>4, Zenon

=============================================================================
