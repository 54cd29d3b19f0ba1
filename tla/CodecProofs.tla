---------------------------- MODULE CodecProofs ----------------------------
(***************************************************************************)
(* Proofs about Codec, for texts and lists of any length and whatever      *)
(* number of bytes a header can count.  A packet that its header can count *)
(* is read as it was written, and reading fails for no other: the layouts  *)
(* of the writer and of the reader are compared by "Parses", which says    *)
(* which values a packet of a layout has, and the bytes by "Coded".  And   *)
(* while every packet is one that its header can count, a configuration    *)
(* stays, through the table and the agent's file, what the first save made *)
(* of it: "IsConfig" gives each of its values its place, "StoredAs" and    *)
(* "LoadedAs" what the table and the file leave of them.                   *)
(***************************************************************************)
EXTENDS Codec, SequenceTheorems, FiniteSetTheorems, WellFoundedInduction, TLAPS

-----------------------------------------------------------------------------
(* Sequences.                                                              *)

LEMMA LeastNat ==
  ASSUME NEW T, T \subseteq Nat, T # {}
  PROVE  \E n \in T : \A m \in T : n <= m
<1> DEFINE R == OpToRel(<, Nat)
<1>1. IsWellFoundedOn(R, Nat)
  BY NatLessThanWellFounded, Zenon
<1>2. \A x, y \in Nat : <<y, x>> \in R <=> y < x
  BY Zenon DEF OpToRel
<1> HIDE DEF R
<1>3. \E x \in T : \A y \in T : ~ (<<y, x>> \in R)
  BY <1>1, WFMin
<1>4. PICK x \in T : \A y \in T : ~(y < x)
  BY <1>2, <1>3, Zenon
<1> QED BY <1>4

\* The function that FlattenSeq is defined with exists.
Flattens(seqs, m, f) ==
  f = [i \in 1..m |-> IF i = 1 THEN seqs[i] ELSE f[i - 1] \o seqs[i]]

LEMMA FlattensExist == ASSUME NEW seqs, NEW n \in Nat PROVE \E f : Flattens(seqs, n, f)
<1> DEFINE T == {m \in 0..n : ~(\E f : Flattens(seqs, m, f))}
<1>1. SUFFICES ASSUME T # {} PROVE FALSE
  OBVIOUS
<1>2. PICK m \in T : \A l \in T : m <= l
  <2>1. T \subseteq Nat
    OBVIOUS
  <2> HIDE DEF T
  <2> QED BY <1>1, <2>1, LeastNat
<1>3. m \in 0..n /\ ~(\E f : Flattens(seqs, m, f))
  OBVIOUS
<1>4. CASE m = 0
  <2> DEFINE f == [i \in 1..0 |-> {}]
  <2>1. f = [i \in 1..0 |-> IF i = 1 THEN seqs[i] ELSE f[i - 1] \o seqs[i]]
    OBVIOUS
  <2> QED BY <1>3, <1>4, <2>1 DEF Flattens
<1>5. CASE m > 0
  <2>1. m - 1 \in 0..n /\ ~(m <= m - 1)
    BY <1>3, <1>5
  <2>2. PICK g : Flattens(seqs, m - 1, g)
    BY <1>2, <2>1
  <2> DEFINE To(f, i) == IF i = 1 THEN seqs[i] ELSE f[i - 1] \o seqs[i]
             f == [i \in 1..m |-> IF i = m THEN To(g, m) ELSE g[i]]
  <2>3. g = [i \in 1..m - 1 |-> To(g, i)]
    BY <2>2 DEF Flattens
  <2>4. ASSUME NEW i \in 1..m PROVE f[i] = To(f, i)
    <3>1. i # 1 => i - 1 \in 1..m /\ i - 1 # m /\ f[i - 1] = g[i - 1]
      BY <1>3
    <3>2. CASE i = m
      BY <3>1, <3>2
    <3>3. CASE i # m
      <4>1. i \in 1..m - 1
        BY <1>3, <3>3
      <4>2. f[i] = g[i] /\ g[i] = To(g, i)
        BY <2>3, <3>3, <4>1
      <4> QED BY <3>1, <4>2
    <3> QED BY <3>2, <3>3
  <2>5. f = [i \in 1..m |-> To(f, i)]
    <3>1. f = [i \in 1..m |-> f[i]]
      OBVIOUS
    <3> HIDE DEF f
    <3> QED BY <2>4, <3>1
  <2> HIDE DEF f
  <2> QED BY <1>3, <2>5 DEF Flattens
<1> QED BY <1>3, <1>4, <1>5

LEMMA FlattenSteps ==
  ASSUME NEW S, NEW seqs \in Seq(S), Len(seqs) > 0
  PROVE  \E f : /\ FlattenSeq(seqs) = f[Len(seqs)]
                /\ f[1] = seqs[1]
                /\ \A i \in 2..Len(seqs) : f[i] = f[i - 1] \o seqs[i]
<1> DEFINE n == Len(seqs)
           f == CHOOSE f : Flattens(seqs, n, f)
<1>1. n \in Nat /\ n > 0
  OBVIOUS
<1>2. Flattens(seqs, n, f)
  BY <1>1, FlattensExist
<1>3. FlattenSeq(seqs) = f[n]
  BY <1>1 DEF FlattenSeq, Flattens
<1> HIDE DEF f
<1>4. 1 \in 1..n /\ \A i \in 2..n : i \in 1..n /\ i # 1
  BY <1>1
<1>5. f[1] = seqs[1] /\ \A i \in 2..n : f[i] = f[i - 1] \o seqs[i]
  BY <1>2, <1>4 DEF Flattens
<1> QED BY <1>3, <1>5

LEMMA FlattenType ==
  ASSUME NEW S, NEW seqs \in Seq(Seq(S))
  PROVE  FlattenSeq(seqs) \in Seq(S)
<1> DEFINE n == Len(seqs)
<1>1. n \in Nat
  OBVIOUS
<1>2. CASE n = 0
  <2>1. seqs = <<>> /\ FlattenSeq(seqs) = seqs
    BY <1>2 DEF FlattenSeq
  <2>2. <<>> \in Seq(S)
    OBVIOUS
  <2> QED BY <2>1, <2>2
<1>3. CASE n > 0
  <2>1. PICK f : /\ FlattenSeq(seqs) = f[n] /\ f[1] = seqs[1]
                 /\ \A i \in 2..n : f[i] = f[i - 1] \o seqs[i]
    BY <1>3, FlattenSteps
  <2> DEFINE T == {i \in 1..n : f[i] \notin Seq(S)}
  <2>2. T = {}
    <3>1. SUFFICES ASSUME T # {} PROVE FALSE
      OBVIOUS
    <3>2. PICK i \in T : \A l \in T : i <= l
      <4>1. T \subseteq Nat
        OBVIOUS
      <4> HIDE DEF T
      <4> QED BY <3>1, <4>1, LeastNat
    <3>3. i \in 1..n /\ f[i] \notin Seq(S)
      OBVIOUS
    <3>4. CASE i = 1
      BY <1>3, <2>1, <3>3, <3>4
    <3>5. CASE i # 1
      <4>1. i \in 2..n /\ i - 1 \in 1..n /\ ~(i <= i - 1)
        BY <3>3, <3>5
      <4>2. f[i - 1] \in Seq(S) /\ seqs[i] \in Seq(S)
        BY <3>2, <3>3, <4>1
      <4>3. f[i - 1] \o seqs[i] \in Seq(S)
        BY <4>2, ConcatProperties
      <4> QED BY <2>1, <3>3, <4>1, <4>3
    <3> QED BY <3>4, <3>5
  <2>3. n \in 1..n
    BY <1>1, <1>3
  <2> QED BY <2>1, <2>2, <2>3
<1> QED BY <1>1, <1>2, <1>3

\* Of parts that are not empty there are no more than elements.
LEMMA FlattenLength ==
  ASSUME NEW S, NEW seqs \in Seq(Seq(S)), \A i \in 1..Len(seqs) : Len(seqs[i]) > 0
  PROVE  FlattenSeq(seqs) \in Seq(S) /\ Len(FlattenSeq(seqs)) >= Len(seqs)
<1> DEFINE n == Len(seqs)
<1>1. n \in Nat /\ FlattenSeq(seqs) \in Seq(S)
  BY FlattenType
<1>2. CASE n = 0
  <2>1. Len(FlattenSeq(seqs)) \in Nat
    BY <1>1
  <2> QED BY <1>1, <1>2, <2>1
<1>3. CASE n > 0
  <2>1. PICK f : /\ FlattenSeq(seqs) = f[n] /\ f[1] = seqs[1]
                 /\ \A i \in 2..n : f[i] = f[i - 1] \o seqs[i]
    BY <1>3, FlattenSteps
  <2> DEFINE Good(i) == f[i] \in Seq(S) /\ Len(f[i]) >= i
             T == {i \in 1..n : ~Good(i)}
  <2>2. T = {}
    <3>1. SUFFICES ASSUME T # {} PROVE FALSE
      OBVIOUS
    <3>2. PICK i \in T : \A l \in T : i <= l
      <4>1. T \subseteq Nat
        OBVIOUS
      <4> HIDE DEF T
      <4> QED BY <3>1, <4>1, LeastNat
    <3>3. i \in 1..n /\ ~Good(i)
      OBVIOUS
    <3>4. seqs[i] \in Seq(S) /\ Len(seqs[i]) > 0
      BY <3>3
    <3>5. CASE i = 1
      BY <2>1, <3>3, <3>4, <3>5
    <3>6. CASE i # 1
      <4>1. i \in 2..n /\ i \in Nat /\ i - 1 \in 1..n /\ ~(i <= i - 1)
        BY <1>1, <3>3, <3>6
      <4>2. PICK a \in Seq(S), c \in Seq(S) :
              a = f[i - 1] /\ Len(a) >= i - 1 /\ c = seqs[i]
        BY <3>2, <3>4, <4>1
      <4>3. a \o c \in Seq(S) /\ Len(a \o c) = Len(a) + Len(c)
        BY ConcatProperties
      <4>4. Len(a \o c) >= i
        <5>1. Len(a) \in Nat /\ Len(c) \in Nat /\ Len(c) > 0
          BY <3>4, <4>2
        <5>2. \A x, y \in Nat : x >= i - 1 /\ y > 0 => x + y >= i
          BY <4>1
        <5> QED BY <4>2, <4>3, <5>1, <5>2
      <4> QED BY <2>1, <3>3, <4>1, <4>2, <4>3, <4>4
    <3> QED BY <3>5, <3>6
  <2>3. n \in 1..n
    BY <1>1, <1>3
  <2> QED BY <1>1, <2>1, <2>2, <2>3
<1> QED BY <1>1, <1>2, <1>3

\* Parts of three elements each.
LEMMA FlattenTriples ==
  ASSUME NEW S, NEW seqs \in Seq(Seq(S)), \A i \in 1..Len(seqs) : Len(seqs[i]) = 3
  PROVE  /\ FlattenSeq(seqs) \in Seq(S) /\ Len(FlattenSeq(seqs)) = 3 * Len(seqs)
         /\ \A i \in 1..Len(seqs), j \in 1..3 :
              FlattenSeq(seqs)[3 * (i - 1) + j] = seqs[i][j]
<1> DEFINE n == Len(seqs)
<1>1. n \in Nat /\ FlattenSeq(seqs) \in Seq(S)
  BY FlattenType
<1>2. CASE n = 0
  <2>1. seqs = <<>> /\ FlattenSeq(seqs) = seqs
    BY <1>2 DEF FlattenSeq
  <2> QED BY <1>1, <1>2, <2>1
<1>3. CASE n > 0
  <2>1. PICK f : /\ FlattenSeq(seqs) = f[n] /\ f[1] = seqs[1]
                 /\ \A i \in 2..n : f[i] = f[i - 1] \o seqs[i]
    BY <1>3, FlattenSteps
  <2> DEFINE Good(i) == /\ f[i] \in Seq(S) /\ Len(f[i]) = 3 * i
                        /\ \A k \in 1..i, j \in 1..3 : f[i][3 * (k - 1) + j] = seqs[k][j]
             T == {i \in 1..n : ~Good(i)}
  <2>2. T = {}
    <3>1. SUFFICES ASSUME T # {} PROVE FALSE
      OBVIOUS
    <3>2. PICK i \in T : \A l \in T : i <= l
      <4>1. T \subseteq Nat
        OBVIOUS
      <4> HIDE DEF T
      <4> QED BY <3>1, <4>1, LeastNat
    <3>3. i \in 1..n /\ ~Good(i)
      OBVIOUS
    <3> HIDE DEF T
    <3>4. seqs[i] \in Seq(S) /\ Len(seqs[i]) = 3
      BY <3>3
    <3>5. CASE i = 1
      <4>1. f[1] = seqs[1] /\ \A k \in 1..1 : k = 1
        BY <2>1
      <4>2. \A j \in 1..3 : 3 * (1 - 1) + j = j
        OBVIOUS
      <4> QED BY <3>3, <3>4, <3>5, <4>1, <4>2
    <3>6. CASE i # 1
      <4>1. i \in 2..n /\ i \in Nat /\ i - 1 \in 1..n /\ ~(i <= i - 1)
        BY <1>1, <3>3, <3>6
      <4>2. Good(i - 1)
        BY <3>2, <4>1 DEF T
      <4>3. PICK a \in Seq(S), c \in Seq(S) : a = f[i - 1] /\ c = seqs[i]
        BY <3>4, <4>2
      <4>4. /\ a \o c \in Seq(S) /\ Len(a \o c) = Len(a) + Len(c)
            /\ \A m \in 1..Len(a) + Len(c) :
                 (a \o c)[m] = IF m <= Len(a) THEN a[m] ELSE c[m - Len(a)]
        BY ConcatProperties
      <4>5. /\ Len(a) = 3 * (i - 1) /\ Len(c) = 3 /\ Len(a \o c) = 3 * i
            /\ f[i] = a \o c
        <5>1. Len(a) = 3 * (i - 1) /\ Len(c) = 3 /\ f[i] = a \o c
          BY <2>1, <3>4, <4>1, <4>2, <4>3
        <5> QED BY <4>1, <4>4, <5>1
      <4>6. ASSUME NEW k \in 1..i, NEW j \in 1..3
            PROVE  (a \o c)[3 * (k - 1) + j] = seqs[k][j]
        <5>1. CASE k = i
          <6>1. PICK m \in 1..Len(a) + Len(c) :
                  m = 3 * (k - 1) + j /\ ~(m <= Len(a)) /\ m - Len(a) = j
            <7>1. /\ 3 * (k - 1) + j \in 1..Len(a) + Len(c)
                  /\ ~(3 * (k - 1) + j <= Len(a)) /\ 3 * (k - 1) + j - Len(a) = j
              BY <4>1, <4>5, <5>1
            <7> QED BY <7>1
          <6>2. (a \o c)[m] = c[j]
            BY <4>4, <6>1
          <6> QED BY <4>3, <5>1, <6>1, <6>2
        <5>2. CASE k # i
          <6>1. k \in 1..i - 1
            BY <4>1, <5>2
          <6>2. 3 * (k - 1) + j \in 1..Len(a) + Len(c) /\ 3 * (k - 1) + j <= Len(a)
            BY <4>1, <4>5, <6>1
          <6> QED BY <4>2, <4>3, <4>4, <6>1, <6>2
        <5> QED BY <5>1, <5>2
      <4> QED BY <3>3, <4>4, <4>5, <4>6
    <3> QED BY <3>5, <3>6
  <2>3. n \in 1..n
    BY <1>1, <1>3
  <2>4. Good(n)
    BY <2>2, <2>3
  <2> QED BY <2>1, <2>4
<1>4. n = 0 \/ n > 0
  BY <1>1
<1> QED BY <1>2, <1>3, <1>4, Zenon

\* The function that ThoseAt is defined with exists.
Takes(s, at, m, f) ==
  f = [k \in 0..m |-> IF k = 0 THEN <<>>
                      ELSE IF k \in at THEN Append(f[k - 1], s[k]) ELSE f[k - 1]]

LEMMA TakesExist ==
  ASSUME NEW s, NEW at, NEW n \in Nat
  PROVE  \E f : Takes(s, at, n, f)
<1> DEFINE T == {m \in 0..n : ~(\E f : Takes(s, at, m, f))}
<1>1. SUFFICES ASSUME T # {} PROVE FALSE
  OBVIOUS
<1>2. PICK m \in T : \A l \in T : m <= l
  <2>1. T \subseteq Nat
    OBVIOUS
  <2> HIDE DEF T
  <2> QED BY <1>1, <2>1, LeastNat
<1>3. m \in 0..n /\ ~(\E f : Takes(s, at, m, f))
  OBVIOUS
<1> DEFINE To(f, k) == IF k = 0 THEN <<>>
                       ELSE IF k \in at THEN Append(f[k - 1], s[k]) ELSE f[k - 1]
<1>4. CASE m = 0
  <2> DEFINE f == [k \in 0..0 |-> <<>>]
  <2>1. \A k \in 0..0 : k = 0
    OBVIOUS
  <2>2. f = [k \in 0..0 |-> To(f, k)]
    BY <2>1
  <2> QED BY <1>3, <1>4, <2>2 DEF Takes
<1>5. CASE m > 0
  <2>1. m - 1 \in 0..n /\ ~(m <= m - 1)
    BY <1>3, <1>5
  <2>2. PICK g : Takes(s, at, m - 1, g)
    BY <1>2, <2>1
  <2> DEFINE f == [k \in 0..m |-> IF k = m THEN To(g, m) ELSE g[k]]
  <2>3. g = [k \in 0..m - 1 |-> To(g, k)]
    BY <2>2 DEF Takes
  <2>4. ASSUME NEW k \in 0..m PROVE f[k] = To(f, k)
    <3>1. k # 0 => k - 1 \in 0..m /\ k - 1 # m /\ f[k - 1] = g[k - 1]
      BY <1>3
    <3>2. CASE k = m
      BY <3>1, <3>2
    <3>3. CASE k # m
      <4>1. k \in 0..m - 1
        BY <1>3, <3>3
      <4>2. f[k] = g[k] /\ g[k] = To(g, k)
        BY <2>3, <3>3, <4>1
      <4> QED BY <3>1, <4>2
    <3> QED BY <3>2, <3>3
  <2>5. f = [k \in 0..m |-> To(f, k)]
    <3>1. f = [k \in 0..m |-> f[k]]
      OBVIOUS
    <3> HIDE DEF f
    <3> QED BY <2>4, <3>1
  <2> HIDE DEF f
  <2> QED BY <1>3, <2>5 DEF Takes
<1> QED BY <1>3, <1>4, <1>5

\* q is the elements of s at the positions "at": g numbers these.
Numbers(g, s, at, q) ==
  /\ g \in [1..Len(q) -> at]
  /\ \A i \in 1..Len(q) : q[i] = s[g[i]]
  /\ \A i, j \in 1..Len(q) : i < j => g[i] < g[j]
  /\ \A k \in at : \E i \in 1..Len(q) : g[i] = k

LEMMA ThoseAtElements ==
  ASSUME NEW S, NEW s \in Seq(S), NEW at \in SUBSET (DOMAIN s)
  PROVE  /\ ThoseAt(s, at) \in Seq(S)
         /\ \E g : Numbers(g, s, at, ThoseAt(s, at))
<1> DEFINE n == Len(s)
           f == CHOOSE f : Takes(s, at, n, f)
           Good(k) == /\ f[k] \in Seq(S)
                      /\ \E g : Numbers(g, s, at \cap 1..k, f[k])
           T == {k \in 0..n : ~Good(k)}
<1>1. n \in Nat /\ DOMAIN s = 1..n
  OBVIOUS
<1>2. Takes(s, at, n, f)
  BY <1>1, TakesExist
<1>3. ThoseAt(s, at) = f[n]
  BY DEF ThoseAt, Takes
<1> HIDE DEF f
<1>4. \A k \in 0..n : f[k] = IF k = 0 THEN <<>>
                              ELSE IF k \in at THEN Append(f[k - 1], s[k]) ELSE f[k - 1]
  BY <1>2 DEF Takes
<1>5. T = {}
  <2>1. SUFFICES ASSUME T # {} PROVE FALSE
    OBVIOUS
  <2>2. PICK k \in T : \A l \in T : k <= l
    <3>1. T \subseteq Nat
      BY <1>1
    <3> HIDE DEF T
    <3> QED BY <2>1, <3>1, LeastNat
  <2>3. k \in 0..n /\ ~Good(k)
    OBVIOUS
  <2>4. CASE k = 0
    <3>1. f[0] = <<>> /\ at \cap 1..0 = {}
      BY <1>1, <1>4
    <3>2. Numbers(<<>>, s, {}, <<>>)
      BY DEF Numbers
    <3> QED BY <2>3, <2>4, <3>1, <3>2
  <2>5. CASE k > 0
    <3>1. k - 1 \in 0..n /\ k \in 1..n /\ ~(k <= k - 1) /\ k # 0
      BY <1>1, <2>3, <2>5
    <3>2. Good(k - 1)
      BY <2>2, <3>1
    <3>3. PICK q, g : /\ q \in Seq(S) /\ q = f[k - 1]
                      /\ Numbers(g, s, at \cap 1..(k - 1), q)
      BY <3>2
    <3>4. Len(q) \in Nat /\ s[k] \in S
      BY <1>1, <3>1, <3>3
    <3>5. CASE k \notin at
      <4>1. f[k] = q
        BY <1>4, <2>3, <3>1, <3>3, <3>5
      <4>2. at \cap 1..k = at \cap 1..(k - 1)
        BY <3>1, <3>5
      <4> QED BY <2>3, <3>3, <4>1, <4>2
    <3>6. CASE k \in at
      <4> DEFINE m == Len(q)
                 h == [i \in 1..m + 1 |-> IF i = m + 1 THEN k ELSE g[i]]
      <4>1. f[k] = Append(q, s[k])
        BY <1>4, <2>3, <3>1, <3>3, <3>6
      <4>2. PICK r \in Seq(S) :
              /\ r = Append(q, s[k]) /\ Len(r) = m + 1 /\ r[m + 1] = s[k]
              /\ \A i \in 1..m : r[i] = q[i]
        <5>1. /\ Append(q, s[k]) \in Seq(S) /\ Len(Append(q, s[k])) = Len(q) + 1
              /\ Append(q, s[k])[Len(q) + 1] = s[k]
              /\ \A i \in 1..Len(q) : Append(q, s[k])[i] = q[i]
          BY <3>3, <3>4
        <5> QED BY <5>1
      <4>3. \A i \in 1..m + 1 : i = m + 1 \/ i \in 1..m
        BY <3>4
      <4>4. at \cap 1..k = (at \cap 1..(k - 1)) \cup {k}
        BY <3>1, <3>6
      <4>5. /\ h[m + 1] = k /\ \A i \in 1..m : h[i] = g[i] /\ h[i] < k
                                                /\ h[i] \in at \cap 1..(k - 1)
            /\ m + 1 \in 1..m + 1 /\ \A i \in 1..m : i \in 1..m + 1 /\ i # m + 1
        <5>1. \A i \in 1..m : i \in 1..m + 1 /\ i # m + 1 /\ g[i] \in at \cap 1..(k - 1)
          <6>1. \A i \in 1..m : i \in 1..m + 1 /\ i # m + 1
            BY <3>4
          <6> QED BY <3>3, <6>1 DEF Numbers
        <5>2. m + 1 \in 1..m + 1 /\ \A x \in 1..(k - 1) : x < k
          BY <3>1, <3>4
        <5> QED BY <5>1, <5>2
      <4>6. h \in [1..m + 1 -> at \cap 1..k]
        BY <4>3, <4>4, <4>5
      <4> HIDE DEF h, m
      <4>7. \A i \in 1..m + 1 : r[i] = s[h[i]]
        BY <3>3, <4>2, <4>3, <4>5 DEF Numbers, m
      <4>8. \A i, j \in 1..m + 1 : i < j => h[i] < h[j]
        <5>1. \A i, j \in 1..m + 1 : i < j => i \in 1..m
          BY <3>4 DEF m
        <5>2. \A i, j \in 1..m : i < j => g[i] < g[j]
          BY <3>3 DEF Numbers, m
        <5> QED BY <4>3, <4>5, <5>1, <5>2
      <4>9. \A x \in at \cap 1..k : \E i \in 1..m + 1 : h[i] = x
        BY <3>3, <4>4, <4>5 DEF Numbers, m
      <4>10. Numbers(h, s, at \cap 1..k, r)
        BY <4>2, <4>6, <4>7, <4>8, <4>9 DEF Numbers
      <4> QED BY <2>3, <4>1, <4>2, <4>10
    <3> QED BY <3>5, <3>6
  <2> QED BY <1>1, <2>3, <2>4, <2>5
<1>6. Good(n)
  <2>1. n \in 0..n
    BY <1>1
  <2> QED BY <1>5, <2>1
<1>7. at \cap 1..n = at
  BY <1>1
<1> QED BY <1>3, <1>6, <1>7

-----------------------------------------------------------------------------
(* Layouts.                                                                *)

\* What a byte or a character is.
Marks == Fields \cup {"x", ":", ",", " ", "e", "high", "wide", "count", "lengthLow",
                     "lengthHigh", "one", "own"}

Octets == [is : Marks, at : Nat]

LEMMA ByteType == \A m \in Marks, n \in Nat : Byte(m, n) \in Octets
BY DEF Byte, Octets

LEMMA LenModPositive == LenMod \in Nat /\ LenMod > 0 /\ \A n \in Nat : n % LenMod \in 0..LenMod - 1
<1>1. LenMod \in Nat /\ MaxPoints \in Nat /\ 2 * MaxPoints < LenMod
  BY CodecAssumption
<1>2. LenMod > 0
  BY <1>1
<1> QED BY <1>1, <1>2

\* Numbers and texts, and lists of what is in S.
Flat ==
  {x \in [kind : {"number", "text"}, f : Fields, width : Nat, of : {<<>>}] :
     x.kind = "number" => x.width > 0}
Lists(S) == [kind : {"list"}, f : Fields, width : {0}, of : Seq(S) \ {<<>>}]

\* What is in a list, and what is in a layout.
Inner == Flat \cup Lists(Flat)
Items == Flat \cup Lists(Inner)

LEMMA InnerItems == Inner \subseteq Items
<1>1. Lists(Flat) \subseteq Lists(Inner)
  <2>1. SUFFICES ASSUME NEW x \in Lists(Flat) PROVE x \in Lists(Inner)
    OBVIOUS
  <2>2. PICK l \in Seq(Flat) \ {<<>>} : x.of = l
    BY DEF Lists
  <2>3. l \in Seq(Inner)
    BY DEF Inner
  <2> QED BY <2>2, <2>3 DEF Lists
<1> QED BY <1>1 DEF Inner, Items

LEMMA FieldItems ==
  /\ \A f \in Fields, w \in Nat \ {0} : Num(f, w) \in Flat
  /\ \A f \in Fields : Str(f) \in Flat
  /\ \A f \in Fields : \A l \in Seq(Flat) \ {<<>>} : List(f, l) \in Inner
  /\ \A f \in Fields : \A l \in Seq(Inner) \ {<<>>} : List(f, l) \in Items
  /\ Flat \subseteq Inner /\ Flat \subseteq Items /\ Inner \subseteq Items
<1>1. \A f \in Fields : \A S : \A l \in Seq(S) \ {<<>>} : List(f, l) \in Lists(S)
  BY DEF List, Lists
<1>2. \A f \in Fields : Str(f) \in Flat
  BY DEF Str, Flat
<1>3. \A f \in Fields, w \in Nat \ {0} : Num(f, w) \in Flat
  BY DEF Num, Flat
<1> QED BY <1>1, <1>2, <1>3, InnerItems DEF Inner, Items

\* Every class has a layout of items that end: no list is empty in its turn.
LEMMA LayoutTypes ==
  /\ TPacketAuth \in Seq(Items) /\ TPacketReply \in Seq(Items)
  /\ TPacketStart \in Seq(Items) /\ TPacketAgentData \in Seq(Items)
  /\ TPacketAgentsData \in Seq(Items) /\ TPacketKeyReply \in Seq(Items)
  /\ TPacketConfig \in Seq(Items) /\ TPacketConfigRequest \in Seq(Items)
  /\ TPacketStatsRequest \in Seq(Items) /\ TPacketStatsReply \in Seq(Items)
<1>1. TDiskUsage \in Seq(Flat) \ {<<>>} /\ TService \in Seq(Flat) \ {<<>>}
  BY FieldItems DEF TDiskUsage, TService, Fields
<1>2. TSensorsData \in Seq(Inner)
  BY <1>1, FieldItems DEF TSensorsData, Fields
<1>3. TPacketAgentData \in Seq(Inner) /\ TPacketAgentData # <<>>
  <2> DEFINE front == <<Num("id", 2), Num("oldData", 1), Str("name")>>
  <2>0. front \in Seq(Inner) /\ Len(front) = 3
    BY FieldItems DEF Fields
  <2>1. PICK a \in Seq(Inner) : a = front /\ Len(a) = 3
    BY <2>0
  <2>2. Len(a) = 3 /\ Len(TSensorsData) \in Nat
    BY <1>2, <2>1
  <2>3. /\ a \o TSensorsData \in Seq(Inner)
        /\ Len(a \o TSensorsData) = Len(a) + Len(TSensorsData)
    BY <1>2, ConcatProperties
  <2>4. Len(a \o TSensorsData) # 0
    BY <2>2, <2>3
  <2> QED BY <2>1, <2>3, <2>4 DEF TPacketAgentData
<1>4. TPacketAgentData \in Seq(Items)
  BY <1>3, FieldItems
<1>5. TPacketAgentsData \in Seq(Items)
  BY <1>3, FieldItems DEF TPacketAgentsData, Fields
<1>6. TPacketConfigService \in Seq(Flat) \ {<<>>}
  BY FieldItems DEF TPacketConfigService, Fields
<1>7. TPacketConfig \in Seq(Items)
  BY <1>6, FieldItems DEF TPacketConfig, Fields
<1>8. /\ TPacketAuth \in Seq(Items) /\ TPacketReply \in Seq(Items)
      /\ TPacketStart \in Seq(Items) /\ TPacketKeyReply \in Seq(Items)
      /\ TPacketConfigRequest \in Seq(Items)
  BY FieldItems DEF TPacketAuth, TPacketReply, TPacketStart, TPacketKeyReply,
                    TPacketConfigRequest, Fields
<1>9. TPacketStatsRequest \in Seq(Items)
  BY FieldItems DEF TPacketStatsRequest, Fields
<1>10. TPacketStatsReply \in Seq(Items)
  <2>1. <<Num("point", 4)>> \in Seq(Flat) \ {<<>>}
    BY FieldItems DEF Fields
  <2>2. List("points", <<Num("point", 4)>>) \in Items
    BY <2>1, FieldItems DEF Fields
  <2> QED BY <2>2 DEF TPacketStatsReply
<1> QED BY <1>4, <1>5, <1>7, <1>8, <1>9, <1>10

\* The classes of the two languages agree (packets.h, sensors.h and the Java
\* classes under connection/packets and sensors).
LEMMA LayoutsAgree ==
  /\ PacketAuthKey = TPacketAuth /\ PacketReply = TPacketReply
  /\ PacketStart = TPacketStart /\ PacketAgentsData = TPacketAgentsData
  /\ PacketKeyReply = TPacketKeyReply /\ PacketConfig = TPacketConfig
  /\ PacketConfigRequest = TPacketConfigRequest
  /\ PacketStatsRequest = TPacketStatsRequest /\ PacketStatsReply = TPacketStatsReply
<1>1. DiskUsageData = TDiskUsage /\ ServiceData = TService
  BY DEF DiskUsageData, TDiskUsage, ServiceData, TService
<1>2. SensorsData = TSensorsData
  BY <1>1 DEF SensorsData, TSensorsData
<1>3. AgentData = TPacketAgentData
  BY <1>2 DEF AgentData, TPacketAgentData
<1>4. PacketAgentsData = TPacketAgentsData
  BY <1>3 DEF PacketAgentsData, TPacketAgentsData
<1>5. ServiceConfig = TPacketConfigService
  BY DEF ServiceConfig, TPacketConfigService
<1>6. PacketConfig = TPacketConfig
  BY <1>5 DEF PacketConfig, TPacketConfig
<1>7. /\ PacketAuthKey = TPacketAuth /\ PacketReply = TPacketReply
      /\ PacketStart = TPacketStart /\ PacketKeyReply = TPacketKeyReply
  BY DEF PacketAuthKey, TPacketAuth, PacketReply, TPacketReply, PacketStart,
         TPacketStart, PacketKeyReply, TPacketKeyReply
<1>8. /\ PacketConfigRequest = TPacketConfigRequest
      /\ PacketStatsRequest = TPacketStatsRequest /\ PacketStatsReply = TPacketStatsReply
  BY DEF PacketConfigRequest, TPacketConfigRequest, PacketStatsRequest,
         TPacketStatsRequest, PacketStatsReply, TPacketStatsReply
<1> QED BY <1>4, <1>6, <1>7, <1>8

LEMMA TypeNumbers == Len(packetTypes) = 16 /\ Len(HeaderTypes) = 16
BY DEF packetTypes, HeaderTypes

\* What the reader makes of a type at position i of the writer's numbers.
LEMMA ReadAsType ==
  ASSUME NEW from, NEW to, NEW type, NEW i \in 1..16,
         Types(from)[i] = type, \A j \in 1..i - 1 : Types(from)[j] # type,
         Types(to)[i] \in DOMAIN Reads[to]
  PROVE  ReadAs(Hop(from, to, type)) = Reads[to][Types(to)[i]]
<1> DEFINE h == Hop(from, to, type)
           s == Types(from)
           I == {j \in 1..Len(s) : s[j] = h.type}
<1>1. h.from = from /\ h.to = to /\ h.type = type
  BY DEF Hop
<1>2. Len(s) = 16
  BY TypeNumbers DEF Types
<1> HIDE DEF h
<1>3. SelectInSeq(Types(h.from), LAMBDA t : t = h.type) = i
  <2>1. i \in I /\ \A j \in I : i <= j
    BY <1>1, <1>2
  <2>2. Min(I) = i
    BY <2>1 DEF Min
  <2> QED BY <1>1, <2>1, <2>2 DEF SelectInSeq
<1> QED BY <1>1, <1>3 DEF ReadAs, h

\* Every packet is read with the layout it was written with (Header.java and
\* packets.h give a type the same number, whatever they call it).
LEMMA HopLayouts ==
  /\ LET h == Hop("agent", "server", "AUTH")
     IN  ReadAs(h) = TPacketAuth /\ Writes[h.from][h.type] = TPacketAuth
  /\ LET h == Hop("agent", "server", "AGENTDATA")
     IN  ReadAs(h) = TPacketAgentData /\ Writes[h.from][h.type] = TPacketAgentData
  /\ LET h == Hop("viewer", "server", "AUTH")
     IN  ReadAs(h) = TPacketAuth /\ Writes[h.from][h.type] = PacketAuthKey
  /\ LET h == Hop("viewer", "server", "START")
     IN  ReadAs(h) = TPacketStart /\ Writes[h.from][h.type] = PacketStart
  /\ LET h == Hop("viewer", "server", "CONFIG_REQUEST")
     IN  ReadAs(h) = TPacketConfigRequest /\ Writes[h.from][h.type] = PacketConfigRequest
  /\ LET h == Hop("viewer", "server", "CHANGE_REQUEST")
     IN  ReadAs(h) = TPacketConfig /\ Writes[h.from][h.type] = PacketConfig
  /\ LET h == Hop("viewer", "server", "STATS_REQUEST")
     IN  ReadAs(h) = TPacketStatsRequest /\ Writes[h.from][h.type] = PacketStatsRequest
  /\ LET h == Hop("server", "viewer", "REPLY")
     IN  ReadAs(h) = PacketReply /\ Writes[h.from][h.type] = TPacketReply
  /\ LET h == Hop("server", "viewer", "AGENTSDATA")
     IN  ReadAs(h) = PacketAgentsData /\ Writes[h.from][h.type] = TPacketAgentsData
  /\ LET h == Hop("server", "viewer", "KEY_REPLY")
     IN  ReadAs(h) = PacketKeyReply /\ Writes[h.from][h.type] = TPacketKeyReply
  /\ LET h == Hop("server", "viewer", "CONFIG_REPLY")
     IN  ReadAs(h) = PacketConfig /\ Writes[h.from][h.type] = TPacketConfig
  /\ LET h == Hop("server", "viewer", "CONFIG_CHANGE_REPLY")
     IN  ReadAs(h) = PacketReply /\ Writes[h.from][h.type] = TPacketReply
  /\ LET h == Hop("server", "viewer", "STATS_REPLY")
     IN  ReadAs(h) = PacketStatsReply /\ Writes[h.from][h.type] = TPacketStatsReply
  /\ LET h == Hop("server", "agent", "REPLY")
     IN  ReadAs(h) = TPacketReply /\ Writes[h.from][h.type] = TPacketReply
  /\ LET h == Hop("server", "agent", "CONFIG")
     IN  ReadAs(h) = TPacketConfig /\ Writes[h.from][h.type] = TPacketConfig
<1>1. ReadAs(Hop("agent", "server", "AUTH")) = TPacketAuth
  <2>1. /\ Types("agent")[1] = "AUTH" /\ Types("server")[1] = "AUTH"
        /\ \A j \in 1..1 - 1 : Types("agent")[j] # "AUTH"
    BY DEF Types, packetTypes
  <2>2. "AUTH" \in DOMAIN Reads["server"] /\ Reads["server"]["AUTH"] = TPacketAuth
    BY DEF Reads, ServerReads
  <2> QED BY <2>1, <2>2, ReadAsType
<1>2. ReadAs(Hop("agent", "server", "AGENTDATA")) = TPacketAgentData
  <2>1. /\ Types("agent")[3] = "AGENTDATA" /\ Types("server")[3] = "AGENTDATA"
        /\ \A j \in 1..3 - 1 : Types("agent")[j] # "AGENTDATA"
    BY DEF Types, packetTypes
  <2>2. "AGENTDATA" \in DOMAIN Reads["server"] /\ Reads["server"]["AGENTDATA"] = TPacketAgentData
    BY DEF Reads, ServerReads
  <2> QED BY <2>1, <2>2, ReadAsType
<1>3. ReadAs(Hop("viewer", "server", "AUTH")) = TPacketAuth
  <2>1. /\ Types("viewer")[1] = "AUTH" /\ Types("server")[1] = "AUTH"
        /\ \A j \in 1..1 - 1 : Types("viewer")[j] # "AUTH"
    BY DEF Types, HeaderTypes, packetTypes
  <2>2. "AUTH" \in DOMAIN Reads["server"] /\ Reads["server"]["AUTH"] = TPacketAuth
    BY DEF Reads, ServerReads
  <2> QED BY <2>1, <2>2, ReadAsType
<1>4. ReadAs(Hop("viewer", "server", "START")) = TPacketStart
  <2>1. /\ Types("viewer")[4] = "START" /\ Types("server")[4] = "START"
        /\ \A j \in 1..4 - 1 : Types("viewer")[j] # "START"
    BY DEF Types, HeaderTypes, packetTypes
  <2>2. "START" \in DOMAIN Reads["server"] /\ Reads["server"]["START"] = TPacketStart
    BY DEF Reads, ServerReads
  <2> QED BY <2>1, <2>2, ReadAsType
<1>5. ReadAs(Hop("viewer", "server", "CONFIG_REQUEST")) = TPacketConfigRequest
  <2>1. /\ Types("viewer")[11] = "CONFIG_REQUEST" /\ Types("server")[11] = "CONFIG_REQUEST"
        /\ \A j \in 1..11 - 1 : Types("viewer")[j] # "CONFIG_REQUEST"
    BY DEF Types, HeaderTypes, packetTypes
  <2>2. /\ "CONFIG_REQUEST" \in DOMAIN Reads["server"]
        /\ Reads["server"]["CONFIG_REQUEST"] = TPacketConfigRequest
    BY DEF Reads, ServerReads
  <2> QED BY <2>1, <2>2, ReadAsType
<1>6. ReadAs(Hop("viewer", "server", "CHANGE_REQUEST")) = TPacketConfig
  <2>1. /\ Types("viewer")[13] = "CHANGE_REQUEST" /\ Types("server")[13] = "CONFIG_CHANGE_REQUEST"
        /\ \A j \in 1..13 - 1 : Types("viewer")[j] # "CHANGE_REQUEST"
    BY DEF Types, HeaderTypes, packetTypes
  <2>2. /\ "CONFIG_CHANGE_REQUEST" \in DOMAIN Reads["server"]
        /\ Reads["server"]["CONFIG_CHANGE_REQUEST"] = TPacketConfig
    BY DEF Reads, ServerReads
  <2> QED BY <2>1, <2>2, ReadAsType
<1>7. ReadAs(Hop("viewer", "server", "STATS_REQUEST")) = TPacketStatsRequest
  <2>1. /\ Types("viewer")[15] = "STATS_REQUEST" /\ Types("server")[15] = "STATS_REQUEST"
        /\ \A j \in 1..15 - 1 : Types("viewer")[j] # "STATS_REQUEST"
    BY DEF Types, HeaderTypes, packetTypes
  <2>2. /\ "STATS_REQUEST" \in DOMAIN Reads["server"]
        /\ Reads["server"]["STATS_REQUEST"] = TPacketStatsRequest
    BY DEF Reads, ServerReads
  <2> QED BY <2>1, <2>2, ReadAsType
<1>8. ReadAs(Hop("server", "viewer", "REPLY")) = PacketReply
  <2>1. /\ Types("server")[2] = "REPLY" /\ Types("viewer")[2] = "REPLY"
        /\ \A j \in 1..2 - 1 : Types("server")[j] # "REPLY"
    BY DEF Types, HeaderTypes, packetTypes
  <2>2. "REPLY" \in DOMAIN Reads["viewer"] /\ Reads["viewer"]["REPLY"] = PacketReply
    BY DEF Reads, ViewerReads
  <2> QED BY <2>1, <2>2, ReadAsType
<1>9. ReadAs(Hop("server", "viewer", "AGENTSDATA")) = PacketAgentsData
  <2>1. /\ Types("server")[7] = "AGENTSDATA" /\ Types("viewer")[7] = "AGENTS_DATA"
        /\ \A j \in 1..7 - 1 : Types("server")[j] # "AGENTSDATA"
    BY DEF Types, HeaderTypes, packetTypes
  <2>2. /\ "AGENTS_DATA" \in DOMAIN Reads["viewer"]
        /\ Reads["viewer"]["AGENTS_DATA"] = PacketAgentsData
    BY DEF Reads, ViewerReads
  <2> QED BY <2>1, <2>2, ReadAsType
<1>10. ReadAs(Hop("server", "viewer", "KEY_REPLY")) = PacketKeyReply
  <2>1. /\ Types("server")[9] = "KEY_REPLY" /\ Types("viewer")[9] = "KEY_REPLY"
        /\ \A j \in 1..9 - 1 : Types("server")[j] # "KEY_REPLY"
    BY DEF Types, HeaderTypes, packetTypes
  <2>2. "KEY_REPLY" \in DOMAIN Reads["viewer"] /\ Reads["viewer"]["KEY_REPLY"] = PacketKeyReply
    BY DEF Reads, ViewerReads
  <2> QED BY <2>1, <2>2, ReadAsType
<1>11. ReadAs(Hop("server", "viewer", "CONFIG_REPLY")) = PacketConfig
  <2>1. /\ Types("server")[12] = "CONFIG_REPLY" /\ Types("viewer")[12] = "CONFIG_REPLY"
        /\ \A j \in 1..12 - 1 : Types("server")[j] # "CONFIG_REPLY"
    BY DEF Types, HeaderTypes, packetTypes
  <2>2. "CONFIG_REPLY" \in DOMAIN Reads["viewer"] /\ Reads["viewer"]["CONFIG_REPLY"] = PacketConfig
    BY DEF Reads, ViewerReads
  <2> QED BY <2>1, <2>2, ReadAsType
<1>12. ReadAs(Hop("server", "viewer", "CONFIG_CHANGE_REPLY")) = PacketReply
  <2>1. /\ Types("server")[14] = "CONFIG_CHANGE_REPLY" /\ Types("viewer")[14] = "CHANGE_REPLY"
        /\ \A j \in 1..14 - 1 : Types("server")[j] # "CONFIG_CHANGE_REPLY"
    BY DEF Types, HeaderTypes, packetTypes
  <2>2. "CHANGE_REPLY" \in DOMAIN Reads["viewer"] /\ Reads["viewer"]["CHANGE_REPLY"] = PacketReply
    BY DEF Reads, ViewerReads
  <2> QED BY <2>1, <2>2, ReadAsType
<1>13. ReadAs(Hop("server", "viewer", "STATS_REPLY")) = PacketStatsReply
  <2>1. /\ Types("server")[16] = "STATS_REPLY" /\ Types("viewer")[16] = "STATS_REPLY"
        /\ \A j \in 1..16 - 1 : Types("server")[j] # "STATS_REPLY"
    BY DEF Types, HeaderTypes, packetTypes
  <2>2. /\ "STATS_REPLY" \in DOMAIN Reads["viewer"]
        /\ Reads["viewer"]["STATS_REPLY"] = PacketStatsReply
    BY DEF Reads, ViewerReads
  <2> QED BY <2>1, <2>2, ReadAsType
<1>14. ReadAs(Hop("server", "agent", "REPLY")) = TPacketReply
  <2>1. /\ Types("server")[2] = "REPLY" /\ Types("agent")[2] = "REPLY"
        /\ \A j \in 1..2 - 1 : Types("server")[j] # "REPLY"
    BY DEF Types, packetTypes
  <2>2. "REPLY" \in DOMAIN Reads["agent"] /\ Reads["agent"]["REPLY"] = TPacketReply
    BY DEF Reads, AgentReads
  <2> QED BY <2>1, <2>2, ReadAsType
<1>15. ReadAs(Hop("server", "agent", "CONFIG")) = TPacketConfig
  <2>1. /\ Types("server")[10] = "CONFIG" /\ Types("agent")[10] = "CONFIG"
        /\ \A j \in 1..10 - 1 : Types("server")[j] # "CONFIG"
    BY DEF Types, packetTypes
  <2>2. "CONFIG" \in DOMAIN Reads["agent"] /\ Reads["agent"]["CONFIG"] = TPacketConfig
    BY DEF Reads, AgentReads
  <2> QED BY <2>1, <2>2, ReadAsType
<1>16. \A from, to, type : LET h == Hop(from, to, type)
                           IN  h.from = from /\ h.type = type
  BY DEF Hop
<1> QED BY <1>1, <1>2, <1>3, <1>4, <1>5, <1>6, <1>7, <1>8,
       <1>9, <1>10, <1>11, <1>12, <1>13, <1>14, <1>15, <1>16 DEF Writes

LEMMA RouteLayouts ==
  ASSUME NEW r \in Routes, NEW i \in DOMAIN r
  PROVE  /\ ReadAs(r[i]) = Writes[r[i].from][r[i].type]
         /\ ReadAs(r[i]) \in Seq(Items)
         /\ r # ConfigRoute => DOMAIN r = {1}
         /\ r = ConfigRoute => Len(r) = 4 /\ ReadAs(r[i]) = TPacketConfig
<1> DEFINE Good(h) == ReadAs(h) = Writes[h.from][h.type] /\ ReadAs(h) \in Seq(Items)
<1>1. /\ Good(Hop("agent", "server", "AUTH")) /\ Good(Hop("agent", "server", "AGENTDATA"))
      /\ Good(Hop("viewer", "server", "AUTH")) /\ Good(Hop("viewer", "server", "START"))
      /\ Good(Hop("viewer", "server", "CONFIG_REQUEST"))
      /\ Good(Hop("viewer", "server", "CHANGE_REQUEST"))
      /\ Good(Hop("viewer", "server", "STATS_REQUEST"))
      /\ Good(Hop("server", "viewer", "REPLY")) /\ Good(Hop("server", "viewer", "AGENTSDATA"))
      /\ Good(Hop("server", "viewer", "KEY_REPLY"))
      /\ Good(Hop("server", "viewer", "CONFIG_REPLY"))
      /\ Good(Hop("server", "viewer", "CONFIG_CHANGE_REPLY"))
      /\ Good(Hop("server", "viewer", "STATS_REPLY"))
      /\ Good(Hop("server", "agent", "REPLY")) /\ Good(Hop("server", "agent", "CONFIG"))
  BY HopLayouts, LayoutTypes, LayoutsAgree
<1> HIDE DEF Good
<1>2. ASSUME r = ConfigRoute
      PROVE  Len(r) = 4 /\ Good(r[i]) /\ ReadAs(r[i]) = TPacketConfig
  <2>1. r = <<Hop("viewer", "server", "CHANGE_REQUEST"),
              Hop("server", "viewer", "CONFIG_REPLY"),
              Hop("viewer", "server", "CHANGE_REQUEST"),
              Hop("server", "agent", "CONFIG")>>
    BY <1>2 DEF ConfigRoute
  <2>2. i = 1 \/ i = 2 \/ i = 3 \/ i = 4
    BY <2>1
  <2>3. /\ ReadAs(Hop("viewer", "server", "CHANGE_REQUEST")) = TPacketConfig
        /\ ReadAs(Hop("server", "viewer", "CONFIG_REPLY")) = TPacketConfig
        /\ ReadAs(Hop("server", "agent", "CONFIG")) = TPacketConfig
    BY HopLayouts, LayoutsAgree
  <2> QED BY <1>1, <2>1, <2>2, <2>3
<1>3. \A h : r = <<h>> => DOMAIN r = {1} /\ r[i] = h
  OBVIOUS
<1>4. CASE \E t \in DOMAIN Writes.agent : r = <<Hop("agent", "server", t)>>
  <2>1. DOMAIN Writes.agent = {"AUTH", "AGENTDATA"}
    BY DEF Writes
  <2>2. PICK t \in {"AUTH", "AGENTDATA"} : r = <<Hop("agent", "server", t)>>
    BY <1>4, <2>1
  <2>3. Good(Hop("agent", "server", t))
    BY <1>1
  <2>4. DOMAIN r = {1} /\ r[i] = Hop("agent", "server", t)
    BY <1>3, <2>2
  <2>5. Good(r[i])
    BY <2>3, <2>4
  <2> QED BY <1>2, <2>4, <2>5 DEF Good
<1>5. CASE \E t \in DOMAIN Writes.viewer \ {"CHANGE_REQUEST"} :
             r = <<Hop("viewer", "server", t)>>
  <2>1. DOMAIN Writes.viewer \ {"CHANGE_REQUEST"} =
          {"AUTH", "START", "CONFIG_REQUEST", "STATS_REQUEST"}
    BY DEF Writes
  <2>2. PICK t \in {"AUTH", "START", "CONFIG_REQUEST", "STATS_REQUEST"} :
          r = <<Hop("viewer", "server", t)>>
    BY <1>5, <2>1
  <2>3. Good(Hop("viewer", "server", t))
    BY <1>1
  <2>4. DOMAIN r = {1} /\ r[i] = Hop("viewer", "server", t)
    BY <1>3, <2>2
  <2>5. Good(r[i])
    BY <2>3, <2>4
  <2> QED BY <1>2, <2>4, <2>5 DEF Good
<1>6. CASE \E t \in DOMAIN Writes.server \ {"CONFIG", "CONFIG_REPLY"} :
             r = <<Hop("server", "viewer", t)>>
  <2> DEFINE T == {"REPLY", "AGENTSDATA", "KEY_REPLY", "CONFIG_CHANGE_REPLY", "STATS_REPLY"}
  <2>1. DOMAIN Writes.server \ {"CONFIG", "CONFIG_REPLY"} = T
    BY DEF Writes
  <2>2. PICK t \in T : r = <<Hop("server", "viewer", t)>>
    BY <1>6, <2>1
  <2>3. Good(Hop("server", "viewer", t))
    BY <1>1
  <2>4. DOMAIN r = {1} /\ r[i] = Hop("server", "viewer", t)
    BY <1>3, <2>2
  <2>5. Good(r[i])
    BY <2>3, <2>4
  <2> QED BY <1>2, <2>4, <2>5 DEF Good
<1>7. CASE r = <<Hop("server", "agent", "REPLY")>>
  <2>1. DOMAIN r = {1} /\ Good(r[i])
    BY <1>1, <1>3, <1>7
  <2> QED BY <1>2, <2>1 DEF Good
<1>8. r # ConfigRoute => r \in Routes \ {ConfigRoute}
  OBVIOUS
<1> QED BY <1>2, <1>4, <1>5, <1>6, <1>7 DEF Routes, Good

-----------------------------------------------------------------------------
(* What a sequence of values is a packet of.                               *)

Values == [kind : {"number", "text", "list"}, f : Fields, v : Seq(Octets)]

\* The value x is one of the field that comes next.
Matches(x, item) ==
  /\ x.kind = item.kind /\ x.f = item.f
  /\ item.kind = "number" => Len(x.v) = item.width
  /\ item.kind = "list" => \E n \in Nat : x.v = Count(n)

\* What is to come after the value x of the first field.
Rest(x, fields) ==
  (IF Head(fields).kind = "list" THEN Repeat(x.v[1].at, Head(fields).of) ELSE <<>>)
    \o Tail(fields)

\* tr tells what is to come before each value, and after the last one.
Parsed(vals, tr) ==
  /\ tr \in [1..Len(vals) + 1 -> Seq(Items)]
  /\ \A i \in 1..Len(vals) :
       /\ tr[i] # <<>> /\ Matches(vals[i], Head(tr[i]))
       /\ tr[i + 1] = Rest(vals[i], tr[i])

Parses(vals, from, to) ==
  \E tr : Parsed(vals, tr) /\ tr[1] = from /\ tr[Len(vals) + 1] = to

LEMMA ItemShape ==
  ASSUME NEW x \in Items
  PROVE  /\ x.kind \in {"number", "text", "list"} /\ x.f \in Fields
         /\ x.width \in Nat
         /\ x.kind = "number" => x.width > 0
         /\ x.kind = "list" => x.of \in Seq(Items) /\ x.of # <<>>
<1>1. CASE x \in Flat
  BY <1>1 DEF Flat
<1>2. CASE x \in Lists(Inner)
  <2>1. /\ x.kind = "list" /\ x.f \in Fields /\ x.width = 0
        /\ x.of \in Seq(Inner) /\ x.of # <<>>
    BY <1>2 DEF Lists
  <2>2. x.of \in Seq(Items)
    BY <2>1, InnerItems
  <2> QED BY <2>1, <2>2
<1> QED BY <1>1, <1>2 DEF Items

LEMMA RepeatType ==
  ASSUME NEW n \in Nat, NEW l \in Seq(Items), l # <<>>
  PROVE  Repeat(n, l) \in Seq(Items) /\ Len(Repeat(n, l)) >= n
<1> DEFINE q == [i \in 1..n |-> l]
<1>1. q \in Seq(Seq(Items)) /\ Len(q) = n /\ \A i \in 1..Len(q) : q[i] = l
  OBVIOUS
<1>2. Len(l) > 0
  OBVIOUS
<1> HIDE DEF q
<1>3. FlattenSeq(q) \in Seq(Items) /\ Len(FlattenSeq(q)) >= Len(q)
  BY <1>1, <1>2, FlattenLength
<1> QED BY <1>1, <1>3 DEF Repeat, q

LEMMA RestType ==
  ASSUME NEW x, NEW fields \in Seq(Items), fields # <<>>, Matches(x, Head(fields))
  PROVE  /\ Rest(x, fields) \in Seq(Items)
         /\ Len(Rest(x, fields)) >= Len(fields) - 1
         /\ Head(fields).kind = "list" =>
              x.v[1].at \in Nat /\ x.v = Count(x.v[1].at)
                /\ Len(Rest(x, fields)) >= x.v[1].at
         /\ Head(fields).kind # "list" => Rest(x, fields) = Tail(fields)
<1>1. /\ Head(fields) \in Items /\ Tail(fields) \in Seq(Items)
      /\ Len(Tail(fields)) = Len(fields) - 1 /\ Len(fields) \in Nat
      /\ Len(Tail(fields)) \in Nat
  BY HeadTailProperties
<1>2. CASE Head(fields).kind = "list"
  <2>1. PICK n \in Nat : x.v = Count(n)
    BY <1>2 DEF Matches
  <2>2. x.v[1].at = n
    BY <2>1 DEF Count, Byte
  <2>3. Head(fields).of \in Seq(Items) /\ Head(fields).of # <<>>
    BY <1>1, <1>2, ItemShape
  <2>4. Repeat(n, Head(fields).of) \in Seq(Items) /\ Len(Repeat(n, Head(fields).of)) >= n
    BY <2>3, RepeatType
  <2>5. PICK q \in Seq(Items) : q = Repeat(n, Head(fields).of) /\ Len(q) >= n
    BY <2>4
  <2>6. q \o Tail(fields) \in Seq(Items) /\ Len(q \o Tail(fields)) = Len(q) + Len(Tail(fields))
    BY <1>1, ConcatProperties
  <2>7. Len(q) \in Nat
    OBVIOUS
  <2>8. Rest(x, fields) = q \o Tail(fields)
    BY <1>2, <2>2, <2>5 DEF Rest
  <2>9. Len(Rest(x, fields)) >= Len(fields) - 1 /\ Len(Rest(x, fields)) >= n
    BY <1>1, <2>5, <2>6, <2>7, <2>8
  <2> QED BY <1>2, <2>1, <2>2, <2>6, <2>8, <2>9
<1>3. CASE Head(fields).kind # "list"
  <2>1. Rest(x, fields) = Tail(fields)
    BY <1>1, <1>3, ConcatEmptySeq DEF Rest
  <2> QED BY <1>1, <1>3, <2>1
<1> QED BY <1>2, <1>3

LEMMA ParsesTypes ==
  ASSUME NEW vals \in Seq(Values), NEW from, NEW to, Parses(vals, from, to)
  PROVE  from \in Seq(Items) /\ to \in Seq(Items)
<1>1. PICK tr : Parsed(vals, tr) /\ tr[1] = from /\ tr[Len(vals) + 1] = to
  BY DEF Parses
<1>2. 1 \in 1..Len(vals) + 1 /\ Len(vals) + 1 \in 1..Len(vals) + 1
  OBVIOUS
<1> QED BY <1>1, <1>2 DEF Parsed

LEMMA ParsesNone ==
  ASSUME NEW from \in Seq(Items)
  PROVE  Parses(<<>>, from, from)
<1> DEFINE tr == [i \in 1..Len(<<>>) + 1 |-> from]
<1>1. Len(<<>>) = 0 /\ 1 \in 1..Len(<<>>) + 1
  OBVIOUS
<1>2. tr \in [1..Len(<<>>) + 1 -> Seq(Items)] /\ tr[1] = from
  BY <1>1
<1>3. tr[Len(<<>>) + 1] = from
  BY <1>1, <1>2
<1> HIDE DEF tr
<1>4. Parsed(<<>>, tr)
  BY <1>1, <1>2 DEF Parsed
<1> QED BY <1>2, <1>3, <1>4 DEF Parses

LEMMA ParsesNoneOnly ==
  ASSUME NEW from, NEW to, Parses(<<>>, from, to)
  PROVE  from = to
<1>1. Len(<<>>) = 0
  OBVIOUS
<1> QED BY <1>1 DEF Parses

\* One value more at the end.
LEMMA ParsesAppend ==
  ASSUME NEW vals \in Seq(Values), NEW from, NEW to, Parses(vals, from, to),
         to # <<>>, NEW x \in Values, Matches(x, Head(to))
  PROVE  /\ Append(vals, x) \in Seq(Values)
         /\ Parses(Append(vals, x), from, Rest(x, to))
<1>1. PICK tr : Parsed(vals, tr) /\ tr[1] = from /\ tr[Len(vals) + 1] = to
  BY DEF Parses
<1>2. PICK n \in Nat : n = Len(vals)
  OBVIOUS
<1>3. PICK a \in Seq(Values) :
        /\ a = Append(vals, x) /\ Len(a) = n + 1 /\ a[n + 1] = x
        /\ \A i \in 1..n : a[i] = vals[i]
  <2>1. /\ Append(vals, x) \in Seq(Values) /\ Len(Append(vals, x)) = n + 1
        /\ Append(vals, x)[n + 1] = x /\ \A i \in 1..n : Append(vals, x)[i] = vals[i]
    BY <1>2, AppendProperties
  <2> QED BY <2>1
<1> DEFINE t == [i \in 1..n + 2 |-> IF i = n + 2 THEN Rest(x, to) ELSE tr[i]]
<1>4. to \in Seq(Items) /\ Rest(x, to) \in Seq(Items)
  BY ParsesTypes, RestType
<1>5. tr \in [1..n + 1 -> Seq(Items)]
  BY <1>1, <1>2 DEF Parsed
<1>6. t \in [1..Len(a) + 1 -> Seq(Items)] /\ t[n + 2] = Rest(x, to)
  <2>1. 1..Len(a) + 1 = 1..n + 2 /\ \A i \in 1..n + 2 : i = n + 2 \/ i \in 1..n + 1
    BY <1>3
  <2>2. n + 2 \in 1..n + 2
    OBVIOUS
  <2> QED BY <1>4, <1>5, <2>1, <2>2
<1>7. \A i \in 1..n + 1 : t[i] = tr[i]
  OBVIOUS
<1> HIDE DEF t
<1>8. ASSUME NEW i \in 1..Len(a)
      PROVE  t[i] # <<>> /\ Matches(a[i], Head(t[i])) /\ t[i + 1] = Rest(a[i], t[i])
  <2>1. i \in 1..n + 1
    BY <1>3
  <2>2. CASE i = n + 1
    <3>1. t[i] = to /\ a[i] = x /\ i + 1 = n + 2
      BY <1>1, <1>2, <1>3, <1>7, <2>1, <2>2
    <3> QED BY <1>6, <3>1
  <2>3. CASE i # n + 1
    <3>1. i \in 1..n /\ i + 1 \in 1..n + 1
      BY <2>1, <2>3
    <3>2. t[i] = tr[i] /\ t[i + 1] = tr[i + 1] /\ a[i] = vals[i]
      BY <1>3, <1>7, <2>1, <3>1
    <3> QED BY <1>1, <1>2, <3>1, <3>2 DEF Parsed
  <2> QED BY <2>2, <2>3
<1>9. Parsed(a, t)
  BY <1>6, <1>8 DEF Parsed
<1>10. t[1] = from /\ t[Len(a) + 1] = Rest(x, to)
  <2>1. 1 \in 1..n + 1 /\ Len(a) + 1 = n + 2
    BY <1>3
  <2> QED BY <1>1, <1>6, <1>7, <2>1
<1> QED BY <1>3, <1>9, <1>10 DEF Parses

\* The first value, and the others.
LEMMA ParsesFirst ==
  ASSUME NEW vals \in Seq(Values), NEW from, NEW to, Parses(vals, from, to),
         vals # <<>>
  PROVE  /\ from # <<>> /\ Matches(vals[1], Head(from))
         /\ Tail(vals) \in Seq(Values)
         /\ Parses(Tail(vals), Rest(vals[1], from), to)
<1>1. PICK tr : Parsed(vals, tr) /\ tr[1] = from /\ tr[Len(vals) + 1] = to
  BY DEF Parses
<1>2. PICK n \in Nat : n + 1 = Len(vals)
  <2>1. Len(vals) - 1 \in Nat
    OBVIOUS
  <2> QED BY <2>1
<1>3. PICK a \in Seq(Values) :
        a = Tail(vals) /\ Len(a) = n /\ \A i \in 1..n : a[i] = vals[i + 1]
  <2>1. Tail(vals) \in Seq(Values) /\ Len(Tail(vals)) = Len(vals) - 1
    BY HeadTailProperties
  <2>2. \A i \in 1..Len(Tail(vals)) : Tail(vals)[i] = vals[i + 1]
    BY HeadTailProperties
  <2>3. Len(Tail(vals)) = n
    BY <1>2, <2>1
  <2> QED BY <2>1, <2>2, <2>3
<1> DEFINE t == [i \in 1..n + 1 |-> tr[i + 1]]
<1>4. tr \in [1..n + 2 -> Seq(Items)]
  <2>1. Len(vals) + 1 = n + 2
    BY <1>2
  <2> QED BY <1>1, <2>1 DEF Parsed
<1>5. t \in [1..Len(a) + 1 -> Seq(Items)] /\ \A i \in 1..n + 1 : t[i] = tr[i + 1]
  BY <1>3, <1>4
<1> HIDE DEF t
<1>6. ASSUME NEW i \in 1..Len(a)
      PROVE  t[i] # <<>> /\ Matches(a[i], Head(t[i])) /\ t[i + 1] = Rest(a[i], t[i])
  <2>1. i \in 1..n /\ i + 1 \in 1..n + 1 /\ i \in 1..n + 1
    BY <1>3
  <2>2. t[i] = tr[i + 1] /\ t[i + 1] = tr[(i + 1) + 1] /\ a[i] = vals[i + 1]
    BY <1>3, <1>5, <2>1
  <2> QED BY <1>1, <1>2, <2>1, <2>2 DEF Parsed
<1>7. Parsed(a, t)
  BY <1>5, <1>6 DEF Parsed
<1>8. tr[1] # <<>> /\ Matches(vals[1], Head(tr[1])) /\ tr[2] = Rest(vals[1], tr[1])
  <2>1. 1 \in 1..n + 1 /\ 1 + 1 = 2
    OBVIOUS
  <2> QED BY <1>1, <1>2, <2>1 DEF Parsed
<1>9. t[1] = tr[2] /\ t[Len(a) + 1] = to
  <2>1. 1 \in 1..n + 1 /\ n + 1 \in 1..n + 1
    OBVIOUS
  <2> QED BY <1>1, <1>2, <1>3, <1>5, <2>1
<1> QED BY <1>1, <1>3, <1>7, <1>8, <1>9 DEF Parses

-----------------------------------------------------------------------------
(* What a sequence of values is as bytes.                                  *)

\* The function that FlattenSeq is defined with is the only one of its kind.
LEMMA FlattenIs ==
  ASSUME NEW S, NEW seqs \in Seq(S), Len(seqs) > 0, NEW g, g[1] = seqs[1],
         \A i \in 2..Len(seqs) : g[i] = g[i - 1] \o seqs[i]
  PROVE  FlattenSeq(seqs) = g[Len(seqs)]
<1>1. PICK f : /\ FlattenSeq(seqs) = f[Len(seqs)] /\ f[1] = seqs[1]
               /\ \A i \in 2..Len(seqs) : f[i] = f[i - 1] \o seqs[i]
  BY FlattenSteps
<1>2. PICK n \in Nat : n = Len(seqs) /\ n > 0
  OBVIOUS
<1> DEFINE T == {i \in 1..n : f[i] # g[i]}
<1>3. T = {}
  <2>1. SUFFICES ASSUME T # {} PROVE FALSE
    OBVIOUS
  <2>2. PICK i \in T : \A l \in T : i <= l
    <3>1. T \subseteq Nat
      OBVIOUS
    <3> HIDE DEF T
    <3> QED BY <2>1, <3>1, LeastNat
  <2>3. i \in 1..n /\ f[i] # g[i] /\ i # 1
    BY <1>1
  <2>4. i \in 2..n /\ i - 1 \in 1..n /\ ~(i <= i - 1)
    BY <2>3
  <2>5. f[i - 1] = g[i - 1]
    BY <2>2, <2>4
  <2>6. f[i] = f[i - 1] \o seqs[i] /\ g[i] = g[i - 1] \o seqs[i]
    BY <1>1, <1>2, <2>4
  <2> QED BY <2>3, <2>5, <2>6
<1>4. n \in 1..n
  BY <1>2
<1> QED BY <1>1, <1>2, <1>3, <1>4

LEMMA FlattenNone == FlattenSeq(<<>>) = <<>>
BY DEF FlattenSeq

\* A flattened list of m sequences, one step after the other.
FlattenedIn(seqs, m) ==
  \E f : /\ FlattenSeq(seqs) = f[m] /\ f[1] = seqs[1]
         /\ \A i \in 2..m : f[i] = f[i - 1] \o seqs[i]

LEMMA FlattenAppend ==
  ASSUME NEW S, NEW seqs \in Seq(Seq(S)), NEW x \in Seq(S)
  PROVE  FlattenSeq(Append(seqs, x)) = FlattenSeq(seqs) \o x
<1>1. PICK n \in Nat, a \in Seq(Seq(S)) :
        /\ n = Len(seqs) /\ a = Append(seqs, x) /\ Len(a) = n + 1 /\ a[n + 1] = x
        /\ \A i \in 1..n : a[i] = seqs[i]
  <2>1. /\ Append(seqs, x) \in Seq(Seq(S)) /\ Len(Append(seqs, x)) = Len(seqs) + 1
        /\ Append(seqs, x)[Len(seqs) + 1] = x /\ Len(seqs) \in Nat
        /\ \A i \in 1..Len(seqs) : Append(seqs, x)[i] = seqs[i]
    BY AppendProperties
  <2> QED BY <2>1
<1>2. PICK f : /\ FlattenSeq(a) = f[n + 1] /\ f[1] = a[1]
               /\ \A i \in 2..n + 1 : f[i] = f[i - 1] \o a[i]
  <2>1. Len(a) = n + 1 /\ Len(a) > 0
    BY <1>1
  <2>2. FlattenedIn(a, Len(a))
    BY <2>1, FlattenSteps DEF FlattenedIn
  <2>3. FlattenedIn(a, n + 1)
    BY <2>1, <2>2, Zenon
  <2> QED BY <2>3 DEF FlattenedIn
<1>3. CASE n = 0
  <2>1. seqs = <<>> /\ FlattenSeq(seqs) = <<>>
    BY <1>1, <1>3, FlattenNone
  <2>2. FlattenSeq(a) = x
    BY <1>1, <1>2, <1>3
  <2> QED BY <1>1, <2>1, <2>2, ConcatEmptySeq
<1>4. CASE n > 0
  <2>1. /\ 1 \in 1..n /\ n + 1 \in 2..n + 1 /\ (n + 1) - 1 = n
        /\ \A i \in 2..n : i \in 2..n + 1 /\ i \in 1..n
    BY <1>4
  <2>2. f[1] = seqs[1] /\ \A i \in 2..n : f[i] = f[i - 1] \o seqs[i]
    BY <1>1, <1>2, <2>1
  <2>3. FlattenSeq(seqs) = f[n]
    BY <1>1, <1>4, <2>2, FlattenIs
  <2> QED BY <1>1, <1>2, <2>1, <2>3
<1> QED BY <1>3, <1>4

\* What w behind f is, is x before g.
Surrounds(x, y, w, f, g) == f \o w = x \o g

LEMMA ThreeParts ==
  ASSUME NEW S, NEW x \in Seq(S), NEW y \in Seq(S), NEW w \in Seq(S),
         NEW f, f = x \o y, NEW g, g = y \o w
  PROVE  Surrounds(x, y, w, f, g)
BY ConcatAssociative DEF Surrounds

LEMMA FlattenFirst ==
  ASSUME NEW S, NEW seqs \in Seq(Seq(S)), seqs # <<>>
  PROVE  FlattenSeq(seqs) = seqs[1] \o FlattenSeq(Tail(seqs))
<1>1. PICK n \in Nat, t \in Seq(Seq(S)) :
        /\ Len(seqs) = n + 1 /\ t = Tail(seqs) /\ Len(t) = n
        /\ \A i \in 1..n : t[i] = seqs[i + 1]
  <2>1. /\ Tail(seqs) \in Seq(Seq(S)) /\ Len(seqs) - 1 \in Nat
        /\ Len(Tail(seqs)) = Len(seqs) - 1
    BY HeadTailProperties
  <2>2. \A i \in 1..Len(Tail(seqs)) : Tail(seqs)[i] = seqs[i + 1]
    BY HeadTailProperties
  <2>3. Len(seqs) = (Len(seqs) - 1) + 1
    OBVIOUS
  <2> QED BY <2>1, <2>2, <2>3
<1>2. PICK f : /\ FlattenSeq(seqs) = f[n + 1] /\ f[1] = seqs[1]
               /\ \A i \in 2..n + 1 : f[i] = f[i - 1] \o seqs[i]
  <2>1. Len(seqs) = n + 1 /\ Len(seqs) > 0
    BY <1>1
  <2>2. FlattenedIn(seqs, Len(seqs))
    BY <2>1, FlattenSteps DEF FlattenedIn
  <2>3. FlattenedIn(seqs, n + 1)
    BY <2>1, <2>2, Zenon
  <2> QED BY <2>3 DEF FlattenedIn
<1>3. PICK x \in Seq(S) : x = seqs[1]
  BY <1>1
<1>4. CASE n = 0
  <2>1. t = <<>> /\ FlattenSeq(t) = <<>>
    <3>1. t \in Seq(Seq(S)) /\ Len(t) = 0
      BY <1>1, <1>4
    <3>2. t = <<>>
      BY <3>1, EmptySeq
    <3> QED BY <3>2, FlattenNone
  <2>2. FlattenSeq(seqs) = x
    BY <1>2, <1>3, <1>4
  <2> QED BY <1>1, <1>3, <2>1, <2>2, ConcatEmptySeq
<1>5. CASE n > 0
  <2>1. PICK g : /\ FlattenSeq(t) = g[n] /\ g[1] = t[1]
                 /\ \A i \in 2..n : g[i] = g[i - 1] \o t[i]
    <3>1. Len(t) = n /\ Len(t) > 0
      BY <1>1, <1>5
    <3>2. FlattenedIn(t, Len(t))
      BY <3>1, FlattenSteps DEF FlattenedIn
    <3>3. FlattenedIn(t, n)
      BY <3>1, <3>2, Zenon
    <3> QED BY <3>3 DEF FlattenedIn
  <2> DEFINE Good(i) == g[i] \in Seq(S) /\ f[i + 1] = x \o g[i]
             T == {i \in 1..n : ~Good(i)}
  <2>2. T = {}
    <3>1. SUFFICES ASSUME T # {} PROVE FALSE
      OBVIOUS
    <3>2. PICK i \in T : \A l \in T : i <= l
      <4>1. T \subseteq Nat
        OBVIOUS
      <4> HIDE DEF T
      <4> QED BY <3>1, <4>1, LeastNat
    <3>3. i \in 1..n /\ i \in Nat /\ ~Good(i)
      OBVIOUS
    <3>4. t[i] \in Seq(S) /\ t[i] = seqs[i + 1]
      BY <1>1, <3>3
    <3>5. i + 1 \in 2..n + 1 /\ (i + 1) - 1 = i
      BY <3>3
    <3>6. f[i + 1] = f[i] \o t[i]
      BY <1>2, <3>4, <3>5
    <3>7. CASE i = 1
      BY <1>2, <1>3, <2>1, <3>3, <3>4, <3>6, <3>7
    <3>8. CASE i # 1
      <4>1. i \in 2..n /\ i - 1 \in 1..n /\ ~(i <= i - 1) /\ (i - 1) + 1 = i
        BY <3>3, <3>8
      <4>2. Good(i - 1)
        BY <3>2, <4>1
      <4>3. g[i] = g[i - 1] \o t[i] /\ f[i] = x \o g[i - 1] /\ g[i - 1] \in Seq(S)
        BY <2>1, <4>1, <4>2
      <4>4. g[i - 1] \o t[i] \in Seq(S)
        BY <3>4, <4>3, ConcatProperties
      <4>5. f[i + 1] = x \o g[i]
        <5>1. Surrounds(x, g[i - 1], t[i], f[i], g[i])
          BY <3>4, <4>3, ThreeParts
        <5> QED BY <3>6, <5>1 DEF Surrounds
      <4> QED BY <3>3, <3>6, <4>3, <4>4, <4>5
    <3> QED BY <3>7, <3>8
  <2>3. n \in 1..n
    BY <1>5
  <2>4. Good(n)
    BY <2>2, <2>3
  <2> QED BY <1>1, <1>2, <1>3, <2>1, <2>4
<1> QED BY <1>4, <1>5

\* A value as it is appended.
Bytes(x) ==
  CASE x.kind = "number" -> x.v
    [] x.kind = "text" -> Length(Len(GetBytes(x.v))) \o GetBytes(x.v)
    [] x.kind = "list" -> Length(x.v[1].at)

Coded(vals) == FlattenSeq([i \in DOMAIN vals |-> Bytes(vals[i])])

LEMMA LengthType ==
  ASSUME NEW n \in Nat
  PROVE  Length(n) \in Seq(Octets) /\ Len(Length(n)) = 2 /\ Length(n)[1].at = n % LenMod
<1>1. n % LenMod \in Nat
  BY LenModPositive
<1>2. Byte("lengthLow", n % LenMod) \in Octets /\ Byte("lengthHigh", n % LenMod) \in Octets
  BY <1>1, ByteType DEF Marks
<1>3. Byte("lengthLow", n % LenMod).at = n % LenMod
  BY DEF Byte
<1> HIDE DEF Octets
<1> QED BY <1>2, <1>3 DEF Length

LEMMA Utf8Type ==
  ASSUME NEW c \in Octets
  PROVE  Utf8(c) \in Seq(Octets)
<1>1. Byte("high", 0) \in Octets
  BY ByteType DEF Marks
<1>2. /\ <<Byte("high", 0), Byte("high", 0)>> \in Seq(Octets) /\ <<c>> \in Seq(Octets)
      /\ [i \in 1..3 |-> Byte("high", 0)] \in Seq(Octets)
  BY <1>1
<1> QED BY <1>2 DEF Utf8

LEMMA GetBytesType ==
  ASSUME NEW v \in Seq(Octets)
  PROVE  GetBytes(v) \in Seq(Octets)
<1> DEFINE q == [i \in DOMAIN v |-> Utf8(v[i])]
<1>1. DOMAIN v = 1..Len(v) /\ Len(v) \in Nat
  OBVIOUS
<1>2. \A i \in 1..Len(v) : Utf8(v[i]) \in Seq(Octets)
  BY Utf8Type
<1>3. q \in Seq(Seq(Octets))
  BY <1>1, <1>2
<1> HIDE DEF q
<1>4. FlattenSeq(q) \in Seq(Octets)
  BY <1>3, FlattenType
<1> QED BY <1>4 DEF GetBytes, q

LEMMA FromBytesType ==
  ASSUME NEW v \in Seq(Octets)
  PROVE  FromBytes(v) \in Seq(Octets)
<1>1. Byte("wide", 0) \in Octets
  BY ByteType DEF Marks
<1>2. \A i \in 1..Len(v) :
        (IF v[i] = Byte("high", 0) THEN Byte("wide", 0) ELSE v[i]) \in Octets
  BY <1>1
<1> HIDE DEF Octets
<1> QED BY <1>2 DEF FromBytes, ReplaceAll

LEMMA BytesType ==
  ASSUME NEW x \in Values, NEW item \in Items, Matches(x, item)
  PROVE  /\ Bytes(x) \in Seq(Octets) /\ Len(Bytes(x)) > 0
         /\ x.kind = "number" => Bytes(x) = x.v /\ Len(Bytes(x)) = item.width
         /\ x.kind = "text" => /\ Bytes(x) = Length(Len(GetBytes(x.v))) \o GetBytes(x.v)
                               /\ Len(Bytes(x)) = 2 + Len(GetBytes(x.v))
         /\ x.kind = "list" => Bytes(x) = Length(x.v[1].at) /\ Len(Bytes(x)) = 2
<1>1. x.kind \in {"number", "text", "list"} /\ x.v \in Seq(Octets) /\ x.kind = item.kind
  BY DEF Values, Matches
<1>2. CASE x.kind = "number"
  <2>1. Bytes(x) = x.v
    BY <1>2 DEF Bytes
  <2>2. item.width > 0
    BY <1>1, <1>2, ItemShape
  <2>3. Len(x.v) = item.width
    BY <1>1, <1>2 DEF Matches
  <2> QED BY <1>1, <1>2, <2>1, <2>2, <2>3
<1>3. CASE x.kind = "text"
  <2>1. Bytes(x) = Length(Len(GetBytes(x.v))) \o GetBytes(x.v)
    BY <1>3 DEF Bytes
  <2>2. PICK b \in Seq(Octets), l \in Seq(Octets) :
          b = GetBytes(x.v) /\ l = Length(Len(b)) /\ Len(l) = 2
    <3>1. GetBytes(x.v) \in Seq(Octets)
      BY <1>1, GetBytesType
    <3>2. Len(GetBytes(x.v)) \in Nat
      BY <3>1
    <3> QED BY <3>1, <3>2, LengthType
  <2>3. l \o b \in Seq(Octets) /\ Len(l \o b) = Len(l) + Len(b)
    BY ConcatProperties
  <2>4. Len(b) \in Nat
    OBVIOUS
  <2>5. Len(l \o b) = 2 + Len(b) /\ Len(l \o b) > 0
    BY <2>2, <2>3, <2>4
  <2> QED BY <1>3, <2>1, <2>2, <2>3, <2>5
<1>4. CASE x.kind = "list"
  <2>1. PICK n \in Nat : x.v = Count(n)
    BY <1>1, <1>4 DEF Matches
  <2>2. x.v[1].at = n
    BY <2>1 DEF Count, Byte
  <2>3. Bytes(x) = Length(n)
    BY <1>4, <2>2 DEF Bytes
  <2>4. Length(n) \in Seq(Octets) /\ Len(Length(n)) = 2
    BY LengthType
  <2> QED BY <1>4, <2>2, <2>3, <2>4
<1> QED BY <1>1, <1>2, <1>3, <1>4

Codable(vals) ==
  \A i \in 1..Len(vals) : Bytes(vals[i]) \in Seq(Octets) /\ Len(Bytes(vals[i])) > 0

LEMMA ParsesCodable ==
  ASSUME NEW vals \in Seq(Values), NEW from, NEW to, Parses(vals, from, to)
  PROVE  Codable(vals)
<1>1. PICK tr : Parsed(vals, tr)
  BY DEF Parses
<1>2. SUFFICES ASSUME NEW i \in 1..Len(vals)
               PROVE  Bytes(vals[i]) \in Seq(Octets) /\ Len(Bytes(vals[i])) > 0
  BY DEF Codable
<1>3. tr[i] \in Seq(Items) /\ tr[i] # <<>> /\ Matches(vals[i], Head(tr[i]))
  <2>1. i \in 1..Len(vals) + 1
    OBVIOUS
  <2> QED BY <1>1, <2>1 DEF Parsed
<1>4. Head(tr[i]) \in Items /\ vals[i] \in Values
  BY <1>3
<1> QED BY <1>3, <1>4, BytesType

LEMMA CodedType ==
  ASSUME NEW vals \in Seq(Values), Codable(vals)
  PROVE  /\ Coded(vals) \in Seq(Octets)
         /\ [i \in DOMAIN vals |-> Bytes(vals[i])] \in Seq(Seq(Octets))
         /\ Len([i \in DOMAIN vals |-> Bytes(vals[i])]) = Len(vals)
<1> DEFINE q == [i \in DOMAIN vals |-> Bytes(vals[i])]
<1>1. DOMAIN vals = 1..Len(vals) /\ Len(vals) \in Nat
  OBVIOUS
<1>2. q \in Seq(Seq(Octets)) /\ Len(q) = Len(vals)
  BY <1>1 DEF Codable
<1> HIDE DEF q
<1>3. FlattenSeq(q) \in Seq(Octets)
  BY <1>2, FlattenType
<1> QED BY <1>2, <1>3 DEF Coded, q

LEMMA CodedNone == Coded(<<>>) = <<>>
<1> DEFINE q == [i \in DOMAIN <<>> |-> Bytes(<<>>[i])]
<1>1. q = <<>>
  OBVIOUS
<1> HIDE DEF q
<1>2. FlattenSeq(q) = <<>>
  BY <1>1, FlattenNone
<1> QED BY <1>2 DEF Coded, q

LEMMA CodedFirst ==
  ASSUME NEW vals \in Seq(Values), Codable(vals), vals # <<>>
  PROVE  /\ Codable(Tail(vals)) /\ Bytes(vals[1]) \in Seq(Octets)
         /\ Coded(vals) \in Seq(Octets) /\ Coded(Tail(vals)) \in Seq(Octets)
         /\ Coded(vals) = Bytes(vals[1]) \o Coded(Tail(vals))
<1> DEFINE q == [i \in DOMAIN vals |-> Bytes(vals[i])]
           p == [i \in DOMAIN Tail(vals) |-> Bytes(Tail(vals)[i])]
<1>1. PICK n \in Nat, a \in Seq(Values) :
        /\ Len(vals) = n + 1 /\ a = Tail(vals) /\ Len(a) = n
        /\ \A i \in 1..n : a[i] = vals[i + 1]
  <2>1. /\ Tail(vals) \in Seq(Values) /\ Len(vals) - 1 \in Nat
        /\ Len(Tail(vals)) = Len(vals) - 1
    BY HeadTailProperties
  <2>2. \A i \in 1..Len(Tail(vals)) : Tail(vals)[i] = vals[i + 1]
    BY HeadTailProperties
  <2>3. Len(vals) = (Len(vals) - 1) + 1
    OBVIOUS
  <2> QED BY <2>1, <2>2, <2>3
<1>2. Codable(a)
  <2>1. \A i \in 1..n : i + 1 \in 1..n + 1
    OBVIOUS
  <2> QED BY <1>1, <2>1 DEF Codable
<1>3. /\ q \in Seq(Seq(Octets)) /\ Len(q) = n + 1 /\ Coded(vals) \in Seq(Octets)
      /\ p \in Seq(Seq(Octets)) /\ Len(p) = n /\ Coded(a) \in Seq(Octets)
  BY <1>1, <1>2, CodedType
<1>4. /\ q[1] = Bytes(vals[1])
      /\ \A i \in 1..n : p[i] = Bytes(a[i]) /\ q[i + 1] = Bytes(vals[i + 1])
  <2>1. DOMAIN vals = 1..n + 1 /\ DOMAIN Tail(vals) = 1..n
    BY <1>1
  <2>2. 1 \in 1..n + 1 /\ \A i \in 1..n : i + 1 \in 1..n + 1
    OBVIOUS
  <2> QED BY <1>1, <2>1, <2>2
<1>5. Coded(vals) = FlattenSeq(q) /\ Coded(a) = FlattenSeq(p)
  BY <1>1 DEF Coded
<1> HIDE DEF q, p
<1>6. q # <<>>
  BY <1>3
<1>7. Tail(q) = p
  <2>1. PICK t \in Seq(Seq(Octets)) :
          t = Tail(q) /\ Len(t) = n /\ \A i \in 1..n : t[i] = q[i + 1]
    <3>1. Tail(q) \in Seq(Seq(Octets)) /\ Len(Tail(q)) = Len(q) - 1
      BY <1>3, <1>6, HeadTailProperties
    <3>2. \A i \in 1..Len(Tail(q)) : Tail(q)[i] = q[i + 1]
      BY <1>3, <1>6, HeadTailProperties
    <3>3. Len(Tail(q)) = n
      BY <1>3, <3>1
    <3> QED BY <3>1, <3>2, <3>3
  <2>2. Len(t) = Len(p) /\ \A i \in 1..Len(t) : t[i] = p[i]
    BY <1>1, <1>3, <1>4, <2>1
  <2>3. t = p
    BY <1>3, <2>2, SeqEqual
  <2> QED BY <2>1, <2>3
<1>8. FlattenSeq(q) = q[1] \o FlattenSeq(Tail(q))
  BY <1>3, <1>6, FlattenFirst
<1>9. Bytes(vals[1]) \in Seq(Octets)
  <2>1. 1 \in 1..Len(vals)
    BY <1>1
  <2> QED BY <2>1 DEF Codable
<1> QED BY <1>1, <1>2, <1>3, <1>4, <1>5, <1>7, <1>8, <1>9

LEMMA CodedAppend ==
  ASSUME NEW vals \in Seq(Values), Codable(vals), NEW x \in Values,
         Bytes(x) \in Seq(Octets)
  PROVE  Coded(Append(vals, x)) = Coded(vals) \o Bytes(x)
<1> DEFINE q == [i \in DOMAIN vals |-> Bytes(vals[i])]
           p == [i \in DOMAIN Append(vals, x) |-> Bytes(Append(vals, x)[i])]
<1>1. PICK n \in Nat, a \in Seq(Values) :
        /\ Len(vals) = n /\ a = Append(vals, x) /\ Len(a) = n + 1 /\ a[n + 1] = x
        /\ \A i \in 1..n : a[i] = vals[i]
  <2>1. /\ Append(vals, x) \in Seq(Values) /\ Len(Append(vals, x)) = Len(vals) + 1
        /\ Append(vals, x)[Len(vals) + 1] = x /\ Len(vals) \in Nat
        /\ \A i \in 1..Len(vals) : Append(vals, x)[i] = vals[i]
    BY AppendProperties
  <2> QED BY <2>1
<1>2. q \in Seq(Seq(Octets)) /\ Len(q) = n
  BY <1>1, CodedType
<1>3. \A i \in 1..n : q[i] = Bytes(vals[i])
  BY <1>1
<1>4. DOMAIN Append(vals, x) = 1..n + 1
  BY <1>1
<1>5. \A i \in 1..n + 1 : p[i] = Bytes(a[i])
  BY <1>1, <1>4
<1>6. DOMAIN p = 1..n + 1
  BY <1>4
<1>7. Coded(a) = FlattenSeq(p) /\ Coded(vals) = FlattenSeq(q)
  BY <1>1 DEF Coded
<1>8. p = [i \in 1..n + 1 |-> p[i]]
  BY <1>4
<1> HIDE DEF q, p
<1>9. PICK b \in Seq(Seq(Octets)) :
        /\ b = Append(q, Bytes(x)) /\ Len(b) = n + 1 /\ b[n + 1] = Bytes(x)
        /\ \A i \in 1..n : b[i] = q[i]
  <2>1. /\ Append(q, Bytes(x)) \in Seq(Seq(Octets)) /\ Len(Append(q, Bytes(x))) = Len(q) + 1
        /\ Append(q, Bytes(x))[Len(q) + 1] = Bytes(x)
        /\ \A i \in 1..Len(q) : Append(q, Bytes(x))[i] = q[i]
    BY <1>2, AppendProperties
  <2> QED BY <1>2, <2>1
<1>10. \A i \in 1..n + 1 : p[i] = b[i]
  <2>1. \A i \in 1..n + 1 : i \in 1..n \/ i = n + 1
    OBVIOUS
  <2> QED BY <1>1, <1>3, <1>5, <1>9, <2>1
<1>11. b = p
  <2>1. b \in [1..n + 1 -> Seq(Octets)]
    BY <1>9, LenProperties
  <2> QED BY <1>8, <1>10, <2>1
<1>12. FlattenSeq(b) = FlattenSeq(q) \o Bytes(x)
  BY <1>2, <1>9, FlattenAppend
<1> QED BY <1>1, <1>7, <1>11, <1>12

\* What is still to be read takes a byte a field, or more.
LEMMA CodedLength ==
  ASSUME NEW vals \in Seq(Values), NEW from, Parses(vals, from, <<>>)
  PROVE  Len(Coded(vals)) >= Len(from)
<1> DEFINE Bad(m, a, l) == Len(a) = m /\ Parses(a, l, <<>>) /\ ~(Len(Coded(a)) >= Len(l))
           T == {m \in Nat : \E a \in Seq(Values), l \in Seq(Items) : Bad(m, a, l)}
<1>1. T = {}
  <2>1. SUFFICES ASSUME T # {} PROVE FALSE
    OBVIOUS
  <2>2. PICK m \in T : \A k \in T : m <= k
    <3>1. T \subseteq Nat
      OBVIOUS
    <3> HIDE DEF T
    <3> QED BY <2>1, <3>1, LeastNat
  <2>3. PICK a \in Seq(Values), l \in Seq(Items) : Bad(m, a, l)
    OBVIOUS
  <2>4. m \in Nat
    OBVIOUS
  <2> HIDE DEF T
  <2>5. CASE a = <<>>
    <3>1. l = <<>>
      BY <2>3, <2>5, ParsesNoneOnly
    <3>2. Coded(a) = <<>>
      BY <2>5, CodedNone
    <3>3. Len(<<>>) = 0
      OBVIOUS
    <3> QED BY <2>3, <3>1, <3>2, <3>3
  <2>6. CASE a # <<>>
    <3> DEFINE r == Rest(a[1], l)
               t == Tail(a)
    <3>1. /\ l # <<>> /\ Matches(a[1], Head(l)) /\ t \in Seq(Values)
          /\ Parses(t, r, <<>>)
      BY <2>3, <2>6, ParsesFirst
    <3>2. r \in Seq(Items) /\ Len(r) >= Len(l) - 1
      BY <3>1, RestType
    <3>3. Len(t) = m - 1 /\ m - 1 \in Nat
      BY <2>3, <2>6, HeadTailProperties
    <3>4. Codable(a)
      BY <2>3, ParsesCodable
    <3>5. /\ Bytes(a[1]) \in Seq(Octets) /\ Coded(t) \in Seq(Octets)
          /\ Coded(a) = Bytes(a[1]) \o Coded(t)
      BY <2>6, <3>4, CodedFirst
    <3>6. Len(Bytes(a[1])) > 0
      <4>1. 1 \in 1..Len(a)
        BY <2>6
      <4> QED BY <3>4, <4>1 DEF Codable
    <3> HIDE DEF r, t
    <3>7. Len(Coded(t)) >= Len(r)
      <4>1. m - 1 \notin T
        <5>1. ~(m <= m - 1)
          BY <2>4
        <5> QED BY <2>2, <5>1
      <4>2. ~Bad(m - 1, t, r)
        BY <3>1, <3>2, <3>3, <4>1 DEF T
      <4> QED BY <3>1, <3>3, <4>2
    <3>8. Len(Coded(a)) = Len(Bytes(a[1])) + Len(Coded(t))
      BY <3>5, ConcatProperties
    <3>9. /\ Len(Bytes(a[1])) \in Nat /\ Len(Coded(t)) \in Nat /\ Len(r) \in Nat
          /\ Len(l) \in Nat
      BY <3>2, <3>5
    <3>10. Len(Coded(a)) >= Len(l)
      BY <3>2, <3>6, <3>7, <3>8, <3>9
    <3> QED BY <2>3, <3>10
  <2> QED BY <2>5, <2>6
<1>2. from \in Seq(Items) /\ Len(vals) \in Nat
  BY ParsesTypes
<1>3. ~Bad(Len(vals), vals, from)
  BY <1>1, <1>2
<1> QED BY <1>3

-----------------------------------------------------------------------------
(* The inductive invariant.  With "strict" it also says what becomes of a  *)
(* configuration while every packet is one that its header can count.      *)

\* Characters of the texts that the first writer puts in.
Plain == {Byte(c, 0) : c \in {"x", ":", ",", " ", "e"}}

\* No character of v is of the mark m.
FreeOf(m, v) == \A i \in 1..Len(v) : v[i].is # m

AllFreeOf(m, vals) == \A i \in 1..Len(vals) : vals[i].kind = "text" => FreeOf(m, vals[i].v)

\* What the reader has of the value x.
Told(java, x) ==
  IF x.kind = "text"
  THEN Value("text", x.f, IF java THEN FromBytes(GetBytes(x.v)) ELSE GetBytes(x.v))
  ELSE x

\* Spaces and colons of a configuration that has been in the table.
Kept(vals) ==
  /\ NoneHas(" ") => AllFreeOf(" ", vals)
  /\ hop = 4 => \A i \in 1..Len(vals) : vals[i].f = "service" => FreeOf(":", vals[i].v)

Carried(vals) == (NoneHas("e") => vals = Stored(meant)) /\ Kept(vals)

Typed ==
  /\ route \in Routes /\ hop \in DOMAIN route
  /\ phase \in {"write", "read", "dropped", "partial", "indeterminate", "done", "restarted"}
  /\ todo \in Seq(Items) /\ meant \in Seq(Values) /\ have \in Seq(Values)
  /\ got \in Seq(Values) /\ body \in Seq(Octets)
  /\ length \in Nat /\ Len(body) <= length

Meant ==
  /\ \A i \in 1..Len(meant) : meant[i].kind = "text" => meant[i].v \in Seq(Plain)
  /\ phase # "write" \/ hop > 1 => Parses(meant, ReadAs(Now), <<>>)

\* "written" is what the writer has put into the packet.
Written(strict, written) ==
  /\ Parses(written, ReadAs(Now), todo)
  /\ body = Coded(written) /\ length = Len(body)
  /\ hop = 1 => written = meant
  /\ hop > 1 => Parses(have, todo, <<>>) /\ (strict => Carried(written \o have))

\* What of it the reader has not fetched.
Unread(written) == SubSeq(written, Len(got) + 1, Len(written))

\* The reader has fetched some of what was "written".
Fetched(strict, written) ==
  /\ Len(got) <= Len(written)
  /\ \A i \in 1..Len(got) : got[i] = Told(Java(Now.to), written[i])
  /\ Parses(Unread(written), todo, <<>>)
  /\ body = Coded(Unread(written))
  /\ hop = 1 => written = meant
  /\ hop > 1 /\ strict => Carried(written)

Inv(strict) ==
  /\ Typed /\ Meant /\ FailsOnlyIfTooLong
  /\ phase = "write" => \E written \in Seq(Values) : Written(strict, written)
  /\ phase = "read" =>
       /\ Parses(got, ReadAs(Now), todo)
       /\ Java(Now.to) => 2 * (length % LenMod) < LenMod
       /\ length < LenMod => \E written \in Seq(Values) : Fetched(strict, written)
  /\ phase = "done" =>
       /\ hop = Len(route) /\ Parses(got, ReadAs(Now), <<>>)
       /\ hop = 4 /\ strict => Kept(got)
  /\ strict => RestartKeepsConfig

\* The second part of a sequence, and the first.
LEMMA Split ==
  ASSUME NEW S, NEW b \in Seq(S), NEW c \in Seq(S)
  PROVE  /\ SubSeq(b \o c, 1, Len(b)) = b
         /\ SubSeq(b \o c, Len(b) + 1, Len(b \o c)) = c
         /\ Len(b \o c) = Len(b) + Len(c)
<1>1. PICK m \in Nat, n \in Nat, s \in Seq(S) :
        /\ m = Len(b) /\ n = Len(c) /\ s = b \o c /\ Len(s) = m + n
        /\ \A i \in 1..m + n : s[i] = IF i <= m THEN b[i] ELSE c[i - m]
  <2>1. /\ b \o c \in Seq(S) /\ Len(b \o c) = Len(b) + Len(c)
        /\ \A i \in 1..Len(b) + Len(c) : (b \o c)[i] =
             IF i <= Len(b) THEN b[i] ELSE c[i - Len(b)]
    BY ConcatProperties
  <2>2. Len(b) \in Nat /\ Len(c) \in Nat
    OBVIOUS
  <2> QED BY <2>1, <2>2
<1>2. PICK p \in Seq(S) :
        p = SubSeq(s, 1, m) /\ Len(p) = m /\ \A i \in 1..m : p[i] = s[i]
  <2>1. \A i \in 1..m : s[i] \in S
    BY <1>1
  <2>2. /\ SubSeq(s, 1, m) \in Seq(S)
        /\ Len(SubSeq(s, 1, m)) = IF 1 <= m THEN m - 1 + 1 ELSE 0
        /\ \A i \in 1..m - 1 + 1 : SubSeq(s, 1, m)[i] = s[1 + i - 1]
    BY <2>1, SubSeqProperties
  <2>3. Len(SubSeq(s, 1, m)) = m /\ \A i \in 1..m : i \in 1..m - 1 + 1 /\ 1 + i - 1 = i
    BY <2>2
  <2> QED BY <2>2, <2>3
<1>3. PICK q \in Seq(S) :
        q = SubSeq(s, m + 1, m + n) /\ Len(q) = n /\ \A i \in 1..n : q[i] = s[m + i]
  <2>1. \A i \in m + 1..m + n : s[i] \in S
    BY <1>1
  <2>2. /\ SubSeq(s, m + 1, m + n) \in Seq(S)
        /\ Len(SubSeq(s, m + 1, m + n)) =
             IF m + 1 <= m + n THEN (m + n) - (m + 1) + 1 ELSE 0
        /\ \A i \in 1..(m + n) - (m + 1) + 1 : SubSeq(s, m + 1, m + n)[i] = s[(m + 1) + i - 1]
    BY <2>1, SubSeqProperties
  <2>3. /\ Len(SubSeq(s, m + 1, m + n)) = n
        /\ \A i \in 1..n : i \in 1..(m + n) - (m + 1) + 1 /\ (m + 1) + i - 1 = m + i
    BY <2>2
  <2> QED BY <2>2, <2>3
<1>4. p = b
  <2>1. \A i \in 1..m : i \in 1..m + n /\ i <= m
    OBVIOUS
  <2>2. Len(p) = Len(b) /\ \A i \in 1..Len(p) : p[i] = b[i]
    BY <1>1, <1>2, <2>1
  <2> QED BY <2>2, SeqEqual
<1>5. q = c
  <2>1. \A i \in 1..n : m + i \in 1..m + n /\ ~(m + i <= m) /\ (m + i) - m = i
    OBVIOUS
  <2>2. Len(q) = Len(c) /\ \A i \in 1..Len(q) : q[i] = c[i]
    BY <1>1, <1>3, <2>1
  <2> QED BY <2>2, SeqEqual
<1> QED BY <1>1, <1>2, <1>3, <1>4, <1>5

\* A length at the front of the body is found.
LEMMA AnnouncedIs ==
  ASSUME NEW n \in 0..LenMod - 1, NEW c \in Seq(Octets), body = Length(n) \o c
  PROVE  Announced = n /\ Len(body) = 2 + Len(c)
<1>1. LenMod \in Nat /\ n \in Nat /\ n % LenMod = n
  <2>1. LenMod \in Nat /\ LenMod > 0
    BY LenModPositive
  <2> QED BY <2>1
<1>2. PICK b \in Seq(Octets) : b = Length(n) /\ Len(b) = 2 /\ b[1].at = n
  <2>1. Length(n) \in Seq(Octets) /\ Len(Length(n)) = 2 /\ Length(n)[1].at = n % LenMod
    BY <1>1, LengthType
  <2> QED BY <1>1, <2>1
<1>3. SubSeq(body, 1, 2) = b /\ Len(body) = 2 + Len(c)
  <2>1. body = b \o c
    BY <1>2
  <2>2. SubSeq(b \o c, 1, Len(b)) = b /\ Len(b \o c) = Len(b) + Len(c)
    BY Split
  <2> QED BY <1>2, <2>1, <2>2
<1>4. body[1] = b[1]
  <2>1. 1 \in 1..Len(b) + Len(c) /\ 1 <= Len(b)
    BY <1>2
  <2> QED BY <1>2, <2>1, ConcatProperties
<1>5. Len(body) >= 2
  <2>1. Len(c) \in Nat
    OBVIOUS
  <2> QED BY <1>3, <2>1
<1> QED BY <1>2, <1>3, <1>4, <1>5 DEF Announced

-----------------------------------------------------------------------------
(* Appending.                                                              *)

\* The value x of the next field is appended.
Appended(x) ==
  /\ phase = "write" /\ todo # <<>>
  /\ x \in Values /\ Matches(x, Head(todo))
  /\ x.kind = "text" /\ hop = 1 => x.v \in Seq(Plain)
  /\ todo' = Rest(x, todo)
  /\ length' = length + Len(Bytes(x)) /\ body' = body \o Bytes(x)
  /\ IF hop = 1
     THEN meant' = Append(meant, x) /\ UNCHANGED have
     ELSE have # <<>> /\ x = have[1] /\ have' = Tail(have) /\ UNCHANGED meant
  /\ UNCHANGED <<route, hop, phase, got>>

LEMMA MoveFirst ==
  ASSUME NEW S, NEW a \in Seq(S), NEW b \in Seq(S), b # <<>>
  PROVE  Append(a, b[1]) \o Tail(b) = a \o b
<1>1. b[1] \in S /\ Tail(b) \in Seq(S) /\ <<b[1]>> \in Seq(S)
  OBVIOUS
<1>2. Append(a, b[1]) = a \o <<b[1]>>
  BY <1>1, AppendIsConcat
<1>3. b = <<b[1]>> \o Tail(b)
  OBVIOUS
<1>4. (a \o <<b[1]>>) \o Tail(b) = a \o (<<b[1]>> \o Tail(b))
  BY <1>1, ConcatAssociative
<1> QED BY <1>2, <1>3, <1>4

LEMMA Appending ==
  ASSUME NEW strict \in BOOLEAN, Inv(strict), NEW x, Appended(x)
  PROVE  Inv(strict)'
<1> USE DEF Appended
<1>1. /\ Typed /\ Meant /\ FailsOnlyIfTooLong /\ phase = "write"
      /\ strict => RestartKeepsConfig
  BY DEF Inv
<1>2. PICK w \in Seq(Values) : Written(strict, w)
  BY DEF Inv
<1>3. /\ todo \in Seq(Items) /\ meant \in Seq(Values) /\ have \in Seq(Values)
      /\ got \in Seq(Values) /\ body \in Seq(Octets) /\ length \in Nat
      /\ route \in Routes /\ hop \in DOMAIN route
  BY <1>1 DEF Typed
<1>4. x \in Values /\ Head(todo) \in Items /\ Matches(x, Head(todo)) /\ todo # <<>>
  BY <1>3
<1>5. Bytes(x) \in Seq(Octets)
  BY <1>4, BytesType
<1>6. Rest(x, todo) \in Seq(Items)
  BY <1>3, <1>4, RestType
<1>7. PICK b \in Seq(Octets) :
        b = body \o Bytes(x) /\ Len(b) = Len(body) + Len(Bytes(x))
  <2>1. /\ body \o Bytes(x) \in Seq(Octets)
        /\ Len(body \o Bytes(x)) = Len(body) + Len(Bytes(x))
    BY <1>3, <1>5, ConcatProperties
  <2> QED BY <2>1
<1>8. Len(body) \in Nat /\ Len(Bytes(x)) \in Nat
  BY <1>3, <1>5
<1>9. Parses(w, ReadAs(Now), todo) /\ body = Coded(w) /\ length = Len(body)
  BY <1>2 DEF Written
<1>10. PICK u \in Seq(Values) :
         /\ u = Append(w, x) /\ Parses(u, ReadAs(Now), Rest(x, todo))
         /\ Coded(u) = b
  <2>1. /\ Append(w, x) \in Seq(Values)
        /\ Parses(Append(w, x), ReadAs(Now), Rest(x, todo))
    BY <1>4, <1>9, ParsesAppend
  <2>2. Codable(w)
    BY <1>9, ParsesCodable
  <2>3. Coded(Append(w, x)) = Coded(w) \o Bytes(x)
    BY <1>4, <1>5, <2>2, CodedAppend
  <2> QED BY <1>7, <1>9, <2>1, <2>3
<1>11. have' \in Seq(Values) /\ meant' \in Seq(Values)
  <2>1. CASE hop = 1
    <3>1. Append(meant, x) \in Seq(Values)
      BY <1>3, <1>4, AppendProperties
    <3> QED BY <1>3, <2>1, <3>1
  <2>2. CASE hop # 1
    <3>1. have # <<>> /\ have' = Tail(have)
      BY <2>2
    <3>2. Tail(have) \in Seq(Values)
      BY <1>3, <3>1, HeadTailProperties
    <3> QED BY <1>3, <2>2, <3>1, <3>2
  <2> QED BY <2>1, <2>2
<1>12. length' \in Nat /\ length' = Len(b) /\ body' = b
  BY <1>7, <1>8, <1>9
<1>13. Typed'
  <2>1. Len(body') <= length'
    BY <1>12
  <2> QED BY <1>1, <1>3, <1>6, <1>7, <1>11, <1>12, <2>1 DEF Typed
<1>14. (Now)' = Now /\ ReadAs(Now)' = ReadAs(Now)
  BY DEF Now
<1>15. Meant'
  <2>1. CASE hop = 1
    <3>1. /\ Append(meant, x) \in Seq(Values) /\ Len(Append(meant, x)) = Len(meant) + 1
          /\ Append(meant, x)[Len(meant) + 1] = x /\ Len(meant) \in Nat
          /\ \A i \in 1..Len(meant) : Append(meant, x)[i] = meant[i]
      BY <1>3, <1>4, AppendProperties
    <3>2. \A i \in 1..Len(meant) + 1 : i \in 1..Len(meant) \/ i = Len(meant) + 1
      BY <3>1
    <3>3. /\ \A i \in 1..Len(meant) : meant[i].kind = "text" => meant[i].v \in Seq(Plain)
          /\ x.kind = "text" => x.v \in Seq(Plain)
      BY <1>1, <2>1 DEF Meant
    <3>4. meant' = Append(meant, x) /\ phase' = "write" /\ hop' = 1
      BY <1>1, <2>1
    <3>5. ASSUME NEW i \in 1..Len(meant'), meant'[i].kind = "text"
          PROVE  meant'[i].v \in Seq(Plain)
      BY <3>1, <3>2, <3>3, <3>4, <3>5
    <3> HIDE DEF Plain
    <3> QED BY <3>4, <3>5 DEF Meant
  <2>2. CASE hop # 1
    <3>1. UNCHANGED <<meant, phase, hop, route>>
      BY <2>2
    <3> QED BY <1>1, <1>14, <3>1 DEF Meant
  <2> QED BY <2>1, <2>2
<1>16. FailsOnlyIfTooLong'
  BY <1>1 DEF FailsOnlyIfTooLong
<1>17. (strict => RestartKeepsConfig)'
  BY <1>1 DEF RestartKeepsConfig
<1>18. Written(strict, u)'
  <2>1. /\ Parses(u, ReadAs(Now), todo)' /\ (body = Coded(u))' /\ (length = Len(body))'
    BY <1>10, <1>12, <1>14
  <2>2. (hop = 1 => u = meant)'
    BY <1>2, <1>10 DEF Written
  <2>3. ASSUME hop > 1
        PROVE  Parses(have', todo', <<>>) /\ (strict => (Carried(u \o have))')
    <3>1. /\ have # <<>> /\ x = have[1] /\ have' = Tail(have) /\ UNCHANGED meant
          /\ Parses(have, todo, <<>>) /\ (strict => Carried(w \o have))
      BY <1>2, <1>3, <2>3 DEF Written
    <3>2. Parses(have', todo', <<>>)
      <4>1. Parses(Tail(have), Rest(have[1], todo), <<>>)
        <5>1. have \in Seq(Values) /\ have # <<>> /\ Parses(have, todo, <<>>)
          BY <1>3, <3>1
        <5> HIDE DEF Appended
        <5> QED BY <5>1, ParsesFirst
      <4> QED BY <3>1, <4>1
    <3>3. Append(w, x) \o Tail(have) = w \o have
      BY <1>3, <1>4, <3>1, MoveFirst
    <3>4. u \o have' = w \o have
      BY <1>10, <3>1, <3>3
    <3>5. Carried(w \o have) => (Carried(u \o have))'
      BY <3>1, <3>4 DEF Carried, Kept, NoneHas
    <3>6. strict => (Carried(u \o have))'
      BY <3>1, <3>5, Zenon
    <3> QED BY <3>2, <3>6
  <2> QED BY <2>1, <2>2, <2>3 DEF Written
<1> QED BY <1>1, <1>10, <1>13, <1>15, <1>16, <1>17, <1>18 DEF Inv

\* The next value of a field, when it is the first of all that are held.
LEMMA FirstHeld ==
  ASSUME have \in Seq(Values), have # <<>>, NEW f, have[1].f = f
  PROVE  Held(f) = have[1].v /\ Without(f) = Tail(have)
<1>1. Len(have) \in Nat /\ Len(have) > 0 /\ 1 \in 1..Len(have) /\ DOMAIN have = 1..Len(have)
  OBVIOUS
<1>2. Held(f) = have[1].v
  <2> DEFINE at == {i \in DOMAIN have : have[i].f = f}
             q == ThoseAt(have, at)
  <2>1. 1 \in at /\ at \in SUBSET (DOMAIN have) /\ \A k \in at : k \in Nat /\ k >= 1
    BY <1>1
  <2> HIDE DEF at
  <2>2. PICK g : q \in Seq(Values) /\ Numbers(g, have, at, q)
    BY <2>1, ThoseAtElements
  <2> HIDE DEF q
  <2>3. PICK i \in 1..Len(q) : g[i] = 1
    BY <2>1, <2>2 DEF Numbers
  <2>4. 1 \in 1..Len(q) /\ i \in Nat /\ i >= 1
    BY <2>2, <2>3
  <2>5. g[1] \in at /\ ~(g[1] < 1)
    BY <2>1, <2>2, <2>4 DEF Numbers
  <2>6. 1 < i => g[1] < g[i]
    BY <2>2, <2>3, <2>4 DEF Numbers
  <2>7. i = 1
    BY <2>3, <2>4, <2>5, <2>6
  <2>8. q[1] = have[1]
    BY <2>2, <2>3, <2>7 DEF Numbers
  <2>9. OfField(have, f) = q
    BY DEF OfField, q, at
  <2> QED BY <2>8, <2>9 DEF Held
<1>3. Without(f) = Tail(have)
  <2> DEFINE I == {i \in 1..Len(have) : have[i].f = f}
  <2>1. 1 \in I /\ \A i \in I : 1 <= i
    BY <1>1
  <2>2. Min(I) = 1
    BY <2>1 DEF Min
  <2>3. \E i \in 1..Len(have) : have[i].f = f
    BY <1>1
  <2>4. SelectInSeq(have, LAMBDA x : x.f = f) = 1
    BY <2>1, <2>2 DEF SelectInSeq
  <2>5. Without(f) = RemoveAt(have, 1)
    BY <2>3, <2>4 DEF Without, RemoveFirstMatch
  <2>6. SubSeq(have, 1, 1 - 1) = <<>> /\ SubSeq(have, 1 + 1, Len(have)) = Tail(have)
    <3>1. 1 - 1 = 0 /\ 1 + 1 = 2
      OBVIOUS
    <3>2. SubSeq(have, 1, 0) = <<>>
      BY SubSeqEmpty
    <3>3. Tail(have) = SubSeq(have, 2, Len(have))
      BY TailIsSubSeq
    <3> QED BY <3>1, <3>2, <3>3
  <2>7. Tail(have) \in Seq(Values)
    BY HeadTailProperties
  <2> QED BY <2>5, <2>6, <2>7, ConcatEmptySeq DEF RemoveAt
<1> QED BY <1>2, <1>3

\* What is known of the next value that is appended: the one that is held.
LEMMA NextHeld ==
  ASSUME NEW strict \in BOOLEAN, Inv(strict), phase = "write", todo # <<>>, hop # 1
  PROVE  /\ have # <<>> /\ have[1] \in Values /\ Matches(have[1], Head(todo))
         /\ Held(Head(todo).f) = have[1].v
         /\ Without(Head(todo).f) = Tail(have)
<1>1. have \in Seq(Values) /\ todo \in Seq(Items) /\ hop > 1
  <2>1. hop \in DOMAIN route /\ route \in Routes
    BY DEF Inv, Typed
  <2>2. DOMAIN route = {1} \/ DOMAIN route = 1..4
    <3>1. route # ConfigRoute => DOMAIN route = {1}
      BY <2>1, RouteLayouts
    <3>2. DOMAIN ConfigRoute = 1..4
      BY DEF ConfigRoute
    <3> QED BY <3>1, <3>2
  <2>3. hop > 1
    BY <2>1, <2>2
  <2> QED BY <2>3 DEF Inv, Typed
<1>2. Parses(have, todo, <<>>)
  BY <1>1 DEF Inv, Written
<1>3. have # <<>>
  <2>1. SUFFICES ASSUME have = <<>> PROVE FALSE
    OBVIOUS
  <2> QED BY <1>2, <2>1, ParsesNoneOnly
<1>4. Matches(have[1], Head(todo)) /\ have[1] \in Values
  BY <1>1, <1>2, <1>3, ParsesFirst
<1>5. have[1].f = Head(todo).f
  BY <1>4 DEF Matches
<1> QED BY <1>1, <1>3, <1>4, <1>5, FirstHeld

LEMMA ValueParts ==
  /\ \A k, f, v : LET x == Value(k, f, v) IN x.kind = k /\ x.f = f /\ x.v = v
  /\ \A k \in {"number", "text", "list"}, f \in Fields, v \in Seq(Octets) :
       Value(k, f, v) \in Values
  /\ \A x \in Values : x = Value(x.kind, x.f, x.v)
BY DEF Value, Values

\* An action that appends the value v, "bytes" being its bytes.
LEMMA AppendsHolds ==
  ASSUME NEW strict \in BOOLEAN, Inv(strict), phase = "write", todo # <<>>,
         NEW v \in Seq(Octets), NEW bytes, NEW then, Appends(v, bytes, then),
         LET x == Value(Head(todo).kind, Head(todo).f, v)
         IN  /\ Matches(x, Head(todo)) /\ bytes = Bytes(x)
             /\ then \o Tail(todo) = Rest(x, todo)
             /\ x.kind = "text" /\ hop = 1 => v \in Seq(Plain),
         hop # 1 => v = Held(Head(todo).f)
  PROVE  Inv(strict)'
<1> DEFINE x == Value(Head(todo).kind, Head(todo).f, v)
<1>1. todo \in Seq(Items)
  BY DEF Inv, Typed
<1>2. Head(todo) \in Items
  BY <1>1
<1>3. x \in Values
  BY <1>2, ItemShape, ValueParts
<1>4. x.v = v
  BY ValueParts
<1>5. ASSUME hop # 1
      PROVE  have # <<>> /\ x = have[1] /\ Without(Head(todo).f) = Tail(have)
  <2>1. /\ have # <<>> /\ have[1] \in Values /\ Matches(have[1], Head(todo))
        /\ v = have[1].v /\ Without(Head(todo).f) = Tail(have)
    BY <1>5, NextHeld
  <2>2. have[1] = Value(have[1].kind, have[1].f, have[1].v)
    BY <2>1, ValueParts
  <2>3. have[1].kind = Head(todo).kind /\ have[1].f = Head(todo).f
    BY <2>1 DEF Matches
  <2> QED BY <2>1, <2>2, <2>3
<1>6. Matches(x, Head(todo)) /\ bytes = Bytes(x) /\ then \o Tail(todo) = Rest(x, todo)
      /\ (x.kind = "text" /\ hop = 1 => x.v \in Seq(Plain))
  BY <1>4
<1>7. /\ length' = length + Len(bytes) /\ body' = body \o bytes
      /\ todo' = then \o Tail(todo)
      /\ UNCHANGED <<route, hop, phase, got>>
      /\ hop = 1 => meant' = Append(meant, x) /\ UNCHANGED have
      /\ hop # 1 => have' = Without(Head(todo).f) /\ UNCHANGED meant
  BY DEF Appends
<1> HIDE DEF x
<1>8. Appended(x)
  BY <1>3, <1>5, <1>6, <1>7 DEF Appended
<1> QED BY <1>8, Appending

LEMMA AppendNumberStep ==
  ASSUME NEW strict \in BOOLEAN, Inv(strict), AppendNumber
  PROVE  Inv(strict)'
<1>1. phase = "write" /\ todo # <<>> /\ Head(todo).kind = "number"
  BY DEF AppendNumber, Writing
<1>2. todo \in Seq(Items)
  BY DEF Inv, Typed
<1> DEFINE item == Head(todo)
<1>3. item \in Items /\ Tail(todo) \in Seq(Items)
  BY <1>1, <1>2, HeadTailProperties
<1>4. item.width \in Nat /\ item.f \in Fields
  BY <1>3, ItemShape
<1>5. PICK v : v \in Chosen({Number(item)}) /\ Appends(v, v, <<>>)
  BY DEF AppendNumber
<1>6. v \in Seq(Octets) /\ Len(v) = item.width
  <2>1. CASE hop = 1
    <3>1. v = [i \in 1..item.width |-> Byte(item.f, i)]
      BY <1>5, <2>1 DEF Chosen, Number
    <3>2. \A i \in 1..item.width : Byte(item.f, i) \in Octets
      <4>1. item.f \in Marks
        BY <1>4 DEF Marks
      <4>2. \A i \in 1..item.width : i \in Nat
        BY <1>4
      <4> QED BY <4>1, <4>2, ByteType
    <3> QED BY <1>4, <3>1, <3>2
  <2>2. CASE hop # 1
    <3>1. v = Held(item.f)
      BY <1>5, <2>2 DEF Chosen
    <3>2. have[1] \in Values /\ Matches(have[1], item) /\ v = have[1].v
      BY <1>1, <2>2, <3>1, NextHeld
    <3> QED BY <1>1, <3>2 DEF Values, Matches
  <2> QED BY <2>1, <2>2
<1>7. hop # 1 => v = Held(item.f)
  BY <1>5 DEF Chosen
<1> DEFINE x == Value(item.kind, item.f, v)
<1>8. x.kind = item.kind /\ x.f = item.f /\ x.v = v
  BY ValueParts
<1>9. Matches(x, item)
  BY <1>1, <1>6, <1>8 DEF Matches
<1>10. v = Bytes(x)
  BY <1>1, <1>8 DEF Bytes
<1>11. <<>> \o Tail(todo) = Rest(x, todo)
  BY <1>1 DEF Rest
<1>12. x.kind # "text"
  BY <1>1, <1>8
<1> HIDE DEF x
<1> QED BY <1>1, <1>5, <1>6, <1>7, <1>9, <1>10, <1>11, <1>12, AppendsHolds DEF x

LEMMA TextPlain ==
  ASSUME NEW s \in Strings
  PROVE  Text(s) \in Seq(Plain) /\ Text(s) \in Seq(Octets)
<1> DEFINE C == {"x", ":", ",", " ", "e"}
<1>1. s \in Seq(C)
  BY CodecAssumption
<1>2. \A c \in C : Byte(c, 0) \in Plain /\ Byte(c, 0) \in Octets
  BY ByteType DEF Plain, Marks
<1> HIDE DEF Plain, Octets, C
<1>3. PICK n \in Nat : n = Len(s) /\ DOMAIN s = 1..n /\ \A i \in 1..n : s[i] \in C
  BY <1>1, LenProperties
<1>4. \A i \in 1..n : Byte(s[i], 0) \in Plain /\ Byte(s[i], 0) \in Octets
  BY <1>2, <1>3
<1>5. Text(s) = [i \in 1..n |-> Byte(s[i], 0)]
  BY <1>3 DEF Text
<1> QED BY <1>4, <1>5

LEMMA AppendTextStep ==
  ASSUME NEW strict \in BOOLEAN, Inv(strict), AppendText
  PROVE  Inv(strict)'
<1>1. phase = "write" /\ todo # <<>> /\ Head(todo).kind = "text"
  BY DEF AppendText, Writing
<1>2. todo \in Seq(Items)
  BY DEF Inv, Typed
<1> DEFINE item == Head(todo)
<1>3. item \in Items /\ Tail(todo) \in Seq(Items)
  BY <1>1, <1>2, HeadTailProperties
<1>4. PICK v : /\ v \in Chosen({Text(s) : s \in Strings})
               /\ Appends(v, Length(Len(GetBytes(v))) \o GetBytes(v), <<>>)
  BY DEF AppendText
<1>5. v \in Seq(Octets) /\ (hop = 1 => v \in Seq(Plain))
  <2>1. CASE hop = 1
    <3>1. PICK s \in Strings : v = Text(s)
      BY <1>4, <2>1 DEF Chosen
    <3> QED BY <3>1, TextPlain
  <2>2. CASE hop # 1
    <3>1. v = Held(item.f)
      BY <1>4, <2>2 DEF Chosen
    <3>2. have[1] \in Values /\ v = have[1].v
      BY <1>1, <2>2, <3>1, NextHeld
    <3> QED BY <2>2, <3>2 DEF Values
  <2> QED BY <2>1, <2>2
<1>6. hop # 1 => v = Held(item.f)
  BY <1>4 DEF Chosen
<1> DEFINE x == Value(item.kind, item.f, v)
           bytes == Length(Len(GetBytes(v))) \o GetBytes(v)
<1>7. x.kind = item.kind /\ x.f = item.f /\ x.v = v
  BY ValueParts
<1>8. Matches(x, item)
  BY <1>1, <1>7 DEF Matches
<1>9. bytes = Bytes(x)
  BY <1>1, <1>7 DEF Bytes
<1>10. <<>> \o Tail(todo) = Rest(x, todo)
  BY <1>1 DEF Rest
<1> HIDE DEF x, bytes
<1>11. Appends(v, bytes, <<>>)
  BY <1>4 DEF bytes
<1> QED BY <1>1, <1>5, <1>6, <1>8, <1>9, <1>10, <1>11, AppendsHolds DEF x

LEMMA AppendListStep ==
  ASSUME NEW strict \in BOOLEAN, Inv(strict), AppendList
  PROVE  Inv(strict)'
<1>1. phase = "write" /\ todo # <<>> /\ Head(todo).kind = "list"
  BY DEF AppendList, Writing
<1>2. todo \in Seq(Items)
  BY DEF Inv, Typed
<1> DEFINE item == Head(todo)
<1>3. item \in Items /\ Tail(todo) \in Seq(Items)
  BY <1>1, <1>2, HeadTailProperties
<1>4. PICK v : /\ v \in Chosen({Count(n) : n \in Lengths(item)})
               /\ Appends(v, Length(v[1].at), Repeat(v[1].at, item.of))
  BY DEF AppendList
<1>5. v \in Seq(Octets) /\ \E n \in Nat : v = Count(n)
  <2>1. CASE hop = 1
    <3>1. PICK n \in Lengths(item) : v = Count(n)
      BY <1>4, <2>1 DEF Chosen
    <3>2. n \in Nat
      <4>1. MaxPoints \in Nat /\ MaxTexts \in Nat
        BY CodecAssumption
      <4> QED BY <3>1, <4>1 DEF Lengths
    <3>3. Byte("count", n) \in Octets
      BY <3>2, ByteType DEF Marks
    <3> HIDE DEF Octets
    <3> QED BY <3>1, <3>2, <3>3 DEF Count
  <2>2. CASE hop # 1
    <3>1. v = Held(item.f)
      BY <1>4, <2>2 DEF Chosen
    <3>2. have[1] \in Values /\ Matches(have[1], item) /\ v = have[1].v
      BY <1>1, <2>2, <3>1, NextHeld
    <3> QED BY <1>1, <3>2 DEF Values, Matches
  <2> QED BY <2>1, <2>2
<1>6. hop # 1 => v = Held(item.f)
  BY <1>4 DEF Chosen
<1> DEFINE x == Value(item.kind, item.f, v)
<1>7. x.kind = item.kind /\ x.f = item.f /\ x.v = v
  BY ValueParts
<1>8. Matches(x, item)
  BY <1>1, <1>5, <1>7 DEF Matches
<1>9. Length(v[1].at) = Bytes(x)
  BY <1>1, <1>7 DEF Bytes
<1>10. Repeat(v[1].at, item.of) \o Tail(todo) = Rest(x, todo)
  BY <1>1, <1>7 DEF Rest
<1>11. x.kind # "text"
  BY <1>1, <1>7
<1> HIDE DEF x
<1> QED BY <1>1, <1>4, <1>5, <1>6, <1>8, <1>9, <1>10, <1>11, AppendsHolds DEF x

-----------------------------------------------------------------------------
(* Fetching.                                                               *)

\* The values "rest" are what the body has, and the fields yet to be fetched.
Left(rest) == rest \in Seq(Values) /\ Parses(rest, todo, <<>>) /\ body = Coded(rest)

\* The value x of the next field is fetched.
FetchedNext(x) ==
  /\ phase = "read" /\ todo # <<>>
  /\ x \in Values /\ Matches(x, Head(todo))
  /\ got' = Append(got, x) /\ todo' = Rest(x, todo)
  /\ body' \in Seq(Octets) /\ Len(body') <= Len(body)
  /\ UNCHANGED <<route, hop, phase, meant, have, length>>
  /\ length < LenMod => \A rest : Left(rest) =>
       x = Told(Java(Now.to), rest[1]) /\ body' = Coded(Tail(rest))

\* The next of the values that are left is at the front of the body.
LEMMA NextLeft ==
  ASSUME NEW rest, Left(rest), todo # <<>>, todo \in Seq(Items)
  PROVE  /\ rest # <<>> /\ rest[1] \in Values /\ Matches(rest[1], Head(todo))
         /\ Tail(rest) \in Seq(Values) /\ Parses(Tail(rest), Rest(rest[1], todo), <<>>)
         /\ Bytes(rest[1]) \in Seq(Octets) /\ Coded(Tail(rest)) \in Seq(Octets)
         /\ body = Bytes(rest[1]) \o Coded(Tail(rest))
         /\ Head(todo).kind = "list" =>
              /\ rest[1].v[1].at \in Nat /\ rest[1].v = Count(rest[1].v[1].at)
              /\ rest[1].v[1].at <= Len(Coded(Tail(rest)))
<1>1. rest \in Seq(Values) /\ Parses(rest, todo, <<>>) /\ body = Coded(rest)
  BY DEF Left
<1>2. rest # <<>>
  <2>1. SUFFICES ASSUME rest = <<>> PROVE FALSE
    OBVIOUS
  <2> QED BY <1>1, <2>1, ParsesNoneOnly
<1>3. /\ Matches(rest[1], Head(todo)) /\ Tail(rest) \in Seq(Values)
      /\ Parses(Tail(rest), Rest(rest[1], todo), <<>>)
  BY <1>1, <1>2, ParsesFirst
<1>4. rest[1] \in Values
  BY <1>1, <1>2
<1>5. /\ Bytes(rest[1]) \in Seq(Octets) /\ Coded(Tail(rest)) \in Seq(Octets)
      /\ Coded(rest) = Bytes(rest[1]) \o Coded(Tail(rest))
  BY <1>1, <1>2, ParsesCodable, CodedFirst
<1>6. ASSUME Head(todo).kind = "list"
      PROVE  /\ rest[1].v[1].at \in Nat /\ rest[1].v = Count(rest[1].v[1].at)
             /\ rest[1].v[1].at <= Len(Coded(Tail(rest)))
  <2>1. /\ rest[1].v[1].at \in Nat /\ rest[1].v = Count(rest[1].v[1].at)
        /\ Len(Rest(rest[1], todo)) >= rest[1].v[1].at
        /\ Rest(rest[1], todo) \in Seq(Items)
    BY <1>3, <1>6, RestType
  <2>2. Len(Coded(Tail(rest))) >= Len(Rest(rest[1], todo))
    BY <1>3, CodedLength
  <2>3. Len(Coded(Tail(rest))) \in Nat /\ Len(Rest(rest[1], todo)) \in Nat
    BY <1>5, <2>1
  <2>4. \A k, l, m \in Nat : k >= l /\ l >= m => m <= k
    OBVIOUS
  <2> QED BY <2>1, <2>2, <2>3, <2>4
<1> QED BY <1>1, <1>2, <1>3, <1>4, <1>5, <1>6

LEMMA ToldParts ==
  ASSUME NEW java, NEW x \in Values
  PROVE  /\ Told(java, x) \in Values
         /\ Told(java, x).kind = x.kind /\ Told(java, x).f = x.f
         /\ x.kind # "text" => Told(java, x) = x
<1>1. x.v \in Seq(Octets) /\ x.f \in Fields
  BY DEF Values
<1>2. GetBytes(x.v) \in Seq(Octets) /\ FromBytes(GetBytes(x.v)) \in Seq(Octets)
  BY <1>1, GetBytesType, FromBytesType
<1> QED BY <1>1, <1>2, ValueParts DEF Told

LEMMA Fetching ==
  ASSUME NEW strict \in BOOLEAN, Inv(strict), NEW x, FetchedNext(x)
  PROVE  Inv(strict)'
<1>1. /\ phase = "read" /\ todo # <<>> /\ x \in Values /\ Matches(x, Head(todo))
      /\ got' = Append(got, x) /\ todo' = Rest(x, todo)
      /\ body' \in Seq(Octets) /\ Len(body') <= Len(body)
      /\ UNCHANGED <<route, hop, phase, meant, have, length>>
  BY DEF FetchedNext
<1>2. /\ Typed /\ Meant /\ FailsOnlyIfTooLong /\ Parses(got, ReadAs(Now), todo)
      /\ Java(Now.to) => 2 * (length % LenMod) < LenMod
  BY <1>1 DEF Inv
<1>3. /\ todo \in Seq(Items) /\ got \in Seq(Values) /\ body \in Seq(Octets)
      /\ length \in Nat /\ Len(body) <= length
  BY <1>2 DEF Typed
<1>4. Rest(x, todo) \in Seq(Items)
  BY <1>1, <1>3, RestType
<1>5. Append(got, x) \in Seq(Values) /\ Parses(Append(got, x), ReadAs(Now), Rest(x, todo))
  BY <1>1, <1>2, <1>3, ParsesAppend
<1>6. Len(body') <= length
  <2>1. Len(body') \in Nat /\ Len(body) \in Nat
    BY <1>1, <1>3
  <2> QED BY <1>1, <1>3, <2>1
<1>7. Typed'
  BY <1>1, <1>2, <1>4, <1>5, <1>6 DEF Typed
<1>8. (Now)' = Now /\ ReadAs(Now)' = ReadAs(Now)
  BY <1>1 DEF Now
<1>9. Meant'
  BY <1>1, <1>2, <1>8 DEF Meant
<1>10. FailsOnlyIfTooLong'
  BY <1>1 DEF FailsOnlyIfTooLong
<1>11. RestartKeepsConfig'
  BY <1>1 DEF RestartKeepsConfig
<1>12. Parses(got, ReadAs(Now), todo)'
  BY <1>1, <1>5, <1>8
<1>13. (Java(Now.to) => 2 * (length % LenMod) < LenMod)'
  BY <1>1, <1>2, <1>8
<1>14. ASSUME length < LenMod
       PROVE  \E written \in Seq(Values) : Fetched(strict, written)'
  <2>1. PICK w \in Seq(Values) : Fetched(strict, w)
    BY <1>1, <1>14 DEF Inv
  <2> DEFINE rest == Unread(w)
  <2>2. PICK n \in Nat, m \in Nat : n = Len(got) /\ m = Len(w) /\ n <= m
    BY <1>3, <2>1 DEF Fetched
  <2>3. rest = SubSeq(w, n + 1, m) /\ rest \in Seq(Values)
    <3>1. \A i \in n + 1..m : w[i] \in Values
      BY <2>2
    <3>2. SubSeq(w, n + 1, m) \in Seq(Values)
      BY <3>1, SubSeqProperties
    <3> QED BY <2>2, <3>2 DEF Unread
  <2> HIDE DEF rest
  <2>4. Left(rest)
    BY <2>1, <2>3 DEF Left, Fetched, rest
  <2>5. /\ rest # <<>> /\ rest[1] \in Values /\ Matches(rest[1], Head(todo))
        /\ Parses(Tail(rest), Rest(rest[1], todo), <<>>)
    BY <1>1, <1>3, <2>4, NextLeft
  <2>6. x = Told(Java(Now.to), rest[1]) /\ body' = Coded(Tail(rest))
    BY <1>14, <2>4 DEF FetchedNext
  <2>7. n + 1 \in 1..m /\ m \in n + 1..m
    <3>1. SUFFICES ASSUME n = m PROVE FALSE
      BY <2>2
    <3>2. SubSeq(w, n + 1, m) = <<>>
      BY <3>1, SubSeqEmpty
    <3> QED BY <2>3, <2>5, <3>2
  <2>8. rest[1] = w[n + 1] /\ Tail(rest) = SubSeq(w, n + 1 + 1, m)
    <3>1. /\ Head(SubSeq(w, n + 1, m)) = w[n + 1]
          /\ Tail(SubSeq(w, n + 1, m)) = SubSeq(w, n + 1 + 1, m)
      BY <2>2, <2>7, HeadTailOfSubSeq
    <3>2. Head(rest) = rest[1]
      BY <2>3, <2>5
    <3> QED BY <2>3, <3>1, <3>2
  <2>9. /\ Len(got') = n + 1 /\ got'[n + 1] = x /\ \A i \in 1..n : got'[i] = got[i]
    <3>1. /\ Len(Append(got, x)) = Len(got) + 1 /\ Append(got, x)[Len(got) + 1] = x
          /\ \A i \in 1..Len(got) : Append(got, x)[i] = got[i]
      BY <1>1, <1>3, AppendProperties
    <3> QED BY <1>1, <2>2, <3>1
  <2>10. Unread(w)' = Tail(rest)
    BY <2>2, <2>8, <2>9 DEF Unread
  <2>11. Rest(rest[1], todo) = Rest(x, todo)
    <3>1. CASE rest[1].kind # "text"
      BY <2>5, <2>6, <3>1, ToldParts
    <3>2. CASE rest[1].kind = "text"
      <4>1. Head(todo).kind = "text"
        BY <2>5, <3>2 DEF Matches
      <4> QED BY <4>1 DEF Rest
    <3> QED BY <3>1, <3>2
  <2>12. (Len(got) <= Len(w))'
    BY <2>2, <2>7, <2>9
  <2>13. (\A i \in 1..Len(got) : got[i] = Told(Java(Now.to), w[i]))'
    <3>1. ASSUME NEW i \in 1..n + 1
          PROVE  got'[i] = Told(Java(Now.to), w[i])
      <4>1. CASE i = n + 1
        BY <2>6, <2>8, <2>9, <4>1
      <4>2. CASE i # n + 1
        <5>1. i \in 1..n
          BY <4>2
        <5>2. got[i] = Told(Java(Now.to), w[i])
          BY <2>1, <2>2, <5>1 DEF Fetched
        <5> QED BY <2>9, <5>1, <5>2
      <4> QED BY <4>1, <4>2
    <3> QED BY <1>8, <2>9, <3>1
  <2>14. Parses(Unread(w), todo, <<>>)' /\ (body = Coded(Unread(w)))'
    <3>1. Parses(Tail(rest), Rest(x, todo), <<>>)
      BY <2>5, <2>11
    <3> QED BY <1>1, <2>6, <2>10, <3>1
  <2>15. (hop = 1 => w = meant)' /\ (hop > 1 /\ strict => Carried(w))'
    <3>1. (hop = 1 => w = meant) /\ (hop > 1 /\ strict => Carried(w))
      BY <2>1 DEF Fetched
    <3>2. Carried(w) => Carried(w)'
      BY <1>1 DEF Carried, Kept, NoneHas
    <3> QED BY <1>1, <3>1, <3>2
  <2>16. Fetched(strict, w)'
    BY <2>12, <2>13, <2>14, <2>15 DEF Fetched
  <2> QED BY <2>16
<1> QED BY <1>1, <1>7, <1>9, <1>10, <1>11, <1>12, <1>13, <1>14 DEF Inv

\* What a body that its header can count has at its front.
LEMMA CountInFront ==
  ASSUME length \in Nat, length < LenMod, body \in Seq(Octets), Len(body) <= length,
         NEW k \in Nat, NEW c \in Seq(Octets), k <= Len(c), body = Length(k) \o c
  PROVE  Announced = k /\ k <= length
<1>1. PICK b \in Seq(Octets) : b = Length(k) /\ Len(b) = 2
  BY LengthType
<1>2. Len(body) = 2 + Len(c)
  BY <1>1, ConcatProperties
<1>3. Len(c) \in Nat /\ LenMod \in Nat
  BY LenModPositive
<1>4. k <= length /\ k \in 0..LenMod - 1
  BY <1>2, <1>3
<1> QED BY <1>4, AnnouncedIs

LEMMA TextInFront ==
  ASSUME length \in Nat, length < LenMod, body \in Seq(Octets), Len(body) <= length,
         NEW x \in Values, x.kind = "text", NEW item \in Items, Matches(x, item),
         NEW c \in Seq(Octets), body = Bytes(x) \o c
  PROVE  /\ SubSeq(body, 3, 2 + Announced) = GetBytes(x.v)
         /\ 2 + Announced = Len(Bytes(x))
<1>1. PICK t \in Seq(Octets) : t = GetBytes(x.v)
  <2>1. x.v \in Seq(Octets)
    BY DEF Values
  <2> QED BY <2>1, GetBytesType
<1>2. PICK n \in Nat : n = Len(t)
  BY <1>1
<1>3. PICK b \in Seq(Octets) : b = Length(n) /\ Len(b) = 2
  BY LengthType
<1>4. Bytes(x) = b \o t /\ Len(Bytes(x)) = 2 + n /\ Bytes(x) \in Seq(Octets)
  BY <1>1, <1>2, <1>3, BytesType
<1>5. body = b \o (t \o c)
  <2>1. (b \o t) \o c = b \o (t \o c)
    OBVIOUS
  <2> QED BY <1>4, <2>1
<1>6. PICK d \in Seq(Octets) : d = t \o c /\ Len(d) = n + Len(c)
  BY <1>2, ConcatProperties
<1>7. Len(body) = 2 + Len(d) /\ body = b \o d
  <2>1. body = b \o d
    BY <1>5, <1>6
  <2>2. Len(b \o d) = Len(b) + Len(d)
    BY ConcatProperties
  <2> QED BY <1>3, <2>1, <2>2
<1>8. Len(c) \in Nat /\ LenMod \in Nat
  BY LenModPositive
<1>9. n \in 0..LenMod - 1
  BY <1>6, <1>7, <1>8
<1>10. Announced = n
  BY <1>3, <1>5, <1>6, <1>9, AnnouncedIs
<1>11. SubSeq(body, 3, 2 + n) = t
  <2>1. SubSeq(d, 1, n) = t
    BY <1>2, <1>6, Split
  <2>2. SubSeq(body, 3, Len(body)) = d
    <3>1. SubSeq(b \o d, Len(b) + 1, Len(b \o d)) = d
      BY Split
    <3>2. Len(b) + 1 = 3
      BY <1>3
    <3> QED BY <1>7, <3>1, <3>2
  <2>3. CASE n = 0
    <3>1. SubSeq(body, 3, 2 + n) = <<>>
      BY <2>3, SubSeqEmpty
    <3>2. t = <<>>
      BY <1>1, <1>2, <2>3, EmptySeq
    <3> QED BY <3>1, <3>2
  <2>4. CASE n # 0
    <3>1. PICK m \in Nat : m = Len(body) /\ m >= 2 + n
      BY <1>6, <1>7, <1>8
    <3>2. 3 \in 1..m /\ m \in 1..m /\ 1 \in 1..m - 3 + 1 /\ n \in 1..m - 3 + 1
      BY <1>2, <2>4, <3>1
    <3>3. SubSeq(SubSeq(body, 3, m), 1, n) = SubSeq(body, 3 + 1 - 1, 3 + n - 1)
      BY <3>1, <3>2, SubSeqOfSubSeq
    <3>4. 3 + 1 - 1 = 3 /\ 3 + n - 1 = 2 + n
      OBVIOUS
    <3>5. SubSeq(body, 3, m) = d
      BY <2>2, <3>1
    <3>6. SubSeq(d, 1, n) = SubSeq(body, 3, 2 + n)
      BY <3>3, <3>4, <3>5
    <3> QED BY <2>1, <3>6
  <2> QED BY <1>2, <2>3, <2>4
<1> QED BY <1>1, <1>4, <1>10, <1>11

LEMMA AfterBytes ==
  ASSUME NEW S, NEW b \in Seq(S), NEW n \in Nat
  PROVE  SubSeq(b, n + 1, Len(b)) \in Seq(S) /\ Len(SubSeq(b, n + 1, Len(b))) <= Len(b)
<1>1. PICK m \in Nat : m = Len(b)
  OBVIOUS
<1>2. \A i \in n + 1..m : b[i] \in S
  BY <1>1
<1>3. /\ SubSeq(b, n + 1, m) \in Seq(S)
      /\ Len(SubSeq(b, n + 1, m)) = IF n + 1 <= m THEN m - (n + 1) + 1 ELSE 0
  BY <1>2, SubSeqProperties
<1>4. Len(SubSeq(b, n + 1, m)) <= m
  BY <1>3
<1> QED BY <1>1, <1>3, <1>4

LEMMA AnnouncedType ==
  ASSUME body \in Seq(Octets)
  PROVE  Announced \in Nat
<1>1. LenMod \in Nat
  BY LenModPositive
<1>2. ASSUME Len(body) >= 2 PROVE body[1].at \in Nat
  <2>1. body[1] \in Octets
    BY <1>2
  <2> QED BY <2>1 DEF Octets
<1> QED BY <1>1, <1>2 DEF Announced

\* An action that fetches the value v.
LEMMA FetchesHolds ==
  ASSUME NEW strict \in BOOLEAN, Inv(strict), phase = "read", todo # <<>>,
         NEW n \in Nat, NEW v \in Seq(Octets), NEW then, Fetches(n, v, then),
         LET x == Value(Head(todo).kind, Head(todo).f, v)
         IN  /\ Matches(x, Head(todo)) /\ then \o Tail(todo) = Rest(x, todo)
             /\ length < LenMod => \A rest : Left(rest) =>
                  /\ x = Told(Java(Now.to), rest[1])
                  /\ SubSeq(body, n + 1, Len(body)) = Coded(Tail(rest))
  PROVE  Inv(strict)'
<1> DEFINE x == Value(Head(todo).kind, Head(todo).f, v)
<1>1. todo \in Seq(Items) /\ body \in Seq(Octets)
  BY DEF Inv, Typed
<1>2. Head(todo) \in Items
  BY <1>1
<1>3. x \in Values
  BY <1>2, ItemShape, ValueParts
<1>4. /\ got' = Append(got, x) /\ todo' = then \o Tail(todo)
      /\ body' = SubSeq(body, n + 1, Len(body))
      /\ UNCHANGED <<route, hop, phase, meant, have, length>>
  BY DEF Fetches
<1>5. body' \in Seq(Octets) /\ Len(body') <= Len(body)
  BY <1>1, <1>4, AfterBytes
<1> HIDE DEF x
<1>6. FetchedNext(x)
  BY <1>3, <1>4, <1>5 DEF FetchedNext, x
<1> QED BY <1>6, Fetching

LEMMA FetchNumberStep ==
  ASSUME NEW strict \in BOOLEAN, Inv(strict), FetchNumber
  PROVE  Inv(strict)'
<1> DEFINE item == Head(todo)
           v == SubSeq(body, 1, item.width)
           x == Value(item.kind, item.f, v)
<1>1. /\ phase = "read" /\ todo # <<>> /\ item.kind = "number" /\ Len(body) >= item.width
      /\ Fetches(item.width, v, <<>>)
  BY DEF FetchNumber, Reading
<1>2. todo \in Seq(Items) /\ body \in Seq(Octets)
  BY DEF Inv, Typed
<1>3. item \in Items /\ item.width \in Nat
  <2>1. item \in Items
    BY <1>1, <1>2
  <2> QED BY <2>1, ItemShape
<1>4. v \in Seq(Octets) /\ Len(v) = item.width
  <2>1. PICK w \in Nat : w = item.width /\ w <= Len(body)
    BY <1>1, <1>3
  <2>2. \A i \in 1..w : body[i] \in Octets
    BY <1>2, <2>1
  <2>3. /\ SubSeq(body, 1, w) \in Seq(Octets)
        /\ Len(SubSeq(body, 1, w)) = IF 1 <= w THEN w - 1 + 1 ELSE 0
    BY <2>2, SubSeqProperties
  <2> QED BY <2>1, <2>3
<1>5. x.kind = item.kind /\ x.f = item.f /\ x.v = v
  <2> HIDE DEF v
  <2> QED BY ValueParts
<1>6. Matches(x, item)
  BY <1>1, <1>4, <1>5 DEF Matches
<1>7. <<>> \o Tail(todo) = Rest(x, todo)
  BY <1>1 DEF Rest
<1>8. ASSUME NEW rest, Left(rest)
      PROVE  /\ x = Told(Java(Now.to), rest[1])
             /\ SubSeq(body, item.width + 1, Len(body)) = Coded(Tail(rest))
  <2>1. /\ rest[1] \in Values /\ Matches(rest[1], item)
        /\ Bytes(rest[1]) \in Seq(Octets) /\ Coded(Tail(rest)) \in Seq(Octets)
        /\ body = Bytes(rest[1]) \o Coded(Tail(rest))
    BY <1>1, <1>2, <1>8, NextLeft
  <2>2. rest[1].kind = "number" /\ rest[1].f = item.f
    BY <1>1, <2>1 DEF Matches
  <2>3. Bytes(rest[1]) = rest[1].v /\ Len(Bytes(rest[1])) = item.width
    BY <1>3, <2>1, <2>2, BytesType
  <2>4. /\ SubSeq(body, 1, item.width) = Bytes(rest[1])
        /\ SubSeq(body, item.width + 1, Len(body)) = Coded(Tail(rest))
    <3>1. PICK b \in Seq(Octets), c \in Seq(Octets) :
            b = Bytes(rest[1]) /\ c = Coded(Tail(rest)) /\ Len(b) = item.width
      BY <2>1, <2>3
    <3>2. body = b \o c
      BY <2>1, <3>1
    <3>3. SubSeq(body, 1, Len(b)) = b /\ SubSeq(body, Len(b) + 1, Len(body)) = c
      BY <3>2, Split
    <3> QED BY <3>1, <3>3
  <2>5. rest[1] = Value(rest[1].kind, rest[1].f, rest[1].v)
    BY <2>1, ValueParts
  <2>6. x = rest[1]
    BY <1>1, <2>2, <2>3, <2>4, <2>5
  <2>7. Told(Java(Now.to), rest[1]) = rest[1]
    BY <2>2 DEF Told
  <2> QED BY <2>4, <2>6, <2>7
<1> HIDE DEF v, x
<1> QED BY <1>1, <1>3, <1>4, <1>6, <1>7, <1>8, FetchesHolds DEF x

LEMMA FetchTextStep ==
  ASSUME NEW strict \in BOOLEAN, Inv(strict), FetchText
  PROVE  Inv(strict)'
<1> DEFINE item == Head(todo)
           u == SubSeq(body, 3, 2 + Announced)
           v == IF Java(Now.to) THEN FromBytes(u) ELSE u
           x == Value(item.kind, item.f, v)
<1>1. /\ phase = "read" /\ todo # <<>> /\ item.kind = "text" /\ Len(body) >= 2 + Announced
      /\ Fetches(2 + Announced, v, <<>>)
  BY DEF FetchText, Reading
<1>2. todo \in Seq(Items) /\ body \in Seq(Octets) /\ length \in Nat /\ Len(body) <= length
  BY DEF Inv, Typed
<1>3. item \in Items
  BY <1>1, <1>2
<1>4. Announced \in Nat /\ 2 + Announced \in Nat
  <2>1. Announced \in Nat
    BY <1>2, AnnouncedType
  <2> QED BY <2>1
<1>5. v \in Seq(Octets)
  <2>1. u \in Seq(Octets)
    <3>1. PICK w \in Nat : w = 2 + Announced /\ w <= Len(body)
      BY <1>1, <1>4
    <3>2. \A i \in 3..w : body[i] \in Octets
      BY <1>2, <3>1
    <3>3. SubSeq(body, 3, w) \in Seq(Octets)
      BY <3>2, SubSeqProperties
    <3> QED BY <3>1, <3>3
  <2> HIDE DEF u
  <2> QED BY <2>1, FromBytesType
<1>6. x.kind = item.kind /\ x.f = item.f /\ x.v = v
  BY ValueParts
<1>7. Matches(x, item)
  BY <1>1, <1>6 DEF Matches
<1>8. <<>> \o Tail(todo) = Rest(x, todo)
  BY <1>1 DEF Rest
<1>9. ASSUME length < LenMod, NEW rest, Left(rest)
      PROVE  /\ x = Told(Java(Now.to), rest[1])
             /\ SubSeq(body, 2 + Announced + 1, Len(body)) = Coded(Tail(rest))
  <2>1. /\ rest[1] \in Values /\ Matches(rest[1], item)
        /\ Bytes(rest[1]) \in Seq(Octets) /\ Coded(Tail(rest)) \in Seq(Octets)
        /\ body = Bytes(rest[1]) \o Coded(Tail(rest))
    BY <1>1, <1>2, <1>9, NextLeft
  <2>2. rest[1].kind = "text" /\ rest[1].f = item.f
    BY <1>1, <2>1 DEF Matches
  <2>3. u = GetBytes(rest[1].v) /\ 2 + Announced = Len(Bytes(rest[1]))
    BY <1>2, <1>9, <2>1, <2>2, <1>3, TextInFront
  <2>4. SubSeq(body, Len(Bytes(rest[1])) + 1, Len(body)) = Coded(Tail(rest))
    BY <2>1, Split
  <2> HIDE DEF u
  <2>5. x = Told(Java(Now.to), rest[1])
    BY <1>1, <2>2, <2>3 DEF Told
  <2> QED BY <2>3, <2>4, <2>5
<1> HIDE DEF v, x, u
<1> QED BY <1>1, <1>4, <1>5, <1>7, <1>8, <1>9, FetchesHolds DEF x

LEMMA FetchListStep ==
  ASSUME NEW strict \in BOOLEAN, Inv(strict), FetchList
  PROVE  Inv(strict)'
<1> DEFINE item == Head(todo)
           n == IF Java(Now.to) /\ 2 * Announced >= LenMod THEN 0 ELSE Announced
           x == Value(item.kind, item.f, Count(n))
<1>1. /\ phase = "read" /\ todo # <<>> /\ item.kind = "list"
      /\ Fetches(2, Count(n), Repeat(n, item.of))
  BY DEF FetchList, Reading
<1>2. /\ todo \in Seq(Items) /\ body \in Seq(Octets) /\ length \in Nat /\ Len(body) <= length
      /\ Java(Now.to) => 2 * (length % LenMod) < LenMod
  BY <1>1 DEF Inv, Typed
<1>3. item \in Items
  BY <1>1, <1>2
<1>4. n \in Nat /\ Count(n) \in Seq(Octets) /\ Count(n)[1].at = n
  <2>1. n \in Nat
    BY <1>2, AnnouncedType
  <2> HIDE DEF n
  <2>2. Byte("count", n) \in Octets
    BY <2>1, ByteType DEF Marks
  <2>3. Byte("count", n).at = n
    BY DEF Byte
  <2> HIDE DEF Octets
  <2> QED BY <2>1, <2>2, <2>3 DEF Count
<1>5. x.kind = item.kind /\ x.f = item.f /\ x.v = Count(n)
  BY ValueParts
<1>6. Matches(x, item)
  BY <1>1, <1>4, <1>5 DEF Matches
<1>7. Repeat(n, item.of) \o Tail(todo) = Rest(x, todo)
  <2> HIDE DEF n, x
  <2> QED BY <1>1, <1>4, <1>5 DEF Rest
<1>8. ASSUME length < LenMod, NEW rest, Left(rest)
      PROVE  /\ x = Told(Java(Now.to), rest[1])
             /\ SubSeq(body, 2 + 1, Len(body)) = Coded(Tail(rest))
  <2>1. /\ rest[1] \in Values /\ Matches(rest[1], item)
        /\ Bytes(rest[1]) \in Seq(Octets) /\ Coded(Tail(rest)) \in Seq(Octets)
        /\ body = Bytes(rest[1]) \o Coded(Tail(rest))
        /\ rest[1].v[1].at \in Nat /\ rest[1].v = Count(rest[1].v[1].at)
        /\ rest[1].v[1].at <= Len(Coded(Tail(rest)))
    BY <1>1, <1>2, <1>8, NextLeft
  <2>2. rest[1].kind = "list" /\ rest[1].f = item.f
    BY <1>1, <2>1 DEF Matches
  <2>3. PICK k \in Nat : k = rest[1].v[1].at
    BY <2>1
  <2>4. Bytes(rest[1]) = Length(k) /\ Len(Bytes(rest[1])) = 2
    BY <1>3, <2>1, <2>2, <2>3, BytesType
  <2>5. Announced = k /\ k <= length
    BY <1>2, <1>8, <2>1, <2>3, <2>4, CountInFront
  <2>6. n = k
    <3>1. LenMod \in Nat /\ length % LenMod = length
      <4>1. LenMod \in Nat /\ LenMod > 0
        BY LenModPositive
      <4> QED BY <1>2, <1>8, <4>1
    <3>2. Java(Now.to) => ~(2 * k >= LenMod)
      <4>1. Java(Now.to) => 2 * length < LenMod
        BY <1>2, <3>1, Zenon
      <4>2. \A l, m, j \in Nat : j <= l /\ 2 * l < m => ~(2 * j >= m)
        OBVIOUS
      <4> QED BY <1>2, <2>3, <2>5, <3>1, <4>1, <4>2, Zenon
    <3> QED BY <2>5, <3>2
  <2> HIDE DEF n
  <2>7. rest[1] = Value(rest[1].kind, rest[1].f, rest[1].v)
    BY <2>1, ValueParts
  <2>8. x = rest[1]
    BY <1>1, <2>1, <2>2, <2>3, <2>6, <2>7
  <2>9. Told(Java(Now.to), rest[1]) = rest[1]
    BY <2>2 DEF Told
  <2>10. SubSeq(body, 2 + 1, Len(body)) = Coded(Tail(rest))
    <3>1. PICK b \in Seq(Octets), c \in Seq(Octets) :
            b = Bytes(rest[1]) /\ c = Coded(Tail(rest)) /\ Len(b) = 2 /\ body = b \o c
      BY <2>1, <2>4
    <3>2. SubSeq(b \o c, Len(b) + 1, Len(b \o c)) = c
      BY Split
    <3> QED BY <3>1, <3>2
  <2> QED BY <2>8, <2>9, <2>10
<1> HIDE DEF n, x
<1> QED BY <1>1, <1>4, <1>6, <1>7, <1>8, FetchesHolds DEF x

\* Reading a number, a text or a length that is there does not fail.
LEMMA NextThere ==
  ASSUME NEW rest, Left(rest), todo # <<>>, todo \in Seq(Items), length \in Nat,
         length < LenMod, body \in Seq(Octets), Len(body) <= length
  PROVE  /\ Head(todo).kind = "number" => Len(body) >= Head(todo).width
         /\ Head(todo).kind = "text" => Len(body) >= 2 + Announced
         /\ Head(todo).kind = "list" => Announced # LenMod
<1> DEFINE item == Head(todo)
           c == Coded(Tail(rest))
<1>1. /\ rest[1] \in Values /\ Matches(rest[1], item)
      /\ Bytes(rest[1]) \in Seq(Octets) /\ c \in Seq(Octets) /\ body = Bytes(rest[1]) \o c
      /\ item.kind = "list" => rest[1].v[1].at \in Nat /\ rest[1].v[1].at <= Len(c)
  BY NextLeft
<1>2. item \in Items
  OBVIOUS
<1> HIDE DEF c
<1>3. Len(body) = Len(Bytes(rest[1])) + Len(c) /\ Len(c) \in Nat /\ Len(Bytes(rest[1])) \in Nat
  BY <1>1, ConcatProperties
<1>4. rest[1].kind = item.kind
  BY <1>1 DEF Matches
<1>5. Len(body) >= Len(Bytes(rest[1]))
  BY <1>3
<1>6. ASSUME item.kind = "number" PROVE Len(body) >= item.width
  <2>1. Len(Bytes(rest[1])) = item.width
    BY <1>1, <1>2, <1>4, <1>6, BytesType
  <2> QED BY <1>5, <2>1
<1>7. ASSUME item.kind = "text" PROVE Len(body) >= 2 + Announced
  <2>1. 2 + Announced = Len(Bytes(rest[1]))
    BY <1>1, <1>2, <1>4, <1>7, TextInFront
  <2> QED BY <1>5, <2>1
<1>8. ASSUME item.kind = "list" PROVE Announced # LenMod
  <2>1. PICK k \in Nat : k = rest[1].v[1].at /\ k <= Len(c)
    BY <1>1, <1>8
  <2>2. Bytes(rest[1]) = Length(k)
    BY <1>1, <1>2, <1>4, <1>8, <2>1, BytesType
  <2>3. Announced = k /\ k <= length
    BY <1>1, <2>1, <2>2, CountInFront
  <2>4. LenMod \in Nat
    BY LenModPositive
  <2> QED BY <2>1, <2>3, <2>4
<1> QED BY <1>6, <1>7, <1>8

\* An end of reading that changes no field, in a phase that the rest of the
\* invariant does not speak of.
LEMMA Ending ==
  ASSUME NEW strict \in BOOLEAN, Inv(strict), phase = "read",
         NEW how \in {"dropped", "partial", "indeterminate"}, Ends(how),
         IF how = "dropped" THEN 2 * length >= LenMod ELSE length >= LenMod
  PROVE  Inv(strict)'
<1>1. phase' = how /\ UNCHANGED <<route, hop, todo, meant, have, length, body, got>>
  BY DEF Ends
<1>2. Typed /\ Meant
  BY DEF Inv
<1>3. Typed'
  BY <1>1, <1>2 DEF Typed
<1>4. Meant'
  <2>1. (Now)' = Now /\ ReadAs(Now)' = ReadAs(Now)
    BY <1>1 DEF Now
  <2> QED BY <1>1, <1>2, <2>1 DEF Meant
<1>5. FailsOnlyIfTooLong'
  BY <1>1 DEF FailsOnlyIfTooLong
<1>6. RestartKeepsConfig'
  BY <1>1 DEF RestartKeepsConfig
<1> QED BY <1>1, <1>3, <1>4, <1>5, <1>6 DEF Inv

LEMMA StillLeft ==
  ASSUME NEW strict \in BOOLEAN, Inv(strict), phase = "read", length < LenMod
  PROVE  \E rest : Left(rest)
<1>1. PICK w \in Seq(Values) : Fetched(strict, w)
  BY DEF Inv
<1>2. PICK n \in Nat, m \in Nat : n = Len(got) /\ m = Len(w) /\ n <= m
  <2>1. got \in Seq(Values)
    BY DEF Inv, Typed
  <2> QED BY <1>1, <2>1 DEF Fetched
<1>3. Unread(w) \in Seq(Values)
  <2>1. \A i \in n + 1..m : w[i] \in Values
    BY <1>2
  <2>2. SubSeq(w, n + 1, m) \in Seq(Values)
    BY <2>1, SubSeqProperties
  <2> QED BY <1>2, <2>2 DEF Unread
<1> QED BY <1>1, <1>3 DEF Fetched, Left

LEMMA FailSteps ==
  ASSUME NEW strict \in BOOLEAN, Inv(strict), Underflow \/ FetchFails \/ FetchTextFails
  PROVE  Inv(strict)'
<1>1. phase = "read" /\ todo # <<>>
  BY DEF Underflow, FetchFails, FetchTextFails, Reading
<1>2. /\ todo \in Seq(Items) /\ body \in Seq(Octets) /\ length \in Nat
      /\ Len(body) <= length /\ (Java(Now.to) => 2 * (length % LenMod) < LenMod)
  BY <1>1 DEF Inv, Typed
<1>3. LenMod \in Nat /\ LenMod > 0
  BY LenModPositive
<1>4. ASSUME length < LenMod
      PROVE  /\ Head(todo).kind = "number" => Len(body) >= Head(todo).width
             /\ Head(todo).kind = "text" => Len(body) >= 2 + Announced
             /\ Head(todo).kind = "list" => Announced # LenMod
  <2>1. PICK rest : Left(rest)
    BY <1>1, <1>4, StillLeft
  <2> QED BY <1>1, <1>2, <1>4, <2>1, NextThere
<1>5. Len(body) \in Nat /\ Announced \in Nat
  BY <1>2, AnnouncedType
<1>6. ASSUME todo # <<>> PROVE Head(todo).width \in Nat
  <2>1. Head(todo) \in Items
    BY <1>2, <1>6
  <2> QED BY <2>1, ItemShape
<1>7. ~(length < LenMod) => length >= LenMod /\ 2 * length >= LenMod
  BY <1>2, <1>3
<1>8. CASE Underflow
  <2>1. Ends("dropped") /\ ~(length < LenMod)
    BY <1>1, <1>4, <1>5, <1>6, <1>8 DEF Underflow, Reading
  <2> QED BY <1>1, <1>7, <2>1, Ending
<1>9. CASE FetchFails
  <2>1. Ends("partial") /\ ~(length < LenMod)
    BY <1>1, <1>4, <1>5, <1>6, <1>9 DEF FetchFails, Reading
  <2> QED BY <1>1, <1>7, <2>1, Ending
<1>10. CASE FetchTextFails
  <2>1. Ends("indeterminate") /\ ~(length < LenMod)
    BY <1>1, <1>4, <1>5, <1>6, <1>10 DEF FetchTextFails, Reading
  <2> QED BY <1>1, <1>7, <2>1, Ending
<1> QED BY <1>8, <1>9, <1>10

LEMMA SendBodyStep ==
  ASSUME NEW strict \in BOOLEAN, Inv(strict), SendBody
  PROVE  Inv(strict)'
<1> DEFINE size == length % LenMod
<1>1. /\ phase = "write" /\ todo = <<>>
      /\ phase' = IF Java(Now.to) /\ 2 * size >= LenMod THEN "dropped" ELSE "read"
      /\ todo' = ReadAs(Now) /\ got' = <<>> /\ body' = SubSeq(body, 1, size)
      /\ UNCHANGED <<route, hop, meant, have, length>>
  BY DEF SendBody
<1>2. Typed /\ Meant
  BY DEF Inv
<1>3. /\ route \in Routes /\ hop \in DOMAIN route /\ body \in Seq(Octets)
      /\ length \in Nat /\ Len(body) <= length /\ meant \in Seq(Values)
      /\ have \in Seq(Values)
  BY <1>2 DEF Typed
<1>4. PICK w \in Seq(Values) : Written(strict, w)
  BY <1>1 DEF Inv
<1>5. /\ Parses(w, ReadAs(Now), <<>>) /\ body = Coded(w) /\ length = Len(body)
      /\ hop = 1 => w = meant
      /\ hop > 1 => Parses(have, <<>>, <<>>) /\ (strict => Carried(w \o have))
  BY <1>1, <1>4 DEF Written
<1>6. ReadAs(Now) \in Seq(Items) /\ hop \in Nat /\ hop >= 1
  <2>1. ReadAs(Now) \in Seq(Items)
    BY <1>3, RouteLayouts DEF Now
  <2>2. DOMAIN route = {1} \/ Len(route) = 4
    BY <1>3, RouteLayouts
  <2>3. route = ConfigRoute => DOMAIN route = 1..4
    BY DEF ConfigRoute
  <2>4. route # ConfigRoute => DOMAIN route = {1}
    BY <1>3, RouteLayouts
  <2> QED BY <1>3, <2>1, <2>3, <2>4
<1>7. LenMod \in Nat /\ LenMod > 0 /\ size \in Nat /\ size <= length
      /\ (length < LenMod => size = length)
  <2>1. LenMod \in Nat /\ LenMod > 0
    BY LenModPositive
  <2> QED BY <1>3, <2>1
<1>8. (Now)' = Now /\ ReadAs(Now)' = ReadAs(Now)
  BY <1>1 DEF Now
<1> HIDE DEF size
<1>9. body' \in Seq(Octets) /\ Len(body') <= length
  <2>1. \A i \in 1..size : body[i] \in Octets
    BY <1>3, <1>5, <1>7
  <2>2. /\ SubSeq(body, 1, size) \in Seq(Octets)
        /\ Len(SubSeq(body, 1, size)) = IF 1 <= size THEN size - 1 + 1 ELSE 0
    BY <1>7, <2>1, SubSeqProperties
  <2> QED BY <1>1, <1>7, <2>2
<1>10. Typed'
  <2>1. phase' \in {"dropped", "read"} /\ got' \in Seq(Values)
    BY <1>1
  <2> QED BY <1>1, <1>3, <1>6, <1>9, <2>1 DEF Typed
<1>11. Meant'
  <2>1. \A i \in 1..Len(meant) : meant[i].kind = "text" => meant[i].v \in Seq(Plain)
    BY <1>2 DEF Meant
  <2>2. Parses(meant, ReadAs(Now), <<>>)
    BY <1>2, <1>5, <1>6 DEF Meant
  <2> HIDE DEF Plain
  <2> QED BY <1>1, <1>8, <2>1, <2>2 DEF Meant
<1>12. FailsOnlyIfTooLong'
  <2>1. phase' = "dropped" => 2 * length' >= LenMod
    BY <1>1, <1>3, <1>7
  <2>2. phase' \notin {"partial", "indeterminate"}
    BY <1>1
  <2> QED BY <2>1, <2>2 DEF FailsOnlyIfTooLong
<1>13. RestartKeepsConfig'
  <2>1. phase' # "restarted"
    BY <1>1
  <2> QED BY <2>1 DEF RestartKeepsConfig
<1>14. Parses(<<>>, ReadAs(Now), ReadAs(Now))
  BY <1>6, ParsesNone
<1>15. (phase = "read" /\ Java(Now.to) => 2 * (length % LenMod) < LenMod)'
  BY <1>1, <1>7, <1>8 DEF size
<1>16. ASSUME length < LenMod PROVE Fetched(strict, w)'
  <2>1. Len(got') = 0 /\ Len(w) \in Nat
    BY <1>1
  <2>2. Unread(w)' = w
    <3>1. SubSeq(w, 1, Len(w)) = w
      BY SubSeqFull
    <3> QED BY <2>1, <3>1 DEF Unread
  <2>3. body' = body
    <3>1. SubSeq(body, 1, Len(body)) = body
      BY <1>3, SubSeqFull
    <3> QED BY <1>1, <1>5, <1>7, <1>16, <3>1
  <2>4. (Len(got) <= Len(w))' /\ (\A i \in 1..Len(got) : got[i] = Told(Java(Now.to), w[i]))'
    BY <2>1
  <2>5. Parses(Unread(w), todo, <<>>)' /\ (body = Coded(Unread(w)))'
    BY <1>1, <1>5, <2>2, <2>3
  <2>6. (hop = 1 => w = meant)' /\ (hop > 1 /\ strict => Carried(w))'
    <3>1. ASSUME hop > 1, strict PROVE Carried(w)
      <4>1. have = <<>>
        <5>1. SUFFICES ASSUME have # <<>> PROVE FALSE
          OBVIOUS
        <5>2. Parses(have, <<>>, <<>>)
          BY <1>5, <3>1
        <5> QED BY <1>3, <5>1, <5>2, ParsesFirst
      <4>2. w \o have = w
        BY <4>1, ConcatEmptySeq
      <4> QED BY <1>5, <3>1, <4>2
    <3>2. Carried(w) => Carried(w)'
      BY <1>1 DEF Carried, Kept, NoneHas
    <3> QED BY <1>1, <1>5, <3>1, <3>2
  <2> QED BY <2>4, <2>5, <2>6 DEF Fetched
<1>17. phase' \in {"dropped", "read"}
  BY <1>1
<1> QED BY <1>1, <1>8, <1>10, <1>11, <1>12, <1>13, <1>14, <1>15, <1>16, <1>17 DEF Inv

-----------------------------------------------------------------------------
(* What a configuration is made of.                                        *)

\* The values of a configuration with n services, in their order.
IsConfig(x, n) ==
  /\ x \in Seq(Values) /\ Len(x) = 6 + 3 * n
  /\ Matches(x[1], Num("agentId", 2)) /\ Matches(x[2], Str("tempPath"))
  /\ Matches(x[3], Num("tempDivider", 2))
  /\ x[4] = Value("list", "services", Count(n))
  /\ \A i \in 1..n : /\ Matches(x[2 + 3 * i], Str("service"))
                     /\ Matches(x[3 + 3 * i], Num("tcp", 1))
                     /\ Matches(x[4 + 3 * i], Num("port", 2))
  /\ Matches(x[5 + 3 * n], Num("interval", 2)) /\ Matches(x[6 + 3 * n], Str("name"))

\* What comes before the last m services, and what follows the last one.
ServicesLeft(m) == Repeat(m, TPacketConfigService) \o <<Num("interval", 2), Str("name")>>

LEMMA ConfigItems ==
  /\ Num("agentId", 2) \in Items /\ Str("tempPath") \in Items
  /\ Num("tempDivider", 2) \in Items /\ Num("interval", 2) \in Items
  /\ Str("name") \in Items /\ Str("service") \in Items
  /\ Num("tcp", 1) \in Items /\ Num("port", 2) \in Items
  /\ List("services", TPacketConfigService) \in Items
  /\ TPacketConfigService \in Seq(Items) /\ Len(TPacketConfigService) = 3
<1>1. /\ "agentId" \in Fields /\ "tempPath" \in Fields /\ "tempDivider" \in Fields
      /\ "interval" \in Fields /\ "name" \in Fields /\ "service" \in Fields
      /\ "tcp" \in Fields /\ "port" \in Fields /\ "services" \in Fields
  BY DEF Fields
<1>2. /\ Num("agentId", 2) \in Flat /\ Str("tempPath") \in Flat
      /\ Num("tempDivider", 2) \in Flat /\ Num("interval", 2) \in Flat
      /\ Str("name") \in Flat /\ Str("service") \in Flat
      /\ Num("tcp", 1) \in Flat /\ Num("port", 2) \in Flat
  BY <1>1, FieldItems
<1>3. /\ TPacketConfigService \in Seq(Flat) \ {<<>>} /\ TPacketConfigService \in Seq(Items)
      /\ Len(TPacketConfigService) = 3
  BY <1>2, FieldItems DEF TPacketConfigService
<1>4. List("services", TPacketConfigService) \in Items
  BY <1>1, <1>3, FieldItems
<1> QED BY <1>2, <1>3, <1>4, FieldItems

\* One repetition more.
LEMMA RepeatMore ==
  ASSUME NEW m \in Nat, NEW l \in Seq(Items)
  PROVE  Repeat(m + 1, l) = l \o Repeat(m, l)
<1> DEFINE q == [i \in 1..m + 1 |-> l]
           p == [i \in 1..m |-> l]
<1>1. /\ q \in Seq(Seq(Items)) /\ Len(q) = m + 1 /\ \A i \in 1..m + 1 : q[i] = l
      /\ p \in Seq(Seq(Items)) /\ Len(p) = m /\ \A i \in 1..m : p[i] = l
  OBVIOUS
<1> HIDE DEF q, p
<1>2. q # <<>>
  BY <1>1
<1>3. Tail(q) = p
  <2>1. PICK t \in Seq(Seq(Items)) :
          t = Tail(q) /\ Len(t) = m /\ \A i \in 1..m : t[i] = q[i + 1]
    <3>1. Tail(q) \in Seq(Seq(Items)) /\ Len(Tail(q)) = Len(q) - 1
      BY <1>1, <1>2, HeadTailProperties
    <3>2. \A i \in 1..Len(Tail(q)) : Tail(q)[i] = q[i + 1]
      BY <1>1, <1>2, HeadTailProperties
    <3>3. Len(Tail(q)) = m
      BY <1>1, <3>1
    <3> QED BY <3>1, <3>2, <3>3
  <2>2. \A i \in 1..m : i + 1 \in 1..m + 1
    OBVIOUS
  <2>3. Len(t) = Len(p) /\ \A i \in 1..Len(t) : t[i] = p[i]
    BY <1>1, <2>1, <2>2
  <2> QED BY <1>1, <2>1, <2>3, SeqEqual
<1>4. FlattenSeq(q) = q[1] \o FlattenSeq(Tail(q))
  BY <1>1, <1>2, FlattenFirst
<1>5. q[1] = l
  <2>1. 1 \in 1..m + 1
    OBVIOUS
  <2> QED BY <1>1, <2>1
<1> QED BY <1>3, <1>4, <1>5 DEF Repeat, q, p

\* s is the three elements of f and then q.
FirstThree(S, s, f, q) ==
  /\ s \in Seq(S) /\ s # <<>> /\ Head(s) = f[1]
  /\ Tail(s) \in Seq(S) /\ Tail(s) # <<>> /\ Head(Tail(s)) = f[2]
  /\ Tail(Tail(s)) \in Seq(S) /\ Tail(Tail(s)) # <<>>
  /\ Head(Tail(Tail(s))) = f[3] /\ Tail(Tail(Tail(s))) = q

LEMMA HeadOfThree ==
  ASSUME NEW S, NEW f \in Seq(S), Len(f) = 3, NEW q \in Seq(S)
  PROVE  FirstThree(S, f \o q, f, q)
<1> DEFINE s == f \o q
           a == f[1]
           b == f[2]
           c == f[3]
<1>1. f \in Seq(S) /\ Len(f) = 3 /\ f[1] = a /\ f[2] = b /\ f[3] = c
  OBVIOUS
<1>0. s = f \o q
  OBVIOUS
<1> HIDE DEF a, b, c, s
<1>2. PICK n \in Nat : n = Len(q)
  OBVIOUS
<1>3. PICK t \in Seq(S) :
        /\ t = s /\ Len(t) = 3 + n
        /\ \A i \in 1..3 + n : t[i] = IF i <= 3 THEN f[i] ELSE q[i - 3]
  <2>1. s = f \o q
    BY <1>0
  <2>2. /\ f \o q \in Seq(S) /\ Len(f \o q) = Len(f) + Len(q)
        /\ \A i \in 1..Len(f) + Len(q) : (f \o q)[i] =
             IF i <= Len(f) THEN f[i] ELSE q[i - Len(f)]
    BY <1>1, ConcatProperties
  <2> QED BY <1>1, <1>2, <2>1, <2>2
<1>4. /\ 1 \in 1..3 + n /\ 2 \in 1..3 + n /\ 3 \in 1..3 + n
      /\ \A i \in 1..n : i + 3 \in 1..3 + n /\ ~(i + 3 <= 3) /\ (i + 3) - 3 = i
  OBVIOUS
<1>5. t[1] = a /\ t[2] = b /\ t[3] = c /\ \A i \in 1..n : t[i + 3] = q[i]
  <2>1. 1 <= 3 /\ 2 <= 3 /\ 3 <= 3
    OBVIOUS
  <2>2. t[1] = f[1] /\ t[2] = f[2] /\ t[3] = f[3]
    BY <1>3, <1>4, <2>1
  <2>3. \A i \in 1..n : t[i + 3] = q[i]
    BY <1>3, <1>4
  <2> QED BY <1>1, <2>2, <2>3
<1>6. PICK u \in Seq(S) : u = Tail(t) /\ Len(u) = 2 + n /\ \A i \in 1..2 + n : u[i] = t[i + 1]
  <2>1. t # <<>>
    BY <1>3
  <2>2. /\ Tail(t) \in Seq(S) /\ Len(Tail(t)) = 2 + n
    BY <1>3, <2>1, HeadTailProperties
  <2>3. \A i \in 1..Len(Tail(t)) : Tail(t)[i] = t[i + 1]
    BY <2>1, HeadTailProperties
  <2> QED BY <2>2, <2>3
<1>7. PICK v \in Seq(S) : v = Tail(u) /\ Len(v) = 1 + n /\ \A i \in 1..1 + n : v[i] = u[i + 1]
  <2>1. u # <<>>
    <3>1. 2 + n # 0
      OBVIOUS
    <3>2. Len(u) # 0
      BY <1>6, <3>1
    <3> QED BY <3>2
  <2>2. /\ Tail(u) \in Seq(S) /\ Len(Tail(u)) = 1 + n
    BY <1>6, <2>1, HeadTailProperties
  <2>3. \A i \in 1..Len(Tail(u)) : Tail(u)[i] = u[i + 1]
    BY <2>1, HeadTailProperties
  <2> QED BY <2>2, <2>3
<1>8. PICK w \in Seq(S) : w = Tail(v) /\ Len(w) = n /\ \A i \in 1..n : w[i] = v[i + 1]
  <2>1. v # <<>>
    <3>1. 1 + n # 0
      OBVIOUS
    <3>2. Len(v) # 0
      BY <1>7, <3>1
    <3> QED BY <3>2
  <2>2. /\ Tail(v) \in Seq(S) /\ Len(Tail(v)) = n
    BY <1>7, <2>1, HeadTailProperties
  <2>3. \A i \in 1..Len(Tail(v)) : Tail(v)[i] = v[i + 1]
    BY <2>1, HeadTailProperties
  <2> QED BY <2>2, <2>3
<1>9. t # <<>> /\ u # <<>> /\ v # <<>>
  <2>1. 3 + n # 0 /\ 2 + n # 0 /\ 1 + n # 0
    OBVIOUS
  <2>2. Len(t) # 0 /\ Len(u) # 0 /\ Len(v) # 0
    BY <1>3, <1>6, <1>7, <2>1
  <2> QED BY <2>2
<1>10. Head(t) = a /\ Head(u) = b /\ Head(v) = c
  <2>1. 1 \in 1..2 + n /\ 1 \in 1..1 + n /\ 1 + 1 \in 1..2 + n /\ 1 + 1 = 2 /\ 2 + 1 = 3
    OBVIOUS
  <2>2. u[1] = b /\ v[1] = c
    BY <1>5, <1>6, <1>7, <2>1
  <2> QED BY <1>5, <1>9, <2>2
<1>11. w = q
  <2>1. ASSUME NEW i \in 1..n PROVE w[i] = q[i]
    <3>1. i + 1 \in 1..1 + n /\ i + 1 + 1 \in 1..2 + n /\ i + 1 + 1 + 1 = i + 3
      OBVIOUS
    <3>2. w[i] = v[i + 1] /\ v[i + 1] = u[i + 1 + 1] /\ u[i + 1 + 1] = t[i + 1 + 1 + 1]
      BY <1>6, <1>7, <1>8, <3>1
    <3> QED BY <1>5, <3>1, <3>2
  <2>2. Len(w) = Len(q) /\ \A i \in 1..Len(w) : w[i] = q[i]
    BY <1>2, <1>8, <2>1
  <2> QED BY <2>2, SeqEqual
<1>12. FirstThree(S, s, f, q)
  BY <1>1, <1>3, <1>6, <1>7, <1>8, <1>9, <1>10, <1>11 DEF FirstThree
<1> QED BY <1>0, <1>12

LEMMA ServicesLeftSteps ==
  /\ ServicesLeft(0) = <<Num("interval", 2), Str("name")>>
  /\ \A m \in Nat :
       LET s == ServicesLeft(m + 1)
       IN  /\ ServicesLeft(m) \in Seq(Items)
           /\ s \in Seq(Items) /\ s # <<>> /\ Head(s) = Str("service")
           /\ Tail(s) \in Seq(Items) /\ Tail(s) # <<>> /\ Head(Tail(s)) = Num("tcp", 1)
           /\ Tail(Tail(s)) \in Seq(Items) /\ Tail(Tail(s)) # <<>>
           /\ Head(Tail(Tail(s))) = Num("port", 2)
           /\ Tail(Tail(Tail(s))) = ServicesLeft(m)
<1> DEFINE l == TPacketConfigService
           e == <<Num("interval", 2), Str("name")>>
<1>1. e \in Seq(Items) /\ l \in Seq(Items) /\ Len(l) = 3 /\ l # <<>>
  <2>1. e \in Seq(Items)
    BY ConfigItems
  <2>2. l \in Seq(Items) /\ Len(l) = 3
    BY ConfigItems
  <2> QED BY <2>1, <2>2
<1>2. l = <<Str("service"), Num("tcp", 1), Num("port", 2)>>
  BY DEF TPacketConfigService
<1> HIDE DEF l, e
<1>3. \A m \in Nat : ServicesLeft(m) = Repeat(m, l) \o e
  BY DEF ServicesLeft, l, e
<1>4. ServicesLeft(0) = e
  <2>1. [i \in 1..0 |-> l] = <<>>
    OBVIOUS
  <2>2. Repeat(0, l) = <<>>
    BY <2>1, FlattenNone DEF Repeat
  <2> QED BY <1>1, <1>3, <2>2, ConcatEmptySeq
<1>5. ASSUME NEW m \in Nat
      PROVE  /\ ServicesLeft(m) \in Seq(Items)
             /\ ServicesLeft(m + 1) = l \o ServicesLeft(m)
  <2>1. PICK r \in Seq(Items) : r = Repeat(m, l)
    BY <1>1, RepeatType
  <2>2. Repeat(m + 1, l) = l \o r
    BY <1>1, <2>1, RepeatMore
  <2>3. (l \o r) \o e = l \o (r \o e) /\ r \o e \in Seq(Items)
    BY <1>1, <2>1
  <2>4. ServicesLeft(m) = r \o e /\ ServicesLeft(m + 1) = (l \o r) \o e
    <3>1. m + 1 \in Nat
      OBVIOUS
    <3> QED BY <1>3, <2>1, <2>2, <3>1
  <2> QED BY <1>2, <2>3, <2>4
<1>6. ASSUME NEW m \in Nat
      PROVE  LET s == ServicesLeft(m + 1)
             IN  /\ ServicesLeft(m) \in Seq(Items)
                 /\ s \in Seq(Items) /\ s # <<>> /\ Head(s) = Str("service")
                 /\ Tail(s) \in Seq(Items) /\ Tail(s) # <<>> /\ Head(Tail(s)) = Num("tcp", 1)
                 /\ Tail(Tail(s)) \in Seq(Items) /\ Tail(Tail(s)) # <<>>
                 /\ Head(Tail(Tail(s))) = Num("port", 2)
                 /\ Tail(Tail(Tail(s))) = ServicesLeft(m)
  <2>1. l[1] = Str("service") /\ l[2] = Num("tcp", 1) /\ l[3] = Num("port", 2)
    BY <1>2
  <2>2. PICK q \in Seq(Items) : q = ServicesLeft(m) /\ ServicesLeft(m + 1) = l \o q
    BY <1>5
  <2>3. LET s == ServicesLeft(m + 1)
        IN  /\ s \in Seq(Items) /\ s # <<>> /\ Head(s) = l[1]
            /\ Tail(s) \in Seq(Items) /\ Tail(s) # <<>> /\ Head(Tail(s)) = l[2]
            /\ Tail(Tail(s)) \in Seq(Items) /\ Tail(Tail(s)) # <<>>
            /\ Head(Tail(Tail(s))) = l[3] /\ Tail(Tail(Tail(s))) = q
    <3>1. FirstThree(Items, l \o q, l, q)
      BY <1>1, <2>2, HeadOfThree
    <3> QED BY <2>2, <3>1 DEF FirstThree
  <2> QED BY <2>1, <2>2, <2>3
<1> QED BY <1>4, <1>6 DEF e

\* The tails of the layout of a configuration.
LEMMA ConfigTails ==
  LET c == TPacketConfig
  IN  /\ c \in Seq(Items) /\ c # <<>> /\ Head(c) = Num("agentId", 2)
      /\ Tail(c) \in Seq(Items) /\ Tail(c) # <<>> /\ Head(Tail(c)) = Str("tempPath")
      /\ Tail(Tail(c)) \in Seq(Items) /\ Tail(Tail(c)) # <<>>
      /\ Head(Tail(Tail(c))) = Num("tempDivider", 2)
      /\ Tail(Tail(Tail(c))) \in Seq(Items) /\ Tail(Tail(Tail(c))) # <<>>
      /\ Head(Tail(Tail(Tail(c)))) = List("services", TPacketConfigService)
      /\ Tail(Tail(Tail(Tail(c)))) = ServicesLeft(0)
<1> DEFINE a == Num("agentId", 2)
           b == Str("tempPath")
           d == Num("tempDivider", 2)
           l == List("services", TPacketConfigService)
           i == Num("interval", 2)
           m == Str("name")
<1>1. TPacketConfig = <<a, b, d, l, i, m>> /\ ServicesLeft(0) = <<i, m>>
  BY ServicesLeftSteps DEF TPacketConfig
<1>2. {a, b, d, l, i, m} \subseteq Items
  BY ConfigItems
<1> HIDE DEF a, b, d, l, i, m, Items
<1>3. a \in Items /\ b \in Items /\ d \in Items /\ l \in Items /\ i \in Items /\ m \in Items
  BY <1>2
<1>4. PICK c, c2, c3, c4, c5 :
        /\ c = <<a, b, d, l, i, m>> /\ c2 = <<b, d, l, i, m>> /\ c3 = <<d, l, i, m>>
        /\ c4 = <<l, i, m>> /\ c5 = <<i, m>>
  OBVIOUS
<1>5. c \in Seq(Items) /\ c # <<>> /\ Head(c) = a /\ Tail(c) = c2
  BY <1>3, <1>4
<1>6. c2 \in Seq(Items) /\ c2 # <<>> /\ Head(c2) = b /\ Tail(c2) = c3
  BY <1>3, <1>4
<1>7. c3 \in Seq(Items) /\ c3 # <<>> /\ Head(c3) = d /\ Tail(c3) = c4
  BY <1>3, <1>4
<1>8. c4 \in Seq(Items) /\ c4 # <<>> /\ Head(c4) = l /\ Tail(c4) = c5
  BY <1>3, <1>4
<1> QED BY <1>1, <1>4, <1>5, <1>6, <1>7, <1>8 DEF a, b, d, l

\* The value at i, where tr tells what is to come.
GoesOn(vals, tr, i) ==
  /\ i \in 1..Len(vals) /\ i + 1 \in 1..Len(vals) + 1
  /\ vals[i] \in Values /\ Matches(vals[i], Head(tr[i]))
  /\ tr[i + 1] = Rest(vals[i], tr[i])
  /\ Head(tr[i]).kind # "list" => tr[i + 1] = Tail(tr[i])

LEMMA ParsedNext ==
  ASSUME NEW vals \in Seq(Values), NEW tr, Parsed(vals, tr), tr[Len(vals) + 1] = <<>>,
         NEW i \in 1..Len(vals) + 1, tr[i] # <<>>
  PROVE  GoesOn(vals, tr, i)
<1>1. Len(vals) \in Nat
  OBVIOUS
<1>2. i # Len(vals) + 1
  OBVIOUS
<1>3. i \in 1..Len(vals) /\ i + 1 \in 1..Len(vals) + 1
  BY <1>1, <1>2
<1>4. vals[i] \in Values
  BY <1>3
<1>5. Matches(vals[i], Head(tr[i])) /\ tr[i + 1] = Rest(vals[i], tr[i]) /\ tr[i] \in Seq(Items)
  BY <1>3 DEF Parsed
<1>6. Head(tr[i]).kind # "list" => Rest(vals[i], tr[i]) = Tail(tr[i])
  BY <1>5, RestType
<1> QED BY <1>3, <1>4, <1>5, <1>6 DEF GoesOn

LEMMA ItemKinds ==
  /\ \A f, w : Num(f, w).kind = "number" /\ Num(f, w).f = f /\ Num(f, w).width = w
  /\ \A f : Str(f).kind = "text" /\ Str(f).f = f
  /\ \A f, l : List(f, l).kind = "list" /\ List(f, l).f = f /\ List(f, l).of = l
BY DEF Num, Str, List

\* What comes before the services of a configuration, and how many they are.
LEMMA ConfigBegins ==
  ASSUME NEW x \in Seq(Values), NEW tr, Parsed(x, tr), tr[Len(x) + 1] = <<>>,
         tr[1] = TPacketConfig
  PROVE  \E n \in Nat :
           /\ Matches(x[1], Num("agentId", 2)) /\ Matches(x[2], Str("tempPath"))
           /\ Matches(x[3], Num("tempDivider", 2))
           /\ x[4] = Value("list", "services", Count(n))
           /\ 5 \in 1..Len(x) + 1 /\ tr[5] = ServicesLeft(n)
<1>1. PICK c1, c2, c3, c4 :
        /\ c1 = TPacketConfig
        /\ c1 # <<>> /\ Head(c1) = Num("agentId", 2) /\ Tail(c1) = c2
        /\ c2 # <<>> /\ Head(c2) = Str("tempPath") /\ Tail(c2) = c3
        /\ c3 # <<>> /\ Head(c3) = Num("tempDivider", 2) /\ Tail(c3) = c4
        /\ c4 # <<>> /\ Head(c4) = List("services", TPacketConfigService)
        /\ Tail(c4) = ServicesLeft(0)
  BY ConfigTails
<1>2. tr[1] = c1 /\ 1 \in 1..Len(x) + 1
  BY <1>1
<1>3. Matches(x[1], Num("agentId", 2)) /\ tr[2] = c2 /\ 2 \in 1..Len(x) + 1
  <2>1. GoesOn(x, tr, 1)
    BY <1>1, <1>2, ParsedNext
  <2>2. Head(tr[1]).kind # "list" /\ 1 + 1 = 2
    BY <1>1, <1>2, ItemKinds
  <2> QED BY <1>1, <1>2, <2>1, <2>2 DEF GoesOn
<1>4. Matches(x[2], Str("tempPath")) /\ tr[3] = c3 /\ 3 \in 1..Len(x) + 1
  <2>1. GoesOn(x, tr, 2)
    BY <1>1, <1>3, ParsedNext
  <2>2. Head(tr[2]).kind # "list" /\ 2 + 1 = 3
    BY <1>1, <1>3, ItemKinds
  <2> QED BY <1>1, <1>3, <2>1, <2>2 DEF GoesOn
<1>5. Matches(x[3], Num("tempDivider", 2)) /\ tr[4] = c4 /\ 4 \in 1..Len(x) + 1
  <2>1. GoesOn(x, tr, 3)
    BY <1>1, <1>4, ParsedNext
  <2>2. Head(tr[3]).kind # "list" /\ 3 + 1 = 4
    BY <1>1, <1>4, ItemKinds
  <2> QED BY <1>1, <1>4, <2>1, <2>2 DEF GoesOn
<1>6. /\ x[4] \in Values /\ Matches(x[4], List("services", TPacketConfigService))
      /\ 5 \in 1..Len(x) + 1 /\ tr[5] = Rest(x[4], tr[4])
  <2>1. GoesOn(x, tr, 4)
    BY <1>1, <1>5, ParsedNext
  <2>2. 4 + 1 = 5
    OBVIOUS
  <2> QED BY <1>1, <1>5, <2>1, <2>2 DEF GoesOn
<1>7. PICK n \in Nat : x[4].v = Count(n)
  BY <1>6, ItemKinds DEF Matches
<1>8. x[4] = Value("list", "services", Count(n))
  <2>1. x[4].kind = "list" /\ x[4].f = "services"
    BY <1>6, ItemKinds DEF Matches
  <2>2. \A y \in Values : y = [kind |-> y.kind, f |-> y.f, v |-> y.v]
    BY DEF Values
  <2> QED BY <1>6, <1>7, <2>1, <2>2 DEF Value
<1>9. tr[5] = ServicesLeft(n)
  <2>1. x[4].v[1].at = n
    BY <1>7 DEF Count, Byte
  <2>2. /\ Head(tr[4]).kind = "list" /\ Head(tr[4]).of = TPacketConfigService
        /\ Tail(tr[4]) = ServicesLeft(0)
    BY <1>1, <1>5, ItemKinds
  <2>3. Rest(x[4], tr[4]) = Repeat(n, TPacketConfigService) \o ServicesLeft(0)
    BY <2>1, <2>2 DEF Rest
  <2>4. ServicesLeft(0) = <<Num("interval", 2), Str("name")>>
    BY ServicesLeftSteps
  <2> QED BY <1>6, <2>3, <2>4 DEF ServicesLeft
<1> QED BY <1>3, <1>4, <1>5, <1>6, <1>8, <1>9

\* One service.
ServiceAt(x, k) ==
  /\ Matches(x[k], Str("service")) /\ Matches(x[k + 1], Num("tcp", 1))
  /\ Matches(x[k + 2], Num("port", 2))

LEMMA ServiceNext ==
  ASSUME NEW x \in Seq(Values), NEW tr, Parsed(x, tr), tr[Len(x) + 1] = <<>>,
         NEW k \in 1..Len(x) + 1, NEW m \in Nat, tr[k] = ServicesLeft(m + 1)
  PROVE  ServiceAt(x, k) /\ k + 3 \in 1..Len(x) + 1 /\ tr[k + 3] = ServicesLeft(m)
<1>1. PICK s1, s2, s3 :
        /\ s1 = ServicesLeft(m + 1)
        /\ s1 # <<>> /\ Head(s1) = Str("service") /\ Tail(s1) = s2
        /\ s2 # <<>> /\ Head(s2) = Num("tcp", 1) /\ Tail(s2) = s3
        /\ s3 # <<>> /\ Head(s3) = Num("port", 2) /\ Tail(s3) = ServicesLeft(m)
  BY ServicesLeftSteps
<1>2. k \in Nat /\ (k + 1) + 1 = k + 2 /\ (k + 2) + 1 = k + 3
  OBVIOUS
<1>3. Matches(x[k], Str("service")) /\ tr[k + 1] = s2 /\ k + 1 \in 1..Len(x) + 1
  <2>1. GoesOn(x, tr, k)
    BY <1>1, ParsedNext
  <2>2. Head(tr[k]).kind # "list"
    BY <1>1, ItemKinds
  <2> QED BY <1>1, <2>1, <2>2 DEF GoesOn
<1>4. Matches(x[k + 1], Num("tcp", 1)) /\ tr[k + 2] = s3 /\ k + 2 \in 1..Len(x) + 1
  <2>1. GoesOn(x, tr, k + 1)
    BY <1>1, <1>3, ParsedNext
  <2>2. Head(tr[k + 1]).kind # "list"
    BY <1>1, <1>3, ItemKinds
  <2> QED BY <1>1, <1>2, <1>3, <2>1, <2>2 DEF GoesOn
<1>5. /\ Matches(x[k + 2], Num("port", 2)) /\ tr[k + 3] = ServicesLeft(m)
      /\ k + 3 \in 1..Len(x) + 1
  <2>1. GoesOn(x, tr, k + 2)
    BY <1>1, <1>4, ParsedNext
  <2>2. Head(tr[k + 2]).kind # "list"
    BY <1>1, <1>4, ItemKinds
  <2> QED BY <1>1, <1>2, <1>4, <2>1, <2>2 DEF GoesOn
<1> QED BY <1>3, <1>4, <1>5 DEF ServiceAt

LEMMA ConfigServices ==
  ASSUME NEW x \in Seq(Values), NEW tr, Parsed(x, tr), tr[Len(x) + 1] = <<>>,
         NEW n \in Nat, 5 \in 1..Len(x) + 1, tr[5] = ServicesLeft(n)
  PROVE  /\ 5 + 3 * n \in 1..Len(x) + 1 /\ tr[5 + 3 * n] = ServicesLeft(0)
         /\ \A i \in 1..n : ServiceAt(x, 2 + 3 * i)
<1> DEFINE Good(i) == 5 + 3 * i \in 1..Len(x) + 1 /\ tr[5 + 3 * i] = ServicesLeft(n - i)
           T == {i \in 0..n : ~Good(i)}
<1>1. ASSUME NEW i \in 0..n, i # n, Good(i)
      PROVE  ServiceAt(x, 2 + 3 * (i + 1)) /\ Good(i + 1)
  <2>1. /\ n - (i + 1) \in Nat /\ n - i = (n - (i + 1)) + 1
        /\ 2 + 3 * (i + 1) = 5 + 3 * i /\ 5 + 3 * (i + 1) = (5 + 3 * i) + 3
    <3>1. i \in Nat /\ i + 1 <= n
      BY <1>1
    <3>2. n - (i + 1) \in Nat /\ n - i = (n - (i + 1)) + 1
      BY <3>1
    <3>3. 3 * (i + 1) = 3 * i + 3
      BY <3>1
    <3>4. 2 + 3 * (i + 1) = 5 + 3 * i /\ 5 + 3 * (i + 1) = (5 + 3 * i) + 3
      BY <3>1, <3>3
    <3> QED BY <3>2, <3>4
  <2>2. tr[5 + 3 * i] = ServicesLeft((n - (i + 1)) + 1)
    BY <1>1, <2>1
  <2>3. 5 + 3 * i \in 1..Len(x) + 1
    BY <1>1
  <2>4. /\ ServiceAt(x, 5 + 3 * i) /\ (5 + 3 * i) + 3 \in 1..Len(x) + 1
        /\ tr[(5 + 3 * i) + 3] = ServicesLeft(n - (i + 1))
    BY <2>1, <2>2, <2>3, ServiceNext
  <2> QED BY <2>1, <2>4
<1>2. Good(0)
  OBVIOUS
<1>3. T = {}
  <2>1. SUFFICES ASSUME T # {} PROVE FALSE
    OBVIOUS
  <2>2. T \subseteq Nat
    OBVIOUS
  <2>3. PICK i \in T : \A j \in T : i <= j
    <3> HIDE DEF T
    <3> QED BY <2>1, <2>2, LeastNat
  <2>4. i \in 0..n /\ ~Good(i)
    BY <2>3
  <2> HIDE DEF Good
  <2>5. i - 1 \in 0..n /\ i - 1 # n /\ (i - 1) + 1 = i /\ ~(i <= i - 1)
    <3>1. i # 0
      BY <1>2, <2>4
    <3> QED BY <2>4, <3>1
  <2>6. Good(i - 1)
    BY <2>3, <2>5
  <2> QED BY <1>1, <2>4, <2>5, <2>6
<1>4. n \in 0..n /\ n - n = 0
  OBVIOUS
<1>5. ASSUME NEW i \in 1..n PROVE ServiceAt(x, 2 + 3 * i)
  <2>1. i - 1 \in 0..n /\ i - 1 # n /\ (i - 1) + 1 = i
    OBVIOUS
  <2>2. Good(i - 1)
    BY <1>3, <2>1
  <2> HIDE DEF Good
  <2>3. ServiceAt(x, 2 + 3 * ((i - 1) + 1))
    BY <1>1, <2>1, <2>2
  <2> QED BY <2>1, <2>3
<1>6. Good(n)
  BY <1>3, <1>4
<1> QED BY <1>4, <1>5, <1>6

\* What is read as a configuration is one.
LEMMA ConfigShape ==
  ASSUME NEW x \in Seq(Values), Parses(x, TPacketConfig, <<>>)
  PROVE  \E n \in Nat : IsConfig(x, n)
<1>1. PICK tr : Parsed(x, tr) /\ tr[1] = TPacketConfig /\ tr[Len(x) + 1] = <<>>
  BY DEF Parses
<1>2. PICK n \in Nat :
        /\ Matches(x[1], Num("agentId", 2)) /\ Matches(x[2], Str("tempPath"))
        /\ Matches(x[3], Num("tempDivider", 2))
        /\ x[4] = Value("list", "services", Count(n))
        /\ 5 \in 1..Len(x) + 1 /\ tr[5] = ServicesLeft(n)
  BY <1>1, ConfigBegins
<1>3. /\ 5 + 3 * n \in 1..Len(x) + 1 /\ tr[5 + 3 * n] = ServicesLeft(0)
      /\ \A i \in 1..n : ServiceAt(x, 2 + 3 * i)
  BY <1>1, <1>2, ConfigServices
<1>4. PICK s1, s2 :
        /\ s1 = ServicesLeft(0) /\ s1 # <<>> /\ Head(s1) = Num("interval", 2)
        /\ Tail(s1) = s2 /\ s2 # <<>> /\ Head(s2) = Str("name") /\ Tail(s2) = <<>>
  <2> DEFINE i == Num("interval", 2)
             m == Str("name")
  <2>1. ServicesLeft(0) = <<i, m>>
    BY ServicesLeftSteps
  <2> HIDE DEF i, m
  <2>2. /\ <<i, m>> # <<>> /\ Head(<<i, m>>) = i /\ Tail(<<i, m>>) = <<m>>
        /\ <<m>> # <<>> /\ Head(<<m>>) = m /\ Tail(<<m>>) = <<>>
    OBVIOUS
  <2> QED BY <2>1, <2>2 DEF i, m
<1>5. PICK k \in Nat : k = 5 + 3 * n /\ k + 1 = 6 + 3 * n /\ (k + 1) + 1 = k + 2
  OBVIOUS
<1>6. k \in 1..Len(x) + 1 /\ tr[k] = s1
  BY <1>3, <1>4, <1>5
<1>7. Matches(x[k], Num("interval", 2)) /\ tr[k + 1] = s2 /\ k + 1 \in 1..Len(x) + 1
  <2>1. GoesOn(x, tr, k)
    BY <1>1, <1>4, <1>6, ParsedNext
  <2>2. Head(tr[k]).kind # "list"
    BY <1>4, <1>6, ItemKinds
  <2> QED BY <1>4, <1>6, <2>1, <2>2 DEF GoesOn
<1>8. Matches(x[k + 1], Str("name")) /\ tr[k + 2] = <<>> /\ k + 2 \in 1..Len(x) + 1
  <2>1. GoesOn(x, tr, k + 1)
    BY <1>1, <1>4, <1>7, ParsedNext
  <2>2. Head(tr[k + 1]).kind # "list"
    BY <1>4, <1>7, ItemKinds
  <2> QED BY <1>4, <1>5, <1>7, <2>1, <2>2 DEF GoesOn
<1>9. k + 2 = Len(x) + 1
  <2>1. SUFFICES ASSUME k + 2 # Len(x) + 1 PROVE FALSE
    OBVIOUS
  <2>2. k + 2 \in 1..Len(x)
    BY <1>8, <2>1
  <2> QED BY <1>1, <1>8, <2>2 DEF Parsed
<1>10. Len(x) = 6 + 3 * n
  BY <1>5, <1>9
<1>11. \A i \in 1..n : (2 + 3 * i) + 1 = 3 + 3 * i /\ (2 + 3 * i) + 2 = 4 + 3 * i
  OBVIOUS
<1>12. \A i \in 1..n : /\ Matches(x[2 + 3 * i], Str("service"))
                       /\ Matches(x[3 + 3 * i], Num("tcp", 1))
                       /\ Matches(x[4 + 3 * i], Num("port", 2))
  BY <1>3, <1>11 DEF ServiceAt
<1> QED BY <1>2, <1>5, <1>7, <1>8, <1>10, <1>12 DEF IsConfig

\* One value more of what begins x.
LEMMA ParsesOn ==
  ASSUME NEW x \in Seq(Values), NEW k \in Nat, k < Len(x), NEW from, NEW to,
         Parses(SubSeq(x, 1, k), from, to), to # <<>>, Matches(x[k + 1], Head(to))
  PROVE  /\ Parses(SubSeq(x, 1, k + 1), from, Rest(x[k + 1], to))
         /\ Head(to).kind # "list" => Rest(x[k + 1], to) = Tail(to)
<1>1. k + 1 \in 1..Len(x) /\ k \in 0..Len(x)
  OBVIOUS
<1>2. PICK p \in Seq(Values) :
        p = SubSeq(x, 1, k) /\ Len(p) = k /\ \A i \in 1..k : p[i] = x[i]
  <2>1. \A i \in 1..k : x[i] \in Values
    BY <1>1
  <2>2. /\ SubSeq(x, 1, k) \in Seq(Values)
        /\ Len(SubSeq(x, 1, k)) = IF 1 <= k THEN k - 1 + 1 ELSE 0
        /\ \A i \in 1..k - 1 + 1 : SubSeq(x, 1, k)[i] = x[1 + i - 1]
    BY <2>1, SubSeqProperties
  <2>3. Len(SubSeq(x, 1, k)) = k /\ \A i \in 1..k : i \in 1..k - 1 + 1 /\ 1 + i - 1 = i
    BY <2>2
  <2> QED BY <2>2, <2>3
<1>3. PICK q \in Seq(Values) :
        q = SubSeq(x, 1, k + 1) /\ Len(q) = k + 1 /\ \A i \in 1..k + 1 : q[i] = x[i]
  <2>1. \A i \in 1..k + 1 : x[i] \in Values
    BY <1>1
  <2>2. /\ SubSeq(x, 1, k + 1) \in Seq(Values)
        /\ Len(SubSeq(x, 1, k + 1)) = IF 1 <= k + 1 THEN (k + 1) - 1 + 1 ELSE 0
        /\ \A i \in 1..(k + 1) - 1 + 1 : SubSeq(x, 1, k + 1)[i] = x[1 + i - 1]
    BY <2>1, SubSeqProperties
  <2>3. /\ Len(SubSeq(x, 1, k + 1)) = k + 1
        /\ \A i \in 1..k + 1 : i \in 1..(k + 1) - 1 + 1 /\ 1 + i - 1 = i
    BY <2>2
  <2> QED BY <2>2, <2>3
<1>4. x[k + 1] \in Values
  BY <1>1
<1>5. PICK a \in Seq(Values) :
        /\ a = Append(p, x[k + 1]) /\ Len(a) = k + 1
        /\ a[k + 1] = x[k + 1] /\ \A i \in 1..k : a[i] = p[i]
  <2>1. /\ Append(p, x[k + 1]) \in Seq(Values) /\ Len(Append(p, x[k + 1])) = Len(p) + 1
        /\ Append(p, x[k + 1])[Len(p) + 1] = x[k + 1]
        /\ \A i \in 1..Len(p) : Append(p, x[k + 1])[i] = p[i]
    BY <1>4, AppendProperties
  <2> QED BY <1>2, <2>1
<1>6. q = a
  <2>1. \A i \in 1..k + 1 : i = k + 1 \/ i \in 1..k
    OBVIOUS
  <2>2. Len(q) = Len(a) /\ \A i \in 1..Len(q) : q[i] = a[i]
    BY <1>2, <1>3, <1>5, <2>1
  <2> QED BY <2>2, SeqEqual
<1>7. Parses(a, from, Rest(x[k + 1], to))
  BY <1>2, <1>4, <1>5, ParsesAppend
<1>8. to \in Seq(Items)
  BY <1>2, ParsesTypes
<1> QED BY <1>3, <1>6, <1>7, <1>8, RestType

\* The first k values of x, before the fields "to".
Begun(x, k, to) == Parses(SubSeq(x, 1, k), TPacketConfig, to)

LEMMA BegunOn ==
  ASSUME NEW x \in Seq(Values), NEW k \in Nat, k < Len(x), NEW to, Begun(x, k, to),
         to # <<>>, Matches(x[k + 1], Head(to))
  PROVE  /\ Begun(x, k + 1, Rest(x[k + 1], to))
         /\ Head(to).kind # "list" => Begun(x, k + 1, Tail(to))
<1>1. Parses(SubSeq(x, 1, k), TPacketConfig, to)
  BY DEF Begun
<1>2. /\ Parses(SubSeq(x, 1, k + 1), TPacketConfig, Rest(x[k + 1], to))
      /\ Head(to).kind # "list" => Rest(x[k + 1], to) = Tail(to)
  BY <1>1, ParsesOn
<1> QED BY <1>2 DEF Begun

LEMMA ServiceBegun ==
  ASSUME NEW x \in Seq(Values), NEW k \in Nat, k + 3 <= Len(x), NEW m \in Nat,
         ServiceAt(x, k + 1), Begun(x, k, ServicesLeft(m + 1))
  PROVE  Begun(x, k + 3, ServicesLeft(m))
<1>1. PICK s1, s2, s3 :
        /\ s1 = ServicesLeft(m + 1)
        /\ s1 # <<>> /\ Head(s1) = Str("service") /\ Tail(s1) = s2
        /\ s2 # <<>> /\ Head(s2) = Num("tcp", 1) /\ Tail(s2) = s3
        /\ s3 # <<>> /\ Head(s3) = Num("port", 2) /\ Tail(s3) = ServicesLeft(m)
  BY ServicesLeftSteps
<1>2. /\ k + 1 \in Nat /\ k + 2 \in Nat /\ (k + 1) + 1 = k + 2 /\ (k + 2) + 1 = k + 3
      /\ (k + 1) + 2 = k + 3
      /\ k < Len(x) /\ k + 1 < Len(x) /\ k + 2 < Len(x)
  OBVIOUS
<1>3. /\ Head(s1).kind # "list" /\ Head(s2).kind # "list" /\ Head(s3).kind # "list"
  BY <1>1, ItemKinds
<1>4. /\ Matches(x[k + 1], Head(s1)) /\ Matches(x[k + 2], Head(s2))
      /\ Matches(x[k + 3], Head(s3))
  BY <1>1, <1>2 DEF ServiceAt
<1>5. Begun(x, k + 1, s2)
  BY <1>1, <1>2, <1>3, <1>4, BegunOn
<1>6. Begun(x, k + 2, s3)
  BY <1>1, <1>2, <1>3, <1>4, <1>5, BegunOn
<1> QED BY <1>1, <1>2, <1>3, <1>4, <1>6, BegunOn

\* A configuration is parsed as one.
LEMMA ConfigParses ==
  ASSUME NEW n \in Nat, NEW x, IsConfig(x, n)
  PROVE  Parses(x, TPacketConfig, <<>>)
<1>1. x \in Seq(Values) /\ Len(x) = 6 + 3 * n
  BY DEF IsConfig
<1>2. PICK c1, c2, c3, c4 :
        /\ c1 = TPacketConfig
        /\ c1 # <<>> /\ Head(c1) = Num("agentId", 2) /\ Tail(c1) = c2
        /\ c2 # <<>> /\ Head(c2) = Str("tempPath") /\ Tail(c2) = c3
        /\ c3 # <<>> /\ Head(c3) = Num("tempDivider", 2) /\ Tail(c3) = c4
        /\ c4 # <<>> /\ Head(c4) = List("services", TPacketConfigService)
        /\ Tail(c4) = ServicesLeft(0)
  BY ConfigTails
<1>3. Begun(x, 0, c1)
  <2>1. SubSeq(x, 1, 0) = <<>>
    BY <1>1
  <2>2. TPacketConfig \in Seq(Items)
    BY ConfigTails
  <2>3. Parses(<<>>, TPacketConfig, TPacketConfig)
    BY <2>2, ParsesNone
  <2> QED BY <1>2, <2>1, <2>3 DEF Begun
<1>4. /\ 0 < Len(x) /\ 1 < Len(x) /\ 2 < Len(x) /\ 3 < Len(x)
      /\ 0 + 1 = 1 /\ 1 + 1 = 2 /\ 2 + 1 = 3 /\ 3 + 1 = 4
  BY <1>1
<1>5. Head(c1).kind # "list" /\ Head(c2).kind # "list" /\ Head(c3).kind # "list"
  BY <1>2, ItemKinds
<1>6. Matches(x[1], Head(c1)) /\ Matches(x[2], Head(c2)) /\ Matches(x[3], Head(c3))
  BY <1>2 DEF IsConfig
<1>7. x[4] = Value("list", "services", Count(n))
  BY DEF IsConfig
<1>8. Matches(x[4], Head(c4))
  BY <1>2, <1>7, ItemKinds DEF Matches, Value
<1>9. Begun(x, 1, c2)
  BY <1>1, <1>2, <1>3, <1>4, <1>5, <1>6, BegunOn
<1>10. Begun(x, 2, c3)
  BY <1>1, <1>2, <1>4, <1>5, <1>6, <1>9, BegunOn
<1>11. Begun(x, 3, c4)
  BY <1>1, <1>2, <1>4, <1>5, <1>6, <1>10, BegunOn
<1>12. Begun(x, 4, ServicesLeft(n))
  <2>1. Begun(x, 4, Rest(x[4], c4))
    BY <1>1, <1>2, <1>4, <1>8, <1>11, BegunOn
  <2>2. x[4].v[1].at = n
    BY <1>7 DEF Value, Count, Byte
  <2>3. Head(c4).kind = "list" /\ Head(c4).of = TPacketConfigService
    BY <1>2, ItemKinds
  <2>4. Rest(x[4], c4) = Repeat(n, TPacketConfigService) \o ServicesLeft(0)
    BY <1>2, <2>2, <2>3 DEF Rest
  <2>5. ServicesLeft(0) = <<Num("interval", 2), Str("name")>>
    BY ServicesLeftSteps
  <2> QED BY <2>1, <2>4, <2>5 DEF ServicesLeft
<1> DEFINE Good(i) == Begun(x, 4 + 3 * i, ServicesLeft(n - i))
           T == {i \in 0..n : ~Good(i)}
<1>13. ASSUME NEW i \in 0..n, i # n, Good(i) PROVE Good(i + 1)
  <2>1. i \in Nat /\ i + 1 <= n /\ i + 1 \in 1..n
    BY <1>13
  <2>2. n - (i + 1) \in Nat /\ n - i = (n - (i + 1)) + 1
    BY <2>1
  <2>3. 3 * (i + 1) = 3 * i + 3 /\ 3 * i \in Nat
    BY <2>1
  <2>4. PICK k \in Nat : k = 4 + 3 * i /\ 4 + 3 * (i + 1) = k + 3
    BY <2>3
  <2>5. k + 3 <= Len(x)
    <3>1. 3 * (i + 1) <= 3 * n
      BY <2>1
    <3> QED BY <1>1, <2>3, <2>4, <3>1
  <2>6. ServiceAt(x, k + 1)
    <3>1. 2 + 3 * (i + 1) = k + 1 /\ 3 + 3 * (i + 1) = (k + 1) + 1 /\ 4 + 3 * (i + 1) = (k + 1) + 2
      BY <2>3, <2>4
    <3>2. /\ Matches(x[2 + 3 * (i + 1)], Str("service"))
          /\ Matches(x[3 + 3 * (i + 1)], Num("tcp", 1))
          /\ Matches(x[4 + 3 * (i + 1)], Num("port", 2))
      BY <2>1 DEF IsConfig
    <3> QED BY <3>1, <3>2 DEF ServiceAt
  <2>7. Begun(x, k, ServicesLeft((n - (i + 1)) + 1))
    BY <1>13, <2>2, <2>4
  <2>8. Begun(x, k + 3, ServicesLeft(n - (i + 1)))
    BY <1>1, <2>2, <2>5, <2>6, <2>7, ServiceBegun
  <2> QED BY <2>4, <2>8
<1>14. Good(0)
  <2>1. 4 + 3 * 0 = 4 /\ n - 0 = n
    OBVIOUS
  <2> QED BY <1>12, <2>1
<1>15. T = {}
  <2>1. SUFFICES ASSUME T # {} PROVE FALSE
    OBVIOUS
  <2>2. T \subseteq Nat
    OBVIOUS
  <2>3. PICK i \in T : \A j \in T : i <= j
    <3> HIDE DEF T
    <3> QED BY <2>1, <2>2, LeastNat
  <2>4. i \in 0..n /\ ~Good(i)
    BY <2>3
  <2> HIDE DEF Good
  <2>5. i - 1 \in 0..n /\ i - 1 # n /\ (i - 1) + 1 = i /\ ~(i <= i - 1)
    <3>1. i # 0
      BY <1>14, <2>4
    <3> QED BY <2>4, <3>1
  <2>6. Good(i - 1)
    BY <2>3, <2>5
  <2> QED BY <1>13, <2>4, <2>5, <2>6
<1>16. Begun(x, 4 + 3 * n, ServicesLeft(0))
  <2>1. n \in 0..n /\ n - n = 0
    OBVIOUS
  <2>2. Good(n)
    BY <1>15, <2>1
  <2> QED BY <2>1, <2>2
<1>17. PICK s1, s2 :
        /\ s1 = ServicesLeft(0) /\ s1 # <<>> /\ Head(s1) = Num("interval", 2)
        /\ Tail(s1) = s2 /\ s2 # <<>> /\ Head(s2) = Str("name") /\ Tail(s2) = <<>>
  <2> DEFINE i == Num("interval", 2)
             m == Str("name")
  <2>1. ServicesLeft(0) = <<i, m>>
    BY ServicesLeftSteps
  <2> HIDE DEF i, m
  <2>2. /\ <<i, m>> # <<>> /\ Head(<<i, m>>) = i /\ Tail(<<i, m>>) = <<m>>
        /\ <<m>> # <<>> /\ Head(<<m>>) = m /\ Tail(<<m>>) = <<>>
    OBVIOUS
  <2> QED BY <2>1, <2>2 DEF i, m
<1>18. Head(s1).kind # "list" /\ Head(s2).kind # "list"
  BY <1>17, ItemKinds
<1>19. PICK k \in Nat : /\ k = 4 + 3 * n /\ k + 1 = 5 + 3 * n /\ k + 2 = 6 + 3 * n
                        /\ k < Len(x) /\ k + 1 < Len(x) /\ k + 2 = Len(x)
                        /\ (k + 1) + 1 = k + 2
  BY <1>1
<1>20. Matches(x[k + 1], Head(s1)) /\ Matches(x[k + 2], Head(s2))
  BY <1>17, <1>19 DEF IsConfig
<1>21. Begun(x, k + 1, s2)
  <2>1. Begun(x, k, s1)
    BY <1>16, <1>17, <1>19
  <2> QED BY <1>1, <1>17, <1>18, <1>19, <1>20, <2>1, BegunOn
<1>22. Begun(x, k + 2, <<>>)
  <2>1. k + 1 \in Nat /\ Matches(x[(k + 1) + 1], Head(s2))
    BY <1>19, <1>20
  <2>2. Begun(x, (k + 1) + 1, Tail(s2))
    BY <1>1, <1>17, <1>18, <1>19, <1>21, <2>1, BegunOn
  <2> QED BY <1>17, <1>19, <2>2
<1>23. SubSeq(x, 1, k + 2) = x
  BY <1>1, <1>19
<1> QED BY <1>22, <1>23 DEF Begun

-----------------------------------------------------------------------------
(* What is in the fields of a configuration.                               *)

\* g goes through the set "at" upward, in m steps.
Upward(g, m, at) ==
  /\ m \in Nat /\ at \subseteq Nat /\ g \in [1..m -> at]
  /\ \A i, j \in 1..m : i < j => g[i] < g[j]
  /\ \A k \in at : \E i \in 1..m : g[i] = k

\* There is but one way upward.
SameWay(g, m, h, n) == m = n /\ \A i \in 1..n : g[i] = h[i]

LEMMA UpwardNotBefore ==
  ASSUME NEW at, NEW m \in Nat, NEW n \in Nat, NEW g, NEW h,
         Upward(g, m, at), Upward(h, n, at),
         NEW i \in 1..m, i \in 1..n, \A j \in 1..i - 1 : g[j] = h[j]
  PROVE  ~(g[i] < h[i])
<1>1. SUFFICES ASSUME g[i] < h[i] PROVE FALSE
  OBVIOUS
<1>2. g[i] \in at /\ h[i] \in at /\ g[i] \in Nat /\ h[i] \in Nat
  BY DEF Upward
<1>3. PICK j \in 1..n : h[j] = g[i]
  BY <1>2 DEF Upward
<1>4. j # i /\ ~(i < j)
  BY <1>1, <1>2, <1>3 DEF Upward
<1>5. j \in 1..i - 1 /\ j \in 1..m /\ j < i
  BY <1>4
<1>6. g[j] = g[i]
  BY <1>3, <1>5
<1>7. g[j] < g[i]
  BY <1>5 DEF Upward
<1> QED BY <1>2, <1>6, <1>7

LEMMA UpwardOnce ==
  ASSUME NEW at, NEW m, NEW n, NEW g, NEW h, Upward(g, m, at), Upward(h, n, at)
  PROVE  SameWay(g, m, h, n)
<1>0. m \in Nat /\ n \in Nat /\ at \subseteq Nat
  BY DEF Upward
<1> DEFINE T == {i \in Nat : i \in 1..m /\ i \in 1..n /\ g[i] # h[i]}
<1>1. T = {}
  <2>1. SUFFICES ASSUME T # {} PROVE FALSE
    OBVIOUS
  <2>2. T \subseteq Nat
    OBVIOUS
  <2>3. PICK i \in T : \A j \in T : i <= j
    <3> HIDE DEF T
    <3> QED BY <2>1, <2>2, LeastNat
  <2>4. i \in 1..m /\ i \in 1..n /\ g[i] # h[i]
    BY <1>0, <2>3
  <2>5. \A j \in 1..i - 1 : j \in 1..m /\ j \in 1..n /\ j \in Nat /\ ~(i <= j)
    BY <1>0, <2>4
  <2>6. \A j \in 1..i - 1 : g[j] = h[j]
    BY <2>3, <2>5
  <2>7. ~(g[i] < h[i]) /\ ~(h[i] < g[i])
    BY <1>0, <2>4, <2>6, UpwardNotBefore
  <2>8. g[i] \in at /\ h[i] \in at
    BY <2>4 DEF Upward
  <2>9. g[i] \in Nat /\ h[i] \in Nat
    BY <1>0, <2>8
  <2> QED BY <2>4, <2>7, <2>9
<1>2. \A i \in Nat : i \in 1..m /\ i \in 1..n => g[i] = h[i]
  BY <1>1
<1>3. ~(m < n)
  <2>1. SUFFICES ASSUME m < n PROVE FALSE
    OBVIOUS
  <2>2. m + 1 \in 1..n /\ m + 1 \notin 1..m
    BY <1>0, <2>1
  <2>3. PICK i \in 1..m : g[i] = h[m + 1]
    BY <2>2 DEF Upward
  <2>4. i \in 1..n /\ i < m + 1 /\ i \in Nat
    BY <1>0, <2>1
  <2>5. h[i] = h[m + 1]
    BY <1>2, <2>3, <2>4
  <2>6. h[i] < h[m + 1] /\ h[i] \in Nat
    BY <1>0, <2>2, <2>4 DEF Upward
  <2> QED BY <2>5, <2>6
<1>4. ~(n < m)
  <2>1. SUFFICES ASSUME n < m PROVE FALSE
    OBVIOUS
  <2>2. n + 1 \in 1..m /\ n + 1 \notin 1..n
    BY <1>0, <2>1
  <2>3. PICK i \in 1..n : h[i] = g[n + 1]
    BY <2>2 DEF Upward
  <2>4. i \in 1..m /\ i < n + 1 /\ i \in Nat
    BY <1>0, <2>1
  <2>5. g[i] = g[n + 1]
    BY <1>2, <2>3, <2>4
  <2>6. g[i] < g[n + 1] /\ g[i] \in Nat
    BY <1>0, <2>2, <2>4 DEF Upward
  <2> QED BY <2>5, <2>6
<1>5. m = n
  BY <1>0, <1>3, <1>4
<1>6. \A i \in 1..n : i \in Nat
  OBVIOUS
<1> QED BY <1>2, <1>5, <1>6 DEF SameWay

\* What is chosen of s is the n elements at the places that h gives.
Picked(S, s, at, n, h) ==
  /\ ThoseAt(s, at) \in Seq(S) /\ Len(ThoseAt(s, at)) = n
  /\ \A i \in 1..n : ThoseAt(s, at)[i] = s[h[i]]

LEMMA ThoseAtIs ==
  ASSUME NEW S, NEW s \in Seq(S), NEW at, at \subseteq DOMAIN s,
         NEW n, NEW h, Upward(h, n, at)
  PROVE  Picked(S, s, at, n, h)
<1>0. PICK q \in Seq(S) : q = ThoseAt(s, at) /\ \E g : Numbers(g, s, at, q)
  BY ThoseAtElements
<1>1. PICK g : q = ThoseAt(s, at) /\ Numbers(g, s, at, q)
  BY <1>0
<1>2. PICK m \in Nat : m = Len(q)
  OBVIOUS
<1>3. Upward(g, m, at)
  <2>1. at \subseteq Nat
    BY DEF Upward
  <2> QED BY <1>1, <1>2, <2>1 DEF Upward, Numbers
<1>4. SameWay(g, m, h, n)
  BY <1>3, UpwardOnce
<1>5. m = n /\ \A i \in 1..n : g[i] = h[i]
  BY <1>4 DEF SameWay
<1>6. \A i \in 1..n : q[i] = s[h[i]]
  BY <1>1, <1>2, <1>5 DEF Numbers
<1> QED BY <1>1, <1>2, <1>5, <1>6 DEF Picked

\* A field that is there once.
LEMMA OfFieldOne ==
  ASSUME NEW x \in Seq(Values), NEW f, NEW k \in 1..Len(x), x[k].f = f,
         \A i \in 1..Len(x) : x[i].f = f => i = k
  PROVE  OfField(x, f) = <<x[k]>>
<1> DEFINE at == {i \in DOMAIN x : x[i].f = f}
           h == [i \in 1..1 |-> k]
<1>1. at = {k} /\ at \subseteq DOMAIN x
  OBVIOUS
<1>2. Upward(h, 1, at)
  BY <1>1 DEF Upward
<1>3. h[1] = k
  OBVIOUS
<1>4. OfField(x, f) = ThoseAt(x, at)
  BY DEF OfField
<1> HIDE DEF at, h
<1>5. PICK q \in Seq(Values) : q = ThoseAt(x, at) /\ Len(q) = 1 /\ q[1] = x[k]
  <2>1. /\ ThoseAt(x, at) \in Seq(Values) /\ Len(ThoseAt(x, at)) = 1
        /\ \A i \in 1..1 : ThoseAt(x, at)[i] = x[h[i]]
    <3>1. Picked(Values, x, at, 1, h)
      BY <1>1, <1>2, ThoseAtIs
    <3> QED BY <3>1 DEF Picked
  <2>2. 1 \in 1..1
    OBVIOUS
  <2> QED BY <1>3, <2>1, <2>2
<1>6. x[k] \in Values
  OBVIOUS
<1> HIDE DEF Values
<1>7. q = <<x[k]>>
  BY <1>5, <1>6
<1> QED BY <1>4, <1>5, <1>7

\* q is the n values of x in every third place.
Thirds(x, q, n, b) ==
  q \in Seq(Values) /\ Len(q) = n /\ \A i \in 1..n : q[i] = x[b + 3 * i]

\* A field that is there in every third place.
LEMMA OfFieldThird ==
  ASSUME NEW x \in Seq(Values), NEW f, NEW n \in Nat, NEW b \in Nat,
         \A i \in 1..n : b + 3 * i \in 1..Len(x) /\ x[b + 3 * i].f = f,
         \A k \in 1..Len(x) : x[k].f = f => \E i \in 1..n : k = b + 3 * i
  PROVE  Thirds(x, OfField(x, f), n, b)
<1> DEFINE at == {i \in DOMAIN x : x[i].f = f}
           h == [i \in 1..n |-> b + 3 * i]
<1>1. at \subseteq DOMAIN x
  OBVIOUS
<1>2. h \in [1..n -> at]
  OBVIOUS
<1>3. \A i \in 1..n : h[i] = b + 3 * i
  OBVIOUS
<1>4. \A i, j \in 1..n : i < j => b + 3 * i < b + 3 * j
  OBVIOUS
<1>5. \A k \in at : \E i \in 1..n : k = b + 3 * i
  OBVIOUS
<1>6. OfField(x, f) = ThoseAt(x, at)
  BY DEF OfField
<1> HIDE DEF at, h
<1>7. Upward(h, n, at)
  <2>1. \A i, j \in 1..n : i < j => h[i] < h[j]
    BY <1>3, <1>4
  <2>2. \A k \in at : \E i \in 1..n : h[i] = k
    BY <1>3, <1>5
  <2>3. at \subseteq Nat
    <3>1. DOMAIN x \subseteq Nat
      OBVIOUS
    <3> QED BY <1>1, <3>1
  <2> QED BY <1>2, <2>1, <2>2, <2>3 DEF Upward
<1>8. /\ ThoseAt(x, at) \in Seq(Values) /\ Len(ThoseAt(x, at)) = n
      /\ \A i \in 1..n : ThoseAt(x, at)[i] = x[h[i]]
  <2>1. Picked(Values, x, at, n, h)
    BY <1>1, <1>7, ThoseAtIs
  <2> QED BY <2>1 DEF Picked
<1> QED BY <1>3, <1>6, <1>8 DEF Thirds

\* Where the values of a configuration are.
LEMMA ConfigPlaces ==
  ASSUME NEW n \in Nat, NEW k \in 1..6 + 3 * n
  PROVE  \/ k \in 1..4 \/ k = 5 + 3 * n \/ k = 6 + 3 * n
         \/ \E i \in 1..n : k = 2 + 3 * i \/ k = 3 + 3 * i \/ k = 4 + 3 * i
<1>1. CASE k >= 5 /\ k <= 4 + 3 * n
  <2> DEFINE i == (k - 2) \div 3
  <2>1. i \in Int /\ 3 * i <= k - 2 /\ k - 2 < 3 * i + 3
    OBVIOUS
  <2> HIDE DEF i
  <2>2. i \in 1..n /\ (k = 2 + 3 * i \/ k = 3 + 3 * i \/ k = 4 + 3 * i)
    BY <1>1, <2>1
  <2> QED BY <2>2
<1>2. CASE ~(k >= 5 /\ k <= 4 + 3 * n)
  BY <1>2
<1> QED BY <1>1, <1>2

\* The names of the fields of a configuration.
LEMMA ConfigNames ==
  ASSUME NEW n \in Nat, NEW x, IsConfig(x, n)
  PROVE  /\ x[1].f = "agentId" /\ x[2].f = "tempPath" /\ x[3].f = "tempDivider"
         /\ x[4].f = "services" /\ x[5 + 3 * n].f = "interval" /\ x[6 + 3 * n].f = "name"
         /\ \A i \in 1..n : /\ x[2 + 3 * i].f = "service" /\ x[3 + 3 * i].f = "tcp"
                            /\ x[4 + 3 * i].f = "port"
<1>1. /\ Matches(x[1], Num("agentId", 2)) /\ Matches(x[2], Str("tempPath"))
      /\ Matches(x[3], Num("tempDivider", 2))
      /\ x[4] = Value("list", "services", Count(n))
      /\ Matches(x[5 + 3 * n], Num("interval", 2)) /\ Matches(x[6 + 3 * n], Str("name"))
  BY DEF IsConfig
<1>2. \A i \in 1..n : /\ Matches(x[2 + 3 * i], Str("service"))
                      /\ Matches(x[3 + 3 * i], Num("tcp", 1))
                      /\ Matches(x[4 + 3 * i], Num("port", 2))
  BY DEF IsConfig
<1>3. \A y, item : Matches(y, item) => y.f = item.f
  BY DEF Matches
<1>4. x[4].f = "services"
  BY <1>1 DEF Value
<1>5. \A i \in 1..n : /\ x[2 + 3 * i].f = "service" /\ x[3 + 3 * i].f = "tcp"
                      /\ x[4 + 3 * i].f = "port"
  BY <1>2, <1>3, ItemKinds
<1> QED BY <1>1, <1>3, <1>4, <1>5, ItemKinds

LEMMA ConfigFields ==
  ASSUME NEW n \in Nat, NEW x, IsConfig(x, n)
  PROVE  /\ OfField(x, "agentId") = <<x[1]>> /\ OfField(x, "tempPath") = <<x[2]>>
         /\ OfField(x, "tempDivider") = <<x[3]>>
         /\ OfField(x, "interval") = <<x[5 + 3 * n]>>
         /\ OfField(x, "name") = <<x[6 + 3 * n]>>
<1>1. x \in Seq(Values) /\ Len(x) = 6 + 3 * n
  BY DEF IsConfig
<1>2. /\ x[1].f = "agentId" /\ x[2].f = "tempPath" /\ x[3].f = "tempDivider"
      /\ x[4].f = "services" /\ x[5 + 3 * n].f = "interval" /\ x[6 + 3 * n].f = "name"
      /\ \A i \in 1..n : /\ x[2 + 3 * i].f = "service" /\ x[3 + 3 * i].f = "tcp"
                         /\ x[4 + 3 * i].f = "port"
  BY ConfigNames
<1>3. ASSUME NEW k \in 1..Len(x)
      PROVE  \/ k = 1 \/ k = 2 \/ k = 3 \/ k = 4 \/ k = 5 + 3 * n \/ k = 6 + 3 * n
             \/ x[k].f \in {"service", "tcp", "port"}
  <2>1. \/ k \in 1..4 \/ k = 5 + 3 * n \/ k = 6 + 3 * n
        \/ \E i \in 1..n : k = 2 + 3 * i \/ k = 3 + 3 * i \/ k = 4 + 3 * i
    BY <1>1, ConfigPlaces
  <2>2. CASE k \in 1..4
    BY <2>2
  <2>3. CASE \E i \in 1..n : k = 2 + 3 * i \/ k = 3 + 3 * i \/ k = 4 + 3 * i
    BY <1>2, <2>3
  <2> QED BY <2>1, <2>2, <2>3
<1>4. /\ 1 \in 1..Len(x) /\ 2 \in 1..Len(x) /\ 3 \in 1..Len(x)
      /\ 5 + 3 * n \in 1..Len(x) /\ 6 + 3 * n \in 1..Len(x)
  BY <1>1
<1> HIDE DEF IsConfig
<1>5. OfField(x, "agentId") = <<x[1]>>
  <2>1. \A k \in 1..Len(x) : x[k].f = "agentId" => k = 1
    BY <1>2, <1>3
  <2> QED BY <1>1, <1>2, <1>4, <2>1, OfFieldOne
<1>6. OfField(x, "tempPath") = <<x[2]>>
  <2>1. \A k \in 1..Len(x) : x[k].f = "tempPath" => k = 2
    BY <1>2, <1>3
  <2> QED BY <1>1, <1>2, <1>4, <2>1, OfFieldOne
<1>7. OfField(x, "tempDivider") = <<x[3]>>
  <2>1. \A k \in 1..Len(x) : x[k].f = "tempDivider" => k = 3
    BY <1>2, <1>3
  <2> QED BY <1>1, <1>2, <1>4, <2>1, OfFieldOne
<1>8. OfField(x, "interval") = <<x[5 + 3 * n]>>
  <2>1. \A k \in 1..Len(x) : x[k].f = "interval" => k = 5 + 3 * n
    BY <1>2, <1>3
  <2> QED BY <1>1, <1>2, <1>4, <2>1, OfFieldOne
<1>9. OfField(x, "name") = <<x[6 + 3 * n]>>
  <2>1. \A k \in 1..Len(x) : x[k].f = "name" => k = 6 + 3 * n
    BY <1>2, <1>3
  <2> QED BY <1>1, <1>2, <1>4, <2>1, OfFieldOne
<1> QED BY <1>5, <1>6, <1>7, <1>8, <1>9

LEMMA ConfigServiceFields ==
  ASSUME NEW n \in Nat, NEW x, IsConfig(x, n)
  PROVE  /\ Thirds(x, OfField(x, "service"), n, 2) /\ Thirds(x, OfField(x, "tcp"), n, 3)
         /\ Thirds(x, OfField(x, "port"), n, 4)
<1>1. x \in Seq(Values) /\ Len(x) = 6 + 3 * n
  BY DEF IsConfig
<1>2. /\ x[1].f = "agentId" /\ x[2].f = "tempPath" /\ x[3].f = "tempDivider"
      /\ x[4].f = "services" /\ x[5 + 3 * n].f = "interval" /\ x[6 + 3 * n].f = "name"
      /\ \A i \in 1..n : /\ x[2 + 3 * i].f = "service" /\ x[3 + 3 * i].f = "tcp"
                         /\ x[4 + 3 * i].f = "port"
  BY ConfigNames
<1>3. ASSUME NEW k \in 1..Len(x)
      PROVE  \/ x[k].f \notin {"service", "tcp", "port"}
             \/ \E i \in 1..n : k = 2 + 3 * i /\ x[k].f = "service"
             \/ \E i \in 1..n : k = 3 + 3 * i /\ x[k].f = "tcp"
             \/ \E i \in 1..n : k = 4 + 3 * i /\ x[k].f = "port"
  <2>1. \/ k \in 1..4 \/ k = 5 + 3 * n \/ k = 6 + 3 * n
        \/ \E i \in 1..n : k = 2 + 3 * i \/ k = 3 + 3 * i \/ k = 4 + 3 * i
    BY <1>1, ConfigPlaces
  <2>2. CASE k \in 1..4
    BY <1>2, <2>2
  <2>3. CASE \E i \in 1..n : k = 2 + 3 * i \/ k = 3 + 3 * i \/ k = 4 + 3 * i
    BY <1>2, <2>3
  <2> QED BY <1>2, <2>1, <2>2, <2>3
<1>4. \A i \in 1..n : /\ 2 + 3 * i \in 1..Len(x) /\ 3 + 3 * i \in 1..Len(x)
                      /\ 4 + 3 * i \in 1..Len(x)
  BY <1>1
<1> HIDE DEF IsConfig
<1>5. Thirds(x, OfField(x, "service"), n, 2)
  <2>1. \A k \in 1..Len(x) : x[k].f = "service" => \E i \in 1..n : k = 2 + 3 * i
    BY <1>3
  <2>2. \A i \in 1..n : 2 + 3 * i \in 1..Len(x) /\ x[2 + 3 * i].f = "service"
    BY <1>2, <1>4
  <2>3. 2 \in Nat
    OBVIOUS
  <2> QED BY <1>1, <2>1, <2>2, <2>3, OfFieldThird
<1>6. Thirds(x, OfField(x, "tcp"), n, 3)
  <2>1. \A k \in 1..Len(x) : x[k].f = "tcp" => \E i \in 1..n : k = 3 + 3 * i
    BY <1>3
  <2>2. \A i \in 1..n : 3 + 3 * i \in 1..Len(x) /\ x[3 + 3 * i].f = "tcp"
    BY <1>2, <1>4
  <2>3. 3 \in Nat
    OBVIOUS
  <2> QED BY <1>1, <2>1, <2>2, <2>3, OfFieldThird
<1>7. Thirds(x, OfField(x, "port"), n, 4)
  <2>1. \A k \in 1..Len(x) : x[k].f = "port" => \E i \in 1..n : k = 4 + 3 * i
    BY <1>3
  <2>2. \A i \in 1..n : 4 + 3 * i \in 1..Len(x) /\ x[4 + 3 * i].f = "port"
    BY <1>2, <1>4
  <2>3. 4 \in Nat
    OBVIOUS
  <2> QED BY <1>1, <2>1, <2>2, <2>3, OfFieldThird
<1> QED BY <1>5, <1>6, <1>7

-----------------------------------------------------------------------------
(* Texts: what is left of them, and which characters they have.            *)

\* Characters that are none of the marks ms; texts that have no others.
Lacking(ms) == {o \in Octets : o.is \notin ms}

Only(C, vals) == \A i \in 1..Len(vals) : vals[i].kind = "text" => vals[i].v \in Seq(C)

LEMMA FreeIs ==
  ASSUME NEW m, NEW v \in Seq(Octets)
  PROVE  FreeOf(m, v) <=> v \in Seq(Lacking({m}))
<1> DEFINE C == Lacking({m})
<1>1. \A o \in Octets : o \in C <=> o.is # m
  BY DEF Lacking
<1>2. \A i \in 1..Len(v) : v[i] \in Octets
  OBVIOUS
<1> HIDE DEF Octets, C
<1>3. ASSUME FreeOf(m, v) PROVE v \in Seq(C)
  <2>1. \A i \in 1..Len(v) : v[i] \in C
    BY <1>1, <1>2, <1>3 DEF FreeOf
  <2> QED BY <2>1
<1>4. ASSUME v \in Seq(C) PROVE FreeOf(m, v)
  <2>1. \A i \in 1..Len(v) : v[i] \in C
    BY <1>4
  <2> QED BY <1>1, <1>2, <2>1 DEF FreeOf
<1> QED BY <1>3, <1>4 DEF C

\* The greatest of some numbers.
LEMMA GreatestNat ==
  ASSUME NEW n \in Nat, NEW T, T \subseteq 0..n, T # {}
  PROVE  \E k \in T : \A m \in T : m <= k
<1> DEFINE U == {i \in 0..n : n - i \in T}
<1>1. U \subseteq Nat /\ U # {}
  <2>1. PICK k \in 0..n : k \in T
    OBVIOUS
  <2>2. n - k \in 0..n /\ n - (n - k) = k
    OBVIOUS
  <2>3. n - k \in U
    BY <2>1, <2>2
  <2>4. U \subseteq Nat
    OBVIOUS
  <2> HIDE DEF U
  <2> QED BY <2>3, <2>4
<1>2. PICK i \in U : \A j \in U : i <= j
  <2> HIDE DEF U
  <2> QED BY <1>1, LeastNat
<1>3. i \in 0..n /\ n - i \in T
  BY <1>2
<1>4. ASSUME NEW m \in T PROVE m <= n - i
  <2>1. m \in 0..n /\ n - m \in 0..n /\ n - (n - m) = m
    OBVIOUS
  <2>2. n - m \in U
    BY <2>1
  <2>3. i <= n - m
    BY <1>2, <2>2
  <2> QED BY <1>3, <2>1, <2>3
<1> QED BY <1>3, <1>4

Comma == ","

\* p is the place of the last m of v, q what follows it.
Follows(m, v, p, q) ==
  /\ p \in 0..Len(v) /\ (p # 0 => v[p].is = m)
  /\ \A i \in p + 1..Len(v) : v[i].is # m
  /\ q \in Seq(Octets) /\ Len(q) = Len(v) - p
  /\ \A i \in 1..Len(v) - p : q[i] = v[p + i]

LEMMA LastPieceIs ==
  ASSUME NEW v \in Seq(Octets)
  PROVE  \E p \in Nat : Follows(Comma, v, p, LastPiece(v))
<1> DEFINE m == ","
           I == {i \in 1..Len(v) : v[i].is = m}
           last == SelectLastInSeq(v, LAMBDA c : c.is = m)
<1>0. PICK n \in Nat : n = Len(v)
  OBVIOUS
<1>2. last = IF I # {} THEN Max(I) ELSE 0
  BY DEF SelectLastInSeq
<1>6. LastPiece(v) = SubSeq(v, last + 1, n)
  BY <1>0 DEF LastPiece
<1>7. \A i : i \in I <=> i \in 1..n /\ v[i].is = m
  BY <1>0
<1> HIDE DEF I, last, m
<1>1. PICK p \in 0..n :
        /\ p = last /\ (p # 0 => v[p].is = m)
        /\ \A i \in p + 1..n : v[i].is # m
  <2>1. CASE I = {}
    <3>1. 0 \in 0..n /\ \A i \in 0 + 1..n : v[i].is # m
      BY <1>7, <2>1
    <3> QED BY <1>2, <2>1, <3>1
  <2>2. CASE I # {}
    <3>1. \A j \in I : j \in 1..n /\ j \in 0..n /\ j \in Nat
      BY <1>7
    <3>2. PICK k \in I : \A j \in I : j <= k
      <4>1. I \subseteq 0..n
        BY <3>1
      <4> QED BY <2>2, <4>1, GreatestNat
    <3>3. \A j \in I : k >= j
      BY <3>1, <3>2
    <3>4. Max(I) \in I /\ \A j \in I : Max(I) >= j
      BY <3>3 DEF Max
    <3>5. PICK q \in I : q = last /\ \A j \in I : q >= j
      BY <1>2, <2>2, <3>4
    <3>6. q \in 1..n /\ v[q].is = m /\ q \in 0..n
      BY <1>7, <3>1, <3>5
    <3>7. \A i \in q + 1..n : i \in 1..n /\ ~(q >= i)
      BY <3>6
    <3>8. \A i \in q + 1..n : v[i].is # m
      BY <1>7, <3>5, <3>7
    <3> QED BY <3>5, <3>6, <3>8
  <2> QED BY <2>1, <2>2
<1>3. LastPiece(v) = SubSeq(v, p + 1, n)
  BY <1>6, <1>1
<1>4. /\ LastPiece(v) \in Seq(Octets) /\ Len(LastPiece(v)) = n - p
      /\ \A i \in 1..n - p : LastPiece(v)[i] = v[p + i]
  <2>1. \A i \in p + 1..n : v[i] \in Octets
    BY <1>0
  <2>2. /\ SubSeq(v, p + 1, n) \in Seq(Octets)
        /\ Len(SubSeq(v, p + 1, n)) = IF p + 1 <= n THEN n - (p + 1) + 1 ELSE 0
        /\ \A i \in 1..n - (p + 1) + 1 : SubSeq(v, p + 1, n)[i] = v[(p + 1) + i - 1]
    BY <2>1, SubSeqProperties
  <2>3. /\ Len(SubSeq(v, p + 1, n)) = n - p
        /\ \A i \in 1..n - p : i \in 1..n - (p + 1) + 1 /\ (p + 1) + i - 1 = p + i
    BY <2>2
  <2> QED BY <1>3, <2>2, <2>3
<1>5. Follows(m, v, p, LastPiece(v))
  <2>1. p \in 0..Len(v) /\ (p # 0 => v[p].is = m)
    BY <1>0, <1>1
  <2>2. \A i \in p + 1..Len(v) : v[i].is # m
    BY <1>0, <1>1
  <2> QED BY <1>0, <1>4, <2>1, <2>2 DEF Follows
<1>8. p \in Nat
  OBVIOUS
<1> QED BY <1>5, <1>8 DEF m, Comma

LEMMA LastPieceType ==
  ASSUME NEW C, C \subseteq Octets, NEW v \in Seq(C)
  PROVE  /\ LastPiece(v) \in Seq(C) /\ FreeOf(Comma, LastPiece(v))
         /\ FreeOf(Comma, v) => LastPiece(v) = v
<1> DEFINE m == Comma
<1>1. v \in Seq(Octets)
  OBVIOUS
<1>2. PICK p \in Nat : Follows(m, v, p, LastPiece(v))
  BY <1>1, LastPieceIs
<1> HIDE DEF m
<1>3. PICK q \in Seq(Octets) : q = LastPiece(v) /\ Follows(m, v, p, q)
  <2>1. LastPiece(v) \in Seq(Octets)
    BY <1>2 DEF Follows
  <2> QED BY <1>2, <2>1
<1>4. PICK n \in Nat : n = Len(v) /\ p \in 0..n /\ Len(q) = n - p
  <2>1. Len(v) \in Nat
    OBVIOUS
  <2> QED BY <1>3, <2>1 DEF Follows
<1>5. \A i \in 1..n - p : p + i \in 1..n /\ p + i \in p + 1..n
  BY <1>4
<1>6. \A i \in 1..n - p : q[i] = v[p + i]
  BY <1>3, <1>4 DEF Follows
<1>7. q \in Seq(C)
  <2>1. \A i \in 1..n : v[i] \in C
    BY <1>4
  <2>2. \A i \in 1..Len(q) : q[i] \in C
    BY <1>4, <1>5, <1>6, <2>1
  <2> HIDE DEF Octets
  <2> QED BY <2>2
<1>8. FreeOf(m, q)
  <2>1. \A i \in p + 1..n : v[i].is # m
    BY <1>3, <1>4 DEF Follows
  <2> QED BY <1>4, <1>5, <1>6, <2>1 DEF FreeOf
<1>9. ASSUME FreeOf(m, v) PROVE q = v
  <2>1. p = 0
    <3>1. SUFFICES ASSUME p # 0 PROVE FALSE
      OBVIOUS
    <3>2. p \in 1..n /\ v[p].is = m
      BY <1>3, <1>4, <3>1 DEF Follows
    <3> QED BY <1>4, <1>9, <3>2 DEF FreeOf
  <2>2. Len(q) = n /\ \A i \in 1..n : i \in 1..n - p /\ p + i = i
    BY <1>4, <2>1
  <2>3. Len(q) = Len(v) /\ \A i \in 1..Len(q) : q[i] = v[i]
    BY <1>4, <1>6, <2>2
  <2> QED BY <1>1, <2>3, SeqEqual
<1> QED BY <1>3, <1>7, <1>8, <1>9 DEF m

\* A text has one part if it has no ":".
LEMMA PartsOne ==
  ASSUME NEW v \in Seq(Octets)
  PROVE  Parts(v) = 1 <=> FreeOf(":", v)
<1> DEFINE I == {i \in DOMAIN v : v[i].is = ":"}
<1>1. IsFiniteSet(I) /\ Cardinality(I) \in Nat
  <2>1. I \subseteq 1..Len(v)
    OBVIOUS
  <2>4. IsFiniteSet(1..Len(v))
    <3>1. 1 \in Int /\ Len(v) \in Int
      OBVIOUS
    <3> QED BY <3>1, FS_Interval
  <2>2. IsFiniteSet(I)
    BY <2>1, <2>4, FS_Subset
  <2> QED BY <2>2, FS_CardinalityType
<1>2. Parts(v) = 1 + Cardinality(I)
  BY DEF Parts
<1>3. FreeOf(":", v) <=> I = {}
  BY DEF FreeOf
<1> HIDE DEF I
<1>4. Cardinality(I) = 0 <=> I = {}
  BY <1>1, FS_EmptySet
<1> QED BY <1>1, <1>2, <1>3, <1>4

\* A sequence is made of its elements.
LEMMA FlattenSingles ==
  ASSUME NEW S, NEW v \in Seq(S), NEW q, q \in Seq(Seq(S)), Len(q) = Len(v),
         \A i \in 1..Len(v) : q[i] = <<v[i]>>
  PROVE  FlattenSeq(q) = v
<1>0. PICK n \in Nat : n = Len(v) /\ n = Len(q)
  OBVIOUS
<1>1. CASE n = 0
  <2>1. Len(q) = 0 /\ Len(v) = 0
    BY <1>0, <1>1
  <2>2. v = <<>>
    BY <2>1
  <2>3. q = <<>>
    BY <2>1
  <2> QED BY <2>2, <2>3, FlattenNone
<1>2. CASE n > 0
  <2> DEFINE g == [i \in 1..n |-> SubSeq(v, 1, i)]
  <2>1. \A i \in 1..n : g[i] = SubSeq(v, 1, i)
    OBVIOUS
  <2> HIDE DEF g
  <2>2. ASSUME NEW k \in 0..n
        PROVE  /\ SubSeq(v, 1, k) \in Seq(S) /\ Len(SubSeq(v, 1, k)) = k
               /\ \A i \in 1..k : SubSeq(v, 1, k)[i] = v[i]
    <3>1. \A i \in 1..k : v[i] \in S
      BY <1>0
    <3>2. /\ SubSeq(v, 1, k) \in Seq(S)
          /\ Len(SubSeq(v, 1, k)) = IF 1 <= k THEN k - 1 + 1 ELSE 0
          /\ \A i \in 1..k - 1 + 1 : SubSeq(v, 1, k)[i] = v[1 + i - 1]
      BY <3>1, SubSeqProperties
    <3>3. Len(SubSeq(v, 1, k)) = k /\ \A i \in 1..k : i \in 1..k - 1 + 1 /\ 1 + i - 1 = i
      BY <3>2
    <3> QED BY <3>2, <3>3
  <2>3. ASSUME NEW i \in 2..n PROVE g[i] = g[i - 1] \o q[i]
    <3>1. i \in 1..n /\ i - 1 \in 1..n /\ i \in 0..n /\ i - 1 \in 0..n /\ i - 1 + 1 = i
      BY <1>0
    <3>2. PICK a \in Seq(S) :
            a = g[i - 1] /\ Len(a) = i - 1 /\ \A j \in 1..i - 1 : a[j] = v[j]
      BY <2>1, <2>2, <3>1
    <3>3. PICK b \in Seq(S) : b = g[i] /\ Len(b) = i /\ \A j \in 1..i : b[j] = v[j]
      BY <2>1, <2>2, <3>1
    <3>4. PICK c \in Seq(S) : c = <<v[i]>> /\ Len(c) = 1 /\ c[1] = v[i]
      <4>1. PICK e \in S : e = v[i]
        BY <1>0, <3>1
      <4>2. <<e>> \in Seq(S) /\ Len(<<e>>) = 1 /\ <<e>>[1] = e
        OBVIOUS
      <4> QED BY <4>1, <4>2
    <3>5. /\ a \o c \in Seq(S) /\ Len(a \o c) = Len(a) + Len(c)
          /\ \A j \in 1..Len(a) + Len(c) :
               (a \o c)[j] = IF j <= Len(a) THEN a[j] ELSE c[j - Len(a)]
      BY ConcatProperties
    <3>6. Len(a \o c) = i
      BY <3>1, <3>2, <3>4, <3>5
    <3>7. ASSUME NEW j \in 1..i PROVE (a \o c)[j] = v[j]
      <4>1. CASE j = i
        <5>1. j \in 1..Len(a) + Len(c) /\ ~(j <= Len(a)) /\ j - Len(a) = 1
          BY <3>1, <3>2, <3>4, <4>1
        <5> QED BY <3>4, <3>5, <4>1, <5>1
      <4>2. CASE j # i
        <5>1. j \in 1..Len(a) + Len(c) /\ j <= Len(a) /\ j \in 1..i - 1
          BY <3>1, <3>2, <3>4, <4>2
        <5> QED BY <3>2, <3>5, <5>1
      <4> QED BY <4>1, <4>2
    <3>8. Len(b) = Len(a \o c) /\ \A j \in 1..Len(b) : b[j] = (a \o c)[j]
      BY <3>3, <3>6, <3>7
    <3>9. b = a \o c
      BY <3>5, <3>8, SeqEqual
    <3>10. q[i] = c
      BY <1>0, <3>1, <3>4
    <3> QED BY <3>2, <3>3, <3>9, <3>10
  <2>4. g[1] = q[1]
    <3>1. 1 \in 1..n /\ 1 \in 0..n
      BY <1>2
    <3>2. PICK b \in Seq(S) : b = g[1] /\ Len(b) = 1 /\ \A j \in 1..1 : b[j] = v[j]
      BY <2>1, <2>2, <3>1
    <3>3. 1 \in 1..1
      OBVIOUS
    <3>4. b[1] = v[1]
      BY <3>2, <3>3
    <3>5. b = <<v[1]>>
      BY <3>2, <3>4
    <3>6. q[1] = <<v[1]>>
      BY <1>0, <3>1
    <3> QED BY <3>2, <3>5, <3>6
  <2>5. FlattenSeq(q) = g[n]
    <3>1. Len(q) > 0 /\ \A i \in 2..Len(q) : g[i] = g[i - 1] \o q[i]
      BY <1>0, <1>2, <2>3
    <3> QED BY <1>0, <2>4, <3>1, FlattenIs
  <2>6. g[n] = v
    <3>1. n \in 1..n
      BY <1>2
    <3>2. SubSeq(v, 1, n) = v
      BY <1>0
    <3> QED BY <2>1, <3>1, <3>2
  <2> QED BY <2>5, <2>6
<1> QED BY <1>0, <1>1, <1>2

\* A text of ASCII is the same in either program.
Ascii == Lacking({"e", "wide", "high"})

LEMMA AsciiSame ==
  ASSUME NEW v \in Seq(Ascii)
  PROVE  GetBytes(v) = v /\ FromBytes(v) = v
<1>1. \A c \in Ascii : c \in Octets /\ c.is # "e" /\ c.is # "wide" /\ c.is # "high"
  BY DEF Ascii, Lacking
<1> HIDE DEF Octets
<1>2. \A i \in 1..Len(v) : v[i] \in Ascii
  OBVIOUS
<1>3. v \in Seq(Octets)
  BY <1>1, <1>2
<1> DEFINE q == [i \in DOMAIN v |-> Utf8(v[i])]
<1>4. DOMAIN v = 1..Len(v) /\ Len(v) \in Nat
  OBVIOUS
<1>5. ASSUME NEW c \in Ascii PROVE Utf8(c) = <<c>>
  BY <1>1 DEF Utf8
<1>6. \A i \in 1..Len(v) : <<v[i]>> \in Seq(Octets) /\ Utf8(v[i]) = <<v[i]>>
  BY <1>1, <1>2, <1>5
<1>7. q \in Seq(Seq(Octets)) /\ Len(q) = Len(v) /\ \A i \in 1..Len(v) : q[i] = <<v[i]>>
  <2>1. \A i \in 1..Len(v) : q[i] = Utf8(v[i])
    BY <1>4
  <2>2. \A i \in 1..Len(v) : Utf8(v[i]) \in Seq(Octets)
    BY <1>6
  <2>3. q \in Seq(Seq(Octets)) /\ Len(q) = Len(v)
    BY <1>4, <2>2
  <2> HIDE DEF q
  <2> QED BY <1>6, <2>1, <2>3
<1>8. GetBytes(v) = FlattenSeq(q)
  BY DEF GetBytes
<1> HIDE DEF q
<1>9. FlattenSeq(q) = v
  BY <1>3, <1>7, FlattenSingles
<1>10. FromBytes(v) = v
  <2>1. \A i \in 1..Len(v) : v[i] # Byte("high", 0)
    BY <1>1, <1>2 DEF Byte
  <2>2. ReplaceAll(v, Byte("high", 0), Byte("wide", 0)) = [i \in 1..Len(v) |-> v[i]]
    BY <2>1 DEF ReplaceAll
  <2> QED BY <2>2 DEF FromBytes
<1> QED BY <1>8, <1>9, <1>10

\* A program that reads a text finds no mark in it that is not there.
LEMMA TextsFree ==
  ASSUME NEW m, m \notin {"high", "wide"}, NEW v \in Seq(Octets), FreeOf(m, v)
  PROVE  /\ GetBytes(v) \in Seq(Octets) /\ FreeOf(m, GetBytes(v))
         /\ FromBytes(GetBytes(v)) \in Seq(Octets) /\ FreeOf(m, FromBytes(GetBytes(v)))
<1> DEFINE C == Lacking({m})
<1>1. \A o \in Octets : o \in C <=> o.is # m
  BY DEF Lacking
<1>2. C \subseteq Octets
  BY DEF Lacking
<1>3. Byte("high", 0) \in C /\ Byte("wide", 0) \in C
  <2>1. Byte("high", 0) \in Octets /\ Byte("wide", 0) \in Octets
    BY ByteType DEF Marks
  <2>2. Byte("high", 0).is # m /\ Byte("wide", 0).is # m
    BY DEF Byte
  <2> HIDE DEF Octets, C
  <2> QED BY <1>1, <2>1, <2>2
<1>4. v \in Seq(C)
  BY FreeIs
<1> HIDE DEF C, Octets
<1>5. ASSUME NEW c \in C PROVE Utf8(c) \in Seq(C)
  <2>1. /\ <<Byte("high", 0), Byte("high", 0)>> \in Seq(C) /\ <<c>> \in Seq(C)
        /\ [i \in 1..3 |-> Byte("high", 0)] \in Seq(C)
    BY <1>3
  <2> QED BY <2>1 DEF Utf8
<1> DEFINE q == [i \in DOMAIN v |-> Utf8(v[i])]
<1>6. DOMAIN v = 1..Len(v) /\ Len(v) \in Nat /\ \A i \in 1..Len(v) : v[i] \in C
  BY <1>4
<1>7. q \in Seq(Seq(C))
  BY <1>5, <1>6
<1>8. GetBytes(v) = FlattenSeq(q)
  BY DEF GetBytes
<1> HIDE DEF q
<1>9. PICK w \in Seq(C) : w = GetBytes(v)
  BY <1>7, <1>8, FlattenType
<1>10. PICK x \in Seq(C) : x = FromBytes(w)
  <2>1. \A i \in 1..Len(w) :
          (IF w[i] = Byte("high", 0) THEN Byte("wide", 0) ELSE w[i]) \in C
    BY <1>3
  <2>2. FromBytes(w) \in Seq(C)
    BY <2>1 DEF FromBytes, ReplaceAll
  <2> QED BY <2>2
<1>11. w \in Seq(Octets) /\ x \in Seq(Octets)
  BY <1>2
<1>12. FreeOf(m, w) /\ FreeOf(m, x)
  BY <1>11, FreeIs DEF C
<1> QED BY <1>9, <1>10, <1>11, <1>12

-----------------------------------------------------------------------------
(* What the table leaves of a configuration.                               *)

\* The parts of a configuration, put together.
Assembled(S, y, a, b1, b2, c, F, d, e) ==
  /\ y \in Seq(S) /\ Len(y) = 6 + Len(F)
  /\ y[1] = a /\ y[2] = b1 /\ y[3] = b2 /\ y[4] = c
  /\ \A i \in 1..Len(F) : y[4 + i] = F[i]
  /\ y[5 + Len(F)] = d /\ y[6 + Len(F)] = e

LEMMA AppendNext ==
  ASSUME NEW S, NEW u \in Seq(S), NEW d \in S
  PROVE  /\ u \o <<d>> \in Seq(S) /\ Len(u \o <<d>>) = Len(u) + 1
         /\ (u \o <<d>>)[Len(u) + 1] = d
         /\ \A i \in 1..Len(u) : (u \o <<d>>)[i] = u[i]
<1>1. u \o <<d>> = Append(u, d)
  BY AppendIsConcat
<1> QED BY <1>1, AppendProperties

LEMMA Assembling ==
  ASSUME NEW S, NEW a \in S, NEW b1 \in S, NEW b2 \in S, NEW c \in S, NEW F \in Seq(S),
         NEW d \in S, NEW e \in S
  PROVE  Assembled(S, <<a>> \o <<b1, b2>> \o <<c>> \o F \o <<d>> \o <<e>>,
                   a, b1, b2, c, F, d, e)
<1>1. PICK k \in Nat : k = Len(F)
  OBVIOUS
<1>2. PICK u \in Seq(S) :
        /\ u = <<a>> \o <<b1, b2>> \o <<c>> /\ Len(u) = 4
        /\ u[1] = a /\ u[2] = b1 /\ u[3] = b2 /\ u[4] = c
  <2>1. PICK p \in Seq(S), q \in Seq(S) :
          /\ p = <<a>> /\ Len(p) = 1 /\ p[1] = a
          /\ q = <<b1, b2>> /\ Len(q) = 2 /\ q[1] = b1 /\ q[2] = b2
    <3>1. <<a>> \in Seq(S) /\ Len(<<a>>) = 1 /\ <<a>>[1] = a
      OBVIOUS
    <3>2. /\ <<b1, b2>> \in Seq(S) /\ Len(<<b1, b2>>) = 2
          /\ <<b1, b2>>[1] = b1 /\ <<b1, b2>>[2] = b2
      OBVIOUS
    <3> QED BY <3>1, <3>2
  <2>2. /\ p \o q \in Seq(S) /\ Len(p \o q) = Len(p) + Len(q)
        /\ \A i \in 1..Len(p) + Len(q) : (p \o q)[i] = IF i <= Len(p) THEN p[i] ELSE q[i - Len(p)]
    BY ConcatProperties
  <2>3. PICK r \in Seq(S) :
          r = p \o q /\ Len(r) = 3 /\ \A i \in 1..3 : r[i] = IF i <= 1 THEN p[i] ELSE q[i - 1]
    <3>1. Len(p) + Len(q) = 3
      BY <2>1
    <3> QED BY <2>1, <2>2, <3>1
  <2>4. r[1] = a /\ r[2] = b1 /\ r[3] = b2
    <3>1. /\ 1 \in 1..3 /\ 2 \in 1..3 /\ 3 \in 1..3 /\ 1 <= 1 /\ ~(2 <= 1) /\ ~(3 <= 1)
          /\ 2 - 1 = 1 /\ 3 - 1 = 2
      OBVIOUS
    <3>2. r[1] = p[1] /\ r[2] = q[1] /\ r[3] = q[2]
      BY <2>3, <3>1
    <3> QED BY <2>1, <3>2
  <2>5. /\ r \o <<c>> \in Seq(S) /\ Len(r \o <<c>>) = 3 + 1 /\ (r \o <<c>>)[3 + 1] = c
        /\ \A i \in 1..3 : (r \o <<c>>)[i] = r[i]
    BY <2>3, AppendNext
  <2>6. 1 \in 1..3 /\ 2 \in 1..3 /\ 3 \in 1..3 /\ 3 + 1 = 4
    OBVIOUS
  <2> QED BY <2>1, <2>3, <2>4, <2>5, <2>6
<1>3. PICK v \in Seq(S) :
        /\ v = u \o F /\ Len(v) = 4 + k
        /\ \A i \in 1..4 + k : v[i] = IF i <= 4 THEN u[i] ELSE F[i - 4]
  <2>1. /\ u \o F \in Seq(S) /\ Len(u \o F) = Len(u) + Len(F)
        /\ \A i \in 1..Len(u) + Len(F) : (u \o F)[i] = IF i <= Len(u) THEN u[i] ELSE F[i - Len(u)]
    BY ConcatProperties
  <2>2. Len(u) = 4 /\ Len(F) = k
    BY <1>1, <1>2
  <2> QED BY <2>1, <2>2
<1>4. PICK w \in Seq(S) :
        w = v \o <<d>> /\ Len(w) = 5 + k /\ w[5 + k] = d /\ \A i \in 1..4 + k : w[i] = v[i]
  <2>1. /\ v \o <<d>> \in Seq(S) /\ Len(v \o <<d>>) = (4 + k) + 1
        /\ (v \o <<d>>)[(4 + k) + 1] = d /\ \A i \in 1..4 + k : (v \o <<d>>)[i] = v[i]
    BY <1>3, AppendNext
  <2>2. (4 + k) + 1 = 5 + k
    OBVIOUS
  <2> QED BY <2>1, <2>2
<1>5. PICK y \in Seq(S) :
        y = w \o <<e>> /\ Len(y) = 6 + k /\ y[6 + k] = e /\ \A i \in 1..5 + k : y[i] = w[i]
  <2>1. /\ w \o <<e>> \in Seq(S) /\ Len(w \o <<e>>) = (5 + k) + 1
        /\ (w \o <<e>>)[(5 + k) + 1] = e /\ \A i \in 1..5 + k : (w \o <<e>>)[i] = w[i]
    BY <1>4, AppendNext
  <2>2. (5 + k) + 1 = 6 + k
    OBVIOUS
  <2> QED BY <2>1, <2>2
<1>6. /\ \A i \in 1..4 + k : i \in 1..5 + k
      /\ 5 + k \in 1..5 + k
      /\ 1 \in 1..4 + k /\ 2 \in 1..4 + k /\ 3 \in 1..4 + k /\ 4 \in 1..4 + k
      /\ 1 <= 4 /\ 2 <= 4 /\ 3 <= 4 /\ 4 <= 4
      /\ \A i \in 1..k : 4 + i \in 1..4 + k /\ ~(4 + i <= 4) /\ (4 + i) - 4 = i
  OBVIOUS
<1>7. \A i \in 1..4 + k : y[i] = v[i]
  BY <1>4, <1>5, <1>6
<1>8. y[1] = u[1] /\ y[2] = u[2] /\ y[3] = u[3] /\ y[4] = u[4]
  <2>1. y[1] = v[1] /\ y[2] = v[2] /\ y[3] = v[3] /\ y[4] = v[4]
    BY <1>6, <1>7
  <2>2. v[1] = u[1] /\ v[2] = u[2] /\ v[3] = u[3] /\ v[4] = u[4]
    BY <1>3, <1>6
  <2> QED BY <2>1, <2>2
<1>9. ASSUME NEW i \in 1..k PROVE y[4 + i] = F[i]
  <2>1. 4 + i \in 1..4 + k /\ ~(4 + i <= 4) /\ (4 + i) - 4 = i
    BY <1>6
  <2>2. y[4 + i] = v[4 + i]
    BY <1>7, <2>1
  <2>3. v[4 + i] = F[(4 + i) - 4]
    BY <1>3, <2>1
  <2> QED BY <2>1, <2>2, <2>3
<1>10. y[5 + k] = d
  BY <1>4, <1>5, <1>6
<1>11. Assembled(S, y, a, b1, b2, c, F, d, e)
  BY <1>1, <1>2, <1>5, <1>8, <1>9, <1>10 DEF Assembled
<1>12. y = <<a>> \o <<b1, b2>> \o <<c>> \o F \o <<d>> \o <<e>>
  BY <1>2, <1>3, <1>4, <1>5
<1> QED BY <1>11, <1>12

LEMMA PairConcat ==
  ASSUME NEW S, NEW a \in S, NEW b \in S
  PROVE  <<a>> \o <<b>> = <<a, b>>
<1>1. <<a>> \in Seq(S)
  OBVIOUS
<1>2. Append(<<a>>, b) = <<a, b>>
  <2>1. PICK s \in Seq(S) : s = <<a>> /\ Len(s) = 1 /\ s[1] = a
    BY <1>1
  <2>2. PICK p \in Seq(S) : p = Append(s, b) /\ Len(p) = 2 /\ p[1] = a /\ p[2] = b
    <3>1. /\ Append(s, b) \in Seq(S) /\ Len(Append(s, b)) = Len(s) + 1
          /\ Append(s, b)[Len(s) + 1] = b /\ \A i \in 1..Len(s) : Append(s, b)[i] = s[i]
      BY AppendProperties
    <3>2. 1 \in 1..Len(s) /\ Len(s) + 1 = 2
      BY <2>1
    <3> QED BY <2>1, <3>1, <3>2
  <2>3. PICK q \in Seq(S) : q = <<a, b>> /\ Len(q) = 2 /\ q[1] = a /\ q[2] = b
    <3>1. /\ <<a, b>> \in Seq(S) /\ Len(<<a, b>>) = 2
          /\ <<a, b>>[1] = a /\ <<a, b>>[2] = b
      OBVIOUS
    <3> QED BY <3>1
  <2>4. \A i \in 1..2 : i = 1 \/ i = 2
    OBVIOUS
  <2>5. Len(p) = Len(q) /\ \A i \in 1..Len(p) : p[i] = q[i]
    BY <2>2, <2>3, <2>4
  <2>6. p = q
    BY <2>5, SeqEqual
  <2> QED BY <2>1, <2>2, <2>3, <2>6
<1>3. Append(<<a>>, b) = <<a>> \o <<b>>
  BY <1>1, AppendIsConcat
<1> QED BY <1>2, <1>3

\* The services of one part; y is what is stored of x, of n services, and has
\* m: h numbers those of them that are left.
Whole(x, n) == {i \in 1..n : FreeOf(":", LastPiece(x[2 + 3 * i].v))}

StoredPath(x) ==
  IF FreeOf(":", x[2].v) THEN x[2] ELSE Value("text", "tempPath", <<>>)
StoredDivider(x) ==
  IF FreeOf(":", x[2].v) THEN x[3]
  ELSE Value("number", "tempDivider", [i \in 1..2 |-> Byte("one", i)])

StoredAs(x, n, y, m, h) ==
  /\ Upward(h, m, Whole(x, n)) /\ IsConfig(y, m)
  /\ y[1] = x[1] /\ y[2] = StoredPath(x) /\ y[3] = StoredDivider(x)
  /\ \A i \in 1..m : /\ y[2 + 3 * i] = Value("text", "service", LastPiece(x[2 + 3 * h[i]].v))
                     /\ y[3 + 3 * i] = x[3 + 3 * h[i]] /\ y[4 + 3 * i] = x[4 + 3 * h[i]]
  /\ y[5 + 3 * m] = x[5 + 3 * n] /\ y[6 + 3 * m] = x[6 + 3 * n]

LEMMA ValueTypes ==
  /\ \A f \in Fields, v \in Seq(Octets) : Value("text", f, v) \in Values
  /\ \A f \in Fields, v \in Seq(Octets) : Value("number", f, v) \in Values
  /\ \A f \in Fields, v \in Seq(Octets) : Value("list", f, v) \in Values
  /\ \A k, f, v : Value(k, f, v).kind = k /\ Value(k, f, v).f = f /\ Value(k, f, v).v = v
  /\ \A n \in Nat : Count(n) \in Seq(Octets)
<1>1. \A n \in Nat : Byte("count", n) \in Octets
  BY ByteType DEF Marks
<1>2. \A n \in Nat : Count(n) \in Seq(Octets)
  <2> HIDE DEF Octets
  <2> QED BY <1>1 DEF Count
<1> QED BY <1>2 DEF Value, Values

LEMMA StoredTwo ==
  ASSUME NEW n \in Nat, NEW x, IsConfig(x, n)
  PROVE  /\ StoredPath(x) \in Values /\ StoredDivider(x) \in Values
         /\ Matches(StoredPath(x), Str("tempPath"))
         /\ Matches(StoredDivider(x), Num("tempDivider", 2))
<1>1. x \in Seq(Values) /\ 2 \in 1..Len(x) /\ 3 \in 1..Len(x)
  BY DEF IsConfig
<1>2. x[2] \in Values /\ x[3] \in Values
  BY <1>1
<1>3. Matches(x[2], Str("tempPath")) /\ Matches(x[3], Num("tempDivider", 2))
  BY DEF IsConfig
<1> DEFINE b == [i \in 1..2 |-> Byte("one", i)]
<1>4. b \in Seq(Octets) /\ Len(b) = 2
  <2>1. \A i \in Nat : Byte("one", i) \in Octets
    BY ByteType DEF Marks
  <2>2. \A i \in 1..2 : i \in Nat
    OBVIOUS
  <2> HIDE DEF Octets
  <2> QED BY <2>1, <2>2
<1> HIDE DEF b
<1>5. <<>> \in Seq(Octets) /\ "tempPath" \in Fields /\ "tempDivider" \in Fields
  BY DEF Fields
<1>6. Value("text", "tempPath", <<>>) \in Values /\ Value("number", "tempDivider", b) \in Values
  BY <1>4, <1>5, ValueTypes
<1>7. Matches(Value("text", "tempPath", <<>>), Str("tempPath"))
  BY ValueTypes, ItemKinds DEF Matches
<1>8. Matches(Value("number", "tempDivider", b), Num("tempDivider", 2))
  <2>1. PICK y : /\ y = Value("number", "tempDivider", b)
                 /\ y.kind = "number" /\ y.f = "tempDivider" /\ y.v = b
    BY ValueTypes
  <2>2. PICK t : /\ t = Num("tempDivider", 2)
                 /\ t.kind = "number" /\ t.f = "tempDivider" /\ t.width = 2
    BY ItemKinds
  <2>3. Len(y.v) = t.width
    BY <1>4, <2>1, <2>2
  <2>4. t.kind # "list"
    BY <2>2
  <2>5. Matches(y, t)
    BY <2>1, <2>2, <2>3, <2>4 DEF Matches
  <2> QED BY <2>1, <2>2, <2>5
<1> QED BY <1>2, <1>3, <1>6, <1>7, <1>8 DEF StoredPath, StoredDivider, b

LEMMA StoredIs ==
  ASSUME NEW n \in Nat, NEW x, IsConfig(x, n)
  PROVE  \E m \in Nat : \E h : StoredAs(x, n, Stored(x), m, h)
<1> DEFINE service == OfField(x, "service")
           tcp == OfField(x, "tcp")
           port == OfField(x, "port")
           pieces == [i \in DOMAIN service |-> LastPiece(service[i].v)]
           at == {i \in DOMAIN pieces : Parts(pieces[i]) = 1}
           kept == ThoseAt([i \in DOMAIN pieces |-> i], at)
           row(i) == <<Value("text", "service", pieces[i]), tcp[i], port[i]>>
           rows == [i \in DOMAIN kept |-> row(kept[i])]
           path == OfField(x, "tempPath")[1].v
           two == IF Parts(path) = 1
                  THEN OfField(x, "tempPath") \o OfField(x, "tempDivider")
                  ELSE <<Value("text", "tempPath", <<>>),
                         Value("number", "tempDivider", [i \in 1..2 |-> Byte("one", i)])>>
<1>1. Stored(x) = OfField(x, "agentId") \o two
                    \o <<Value("list", "services", Count(Len(kept)))>>
                    \o FlattenSeq(rows) \o OfField(x, "interval") \o OfField(x, "name")
  BY DEF Stored
<1>2. x \in Seq(Values) /\ Len(x) = 6 + 3 * n
  BY DEF IsConfig
<1>3. /\ x[1] \in Values /\ x[2] \in Values /\ x[3] \in Values
      /\ x[5 + 3 * n] \in Values /\ x[6 + 3 * n] \in Values
      /\ \A i \in 1..n : /\ x[2 + 3 * i] \in Values /\ x[3 + 3 * i] \in Values
                         /\ x[4 + 3 * i] \in Values
  <2>1. /\ 1 \in 1..Len(x) /\ 2 \in 1..Len(x) /\ 3 \in 1..Len(x)
        /\ 5 + 3 * n \in 1..Len(x) /\ 6 + 3 * n \in 1..Len(x)
    BY <1>2
  <2>2. \A i \in 1..n : /\ 2 + 3 * i \in 1..Len(x) /\ 3 + 3 * i \in 1..Len(x)
                        /\ 4 + 3 * i \in 1..Len(x)
    BY <1>2
  <2> HIDE DEF Values
  <2> QED BY <1>2, <2>1, <2>2
<1>4. \A y \in Values : y.v \in Seq(Octets)
  BY DEF Values
<1>5. /\ OfField(x, "agentId") = <<x[1]>> /\ OfField(x, "tempPath") = <<x[2]>>
      /\ OfField(x, "tempDivider") = <<x[3]>> /\ OfField(x, "interval") = <<x[5 + 3 * n]>>
      /\ OfField(x, "name") = <<x[6 + 3 * n]>>
  BY ConfigFields
<1>6. /\ service \in Seq(Values) /\ Len(service) = n
      /\ \A i \in 1..n : /\ service[i] = x[2 + 3 * i] /\ tcp[i] = x[3 + 3 * i]
                         /\ port[i] = x[4 + 3 * i]
  <2> HIDE DEF Values, service, tcp, port
  <2>1. Thirds(x, service, n, 2) /\ Thirds(x, tcp, n, 3) /\ Thirds(x, port, n, 4)
    BY ConfigServiceFields, Zenon DEF service, tcp, port
  <2>2. service \in Seq(Values) /\ Len(service) = n /\ \A i \in 1..n : service[i] = x[2 + 3 * i]
    BY <2>1, Zenon DEF Thirds
  <2>3. \A i \in 1..n : tcp[i] = x[3 + 3 * i]
    BY <2>1, Zenon DEF Thirds
  <2>4. \A i \in 1..n : port[i] = x[4 + 3 * i]
    BY <2>1, Zenon DEF Thirds
  <2> QED BY <2>2, <2>3, <2>4, Zenon
<1>7. DOMAIN service = 1..n
  <2> HIDE DEF Values, service
  <2> QED BY <1>6
<1>8. /\ DOMAIN pieces = 1..n
      /\ \A i \in 1..n : pieces[i] = LastPiece(x[2 + 3 * i].v)
  BY <1>6, <1>7
<1>9. ASSUME NEW i \in 1..n
      PROVE  LastPiece(x[2 + 3 * i].v) \in Seq(Octets)
  BY <1>3, <1>4, LastPieceType
<1> HIDE DEF service, tcp, port, pieces
<1>10. at = Whole(x, n)
  <2>1. \A i \in 1..n : Parts(pieces[i]) = 1 <=> FreeOf(":", LastPiece(x[2 + 3 * i].v))
    BY <1>8, <1>9, PartsOne
  <2> QED BY <1>8, <2>1 DEF Whole
<1>11. at \subseteq 1..n
  BY <1>10 DEF Whole
<1>12. PICK s \in Seq(Nat) :
         s = [i \in DOMAIN pieces |-> i] /\ DOMAIN s = 1..n /\ \A i \in 1..n : s[i] = i
  <2>1. [i \in DOMAIN pieces |-> i] = [i \in 1..n |-> i]
    BY <1>8
  <2>2. [i \in 1..n |-> i] \in Seq(Nat) /\ \A i \in 1..n : [j \in 1..n |-> j][i] = i
    OBVIOUS
  <2> QED BY <2>1, <2>2
<1>13. kept = ThoseAt(s, at)
  BY <1>12
<1> HIDE DEF at, kept
<1>14. kept \in Seq(Nat) /\ \E g : Numbers(g, s, at, kept)
  BY <1>11, <1>12, <1>13, ThoseAtElements
<1>15. PICK g : Numbers(g, s, at, kept)
  BY <1>14
<1> DEFINE m == Len(kept)
<1>19. m \in Nat /\ DOMAIN kept = 1..m
  BY <1>14
<1>16. g \in [1..m -> at] /\ \A i \in 1..m : kept[i] = g[i] /\ g[i] \in 1..n
  <2>1. g \in [1..m -> at] /\ \A i \in 1..m : kept[i] = s[g[i]]
    BY <1>15 DEF Numbers
  <2>2. \A i \in 1..m : g[i] \in 1..n
    BY <1>11, <2>1
  <2> QED BY <1>12, <2>1, <2>2
<1>17. Upward(g, m, Whole(x, n))
  <2>1. at \subseteq Nat
    BY <1>11
  <2> QED BY <1>10, <1>15, <1>16, <1>19, <2>1 DEF Upward, Numbers
<1> HIDE DEF m
<1> DEFINE r(i) == <<Value("text", "service", LastPiece(x[2 + 3 * g[i]].v)),
                     x[3 + 3 * g[i]], x[4 + 3 * g[i]]>>
<1>18. \A i \in 1..m : row(kept[i]) = r(i)
  BY <1>6, <1>8, <1>16
<1>20. rows = [i \in 1..m |-> r(i)]
  BY <1>18, <1>19
<1>21. ASSUME NEW i \in 1..m
       PROVE  /\ Value("text", "service", LastPiece(x[2 + 3 * g[i]].v)) \in Values
              /\ x[3 + 3 * g[i]] \in Values /\ x[4 + 3 * g[i]] \in Values
  <2>1. g[i] \in 1..n
    BY <1>16
  <2>2. LastPiece(x[2 + 3 * g[i]].v) \in Seq(Octets) /\ "service" \in Fields
    BY <1>9, <2>1 DEF Fields
  <2> QED BY <1>3, <2>1, <2>2, ValueTypes
<1> HIDE DEF rows, row, Values
<1>22. \A i \in 1..m : r(i) \in Seq(Values) /\ Len(r(i)) = 3
  BY <1>21
<1>23. rows \in Seq(Seq(Values)) /\ Len(rows) = m /\ \A i \in 1..m : rows[i] = r(i)
  <2> HIDE DEF r
  <2> QED BY <1>19, <1>20, <1>22
<1>24. PICK F \in Seq(Values) :
         /\ F = FlattenSeq(rows) /\ Len(F) = 3 * m
         /\ \A i \in 1..m, j \in 1..3 : F[3 * (i - 1) + j] = r(i)[j]
  <2> HIDE DEF r
  <2>1. \A i \in 1..Len(rows) : Len(rows[i]) = 3
    BY <1>22, <1>23
  <2>2. /\ FlattenSeq(rows) \in Seq(Values) /\ Len(FlattenSeq(rows)) = 3 * Len(rows)
        /\ \A i \in 1..Len(rows), j \in 1..3 : FlattenSeq(rows)[3 * (i - 1) + j] = rows[i][j]
    BY <1>23, <2>1, FlattenTriples
  <2>3. PICK F \in Seq(Values) : F = FlattenSeq(rows)
    BY <2>2
  <2>4. Len(F) = 3 * m /\ \A i \in 1..m, j \in 1..3 : F[3 * (i - 1) + j] = rows[i][j]
    BY <1>23, <2>2, <2>3
  <2>5. ASSUME NEW i \in 1..m, NEW j \in 1..3 PROVE F[3 * (i - 1) + j] = r(i)[j]
    <3>1. F[3 * (i - 1) + j] = rows[i][j]
      BY <2>4
    <3>2. rows[i] = r(i)
      BY <1>23
    <3> QED BY <3>1, <3>2, Zenon
  <2> QED BY <2>3, <2>4, <2>5
<1>25. two = <<StoredPath(x), StoredDivider(x)>>
  <2>1. path = x[2].v
    BY <1>5
  <2>2. Parts(path) = 1 <=> FreeOf(":", x[2].v)
    BY <1>3, <1>4, <2>1, PartsOne
  <2>3. <<x[2]>> \o <<x[3]>> = <<x[2], x[3]>>
    <3>1. PICK a \in Values, b \in Values : a = x[2] /\ b = x[3]
      BY <1>3
    <3> QED BY <3>1, PairConcat
  <2> HIDE DEF path
  <2> QED BY <1>5, <2>2, <2>3 DEF StoredPath, StoredDivider
<1> DEFINE l == Value("list", "services", Count(m))
<1>26. l \in Values
  BY <1>19, ValueTypes DEF Fields
<1>27. Stored(x) = <<x[1]>> \o <<StoredPath(x), StoredDivider(x)>> \o <<l>> \o F
                     \o <<x[5 + 3 * n]>> \o <<x[6 + 3 * n]>>
  BY <1>1, <1>5, <1>24, <1>25 DEF m
<1> HIDE DEF l, two
<1>28. Assembled(Values, Stored(x), x[1], StoredPath(x), StoredDivider(x), l, F,
                 x[5 + 3 * n], x[6 + 3 * n])
  BY <1>3, <1>26, <1>27, Assembling, StoredTwo
<1>29. PICK y \in Seq(Values) :
         /\ y = Stored(x) /\ Len(y) = 6 + 3 * m
         /\ y[1] = x[1] /\ y[2] = StoredPath(x) /\ y[3] = StoredDivider(x) /\ y[4] = l
         /\ \A i \in 1..3 * m : y[4 + i] = F[i]
         /\ y[5 + 3 * m] = x[5 + 3 * n] /\ y[6 + 3 * m] = x[6 + 3 * n]
  BY <1>24, <1>28 DEF Assembled
<1>30. ASSUME NEW i \in 1..m
       PROVE  /\ y[2 + 3 * i] = Value("text", "service", LastPiece(x[2 + 3 * g[i]].v))
              /\ y[3 + 3 * i] = x[3 + 3 * g[i]] /\ y[4 + 3 * i] = x[4 + 3 * g[i]]
  <2>1. PICK k \in Nat : k = 3 * (i - 1)
    <3>1. 3 * (i - 1) \in Nat
      BY <1>19
    <3> QED BY <3>1
  <2>2. /\ k + 1 \in 1..3 * m /\ k + 2 \in 1..3 * m /\ k + 3 \in 1..3 * m
        /\ 4 + (k + 1) = 2 + 3 * i /\ 4 + (k + 2) = 3 + 3 * i /\ 4 + (k + 3) = 4 + 3 * i
    BY <1>19, <2>1
  <2>3. y[2 + 3 * i] = F[k + 1] /\ y[3 + 3 * i] = F[k + 2] /\ y[4 + 3 * i] = F[k + 3]
    BY <1>29, <2>2
  <2>4. 1 \in 1..3 /\ 2 \in 1..3 /\ 3 \in 1..3
    OBVIOUS
  <2>5. F[k + 1] = r(i)[1] /\ F[k + 2] = r(i)[2] /\ F[k + 3] = r(i)[3]
    <3> HIDE DEF r
    <3> QED BY <1>24, <2>1, <2>4
  <2>6. /\ r(i)[1] = Value("text", "service", LastPiece(x[2 + 3 * g[i]].v))
        /\ r(i)[2] = x[3 + 3 * g[i]] /\ r(i)[3] = x[4 + 3 * g[i]]
    OBVIOUS
  <2> QED BY <2>3, <2>5, <2>6
<1>31. /\ Matches(x[1], Num("agentId", 2)) /\ Matches(x[5 + 3 * n], Num("interval", 2))
       /\ Matches(x[6 + 3 * n], Str("name"))
       /\ \A i \in 1..n : /\ Matches(x[3 + 3 * i], Num("tcp", 1))
                          /\ Matches(x[4 + 3 * i], Num("port", 2))
  BY DEF IsConfig
<1>32. ASSUME NEW i \in 1..m
       PROVE  /\ Matches(y[2 + 3 * i], Str("service")) /\ Matches(y[3 + 3 * i], Num("tcp", 1))
              /\ Matches(y[4 + 3 * i], Num("port", 2))
  <2>1. ASSUME NEW v PROVE Matches(Value("text", "service", v), Str("service"))
    <3>1. PICK z : /\ z = Value("text", "service", v) /\ z.kind = "text" /\ z.f = "service"
      <4>1. /\ Value("text", "service", v).kind = "text"
            /\ Value("text", "service", v).f = "service"
        BY DEF Value
      <4> QED BY <4>1
    <3>2. PICK t : t = Str("service") /\ t.kind = "text" /\ t.f = "service"
      BY ItemKinds
    <3>3. t.kind # "number" /\ t.kind # "list"
      BY <3>2
    <3>4. Matches(z, t)
      BY <3>1, <3>2, <3>3 DEF Matches
    <3> QED BY <3>1, <3>2, <3>4
  <2>2. g[i] \in 1..n
    BY <1>16
  <2> QED BY <1>30, <1>31, <2>1, <2>2
<1>33. Matches(y[2], Str("tempPath")) /\ Matches(y[3], Num("tempDivider", 2))
  BY <1>29, StoredTwo
<1>34. IsConfig(y, m)
  BY <1>29, <1>31, <1>32, <1>33 DEF IsConfig, l
<1>35. StoredAs(x, n, y, m, g)
  BY <1>17, <1>29, <1>30, <1>34 DEF StoredAs
<1> QED BY <1>19, <1>29, <1>35

\* Which values of a configuration are texts.
LEMMA ConfigTexts ==
  ASSUME NEW n \in Nat, NEW x, IsConfig(x, n)
  PROVE  /\ x[2].kind = "text" /\ x[6 + 3 * n].kind = "text"
         /\ \A i \in 1..n : x[2 + 3 * i].kind = "text" /\ x[2 + 3 * i].f = "service"
         /\ \A k \in 1..Len(x) : x[k].kind = "text" =>
              k = 2 \/ k = 6 + 3 * n \/ \E i \in 1..n : k = 2 + 3 * i
         /\ \A k \in 1..Len(x) : x[k].f = "service" => \E i \in 1..n : k = 2 + 3 * i
<1>1. Len(x) = 6 + 3 * n
  BY DEF IsConfig
<1>2. /\ x[1].f = "agentId" /\ x[2].f = "tempPath" /\ x[3].f = "tempDivider"
      /\ x[4].f = "services" /\ x[5 + 3 * n].f = "interval" /\ x[6 + 3 * n].f = "name"
      /\ \A i \in 1..n : /\ x[2 + 3 * i].f = "service" /\ x[3 + 3 * i].f = "tcp"
                         /\ x[4 + 3 * i].f = "port"
  BY ConfigNames
<1>3. /\ x[1].kind = "number" /\ x[2].kind = "text" /\ x[3].kind = "number"
      /\ x[4].kind = "list" /\ x[5 + 3 * n].kind = "number" /\ x[6 + 3 * n].kind = "text"
      /\ \A i \in 1..n : /\ x[2 + 3 * i].kind = "text" /\ x[3 + 3 * i].kind = "number"
                         /\ x[4 + 3 * i].kind = "number"
  <2>1. /\ Matches(x[1], Num("agentId", 2)) /\ Matches(x[2], Str("tempPath"))
        /\ Matches(x[3], Num("tempDivider", 2))
        /\ x[4] = Value("list", "services", Count(n))
        /\ Matches(x[5 + 3 * n], Num("interval", 2)) /\ Matches(x[6 + 3 * n], Str("name"))
    BY DEF IsConfig
  <2>2. \A i \in 1..n : /\ Matches(x[2 + 3 * i], Str("service"))
                        /\ Matches(x[3 + 3 * i], Num("tcp", 1))
                        /\ Matches(x[4 + 3 * i], Num("port", 2))
    BY DEF IsConfig
  <2>3. \A y, item : Matches(y, item) => y.kind = item.kind
    BY DEF Matches
  <2>4. x[4].kind = "list"
    BY <2>1 DEF Value
  <2>5. \A i \in 1..n : /\ x[2 + 3 * i].kind = "text" /\ x[3 + 3 * i].kind = "number"
                        /\ x[4 + 3 * i].kind = "number"
    BY <2>2, <2>3, ItemKinds
  <2> QED BY <2>1, <2>3, <2>4, <2>5, ItemKinds
<1>4. ASSUME NEW k \in 1..Len(x)
      PROVE  \/ k = 1 \/ k = 2 \/ k = 3 \/ k = 4 \/ k = 5 + 3 * n \/ k = 6 + 3 * n
             \/ \E i \in 1..n : k = 2 + 3 * i \/ k = 3 + 3 * i \/ k = 4 + 3 * i
  <2>1. \/ k \in 1..4 \/ k = 5 + 3 * n \/ k = 6 + 3 * n
        \/ \E i \in 1..n : k = 2 + 3 * i \/ k = 3 + 3 * i \/ k = 4 + 3 * i
    BY <1>1, ConfigPlaces
  <2>2. CASE k \in 1..4
    BY <2>2
  <2> QED BY <2>1, <2>2
<1> HIDE DEF IsConfig
<1>5. ASSUME NEW k \in 1..Len(x), x[k].kind = "text"
      PROVE  k = 2 \/ k = 6 + 3 * n \/ \E i \in 1..n : k = 2 + 3 * i
  BY <1>3, <1>4, <1>5
<1>6. ASSUME NEW k \in 1..Len(x), x[k].f = "service"
      PROVE  \E i \in 1..n : k = 2 + 3 * i
  BY <1>2, <1>4, <1>6
<1> QED BY <1>2, <1>3, <1>5, <1>6

\* The table gives back a configuration whose services have no delimiter, and
\* whose path has no ":".
LEMMA StoredSame ==
  ASSUME NEW n \in Nat, NEW x, IsConfig(x, n), FreeOf(":", x[2].v),
         \A i \in 1..n : FreeOf(":", x[2 + 3 * i].v) /\ FreeOf(Comma, x[2 + 3 * i].v)
  PROVE  Stored(x) = x
<1>1. x \in Seq(Values) /\ Len(x) = 6 + 3 * n
  BY DEF IsConfig
<1>0. PICK m \in Nat : \E h : StoredAs(x, n, Stored(x), m, h)
  BY StoredIs
<1>2. PICK y, h : y = Stored(x) /\ StoredAs(x, n, y, m, h)
  BY <1>0
<1>3. \A i \in 1..n : x[2 + 3 * i] \in Values
  <2>1. \A i \in 1..n : 2 + 3 * i \in 1..Len(x)
    BY <1>1
  <2> HIDE DEF Values
  <2> QED BY <1>1, <2>1
<1>4. ASSUME NEW i \in 1..n PROVE LastPiece(x[2 + 3 * i].v) = x[2 + 3 * i].v
  <2>1. x[2 + 3 * i].v \in Seq(Octets)
    BY <1>3 DEF Values
  <2>2. FreeOf(Comma, x[2 + 3 * i].v)
    OBVIOUS
  <2> QED BY <2>1, <2>2, LastPieceType
<1>5. Whole(x, n) = 1..n
  BY <1>4 DEF Whole
<1> DEFINE g == [i \in 1..n |-> i]
<1>6. Upward(g, n, 1..n)
  BY DEF Upward
<1>7. m = n /\ \A i \in 1..n : h[i] = i
  <2>1. Upward(h, m, 1..n)
    BY <1>2, <1>5 DEF StoredAs
  <2>2. SameWay(h, m, g, n)
    BY <1>6, <2>1, UpwardOnce
  <2> QED BY <2>2 DEF SameWay
<1>8. /\ y \in Seq(Values) /\ Len(y) = 6 + 3 * n
      /\ y[4] = Value("list", "services", Count(n)) /\ x[4] = Value("list", "services", Count(n))
  BY <1>2, <1>7 DEF StoredAs, IsConfig
<1>9. /\ y[1] = x[1] /\ y[2] = x[2] /\ y[3] = x[3] /\ y[4] = x[4]
      /\ y[5 + 3 * n] = x[5 + 3 * n] /\ y[6 + 3 * n] = x[6 + 3 * n]
  BY <1>2, <1>7, <1>8 DEF StoredAs, StoredPath, StoredDivider
<1>10. ASSUME NEW i \in 1..n
       PROVE  /\ y[2 + 3 * i] = x[2 + 3 * i] /\ y[3 + 3 * i] = x[3 + 3 * i]
              /\ y[4 + 3 * i] = x[4 + 3 * i]
  <2>1. h[i] = i /\ i \in 1..m
    BY <1>7
  <2>2. /\ y[2 + 3 * i] = Value("text", "service", LastPiece(x[2 + 3 * i].v))
        /\ y[3 + 3 * i] = x[3 + 3 * i] /\ y[4 + 3 * i] = x[4 + 3 * i]
    BY <1>2, <2>1 DEF StoredAs
  <2>3. x[2 + 3 * i].kind = "text" /\ x[2 + 3 * i].f = "service"
    BY ConfigTexts
  <2>4. \A z \in Values : z = [kind |-> z.kind, f |-> z.f, v |-> z.v]
    BY DEF Values
  <2>5. Value("text", "service", x[2 + 3 * i].v) = x[2 + 3 * i]
    BY <1>3, <2>3, <2>4 DEF Value
  <2> QED BY <1>4, <2>2, <2>5
<1>11. ASSUME NEW k \in 1..6 + 3 * n PROVE y[k] = x[k]
  <2>1. \/ k \in 1..4 \/ k = 5 + 3 * n \/ k = 6 + 3 * n
        \/ \E i \in 1..n : k = 2 + 3 * i \/ k = 3 + 3 * i \/ k = 4 + 3 * i
    BY ConfigPlaces
  <2>2. k \in 1..4 => k = 1 \/ k = 2 \/ k = 3 \/ k = 4
    OBVIOUS
  <2> QED BY <1>9, <1>10, <2>1, <2>2
<1>12. Len(y) = Len(x) /\ \A k \in 1..Len(y) : y[k] = x[k]
  BY <1>1, <1>8, <1>11
<1>13. y = x
  BY <1>1, <1>8, <1>12, SeqEqual
<1> QED BY <1>2, <1>13

\* The services that the table leaves have no delimiter, and the path no ":".
LEMMA StoredFree ==
  ASSUME NEW n \in Nat, NEW x, IsConfig(x, n)
  PROVE  \E m \in Nat :
           /\ IsConfig(Stored(x), m) /\ FreeOf(":", Stored(x)[2].v)
           /\ \A i \in 1..m : /\ FreeOf(":", Stored(x)[2 + 3 * i].v)
                              /\ FreeOf(Comma, Stored(x)[2 + 3 * i].v)
<1>1. x \in Seq(Values) /\ Len(x) = 6 + 3 * n
  BY DEF IsConfig
<1>0. PICK m \in Nat : \E h : StoredAs(x, n, Stored(x), m, h)
  BY StoredIs
<1>2. PICK y, h : y = Stored(x) /\ StoredAs(x, n, y, m, h)
  BY <1>0
<1>3. IsConfig(y, m) /\ Upward(h, m, Whole(x, n))
  BY <1>2 DEF StoredAs
<1>4. FreeOf(":", y[2].v)
  <2>1. y[2] = StoredPath(x)
    BY <1>2 DEF StoredAs
  <2>2. FreeOf(":", <<>>)
    BY DEF FreeOf
  <2>3. Value("text", "tempPath", <<>>).v = <<>>
    BY DEF Value
  <2> QED BY <2>1, <2>2, <2>3 DEF StoredPath
<1>5. ASSUME NEW i \in 1..m
      PROVE  FreeOf(":", y[2 + 3 * i].v) /\ FreeOf(Comma, y[2 + 3 * i].v)
  <2>1. h[i] \in Whole(x, n)
    BY <1>3 DEF Upward
  <2>2. h[i] \in 1..n /\ FreeOf(":", LastPiece(x[2 + 3 * h[i]].v))
    BY <2>1 DEF Whole
  <2>3. y[2 + 3 * i] = Value("text", "service", LastPiece(x[2 + 3 * h[i]].v))
    BY <1>2 DEF StoredAs
  <2>4. y[2 + 3 * i].v = LastPiece(x[2 + 3 * h[i]].v)
    BY <2>3 DEF Value
  <2>5. x[2 + 3 * h[i]].v \in Seq(Octets)
    <3>1. 2 + 3 * h[i] \in 1..Len(x)
      BY <1>1, <2>2
    <3>2. x[2 + 3 * h[i]] \in Values
      BY <1>1, <3>1
    <3> QED BY <3>2 DEF Values
  <2>6. FreeOf(Comma, LastPiece(x[2 + 3 * h[i]].v))
    BY <2>5, LastPieceType
  <2> QED BY <2>2, <2>4, <2>6
<1> QED BY <1>2, <1>3, <1>4, <1>5

LEMMA StoredTwice ==
  ASSUME NEW n \in Nat, NEW x, IsConfig(x, n)
  PROVE  Stored(Stored(x)) = Stored(x)
<1>1. PICK m \in Nat :
        /\ IsConfig(Stored(x), m) /\ FreeOf(":", Stored(x)[2].v)
        /\ \A i \in 1..m : /\ FreeOf(":", Stored(x)[2 + 3 * i].v)
                           /\ FreeOf(Comma, Stored(x)[2 + 3 * i].v)
  BY StoredFree
<1> QED BY <1>1, StoredSame

\* The table adds no character to a configuration.
LEMMA StoredOnly ==
  ASSUME NEW n \in Nat, NEW x, IsConfig(x, n), NEW C, C \subseteq Octets, Only(C, x)
  PROVE  Only(C, Stored(x))
<1>1. x \in Seq(Values) /\ Len(x) = 6 + 3 * n
  BY DEF IsConfig
<1>0. PICK m \in Nat : \E h : StoredAs(x, n, Stored(x), m, h)
  BY StoredIs
<1>2. PICK y, h : y = Stored(x) /\ StoredAs(x, n, y, m, h)
  BY <1>0
<1>3. IsConfig(y, m) /\ Upward(h, m, Whole(x, n))
  BY <1>2 DEF StoredAs
<1> HIDE DEF Octets, Values
<1>4. x[2].v \in Seq(C) /\ x[6 + 3 * n].v \in Seq(C)
  <2>1. 2 \in 1..Len(x) /\ 6 + 3 * n \in 1..Len(x)
    BY <1>1
  <2>2. x[2].kind = "text" /\ x[6 + 3 * n].kind = "text"
    BY ConfigTexts
  <2> QED BY <2>1, <2>2 DEF Only
<1>5. y[2].v \in Seq(C)
  <2>1. y[2] = StoredPath(x)
    BY <1>2 DEF StoredAs
  <2>2. <<>> \in Seq(C)
    OBVIOUS
  <2>3. Value("text", "tempPath", <<>>).v = <<>>
    BY DEF Value
  <2> QED BY <1>4, <2>1, <2>2, <2>3 DEF StoredPath
<1>6. y[6 + 3 * m].v \in Seq(C)
  BY <1>2, <1>4 DEF StoredAs
<1>7. ASSUME NEW i \in 1..m PROVE y[2 + 3 * i].v \in Seq(C)
  <2>1. h[i] \in Whole(x, n)
    BY <1>3 DEF Upward
  <2>2. h[i] \in 1..n
    BY <2>1 DEF Whole
  <2>3. y[2 + 3 * i] = Value("text", "service", LastPiece(x[2 + 3 * h[i]].v))
    BY <1>2 DEF StoredAs
  <2>4. y[2 + 3 * i].v = LastPiece(x[2 + 3 * h[i]].v)
    BY <2>3 DEF Value
  <2>5. 2 + 3 * h[i] \in 1..Len(x)
    BY <1>1, <2>2
  <2>6. x[2 + 3 * h[i]].kind = "text"
    <3>1. PICK j \in 1..n : j = h[i]
      BY <2>2
    <3>2. x[2 + 3 * j].kind = "text"
      BY ConfigTexts
    <3> QED BY <3>1, <3>2
  <2>7. x[2 + 3 * h[i]].v \in Seq(C)
    BY <2>5, <2>6 DEF Only
  <2> QED BY <2>4, <2>7, LastPieceType
<1>8. \A k \in 1..Len(y) : y[k].kind = "text" =>
        k = 2 \/ k = 6 + 3 * m \/ \E i \in 1..m : k = 2 + 3 * i
  BY <1>3, ConfigTexts
<1>9. Only(C, y)
  BY <1>5, <1>6, <1>7, <1>8 DEF Only
<1> QED BY <1>2, <1>9

LEMMA AllFreeIs ==
  ASSUME NEW m, NEW x \in Seq(Values)
  PROVE  AllFreeOf(m, x) <=> Only(Lacking({m}), x)
<1>1. \A i \in 1..Len(x) : x[i].v \in Seq(Octets)
  <2>1. \A i \in 1..Len(x) : x[i] \in Values
    OBVIOUS
  <2> QED BY <2>1 DEF Values
<1>2. \A i \in 1..Len(x) : FreeOf(m, x[i].v) <=> x[i].v \in Seq(Lacking({m}))
  BY <1>1, FreeIs
<1> QED BY <1>2 DEF AllFreeOf, Only

LEMMA StoredKept ==
  ASSUME NEW n \in Nat, NEW x, IsConfig(x, n)
  PROVE  /\ \A m : AllFreeOf(m, x) => AllFreeOf(m, Stored(x))
         /\ \A k \in 1..Len(Stored(x)) :
              Stored(x)[k].f = "service" => FreeOf(":", Stored(x)[k].v)
<1>0. PICK m \in Nat : IsConfig(Stored(x), m)
                       /\ \A i \in 1..m : FreeOf(":", Stored(x)[2 + 3 * i].v)
  BY StoredFree
<1>1. PICK y : y = Stored(x) /\ IsConfig(y, m)
               /\ \A i \in 1..m : FreeOf(":", y[2 + 3 * i].v)
  BY <1>0
<1>2. x \in Seq(Values) /\ y \in Seq(Values)
  BY <1>1 DEF IsConfig
<1>3. ASSUME NEW c, AllFreeOf(c, x) PROVE AllFreeOf(c, y)
  <2>1. Only(Lacking({c}), x)
    BY <1>2, <1>3, AllFreeIs
  <2>2. Lacking({c}) \subseteq Octets
    BY DEF Lacking
  <2>3. Only(Lacking({c}), y)
    BY <1>1, <2>1, <2>2, StoredOnly
  <2> QED BY <1>2, <2>3, AllFreeIs
<1>4. \A k \in 1..Len(y) : y[k].f = "service" => \E i \in 1..m : k = 2 + 3 * i
  BY <1>1, ConfigTexts
<1>5. \A k \in 1..Len(y) : y[k].f = "service" => FreeOf(":", y[k].v)
  BY <1>1, <1>4
<1> QED BY <1>1, <1>3, <1>5

-----------------------------------------------------------------------------
(* From one packet to the next.                                            *)

\* What the first writer puts in.
LEMMA PlainMarks == \A b \in Plain : /\ b \in Octets /\ b.is # "wide" /\ b.is # "high"
                                     /\ b = Byte(b.is, 0)
<1>1. \A c \in {"x", ":", ",", " ", "e"} : c \in Marks
  BY DEF Marks
<1>2. \A c : Byte(c, 0).is = c
  BY DEF Byte
<1>3. \A c \in {"x", ":", ",", " ", "e"} : c # "wide" /\ c # "high"
  BY Zenon
<1>4. 0 \in Nat
  OBVIOUS
<1>5. ASSUME NEW b \in Plain
      PROVE  b \in Octets /\ b.is # "wide" /\ b.is # "high" /\ b = Byte(b.is, 0)
  <2>1. PICK c \in {"x", ":", ",", " ", "e"} : b = Byte(c, 0)
    BY DEF Plain
  <2> QED BY <1>1, <1>2, <1>3, <1>4, <2>1, ByteType, Zenon
<1> QED BY <1>5

LEMMA MeantFree ==
  ASSUME Typed, Meant, NEW c, NoneHas(c)
  PROVE  AllFreeOf(c, meant)
<1>1. SUFFICES ASSUME NEW i \in 1..Len(meant), meant[i].kind = "text"
               PROVE  FreeOf(c, meant[i].v)
  BY DEF AllFreeOf
<1>2. meant \in Seq(Values) /\ DOMAIN meant = 1..Len(meant)
  BY DEF Typed
<1>3. PICK v \in Seq(Plain) : v = meant[i].v
  BY <1>1 DEF Meant
<1>4. Byte(c, 0) \notin Range(v)
  BY <1>1, <1>2, <1>3 DEF NoneHas
<1>5. ASSUME NEW k \in 1..Len(v) PROVE v[k].is # c
  <2>1. v[k] \in Plain /\ k \in DOMAIN v
    <3> HIDE DEF Plain
    <3> QED OBVIOUS
  <2>2. v[k] \in Range(v)
    BY <2>1 DEF Range
  <2>3. v[k] = Byte(v[k].is, 0)
    BY <2>1, PlainMarks
  <2> QED BY <1>4, <2>2, <2>3
<1> QED BY <1>3, <1>5 DEF FreeOf

LEMMA MeantAscii ==
  ASSUME Typed, Meant, NoneHas("e")
  PROVE  Only(Ascii, meant)
<1>1. SUFFICES ASSUME NEW i \in 1..Len(meant), meant[i].kind = "text"
               PROVE  meant[i].v \in Seq(Ascii)
  BY DEF Only
<1>2. PICK v \in Seq(Plain) : v = meant[i].v
  BY <1>1 DEF Meant
<1>3. FreeOf("e", v)
  BY <1>1, <1>2, MeantFree DEF AllFreeOf
<1>4. ASSUME NEW k \in 1..Len(v) PROVE v[k] \in Ascii
  <2>1. v[k] \in Plain
    <3> HIDE DEF Plain
    <3> QED OBVIOUS
  <2>2. v[k] \in Octets /\ v[k].is # "wide" /\ v[k].is # "high"
    BY <2>1, PlainMarks
  <2>3. v[k].is # "e"
    BY <1>3 DEF FreeOf
  <2> QED BY <2>2, <2>3, Zenon DEF Ascii, Lacking
<1> HIDE DEF Plain, Ascii
<1>5. v \in Seq(Ascii)
  BY <1>4
<1> QED BY <1>2, <1>5

\* What is read of a value in ASCII is the value.
LEMMA AsciiTold ==
  ASSUME NEW x \in Values, x.kind = "text" => x.v \in Seq(Ascii), NEW java \in BOOLEAN
  PROVE  Told(java, x) = x
<1>1. CASE x.kind = "text"
  <2>1. GetBytes(x.v) = x.v /\ FromBytes(x.v) = x.v
    BY <1>1, AsciiSame
  <2>2. Told(java, x) = Value("text", x.f, x.v)
    BY <1>1, <2>1 DEF Told
  <2>3. x = [kind |-> x.kind, f |-> x.f, v |-> x.v]
    BY DEF Values
  <2> QED BY <1>1, <2>2, <2>3 DEF Value
<1>2. CASE x.kind # "text"
  BY <1>2 DEF Told
<1> QED BY <1>1, <1>2

LEMMA FreeTold ==
  ASSUME NEW x \in Values, x.kind = "text", NEW m, m \notin {"high", "wide"},
         FreeOf(m, x.v), NEW java \in BOOLEAN
  PROVE  FreeOf(m, Told(java, x).v)
<1>1. x.v \in Seq(Octets)
  BY DEF Values
<1>2. FreeOf(m, GetBytes(x.v)) /\ FreeOf(m, FromBytes(GetBytes(x.v)))
  BY <1>1, TextsFree
<1>3. \A v : Value("text", x.f, v).v = v
  BY DEF Value
<1> QED BY <1>2, <1>3 DEF Told

\* The reader has read all of "written".
ReadWhole(strict, written) ==
  /\ written \in Seq(Values) /\ Len(got) = Len(written)
  /\ \A i \in 1..Len(got) : got[i] = Told(Java(Now.to), written[i])
  /\ hop = 1 => written = meant
  /\ hop > 1 /\ strict => Carried(written)

LEMMA AllRead ==
  ASSUME NEW strict \in BOOLEAN, Inv(strict), HasRead, length < LenMod
  PROVE  body = <<>> /\ \E w : ReadWhole(strict, w)
<1>1. phase = "read" /\ todo = <<>> /\ got \in Seq(Values)
  BY DEF HasRead, Inv, Typed
<1>2. PICK w \in Seq(Values) : Fetched(strict, w)
  BY <1>1 DEF Inv
<1>3. /\ Len(got) <= Len(w)
      /\ \A i \in 1..Len(got) : got[i] = Told(Java(Now.to), w[i])
      /\ Parses(Unread(w), <<>>, <<>>) /\ body = Coded(Unread(w))
      /\ hop = 1 => w = meant
      /\ hop > 1 /\ strict => Carried(w)
  BY <1>1, <1>2 DEF Fetched
<1>4. PICK n \in Nat, m \in Nat : n = Len(got) /\ m = Len(w) /\ n <= m
  BY <1>1, <1>3
<1>5. Unread(w) \in Seq(Values) /\ Len(Unread(w)) = m - n
  <2>1. \A i \in n + 1..m : w[i] \in Values
    BY <1>4
  <2>2. /\ SubSeq(w, n + 1, m) \in Seq(Values)
        /\ Len(SubSeq(w, n + 1, m)) = IF n + 1 <= m THEN m - (n + 1) + 1 ELSE 0
    BY <2>1, SubSeqProperties
  <2> QED BY <1>4, <2>2 DEF Unread
<1>6. Unread(w) = <<>>
  <2>1. SUFFICES ASSUME Unread(w) # <<>> PROVE FALSE
    OBVIOUS
  <2> QED BY <1>3, <1>5, <2>1, ParsesFirst
<1>7. Len(got) = Len(w)
  <2>1. Len(Unread(w)) = 0
    BY <1>6
  <2> QED BY <1>4, <1>5, <2>1
<1>8. body = <<>>
  BY <1>3, <1>6, CodedNone
<1>9. ReadWhole(strict, w)
  BY <1>3, <1>7 DEF ReadWhole
<1> QED BY <1>8, <1>9

LEMMA SameValue == \A java, x : (Told(java, x)).kind = x.kind /\ (Told(java, x)).f = x.f
<1>1. \A k, f, v : Value(k, f, v).kind = k /\ Value(k, f, v).f = f
  BY DEF Value
<1> QED BY <1>1 DEF Told

\* Texts in ASCII are read as they were written.
LEMMA AsciiRead ==
  ASSUME NEW strict \in BOOLEAN, NEW w, ReadWhole(strict, w), Only(Ascii, w),
         got \in Seq(Values)
  PROVE  got = w
<1>1. w \in Seq(Values) /\ Len(got) = Len(w)
  BY DEF ReadWhole
<1>2. ASSUME NEW i \in 1..Len(got) PROVE got[i] = w[i]
  <2>1. PICK x \in Values : x = w[i]
    BY <1>1
  <2>2. x.kind = "text" => x.v \in Seq(Ascii)
    BY <1>1, <2>1 DEF Only
  <2>3. Java(Now.to) \in BOOLEAN
    BY DEF Java
  <2>4. Told(Java(Now.to), x) = x
    BY <2>2, <2>3, AsciiTold
  <2> QED BY <2>1, <2>4 DEF ReadWhole
<1> HIDE DEF Values
<1> QED BY <1>1, <1>2, SeqEqual

\* A character that no text had is in none that was read.
LEMMA FreeRead ==
  ASSUME NEW strict \in BOOLEAN, NEW w, ReadWhole(strict, w),
         NEW m, m \notin {"high", "wide"}, AllFreeOf(m, w)
  PROVE  AllFreeOf(m, got)
<1>1. SUFFICES ASSUME NEW i \in 1..Len(got), got[i].kind = "text"
               PROVE  FreeOf(m, got[i].v)
  BY DEF AllFreeOf
<1>2. PICK x \in Values : x = w[i]
  BY DEF ReadWhole
<1>3. got[i] = Told(Java(Now.to), x)
  BY <1>2 DEF ReadWhole
<1>4. x.kind = "text"
  BY <1>1, <1>3, SameValue
<1>5. FreeOf(m, x.v)
  BY <1>2, <1>4 DEF AllFreeOf, ReadWhole
<1>6. Java(Now.to) \in BOOLEAN
  BY DEF Java
<1> QED BY <1>3, <1>4, <1>5, <1>6, FreeTold

LEMMA KeptRead ==
  ASSUME Typed, Meant, NEW w, ReadWhole(TRUE, w), hop \in Nat, hop >= 1
  PROVE  Kept(got)
<1>1. w \in Seq(Values) /\ Len(got) = Len(w)
      /\ \A i \in 1..Len(got) : got[i] = Told(Java(Now.to), w[i])
  BY DEF ReadWhole
<1>2. hop = 1 => w = meant
  BY DEF ReadWhole
<1>3. hop > 1 => Kept(w)
  BY DEF ReadWhole, Carried
<1>0. (hop = 1 \/ hop > 1) /\ (hop = 4 => hop > 1)
  OBVIOUS
<1>4. ASSUME NoneHas(" ") PROVE AllFreeOf(" ", got)
  <2>1. AllFreeOf(" ", w)
    <3>1. CASE hop = 1
      BY <1>2, <1>4, <3>1, MeantFree
    <3>2. CASE hop > 1
      BY <1>3, <1>4, <3>2 DEF Kept
    <3> QED BY <1>0, <3>1, <3>2
  <2>2. " " \notin {"high", "wide"}
    OBVIOUS
  <2> QED BY <2>1, <2>2, FreeRead
<1>5. ASSUME hop = 4, NEW i \in 1..Len(got), got[i].f = "service"
      PROVE  FreeOf(":", got[i].v)
  <2>1. PICK x \in Values : x = w[i]
    BY <1>1
  <2>2. got[i] = Told(Java(Now.to), x) /\ x.f = "service"
    BY <1>1, <1>5, <2>1, SameValue
  <2>3. FreeOf(":", x.v)
    <3>1. Kept(w)
      BY <1>0, <1>3, <1>5
    <3>2. \A k \in 1..Len(w) : w[k].f = "service" => FreeOf(":", w[k].v)
      BY <1>5, <3>1 DEF Kept
    <3> QED BY <1>1, <2>1, <2>2, <3>2
  <2>4. CASE x.kind = "text"
    <3>1. Java(Now.to) \in BOOLEAN /\ ":" \notin {"high", "wide"}
      BY DEF Java
    <3> QED BY <2>2, <2>3, <2>4, <3>1, FreeTold
  <2>5. CASE x.kind # "text"
    BY <2>2, <2>3, <2>5 DEF Told
  <2> QED BY <2>4, <2>5
<1> QED BY <1>4, <1>5 DEF Kept

\* A configuration's route goes on from the server by the table, and each of
\* its packets is of one layout.
LEMMA ConfigHops ==
  /\ Len(ConfigRoute) = 4 /\ DOMAIN ConfigRoute = 1..4
  /\ ConfigRoute[2].from = "server" /\ ConfigRoute[3].from = "viewer"
  /\ ConfigRoute[4].from = "server"
  /\ \A i \in 1..4 : /\ ReadAs(ConfigRoute[i]) = TPacketConfig
                     /\ Writes[ConfigRoute[i].from][ConfigRoute[i].type] = TPacketConfig
<1>1. ConfigRoute \in Routes
  BY DEF Routes
<1>2. /\ Len(ConfigRoute) = 4 /\ DOMAIN ConfigRoute = 1..4
      /\ ConfigRoute[2] = Hop("server", "viewer", "CONFIG_REPLY")
      /\ ConfigRoute[3] = Hop("viewer", "server", "CHANGE_REQUEST")
      /\ ConfigRoute[4] = Hop("server", "agent", "CONFIG")
  BY DEF ConfigRoute
<1>3. \A a, b, t : Hop(a, b, t).from = a
  BY DEF Hop
<1>4. \A i \in 1..4 : /\ ReadAs(ConfigRoute[i]) = TPacketConfig
                      /\ Writes[ConfigRoute[i].from][ConfigRoute[i].type] = TPacketConfig
  BY <1>1, <1>2, RouteLayouts
<1> QED BY <1>2, <1>3, <1>4

\* The bytes on the way and what was sent, when the viewer's texts are ASCII.
LEMMA StoredRead ==
  ASSUME Typed, Meant, NEW w, ReadWhole(TRUE, w), hop \in 1..3, route = ConfigRoute,
         phase = "read", NoneHas("e")
  PROVE  (IF route[hop + 1].from = "server" THEN Stored(got) ELSE got) = Stored(meant)
<1> DEFINE have2 == IF route[hop + 1].from = "server" THEN Stored(got) ELSE got
<1>1. got \in Seq(Values) /\ meant \in Seq(Values)
  BY DEF Typed
<1>2. PICK n \in Nat : IsConfig(meant, n)
  <2>1. Parses(meant, TPacketConfig, <<>>)
    <3>1. Parses(meant, ReadAs(Now), <<>>)
      BY DEF Meant
    <3>2. ReadAs(Now) = TPacketConfig
      BY ConfigHops DEF Now
    <3> QED BY <3>1, <3>2
  <2> QED BY <1>1, <2>1, ConfigShape
<1>3. Only(Ascii, meant)
  BY MeantAscii
<1>4. Only(Ascii, Stored(meant))
  <2>1. Ascii \subseteq Octets
    BY DEF Ascii, Lacking
  <2> QED BY <1>2, <1>3, <2>1, StoredOnly
<1>5. w = IF hop = 1 THEN meant ELSE Stored(meant)
  <2>1. CASE hop = 1
    BY <2>1 DEF ReadWhole
  <2>2. CASE hop # 1
    <3>1. hop > 1
      BY <2>2
    <3>2. Carried(w)
      BY <3>1 DEF ReadWhole
    <3>3. w = Stored(meant)
      BY <3>2 DEF Carried
    <3> QED BY <2>2, <3>3
  <2> QED BY <2>1, <2>2
<1>6. got = w
  BY <1>1, <1>3, <1>4, <1>5, AsciiRead
<1>7. Stored(Stored(meant)) = Stored(meant)
  BY <1>2, StoredTwice
<1>8. CASE hop = 1
  <2>1. have2 = Stored(got)
    BY <1>8, ConfigHops
  <2> QED BY <1>5, <1>6, <1>8, <2>1
<1>9. CASE hop = 2
  <2>1. have2 = got
    BY <1>9, ConfigHops
  <2> QED BY <1>5, <1>6, <1>9, <2>1
<1>10. CASE hop = 3
  <2>1. have2 = Stored(got)
    BY <1>10, ConfigHops
  <2> QED BY <1>5, <1>6, <1>7, <1>10, <2>1
<1> QED BY <1>8, <1>9, <1>10

\* A configuration that is to be written next, and what is true of its texts.
LEMMA NextConfig ==
  ASSUME NEW strict \in BOOLEAN, Inv(strict), HasRead, hop \in 1..3, route = ConfigRoute,
         NEW have2,
         have2 = IF route[hop + 1].from = "server" THEN Stored(got) ELSE got
  PROVE  /\ have2 \in Seq(Values) /\ Parses(have2, TPacketConfig, <<>>)
         /\ strict /\ length < LenMod =>
              /\ NoneHas("e") => have2 = Stored(meant)
              /\ NoneHas(" ") => AllFreeOf(" ", have2)
              /\ hop = 3 =>
                   \A i \in 1..Len(have2) :
                     have2[i].f = "service" => FreeOf(":", have2[i].v)
<1>1. Typed /\ Meant /\ phase = "read" /\ todo = <<>> /\ got \in Seq(Values)
  BY DEF Inv, HasRead, Typed
<1>2. PICK n \in Nat : IsConfig(got, n)
  <2>1. Parses(got, ReadAs(Now), <<>>)
    BY <1>1 DEF Inv
  <2>2. ReadAs(Now) = TPacketConfig
    BY ConfigHops DEF Now
  <2> QED BY <1>1, <2>1, <2>2, ConfigShape
<1>3. \E m \in Nat : IsConfig(Stored(got), m)
  BY <1>2, StoredFree
<1>4. have2 = Stored(got) \/ have2 = got
  OBVIOUS
<1>5. PICK m \in Nat : IsConfig(have2, m)
  BY <1>2, <1>3, <1>4
<1>6. have2 \in Seq(Values) /\ Parses(have2, TPacketConfig, <<>>)
  <2>1. have2 \in Seq(Values)
    BY <1>5 DEF IsConfig
  <2> QED BY <1>5, <2>1, ConfigParses
<1>7. ASSUME strict, length < LenMod
      PROVE  /\ NoneHas("e") => have2 = Stored(meant)
             /\ NoneHas(" ") => AllFreeOf(" ", have2)
             /\ hop = 3 => \A i \in 1..Len(have2) :
                             have2[i].f = "service" => FreeOf(":", have2[i].v)
  <2>1. PICK w : ReadWhole(strict, w)
    BY <1>7, AllRead
  <2>2. ReadWhole(TRUE, w)
    BY <1>7, <2>1 DEF ReadWhole
  <2>3. ASSUME NoneHas("e") PROVE have2 = Stored(meant)
    BY <1>1, <2>2, <2>3, StoredRead
  <2>4. hop \in Nat /\ hop >= 1
    OBVIOUS
  <2>5. Kept(got)
    BY <1>1, <2>2, <2>4, KeptRead
  <2>6. NoneHas(" ") => AllFreeOf(" ", got)
    BY <2>5 DEF Kept
  <2>7. AllFreeOf(" ", got) => AllFreeOf(" ", Stored(got))
    BY <1>2, StoredKept
  <2>8. hop = 3 => have2 = Stored(got)
    BY ConfigHops
  <2>9. \A i \in 1..Len(Stored(got)) :
          Stored(got)[i].f = "service" => FreeOf(":", Stored(got)[i].v)
    BY <1>2, StoredKept
  <2>10. NoneHas(" ") => AllFreeOf(" ", have2)
    BY <1>4, <2>6, <2>7
  <2>11. hop = 3 => \A i \in 1..Len(have2) :
                      have2[i].f = "service" => FreeOf(":", have2[i].v)
    BY <2>8, <2>9
  <2> QED BY <2>3, <2>10, <2>11
<1> QED BY <1>6, <1>7

LEMMA RouteLength == \A r \in Routes : r # ConfigRoute => Len(r) = 1 /\ DOMAIN r = {1}
<1>1. \A a, b, t : Len(<<Hop(a, b, t)>>) = 1 /\ DOMAIN <<Hop(a, b, t)>> = {1}
  OBVIOUS
<1>2. ASSUME NEW r \in Routes, r # ConfigRoute
      PROVE  \E a, b, t : r = <<Hop(a, b, t)>>
  BY <1>2, Zenon DEF Routes
<1> QED BY <1>1, <1>2

LEMMA PassOnStep ==
  ASSUME NEW strict \in BOOLEAN, Inv(strict), strict => length < LenMod, PassOn
  PROVE  Inv(strict)'
<1>1. /\ HasRead /\ UNCHANGED <<route, meant, got>>
      /\ phase = "read" /\ todo = <<>>
  BY DEF PassOn, HasRead
<1>2. Typed /\ Meant
  BY DEF Inv
<1>3. /\ route \in Routes /\ hop \in DOMAIN route /\ got \in Seq(Values)
      /\ meant \in Seq(Values) /\ have \in Seq(Values) /\ length \in Nat
      /\ body \in Seq(Octets) /\ Len(body) <= length /\ todo \in Seq(Items)
  BY <1>2 DEF Typed
<1>4. /\ Parses(meant, ReadAs(Now), <<>>)
      /\ \A i \in 1..Len(meant) : meant[i].kind = "text" => meant[i].v \in Seq(Plain)
  BY <1>1, <1>2 DEF Meant
<1>5. Parses(got, ReadAs(Now), <<>>)
  BY <1>1 DEF Inv
<1>6. \A c : NoneHas(c)' <=> NoneHas(c)
  BY <1>1 DEF NoneHas
<1>7. CASE hop < Len(route)
  <2>1. route = ConfigRoute /\ hop \in 1..3
    <3>1. route = ConfigRoute
      <4>1. SUFFICES ASSUME route # ConfigRoute PROVE FALSE
        OBVIOUS
      <4>2. Len(route) = 1 /\ hop = 1
        BY <1>3, <4>1, RouteLength
      <4> QED BY <1>7, <4>2
    <3> QED BY <1>3, <1>7, <3>1, ConfigHops
  <2>2. /\ hop' = hop + 1 /\ phase' = "write" /\ length' = 0 /\ body' = <<>>
        /\ todo' = Writes[route[hop + 1].from][route[hop + 1].type]
        /\ have' = IF route[hop + 1].from = "server" THEN Stored(got) ELSE got
    BY <1>7 DEF PassOn
  <2>3. hop + 1 \in 1..4 /\ hop' > 1 /\ hop' # 1 /\ (hop' = 4 => hop = 3)
    BY <2>1, <2>2
  <2>4. /\ todo' = TPacketConfig /\ (Now)' = route[hop + 1]
        /\ ReadAs(Now)' = TPacketConfig /\ ReadAs(Now) = TPacketConfig
    <3>1. (Now)' = route[hop + 1]
      BY <1>1, <2>2 DEF Now
    <3>2. ReadAs(Now)' = ReadAs(route[hop + 1])
      BY <3>1
    <3>3. hop \in 1..4
      BY <2>1
    <3> QED BY <2>1, <2>2, <2>3, <3>1, <3>2, <3>3, ConfigHops DEF Now
  <2>5. TPacketConfig \in Seq(Items)
    BY <1>3, <2>4, RouteLayouts DEF Now
  <2>6. /\ have' \in Seq(Values) /\ Parses(have', TPacketConfig, <<>>)
        /\ strict /\ length < LenMod =>
             /\ NoneHas("e") => have' = Stored(meant)
             /\ NoneHas(" ") => AllFreeOf(" ", have')
             /\ hop = 3 =>
                  \A i \in 1..Len(have') : have'[i].f = "service" => FreeOf(":", have'[i].v)
    BY <1>1, <2>1, <2>2, NextConfig
  <2>7. Typed'
    <3>1. hop' \in DOMAIN route
      BY <2>1, <2>2, <2>3, ConfigHops
    <3>2. body' \in Seq(Octets) /\ length' \in Nat /\ Len(body') <= length'
      BY <2>2
    <3>3. todo' \in Seq(Items)
      BY <2>4, <2>5
    <3> HIDE DEF Values, Octets, Items
    <3> QED BY <1>1, <1>3, <2>2, <2>6, <3>1, <3>2, <3>3 DEF Typed
  <2>8. Meant'
    <3> HIDE DEF Plain
    <3> QED BY <1>1, <1>4, <2>4 DEF Meant
  <2>9. FailsOnlyIfTooLong'
    BY <2>2 DEF FailsOnlyIfTooLong
  <2>10. RestartKeepsConfig'
    <3>1. phase' # "restarted"
      BY <2>2
    <3> QED BY <3>1 DEF RestartKeepsConfig
  <2>11. Written(strict, <<>>)'
    <3>1. Parses(<<>>, ReadAs(Now), todo)'
      <4>1. Parses(<<>>, TPacketConfig, TPacketConfig)
        BY <2>5, ParsesNone
      <4> QED BY <2>4, <4>1
    <3>2. body' = Coded(<<>>) /\ length' = Len(body')
      BY <2>2, CodedNone
    <3>3. Parses(have, todo, <<>>)'
      BY <2>4, <2>6
    <3>4. ASSUME strict PROVE Carried(<<>> \o have)'
      <4>1. <<>> \o have' = have'
        BY <2>6, ConcatEmptySeq
      <4>2. /\ NoneHas("e") => have' = Stored(meant)
            /\ NoneHas(" ") => AllFreeOf(" ", have')
            /\ hop = 3 => \A i \in 1..Len(have') :
                            have'[i].f = "service" => FreeOf(":", have'[i].v)
        BY <2>6, <3>4
      <4>3. (NoneHas("e") => <<>> \o have = Stored(meant))'
        <5>1. Stored(meant)' = Stored(meant)
          BY <1>1
        <5> QED BY <1>6, <4>1, <4>2, <5>1
      <4>4. Kept(<<>> \o have)'
        <5>1. (NoneHas(" ") => AllFreeOf(" ", <<>> \o have))'
          BY <1>6, <4>1, <4>2
        <5>2. (hop = 4 => \A i \in 1..Len(<<>> \o have) :
                 (<<>> \o have)[i].f = "service" => FreeOf(":", (<<>> \o have)[i].v))'
          BY <2>3, <4>1, <4>2
        <5> QED BY <5>1, <5>2 DEF Kept
      <4> QED BY <4>3, <4>4 DEF Carried
    <3> QED BY <2>3, <3>1, <3>2, <3>3, <3>4 DEF Written
  <2>12. <<>> \in Seq(Values)
    OBVIOUS
  <2> QED BY <2>2, <2>7, <2>8, <2>9, <2>10, <2>11, <2>12 DEF Inv
<1>8. CASE ~(hop < Len(route))
  <2>1. phase' = "done" /\ UNCHANGED <<route, meant, hop, todo, have, length, body, got>>
    BY <1>1, <1>8 DEF PassOn
  <2>2. (Now)' = Now /\ ReadAs(Now)' = ReadAs(Now)
    BY <2>1 DEF Now
  <2>3. hop = Len(route) /\ hop \in Nat /\ hop >= 1
    <3>1. CASE route = ConfigRoute
      BY <1>3, <1>8, <3>1, ConfigHops
    <3>2. CASE route # ConfigRoute
      <4>1. Len(route) = 1 /\ hop = 1
        BY <1>3, <3>2, RouteLength
      <4> QED BY <4>1
    <3> QED BY <3>1, <3>2
  <2>4. Typed'
    BY <1>3, <2>1 DEF Typed
  <2>5. Meant'
    <3> HIDE DEF Plain
    <3> QED BY <1>4, <2>1, <2>2 DEF Meant
  <2>6. FailsOnlyIfTooLong' /\ RestartKeepsConfig'
    <3>1. phase' = "done"
      BY <2>1
    <3> QED BY <3>1 DEF FailsOnlyIfTooLong, RestartKeepsConfig
  <2>7. ASSUME strict PROVE Kept(got)'
    <3>1. PICK w : ReadWhole(strict, w)
      BY <1>1, <2>7, AllRead
    <3>2. ReadWhole(TRUE, w)
      BY <2>7, <3>1 DEF ReadWhole
    <3>3. Kept(got)
      BY <1>2, <2>3, <3>2, KeptRead
    <3>4. got' = got /\ hop' = hop
      BY <2>1
    <3> QED BY <1>6, <3>3, <3>4 DEF Kept
  <2>8. (hop = Len(route))' /\ Parses(got, ReadAs(Now), <<>>)'
    BY <1>5, <2>1, <2>2, <2>3
  <2> QED BY <2>1, <2>4, <2>5, <2>6, <2>7, <2>8 DEF Inv
<1> QED BY <1>7, <1>8

\* The invariant holds of the first state.
LEMMA InitHolds ==
  ASSUME NEW strict \in BOOLEAN, Init
  PROVE  Inv(strict)
<1>1. /\ route \in Routes /\ hop = 1 /\ phase = "write"
      /\ todo = Writes[route[1].from][route[1].type]
      /\ meant = <<>> /\ have = <<>> /\ length = 0 /\ body = <<>> /\ got = <<>>
  BY DEF Init
<1>2. 1 \in DOMAIN route
  BY <1>1, ConfigHops, RouteLength
<1>3. ReadAs(Now) = todo /\ todo \in Seq(Items)
  BY <1>1, <1>2, RouteLayouts DEF Now
<1>4. Typed
  <2>1. <<>> \in Seq(Values) /\ <<>> \in Seq(Octets) /\ Len(<<>>) = 0
    OBVIOUS
  <2> HIDE DEF Values, Octets, Items
  <2> QED BY <1>1, <1>2, <1>3, <2>1 DEF Typed
<1>5. Meant
  <2>1. \A i \in 1..Len(<<>>) : FALSE
    OBVIOUS
  <2> QED BY <1>1, <2>1 DEF Meant
<1>6. Written(strict, <<>>)
  <2>1. Parses(<<>>, ReadAs(Now), todo)
    BY <1>3, ParsesNone
  <2>2. body = Coded(<<>>) /\ length = Len(body)
    BY <1>1, CodedNone
  <2>3. ~(hop > 1)
    BY <1>1
  <2> QED BY <1>1, <2>1, <2>2, <2>3 DEF Written
<1>7. FailsOnlyIfTooLong /\ RestartKeepsConfig
  <2>1. phase \notin {"dropped", "partial", "indeterminate", "restarted"}
    BY <1>1
  <2> QED BY <2>1 DEF FailsOnlyIfTooLong, RestartKeepsConfig
<1>8. <<>> \in Seq(Values)
  OBVIOUS
<1> QED BY <1>1, <1>4, <1>5, <1>6, <1>7, <1>8 DEF Inv

-----------------------------------------------------------------------------
(* The agent's file.                                                       *)

\* What is read of a value is some of it, and all of it if it has no space.
LEMMA TokenIs ==
  ASSUME NEW v \in Seq(Octets)
  PROVE  Token(v) \in Seq(Octets) /\ (FreeOf(" ", v) => Token(v) = v)
<1> DEFINE m == " "
           I == {i \in 1..Len(v) : v[i].is = m}
           first == SelectInSeq(v, LAMBDA c : c.is = m)
<1>0. PICK n \in Nat : n = Len(v)
  OBVIOUS
<1>1. first = IF I # {} THEN Min(I) ELSE 0
  BY DEF SelectInSeq
<1>2. Token(v) = IF first = 0 THEN v ELSE SubSeq(v, 1, first - 1)
  BY DEF Token
<1>3. \A i : i \in I <=> i \in 1..n /\ v[i].is = m
  BY <1>0
<1> HIDE DEF I, first, m
<1>4. first = 0 \/ (first \in 1..n /\ v[first].is = m)
  <2>1. CASE I = {}
    BY <1>1, <2>1
  <2>2. CASE I # {}
    <3>1. I \subseteq Nat
      BY <1>3
    <3>2. PICK k \in I : \A j \in I : k <= j
      BY <2>2, <3>1, LeastNat
    <3>3. Min(I) \in I
      BY <3>2 DEF Min
    <3> QED BY <1>1, <1>3, <2>2, <3>3
  <2> QED BY <2>1, <2>2
<1>5. CASE first = 0
  BY <1>2, <1>5
<1>6. CASE first \in 1..n /\ v[first].is = m
  <2>1. \A i \in 1..first - 1 : v[i] \in Octets
    BY <1>0, <1>6
  <2>2. SubSeq(v, 1, first - 1) \in Seq(Octets)
    <3>1. 1 \in Int /\ first - 1 \in Int
      BY <1>6
    <3> QED BY <2>1, <3>1, SubSeqProperties
  <2>3. ~FreeOf(m, v)
    BY <1>0, <1>6 DEF FreeOf
  <2>4. first # 0
    BY <1>6
  <2>5. Token(v) \in Seq(Octets)
    BY <1>2, <2>2, <2>4, Zenon
  <2> QED BY <2>3, <2>5 DEF m
<1> QED BY <1>4, <1>5, <1>6

\* Three values before the others.
Preceded(S, y, a, b1, b2, F) ==
  /\ y \in Seq(S) /\ Len(y) = 3 + Len(F) /\ y[1] = a /\ y[2] = b1 /\ y[3] = b2
  /\ \A i \in 1..Len(F) : y[3 + i] = F[i]

LEMMA Preceding ==
  ASSUME NEW S, NEW a \in S, NEW b1 \in S, NEW b2 \in S, NEW F \in Seq(S)
  PROVE  Preceded(S, <<a>> \o <<b1, b2>> \o F, a, b1, b2, F)
<1>1. PICK k \in Nat : k = Len(F)
  OBVIOUS
<1>2. PICK p \in Seq(S), q \in Seq(S) :
        /\ p = <<a>> /\ Len(p) = 1 /\ p[1] = a
        /\ q = <<b1, b2>> /\ Len(q) = 2 /\ q[1] = b1 /\ q[2] = b2
  <2>1. <<a>> \in Seq(S) /\ Len(<<a>>) = 1 /\ <<a>>[1] = a
    OBVIOUS
  <2>2. /\ <<b1, b2>> \in Seq(S) /\ Len(<<b1, b2>>) = 2
        /\ <<b1, b2>>[1] = b1 /\ <<b1, b2>>[2] = b2
    OBVIOUS
  <2> QED BY <2>1, <2>2
<1>3. PICK r \in Seq(S) :
        r = p \o q /\ Len(r) = 3 /\ \A i \in 1..3 : r[i] = IF i <= 1 THEN p[i] ELSE q[i - 1]
  <2>1. /\ p \o q \in Seq(S) /\ Len(p \o q) = Len(p) + Len(q)
        /\ \A i \in 1..Len(p) + Len(q) :
             (p \o q)[i] = IF i <= Len(p) THEN p[i] ELSE q[i - Len(p)]
    BY ConcatProperties
  <2>2. Len(p) + Len(q) = 3
    BY <1>2
  <2> QED BY <1>2, <2>1, <2>2
<1>4. r[1] = a /\ r[2] = b1 /\ r[3] = b2
  <2>1. /\ 1 \in 1..3 /\ 2 \in 1..3 /\ 3 \in 1..3 /\ 1 <= 1 /\ ~(2 <= 1) /\ ~(3 <= 1)
        /\ 2 - 1 = 1 /\ 3 - 1 = 2
    OBVIOUS
  <2>2. r[1] = p[1] /\ r[2] = q[1] /\ r[3] = q[2]
    BY <1>3, <2>1
  <2> QED BY <1>2, <2>2
<1>5. PICK y \in Seq(S) :
        /\ y = r \o F /\ Len(y) = 3 + k
        /\ \A i \in 1..3 + k : y[i] = IF i <= 3 THEN r[i] ELSE F[i - 3]
  <2>1. /\ r \o F \in Seq(S) /\ Len(r \o F) = Len(r) + Len(F)
        /\ \A i \in 1..Len(r) + Len(F) :
             (r \o F)[i] = IF i <= Len(r) THEN r[i] ELSE F[i - Len(r)]
    BY ConcatProperties
  <2>2. Len(r) = 3 /\ Len(F) = k
    BY <1>1, <1>3
  <2>3. PICK y \in Seq(S) : y = r \o F
    BY <2>1
  <2>4. /\ Len(y) = 3 + k
        /\ \A i \in 1..3 + k : y[i] = IF i <= 3 THEN r[i] ELSE F[i - 3]
    BY <2>1, <2>2, <2>3
  <2> QED BY <2>3, <2>4
<1>6. y[1] = r[1] /\ y[2] = r[2] /\ y[3] = r[3]
  <2>1. /\ 1 \in 1..3 + k /\ 2 \in 1..3 + k /\ 3 \in 1..3 + k
        /\ 1 <= 3 /\ 2 <= 3 /\ 3 <= 3
    OBVIOUS
  <2> QED BY <1>5, <2>1
<1>7. ASSUME NEW i \in 1..k PROVE y[3 + i] = F[i]
  <2>1. 3 + i \in 1..3 + k /\ ~(3 + i <= 3) /\ (3 + i) - 3 = i
    OBVIOUS
  <2>2. y[3 + i] = F[(3 + i) - 3]
    BY <1>5, <2>1
  <2> QED BY <2>1, <2>2
<1>8. y = <<a>> \o <<b1, b2>> \o F
  BY <1>2, <1>3, <1>5
<1>9. Preceded(S, y, a, b1, b2, F)
  BY <1>1, <1>4, <1>5, <1>6, <1>7 DEF Preceded
<1> QED BY <1>8, <1>9

\* The services that are read whole; y is what is loaded of the file of x, of
\* n services, and has m: h numbers those of them that are read.
Loads(x, n) ==
  {i \in 1..n : Token(x[2 + 3 * i].v) = x[2 + 3 * i].v /\ FreeOf(":", x[2 + 3 * i].v)}

LoadedAs(x, n, y, m, h) ==
  /\ Upward(h, m, Loads(x, n)) /\ y \in Seq(Values) /\ Len(y) = 3 + 3 * m
  /\ y[1] = Value("text", "tempPath", Token(x[2].v)) /\ y[2] = x[3]
  /\ y[3] = x[5 + 3 * n]
  /\ \A i \in 1..m : /\ y[1 + 3 * i] = x[2 + 3 * h[i]] /\ y[2 + 3 * i] = x[3 + 3 * h[i]]
                     /\ y[3 + 3 * i] = x[4 + 3 * h[i]]

\* The service numbered i of the configuration x.
ThreeOf(x, i) == <<x[2 + 3 * i], x[3 + 3 * i], x[4 + 3 * i]>>

LEMMA ConfigServed ==
  ASSUME NEW n \in Nat, NEW x, IsConfig(x, n)
  PROVE  Served(x) = n /\ \A i \in 1..n : Service(x, i) = ThreeOf(x, i)
<1>1. /\ Len(OfField(x, "service")) = n
      /\ \A i \in 1..n : /\ OfField(x, "service")[i] = x[2 + 3 * i]
                         /\ OfField(x, "tcp")[i] = x[3 + 3 * i]
                         /\ OfField(x, "port")[i] = x[4 + 3 * i]
  BY ConfigServiceFields DEF Thirds
<1> QED BY <1>1 DEF Served, Service, ThreeOf

LEMMA FiledIs ==
  ASSUME NEW n \in Nat, NEW x, IsConfig(x, n)
  PROVE  /\ Filed(x).services = n /\ Filed(x).tempPath = x[2].v
         /\ Filed(x).numbers = <<x[3]>> \o <<x[5 + 3 * n]>>
         /\ \A i \in 1..n : Filed(x).srv[i] = ThreeOf(x, i)
<1>1. /\ Filed(x).services = Served(x) /\ Filed(x).srv = Srv(x)
      /\ Filed(x).tempPath = OfField(x, "tempPath")[1].v
      /\ Filed(x).numbers = OfField(x, "tempDivider") \o OfField(x, "interval")
  BY DEF Filed
<1>2. /\ OfField(x, "tempPath") = <<x[2]>> /\ OfField(x, "tempDivider") = <<x[3]>>
      /\ OfField(x, "interval") = <<x[5 + 3 * n]>>
  BY ConfigFields
<1>3. OwnServices \in Nat
  BY CodecAssumption
<1>4. Max({n, OwnServices}) \in Nat /\ Max({n, OwnServices}) >= n
  <2>1. \E a \in {n, OwnServices} : \A b \in {n, OwnServices} : a >= b
    <3>1. CASE n >= OwnServices
      BY <1>3, <3>1
    <3>2. CASE ~(n >= OwnServices)
      BY <1>3, <3>2
    <3> QED BY <3>1, <3>2
  <2>2. /\ Max({n, OwnServices}) \in {n, OwnServices}
        /\ \A b \in {n, OwnServices} : Max({n, OwnServices}) >= b
    BY <2>1 DEF Max
  <2> QED BY <1>3, <2>2
<1>5. ASSUME NEW i \in 1..n PROVE Srv(x)[i] = ThreeOf(x, i)
  <2>1. Served(x) = n /\ Service(x, i) = ThreeOf(x, i)
    BY ConfigServed
  <2>2. i \in 1..Max({Served(x), OwnServices}) /\ i <= Served(x)
    BY <1>4, <2>1
  <2> QED BY <2>1, <2>2 DEF Srv
<1> QED BY <1>1, <1>2, <1>5, ConfigServed

LEMMA LoadedIs ==
  ASSUME NEW n \in Nat, NEW x, IsConfig(x, n)
  PROVE  \E m \in Nat : \E h : LoadedAs(x, n, Loaded(Filed(x)), m, h)
<1> DEFINE f == Filed(x)
           whole(i) == LET v == f.srv[i][1].v IN Token(v) = v /\ Parts(v) = 1
           at == {i \in 1..f.services : whole(i)}
           kept == ThoseAt([i \in 1..f.services |-> i], at)
           rows == [i \in DOMAIN kept |-> f.srv[kept[i]]]
           path == Value("text", "tempPath", Token(f.tempPath))
<1>1. Loaded(f) = <<path>> \o f.numbers \o FlattenSeq(rows)
  BY DEF Loaded
<1>2. x \in Seq(Values) /\ Len(x) = 6 + 3 * n
  BY DEF IsConfig
<1>3. /\ f.services = n /\ f.tempPath = x[2].v
      /\ f.numbers = <<x[3]>> \o <<x[5 + 3 * n]>>
      /\ \A i \in 1..n : f.srv[i] = ThreeOf(x, i)
  BY FiledIs
<1> HIDE DEF f
<1>4. /\ x[2] \in Values /\ x[3] \in Values /\ x[5 + 3 * n] \in Values
      /\ \A i \in 1..n : /\ x[2 + 3 * i] \in Values /\ x[3 + 3 * i] \in Values
                         /\ x[4 + 3 * i] \in Values
  <2>1. /\ 2 \in 1..Len(x) /\ 3 \in 1..Len(x) /\ 5 + 3 * n \in 1..Len(x)
        /\ \A i \in 1..n : /\ 2 + 3 * i \in 1..Len(x) /\ 3 + 3 * i \in 1..Len(x)
                           /\ 4 + 3 * i \in 1..Len(x)
    BY <1>2
  <2> HIDE DEF Values
  <2> QED BY <1>2, <2>1
<1>5. \A y \in Values : y.v \in Seq(Octets)
  BY DEF Values
<1>6. at = Loads(x, n)
  <2>1. ASSUME NEW i \in 1..n
        PROVE  whole(i) <=> Token(x[2 + 3 * i].v) = x[2 + 3 * i].v
                            /\ FreeOf(":", x[2 + 3 * i].v)
    <3>1. x[2 + 3 * i].v \in Seq(Octets)
      BY <1>4, <1>5
    <3>2. f.srv[i][1] = x[2 + 3 * i]
      BY <1>3 DEF ThreeOf
    <3>3. Parts(x[2 + 3 * i].v) = 1 <=> FreeOf(":", x[2 + 3 * i].v)
      BY <3>1, PartsOne
    <3> QED BY <3>2, <3>3
  <2> HIDE DEF whole
  <2> QED BY <1>3, <2>1 DEF Loads
<1>7. at \subseteq 1..n
  BY <1>6 DEF Loads
<1>8. PICK s \in Seq(Nat) :
        s = [i \in 1..f.services |-> i] /\ DOMAIN s = 1..n /\ \A i \in 1..n : s[i] = i
  <2>1. [i \in 1..n |-> i] \in Seq(Nat) /\ \A i \in 1..n : [j \in 1..n |-> j][i] = i
    OBVIOUS
  <2> QED BY <1>3, <2>1
<1>9. kept = ThoseAt(s, at)
  BY <1>8
<1> HIDE DEF at, kept
<1>10. kept \in Seq(Nat) /\ \E g : Numbers(g, s, at, kept)
  BY <1>7, <1>8, <1>9, ThoseAtElements
<1>11. PICK g : Numbers(g, s, at, kept)
  BY <1>10
<1> DEFINE m == Len(kept)
<1>12. m \in Nat /\ DOMAIN kept = 1..m
  BY <1>10
<1>13. g \in [1..m -> at] /\ \A i \in 1..m : kept[i] = g[i] /\ g[i] \in 1..n
  <2>1. g \in [1..m -> at] /\ \A i \in 1..m : kept[i] = s[g[i]]
    BY <1>11 DEF Numbers
  <2>2. \A i \in 1..m : g[i] \in 1..n
    BY <1>7, <2>1
  <2> QED BY <1>8, <2>1, <2>2
<1>14. Upward(g, m, Loads(x, n))
  <2>1. at \subseteq Nat
    BY <1>7
  <2> QED BY <1>6, <1>11, <1>12, <1>13, <2>1 DEF Upward, Numbers
<1> HIDE DEF m
<1> DEFINE r(i) == <<x[2 + 3 * g[i]], x[3 + 3 * g[i]], x[4 + 3 * g[i]]>>
<1>15. \A i \in 1..m : f.srv[kept[i]] = r(i)
  BY <1>3, <1>13 DEF ThreeOf
<1>16. rows = [i \in 1..m |-> r(i)]
  BY <1>12, <1>15
<1> HIDE DEF rows, Values
<1>17. \A i \in 1..m : r(i) \in Seq(Values) /\ Len(r(i)) = 3
  <2>1. ASSUME NEW i \in 1..m
        PROVE  /\ x[2 + 3 * g[i]] \in Values /\ x[3 + 3 * g[i]] \in Values
               /\ x[4 + 3 * g[i]] \in Values
    <3>1. g[i] \in 1..n
      BY <1>13
    <3> QED BY <1>4, <3>1
  <2> QED BY <2>1
<1>18. rows \in Seq(Seq(Values)) /\ Len(rows) = m /\ \A i \in 1..m : rows[i] = r(i)
  <2> HIDE DEF r
  <2> QED BY <1>12, <1>16, <1>17
<1>19. PICK F \in Seq(Values) :
         /\ F = FlattenSeq(rows) /\ Len(F) = 3 * m
         /\ \A i \in 1..m, j \in 1..3 : F[3 * (i - 1) + j] = r(i)[j]
  <2> HIDE DEF r
  <2>1. \A i \in 1..Len(rows) : Len(rows[i]) = 3
    BY <1>17, <1>18
  <2>2. /\ FlattenSeq(rows) \in Seq(Values) /\ Len(FlattenSeq(rows)) = 3 * Len(rows)
        /\ \A i \in 1..Len(rows), j \in 1..3 : FlattenSeq(rows)[3 * (i - 1) + j] = rows[i][j]
    BY <1>18, <2>1, FlattenTriples
  <2>3. PICK F \in Seq(Values) : F = FlattenSeq(rows)
    BY <2>2
  <2>4. Len(F) = 3 * m /\ \A i \in 1..m, j \in 1..3 : F[3 * (i - 1) + j] = rows[i][j]
    BY <1>18, <2>2, <2>3
  <2>5. ASSUME NEW i \in 1..m, NEW j \in 1..3 PROVE F[3 * (i - 1) + j] = r(i)[j]
    <3>1. F[3 * (i - 1) + j] = rows[i][j]
      BY <2>4
    <3>2. rows[i] = r(i)
      BY <1>18
    <3> QED BY <3>1, <3>2, Zenon
  <2> QED BY <2>3, <2>4, <2>5
<1>20. path \in Values /\ path = Value("text", "tempPath", Token(x[2].v))
  <2>1. Token(x[2].v) \in Seq(Octets)
    BY <1>4, <1>5, TokenIs
  <2>2. "tempPath" \in Fields
    BY DEF Fields
  <2> QED BY <1>3, <2>1, <2>2, ValueTypes
<1>21. f.numbers = <<x[3], x[5 + 3 * n]>>
  <2>1. PICK a \in Values, b \in Values : a = x[3] /\ b = x[5 + 3 * n]
    BY <1>4
  <2> QED BY <1>3, <2>1, PairConcat
<1> HIDE DEF path
<1>22. Loaded(f) = <<path>> \o <<x[3], x[5 + 3 * n]>> \o F
  BY <1>1, <1>19, <1>21
<1>23. Preceded(Values, Loaded(f), path, x[3], x[5 + 3 * n], F)
  BY <1>4, <1>20, <1>22, Preceding
<1>24. PICK y \in Seq(Values) :
         /\ y = Loaded(f) /\ Len(y) = 3 + 3 * m
         /\ y[1] = path /\ y[2] = x[3] /\ y[3] = x[5 + 3 * n]
         /\ \A i \in 1..3 * m : y[3 + i] = F[i]
  BY <1>19, <1>23 DEF Preceded
<1>25. ASSUME NEW i \in 1..m
       PROVE  /\ y[1 + 3 * i] = x[2 + 3 * g[i]] /\ y[2 + 3 * i] = x[3 + 3 * g[i]]
              /\ y[3 + 3 * i] = x[4 + 3 * g[i]]
  <2>1. PICK k \in Nat : k = 3 * (i - 1)
    <3>1. 3 * (i - 1) \in Nat
      BY <1>12
    <3> QED BY <3>1
  <2>2. /\ k + 1 \in 1..3 * m /\ k + 2 \in 1..3 * m /\ k + 3 \in 1..3 * m
        /\ 3 + (k + 1) = 1 + 3 * i /\ 3 + (k + 2) = 2 + 3 * i /\ 3 + (k + 3) = 3 + 3 * i
    BY <1>12, <2>1
  <2>3. y[1 + 3 * i] = F[k + 1] /\ y[2 + 3 * i] = F[k + 2] /\ y[3 + 3 * i] = F[k + 3]
    BY <1>24, <2>2
  <2>4. 1 \in 1..3 /\ 2 \in 1..3 /\ 3 \in 1..3
    OBVIOUS
  <2>5. F[k + 1] = r(i)[1] /\ F[k + 2] = r(i)[2] /\ F[k + 3] = r(i)[3]
    <3> HIDE DEF r
    <3> QED BY <1>19, <2>1, <2>4
  <2>6. /\ r(i)[1] = x[2 + 3 * g[i]] /\ r(i)[2] = x[3 + 3 * g[i]]
        /\ r(i)[3] = x[4 + 3 * g[i]]
    OBVIOUS
  <2> QED BY <2>3, <2>5, <2>6
<1>26. LoadedAs(x, n, y, m, g)
  BY <1>14, <1>20, <1>24, <1>25 DEF LoadedAs
<1> QED BY <1>12, <1>24, <1>26 DEF f

\* What is loaded has the fields and the services that it is made of.
LoadedHas(x, n, y, m, h) ==
  /\ OfField(y, "tempPath") = <<y[1]>> /\ OfField(y, "tempDivider") = <<x[3]>>
  /\ OfField(y, "interval") = <<x[5 + 3 * n]>>
  /\ Served(y) = m /\ \A i \in 1..m : Service(y, i) = ThreeOf(x, h[i])

LEMMA LoadedFields ==
  ASSUME NEW n \in Nat, NEW x, IsConfig(x, n), NEW m \in Nat, NEW h, NEW y,
         LoadedAs(x, n, y, m, h)
  PROVE  LoadedHas(x, n, y, m, h)
<1>1. /\ y \in Seq(Values) /\ Len(y) = 3 + 3 * m
      /\ y[1] = Value("text", "tempPath", Token(x[2].v)) /\ y[2] = x[3]
      /\ y[3] = x[5 + 3 * n]
      /\ \A i \in 1..m : /\ y[1 + 3 * i] = x[2 + 3 * h[i]]
                         /\ y[2 + 3 * i] = x[3 + 3 * h[i]]
                         /\ y[3 + 3 * i] = x[4 + 3 * h[i]]
  BY DEF LoadedAs
<1>2. \A i \in 1..m : h[i] \in 1..n
  <2>1. Loads(x, n) \subseteq 1..n
    BY DEF Loads
  <2>2. \A i \in 1..m : h[i] \in Loads(x, n)
    BY DEF LoadedAs, Upward
  <2> QED BY <2>1, <2>2
<1>3. y[1].f = "tempPath" /\ y[2].f = "tempDivider" /\ y[3].f = "interval"
  <2>1. y[1].f = "tempPath"
    BY <1>1 DEF Value
  <2> QED BY <1>1, <2>1, ConfigNames
<1>4. ASSUME NEW i \in 1..m
      PROVE  /\ y[1 + 3 * i].f = "service" /\ y[2 + 3 * i].f = "tcp"
             /\ y[3 + 3 * i].f = "port"
  <2>1. PICK j \in 1..n : j = h[i]
    BY <1>2
  <2>2. x[2 + 3 * j].f = "service" /\ x[3 + 3 * j].f = "tcp" /\ x[4 + 3 * j].f = "port"
    BY ConfigNames
  <2> QED BY <1>1, <2>1, <2>2
<1>5. ASSUME NEW k \in 1..Len(y)
      PROVE  \/ k = 1 \/ k = 2 \/ k = 3
             \/ \E i \in 1..m : k = 1 + 3 * i /\ y[k].f = "service"
             \/ \E i \in 1..m : k = 2 + 3 * i /\ y[k].f = "tcp"
             \/ \E i \in 1..m : k = 3 + 3 * i /\ y[k].f = "port"
  <2>1. CASE k >= 4
    <3> DEFINE i == (k - 1) \div 3
    <3>1. k \in Int /\ k <= 3 + 3 * m
      BY <1>1
    <3>2. i \in Int /\ 3 * i <= k - 1 /\ k - 1 < 3 * i + 3
      BY <3>1
    <3> HIDE DEF i
    <3>3. i \in 1..m /\ (k = 1 + 3 * i \/ k = 2 + 3 * i \/ k = 3 + 3 * i)
      BY <2>1, <3>1, <3>2
    <3> QED BY <1>4, <3>3
  <2>2. CASE ~(k >= 4)
    BY <2>2
  <2> QED BY <2>1, <2>2
<1>6. /\ 1 \in 1..Len(y) /\ 2 \in 1..Len(y) /\ 3 \in 1..Len(y)
      /\ \A i \in 1..m : /\ 1 + 3 * i \in 1..Len(y) /\ 2 + 3 * i \in 1..Len(y)
                         /\ 3 + 3 * i \in 1..Len(y)
  BY <1>1
<1>7. OfField(y, "tempPath") = <<y[1]>>
  <2>1. \A k \in 1..Len(y) : y[k].f = "tempPath" => k = 1
    BY <1>3, <1>5
  <2> QED BY <1>1, <1>3, <1>6, <2>1, OfFieldOne
<1>8. OfField(y, "tempDivider") = <<y[2]>>
  <2>1. \A k \in 1..Len(y) : y[k].f = "tempDivider" => k = 2
    BY <1>3, <1>5
  <2> QED BY <1>1, <1>3, <1>6, <2>1, OfFieldOne
<1>9. OfField(y, "interval") = <<y[3]>>
  <2>1. \A k \in 1..Len(y) : y[k].f = "interval" => k = 3
    BY <1>3, <1>5
  <2> QED BY <1>1, <1>3, <1>6, <2>1, OfFieldOne
<1>10. Thirds(y, OfField(y, "service"), m, 1)
  <2>1. \A k \in 1..Len(y) : y[k].f = "service" => \E i \in 1..m : k = 1 + 3 * i
    BY <1>3, <1>5
  <2>2. \A i \in 1..m : 1 + 3 * i \in 1..Len(y) /\ y[1 + 3 * i].f = "service"
    BY <1>4, <1>6
  <2>3. 1 \in Nat
    OBVIOUS
  <2> QED BY <1>1, <2>1, <2>2, <2>3, OfFieldThird
<1>11. Thirds(y, OfField(y, "tcp"), m, 2)
  <2>1. \A k \in 1..Len(y) : y[k].f = "tcp" => \E i \in 1..m : k = 2 + 3 * i
    BY <1>3, <1>5
  <2>2. \A i \in 1..m : 2 + 3 * i \in 1..Len(y) /\ y[2 + 3 * i].f = "tcp"
    BY <1>4, <1>6
  <2>3. 2 \in Nat
    OBVIOUS
  <2> QED BY <1>1, <2>1, <2>2, <2>3, OfFieldThird
<1>12. Thirds(y, OfField(y, "port"), m, 3)
  <2>1. \A k \in 1..Len(y) : y[k].f = "port" => \E i \in 1..m : k = 3 + 3 * i
    BY <1>3, <1>5
  <2>2. \A i \in 1..m : 3 + 3 * i \in 1..Len(y) /\ y[3 + 3 * i].f = "port"
    BY <1>4, <1>6
  <2>3. 3 \in Nat
    OBVIOUS
  <2> QED BY <1>1, <2>1, <2>2, <2>3, OfFieldThird
<1>13. ASSUME NEW i \in 1..m PROVE Service(y, i) = ThreeOf(x, h[i])
  <2>1. /\ OfField(y, "service")[i] = y[1 + 3 * i] /\ OfField(y, "tcp")[i] = y[2 + 3 * i]
        /\ OfField(y, "port")[i] = y[3 + 3 * i]
    BY <1>10, <1>11, <1>12 DEF Thirds
  <2> QED BY <1>1, <2>1 DEF Service, ThreeOf
<1>14. Served(y) = m
  BY <1>10 DEF Thirds, Served
<1> QED BY <1>1, <1>7, <1>8, <1>9, <1>13, <1>14 DEF LoadedHas

\* Each of those that are numbered upward comes no later than it was.
LEMMA UpwardLater ==
  ASSUME NEW n \in Nat, NEW at, at \subseteq 1..n, NEW g, NEW m, Upward(g, m, at)
  PROVE  \A i \in 1..m : g[i] \in 1..n /\ i <= g[i]
<1>1. m \in Nat /\ \A i \in 1..m : g[i] \in 1..n
  BY DEF Upward
<1>2. \A i, j \in 1..m : i < j => g[i] < g[j]
  BY DEF Upward
<1> DEFINE T == {i \in 1..m : g[i] < i}
<1>3. T = {}
  <2>1. SUFFICES ASSUME T # {} PROVE FALSE
    OBVIOUS
  <2>2. T \subseteq Nat
    OBVIOUS
  <2>3. PICK i \in T : \A j \in T : i <= j
    <3> HIDE DEF T
    <3> QED BY <2>1, <2>2, LeastNat
  <2>4. i \in 1..m /\ g[i] < i /\ g[i] \in 1..n
    BY <1>1, <2>3
  <2>5. i - 1 \in 1..m /\ i - 1 < i /\ ~(i <= i - 1)
    BY <1>1, <2>4
  <2>6. i - 1 \notin T
    BY <2>3, <2>5
  <2>7. ~(g[i - 1] < i - 1) /\ g[i - 1] < g[i] /\ g[i - 1] \in 1..n
    BY <1>1, <1>2, <2>4, <2>5, <2>6
  <2> QED BY <2>4, <2>5, <2>7
<1>4. \A i \in 1..m : ~(g[i] < i)
  BY <1>3
<1> QED BY <1>1, <1>4

\* What the agent that saved the configuration x has of it in y.
Reloads(x, y) ==
  /\ y \in Seq(Values)
  /\ \A i \in 1..Served(y) : \E j \in 1..Served(x) :
       i <= j /\ Service(y, i) = Service(x, j)
  /\ AllFreeOf(" ", x)
     /\ (\A k \in 1..Len(x) : x[k].f = "service" => FreeOf(":", x[k].v))
     => /\ \A f \in {"tempPath", "tempDivider", "interval"} :
             OfField(y, f) = OfField(x, f)
        /\ Served(y) = Served(x)

LEMMA RestartKeeps ==
  ASSUME NEW n \in Nat, NEW x, IsConfig(x, n)
  PROVE  Reloads(x, Loaded(Filed(x)))
<1>0. PICK y : y = Loaded(Filed(x))
  OBVIOUS
<1>1. PICK m \in Nat : \E h : LoadedAs(x, n, y, m, h)
  BY <1>0, LoadedIs
<1>2. PICK h : LoadedAs(x, n, y, m, h)
  BY <1>1
<1>3. LoadedHas(x, n, y, m, h)
  BY <1>2, LoadedFields
<1>4. Served(x) = n /\ \A i \in 1..n : Service(x, i) = ThreeOf(x, i)
  BY ConfigServed
<1>5. Upward(h, m, Loads(x, n)) /\ Loads(x, n) \subseteq 1..n
  BY <1>2 DEF LoadedAs, Loads
<1>6. \A i \in 1..m : h[i] \in 1..n /\ i <= h[i]
  BY <1>5, UpwardLater
<1>7. y \in Seq(Values)
  BY <1>2 DEF LoadedAs
<1>8. ASSUME NEW i \in 1..Served(y)
      PROVE  \E j \in 1..Served(x) : i <= j /\ Service(y, i) = Service(x, j)
  <2>1. i \in 1..m /\ Service(y, i) = ThreeOf(x, h[i])
    BY <1>3 DEF LoadedHas
  <2>2. h[i] \in 1..Served(x) /\ i <= h[i] /\ Service(x, h[i]) = ThreeOf(x, h[i])
    BY <1>4, <1>6, <2>1
  <2> QED BY <2>1, <2>2
<1> DEFINE sp == " "
<1> HIDE DEF sp
<1>9. ASSUME AllFreeOf(sp, x),
             \A k \in 1..Len(x) : x[k].f = "service" => FreeOf(":", x[k].v)
      PROVE  /\ \A f \in {"tempPath", "tempDivider", "interval"} :
                  OfField(y, f) = OfField(x, f)
             /\ Served(y) = Served(x)
  <2>1. x \in Seq(Values) /\ Len(x) = 6 + 3 * n
    BY DEF IsConfig
  <2>2. ASSUME NEW k \in 1..Len(x), x[k].kind = "text"
        PROVE  Token(x[k].v) = x[k].v
    <3>1. x[k] \in Values
      BY <2>1
    <3>2. x[k].v \in Seq(Octets)
      BY <3>1 DEF Values
    <3>3. FreeOf(sp, x[k].v)
      BY <1>9, <2>2 DEF AllFreeOf
    <3>4. FreeOf(sp, x[k].v) => Token(x[k].v) = x[k].v
      BY <3>2, TokenIs DEF sp
    <3> QED BY <3>3, <3>4
  <2>3. y[1] = x[2]
    <3>1. 2 \in 1..Len(x)
      BY <2>1
    <3>2. x[2].kind = "text" /\ x[2].f = "tempPath"
      BY ConfigTexts, ConfigNames
    <3>3. y[1] = Value("text", "tempPath", x[2].v)
      BY <1>2, <2>2, <3>1, <3>2 DEF LoadedAs
    <3>4. x[2] \in Values
      BY <2>1, <3>1
    <3>5. x[2] = [kind |-> x[2].kind, f |-> x[2].f, v |-> x[2].v]
      BY <3>4 DEF Values
    <3> QED BY <3>2, <3>3, <3>5 DEF Value
  <2>4. Loads(x, n) = 1..n
    <3>1. ASSUME NEW i \in 1..n
          PROVE  Token(x[2 + 3 * i].v) = x[2 + 3 * i].v /\ FreeOf(":", x[2 + 3 * i].v)
      <4>1. 2 + 3 * i \in 1..Len(x)
        BY <2>1
      <4>2. x[2 + 3 * i].kind = "text" /\ x[2 + 3 * i].f = "service"
        BY ConfigTexts
      <4> QED BY <1>9, <2>2, <4>1, <4>2
    <3> QED BY <3>1 DEF Loads
  <2>5. m = n
    <3> DEFINE id == [i \in 1..n |-> i]
    <3>1. id \in [1..n -> 1..n] /\ \A i \in 1..n : id[i] = i
      OBVIOUS
    <3> HIDE DEF id
    <3>2. Upward(id, n, 1..n)
      <4>1. 1..n \subseteq Nat /\ \A i, j \in 1..n : i < j => id[i] < id[j]
        BY <3>1
      <4>2. \A k \in 1..n : \E i \in 1..n : id[i] = k
        BY <3>1
      <4> QED BY <3>1, <4>1, <4>2 DEF Upward
    <3>3. Upward(h, m, 1..n)
      BY <1>5, <2>4
    <3>4. SameWay(h, m, id, n)
      BY <3>2, <3>3, UpwardOnce
    <3> QED BY <3>4 DEF SameWay
  <2>6. /\ OfField(x, "tempPath") = <<x[2]>> /\ OfField(x, "tempDivider") = <<x[3]>>
        /\ OfField(x, "interval") = <<x[5 + 3 * n]>>
    BY ConfigFields
  <2> QED BY <1>3, <1>4, <2>3, <2>5, <2>6 DEF LoadedHas
<1>10. Reloads(x, y)
  BY <1>7, <1>8, <1>9 DEF sp, Reloads
<1> QED BY <1>0, <1>10

LEMMA RestartStep ==
  ASSUME NEW strict \in BOOLEAN, Inv(strict), Restart
  PROVE  Inv(strict)'
<1>1. /\ phase = "done" /\ route = ConfigRoute /\ phase' = "restarted"
      /\ have' = Loaded(Filed(got))
      /\ UNCHANGED <<route, hop, todo, meant, length, body, got>>
  BY DEF Restart
<1>2. Typed /\ Meant
  BY DEF Inv
<1>3. /\ route \in Routes /\ hop \in DOMAIN route /\ todo \in Seq(Items)
      /\ meant \in Seq(Values) /\ got \in Seq(Values) /\ body \in Seq(Octets)
      /\ length \in Nat /\ Len(body) <= length
  BY <1>2 DEF Typed
<1>4. hop = 4 /\ Parses(got, ReadAs(Now), <<>>)
  BY <1>1, ConfigHops DEF Inv
<1>5. strict => Kept(got)
  BY <1>1, <1>4 DEF Inv
<1>6. (Now)' = Now /\ ReadAs(Now)' = ReadAs(Now)
  BY <1>1 DEF Now
<1>7. PICK n \in Nat : IsConfig(got, n)
  <2>1. ReadAs(Now) = TPacketConfig
    BY <1>1, <1>4, ConfigHops DEF Now
  <2> QED BY <1>3, <1>4, <2>1, ConfigShape
<1>8. PICK y : y = Loaded(Filed(got))
  OBVIOUS
<1>9. Reloads(got, y)
  BY <1>7, <1>8, RestartKeeps
<1>10. Typed'
  <2> HIDE DEF Values, Octets, Items
  <2> QED BY <1>1, <1>3, <1>8, <1>9 DEF Typed, Reloads
<1>11. Meant'
  <2> HIDE DEF Plain
  <2> QED BY <1>1, <1>2, <1>6 DEF Meant
<1>12. FailsOnlyIfTooLong'
  BY <1>1 DEF FailsOnlyIfTooLong
<1>13. ASSUME strict PROVE RestartKeepsConfig'
  <2>1. Kept(got)
    BY <1>5, <1>13
  <2>2. /\ NoneHas(" ") => AllFreeOf(" ", got)
        /\ \A k \in 1..Len(got) : got[k].f = "service" => FreeOf(":", got[k].v)
    BY <1>4, <2>1 DEF Kept
  <2>3. NoneHas(" ")' <=> NoneHas(" ")
    BY <1>1 DEF NoneHas
  <2>4. have' = y /\ got' = got
    BY <1>1, <1>8
  <2>5. NoneHas(" ") => /\ \A f \in {"tempPath", "tempDivider", "interval"} :
                             OfField(y, f) = OfField(got, f)
                        /\ Served(y) = Served(got)
    BY <1>9, <2>2 DEF Reloads
  <2>6. (NoneHas(" ") => /\ \A f \in {"tempPath", "tempDivider", "interval"} :
                              OfField(have, f) = OfField(got, f)
                         /\ Served(have) = Served(got))'
    BY <2>3, <2>4, <2>5
  <2>7. (\A i \in 1..Served(have) : \E j \in 1..Served(got) :
           i <= j /\ Service(have, i) = Service(got, j))'
    BY <1>9, <2>4 DEF Reloads
  <2> QED BY <2>6, <2>7 DEF RestartKeepsConfig
<1> QED BY <1>1, <1>10, <1>11, <1>12, <1>13 DEF Inv

LEMMA StutterStep ==
  ASSUME NEW strict \in BOOLEAN, Inv(strict), UNCHANGED vars
  PROVE  Inv(strict)'
<1>1. UNCHANGED <<route, hop, phase, todo, meant, have, length, body, got>>
  BY DEF vars
<1>2. (Now)' = Now /\ ReadAs(Now)' = ReadAs(Now)
  BY <1>1 DEF Now
<1>3. Typed' <=> Typed
  BY <1>1 DEF Typed
<1>4. Meant' <=> Meant
  BY <1>1, <1>2 DEF Meant
<1>5. FailsOnlyIfTooLong' <=> FailsOnlyIfTooLong
  BY <1>1 DEF FailsOnlyIfTooLong
<1>6. \A c : NoneHas(c)' <=> NoneHas(c)
  BY <1>1 DEF NoneHas
<1>7. RestartKeepsConfig' <=> RestartKeepsConfig
  BY <1>1, <1>6 DEF RestartKeepsConfig
<1>8. \A v : Kept(v)' <=> Kept(v)
  BY <1>1, <1>6 DEF Kept
<1>9. \A v : Carried(v)' <=> Carried(v)
  BY <1>1, <1>6, <1>8 DEF Carried
<1>10. \A w : Written(strict, w)' <=> Written(strict, w)
  BY <1>1, <1>2, <1>9 DEF Written
<1>11. \A w : Fetched(strict, w)' <=> Fetched(strict, w)
  BY <1>1, <1>2, <1>9 DEF Fetched, Unread
<1> QED BY <1>1, <1>2, <1>3, <1>4, <1>5, <1>7, <1>8, <1>10, <1>11 DEF Inv

LEMMA NextHolds ==
  ASSUME NEW strict \in BOOLEAN, Inv(strict), strict => length < LenMod, [Next]_vars
  PROVE  Inv(strict)'
<1>1. CASE AppendNumber
  BY <1>1, AppendNumberStep
<1>2. CASE AppendText
  BY <1>2, AppendTextStep
<1>3. CASE AppendList
  BY <1>3, AppendListStep
<1>4. CASE SendBody
  BY <1>4, SendBodyStep
<1>5. CASE FetchNumber
  BY <1>5, FetchNumberStep
<1>6. CASE FetchText
  BY <1>6, FetchTextStep
<1>7. CASE FetchList
  BY <1>7, FetchListStep
<1>8. CASE Underflow \/ FetchFails \/ FetchTextFails
  BY <1>8, FailSteps
<1>9. CASE PassOn
  BY <1>9, PassOnStep
<1>10. CASE Restart
  BY <1>10, RestartStep
<1>11. CASE UNCHANGED vars
  BY <1>11, StutterStep
<1> QED BY <1>1, <1>2, <1>3, <1>4, <1>5, <1>6, <1>7, <1>8, <1>9, <1>10, <1>11 DEF Next

-----------------------------------------------------------------------------
(* The theorems.                                                           *)

\* What holds of every packet, and what while no packet is too long.
Inv0 == Inv(FALSE)
Inv1 == Inv(TRUE)

\* The fields that were read are always some that were written, of a packet
\* that its header can count.
THEOREM InvAlways == Spec => []Inv0
<1>1. Init => Inv0
  BY InitHolds DEF Inv0
<1>2. Inv0 /\ [Next]_vars => Inv0'
  BY NextHolds DEF Inv0
<1> QED BY <1>1, <1>2, PTL DEF Spec

\* While no packet is longer than its header can count, a configuration is at
\* each of its four packets what the table made of it at first.
THEOREM InvCounted == Spec /\ [](length < LenMod) => []Inv1
<1>1. Init => Inv1
  BY InitHolds DEF Inv1
<1>2. Inv1 /\ length < LenMod /\ [Next]_vars => Inv1'
  BY NextHolds DEF Inv1
<1> QED BY <1>1, <1>2, PTL DEF Spec

LEMMA TypedIs == Typed => TypeOK
<1> SUFFICES ASSUME Typed PROVE TypeOK
  OBVIOUS
<1>1. \A i \in DOMAIN todo : todo[i].f \in Fields /\ todo[i].kind \in {"number", "text", "list"}
  <2>1. todo \in Seq(Items)
    BY DEF Typed
  <2>2. \A i \in DOMAIN todo : todo[i] \in Items
    <3> HIDE DEF Items
    <3> QED BY <2>1
  <2> QED BY <2>2, ItemShape
<1>2. ASSUME NEW s \in Seq(Values)
      PROVE  \A i \in DOMAIN s : s[i].f \in Fields /\ s[i].kind \in {"number", "text", "list"}
  <2>1. \A i \in DOMAIN s : s[i] \in Values
    <3> HIDE DEF Values
    <3> QED OBVIOUS
  <2> QED BY <2>1 DEF Values
<1>3. meant \in Seq(Values) /\ have \in Seq(Values) /\ got \in Seq(Values)
  BY DEF Typed
<1>4. ASSUME NEW s \in {todo, meant, have, got}, NEW i \in DOMAIN s
      PROVE  s[i].f \in Fields /\ s[i].kind \in {"number", "text", "list"}
  <2> HIDE DEF Values, Fields
  <2> QED BY <1>1, <1>2, <1>3
<1>5. /\ route \in Routes /\ hop \in DOMAIN route
      /\ phase \in {"write", "read", "dropped", "partial", "indeterminate", "done",
                    "restarted"}
      /\ length \in Nat /\ Len(body) <= length
  BY DEF Typed
<1> HIDE DEF Fields
<1> QED BY <1>4, <1>5 DEF TypeOK

\* Every variable has its type, and no more of the body is left than was
\* appended, whatever the texts are.
THEOREM TypeCorrect == Spec => []TypeOK
<1>1. Inv0 => TypeOK
  BY TypedIs DEF Inv0, Inv
<1> QED BY <1>1, InvAlways, PTL

\* A program fails to read a packet only when its header cannot count it: that
\* the two programs append and fetch the same fields, in the same order and of
\* the same width, holds of every packet type (common/packets.h, and the classes
\* of the viewer's connection/packets).
THEOREM FailsCorrect == Spec => []FailsOnlyIfTooLong
<1>1. Inv0 => FailsOnlyIfTooLong
  BY DEF Inv0, Inv
<1> QED BY <1>1, InvAlways, PTL

\* The values in the reader's own characters.
LEMMA EncodedSame ==
  ASSUME NEW w \in Seq(Values), NEW x \in Seq(Values), Len(x) = Len(w),
         \A i \in 1..Len(x) : x[i] = Told(FALSE, w[i])
  PROVE  x = Encoded(w)
<1>1. DOMAIN w = 1..Len(x) /\ DOMAIN x = 1..Len(x)
  OBVIOUS
<1>2. ASSUME NEW i \in 1..Len(x)
      PROVE  x[i] = IF w[i].kind = "text" THEN [w[i] EXCEPT !.v = GetBytes(@)] ELSE w[i]
  <2>1. PICK z \in Values : z = w[i]
    OBVIOUS
  <2>2. z = [kind |-> z.kind, f |-> z.f, v |-> z.v]
    BY DEF Values
  <2>3. CASE z.kind = "text"
    <3>1. x[i] = Value("text", z.f, GetBytes(z.v))
      BY <2>1, <2>3 DEF Told
    <3>2. [z EXCEPT !.v = GetBytes(@)] = [kind |-> "text", f |-> z.f, v |-> GetBytes(z.v)]
      <4> DEFINE b == GetBytes(z.v)
      <4> HIDE DEF b
      <4>1. [z EXCEPT !.v = b] = [kind |-> z.kind, f |-> z.f, v |-> b]
        BY <2>2
      <4> QED BY <2>3, <4>1 DEF b
    <3> QED BY <2>1, <2>3, <3>1, <3>2 DEF Value
  <2>4. CASE z.kind # "text"
    BY <2>1, <2>4 DEF Told
  <2> QED BY <2>1, <2>3, <2>4
<1>3. Encoded(w) = [i \in 1..Len(x) |-> IF w[i].kind = "text"
                                        THEN [w[i] EXCEPT !.v = GetBytes(@)] ELSE w[i]]
  BY <1>1 DEF Encoded
<1>4. x = [i \in 1..Len(x) |-> x[i]]
  BY <1>1
<1> QED BY <1>2, <1>3, <1>4, Zenon

LEMMA ReadsIs ==
  ASSUME Inv(FALSE), length < LenMod
  PROVE  ReadsRight
<1>1. SUFFICES ASSUME HasRead
               PROVE  /\ body = <<>>
                      /\ hop = 1 => \/ Same(got, Encoded(meant))
                                    \/ Java(Now.to) /\ ~NoneHas("e")
  BY DEF ReadsRight
<1>2. body = <<>> /\ \E w : ReadWhole(FALSE, w)
  BY <1>1, AllRead
<1>3. PICK w : ReadWhole(FALSE, w)
  BY <1>2
<1>4. Typed /\ Meant /\ meant \in Seq(Values) /\ got \in Seq(Values)
  BY DEF Inv, Typed
<1>5. ASSUME hop = 1
      PROVE  Same(got, Encoded(meant)) \/ (Java(Now.to) /\ ~NoneHas("e"))
  <2>1. /\ w = meant /\ Len(got) = Len(meant)
        /\ \A i \in 1..Len(got) : got[i] = Told(Java(Now.to), meant[i])
    BY <1>3, <1>5 DEF ReadWhole
  <2>2. ASSUME ~Java(Now.to) PROVE got = Encoded(meant)
    <3>1. Java(Now.to) = FALSE
      BY <2>2 DEF Java
    <3>2. \A i \in 1..Len(got) : got[i] = Told(FALSE, meant[i])
      BY <2>1, <3>1
    <3> QED BY <1>4, <2>1, <3>2, EncodedSame
  <2>3. ASSUME NoneHas("e") PROVE got = Encoded(meant)
    <3>1. Only(Ascii, meant)
      BY <1>4, <2>3, MeantAscii
    <3>2. got = meant
      BY <1>3, <1>4, <2>1, <3>1, AsciiRead
    <3>3. ASSUME NEW i \in 1..Len(got) PROVE got[i] = Told(FALSE, meant[i])
      <4>1. PICK x \in Values : x = meant[i]
        BY <1>4, <2>1
      <4>2. x.kind = "text" => x.v \in Seq(Ascii)
        BY <2>1, <3>1, <4>1 DEF Only
      <4>3. Told(FALSE, x) = x
        BY <4>2, AsciiTold
      <4> QED BY <3>2, <4>1, <4>3
    <3> QED BY <1>4, <2>1, <3>3, EncodedSame
  <2>4. got = Encoded(meant) => Same(got, Encoded(meant))
    BY DEF Same
  <2> QED BY <2>2, <2>3, <2>4
<1> QED BY <1>2, <1>5

\* A packet that its header can count is read as it was written, with no byte
\* left over, of whatever type it is, however many values its lists have and
\* whatever its texts are: but for the viewer, if they are ASCII.
THEOREM ReadsCorrect == Spec => [](length < LenMod => ReadsRight)
<1>1. Inv0 => (length < LenMod => ReadsRight)
  BY ReadsIs DEF Inv0
<1> QED BY <1>1, InvAlways, PTL

LEMMA SavedAgainIs ==
  ASSUME Inv(TRUE), length < LenMod
  PROVE  SavedAgainUnchanged /\ DelimitersOnly
<1>0. hop = 4 => hop > 1
  OBVIOUS
<1>1. SUFFICES ASSUME HasRead, hop > 1, NoneHas("e")
               PROVE  /\ got = Stored(meant)
                      /\ NoneHas(":") /\ NoneHas(",") => got = meant
  <2>1. Same(got, got)
    BY DEF Same
  <2> QED BY <1>0, <2>1 DEF SavedAgainUnchanged, DelimitersOnly
<1>2. /\ Typed /\ Meant /\ meant \in Seq(Values) /\ got \in Seq(Values)
      /\ route \in Routes /\ hop \in DOMAIN route
  BY DEF Inv, Typed
<1>3. PICK w : ReadWhole(TRUE, w)
  BY <1>1, AllRead
<1>4. w = Stored(meant)
  BY <1>1, <1>3 DEF ReadWhole, Carried
<1>5. ReadAs(Now) = TPacketConfig
  <2>1. route = ConfigRoute
    BY <1>1, <1>2, RouteLength
  <2> QED BY <1>2, <2>1, RouteLayouts DEF Now
<1>6. PICK n \in Nat : IsConfig(meant, n)
  <2>1. phase = "read"
    BY <1>1 DEF HasRead
  <2>2. Parses(meant, TPacketConfig, <<>>)
    BY <1>2, <1>5, <2>1 DEF Meant
  <2> QED BY <1>2, <2>2, ConfigShape
<1>7. got = Stored(meant)
  <2>1. Only(Ascii, meant) /\ Ascii \subseteq Octets
    BY <1>1, <1>2, MeantAscii DEF Ascii, Lacking
  <2>2. Only(Ascii, Stored(meant))
    BY <1>6, <2>1, StoredOnly
  <2> QED BY <1>2, <1>3, <1>4, <2>2, AsciiRead
<1>8. ASSUME NoneHas(":"), NoneHas(Comma) PROVE Stored(meant) = meant
  <2>1. AllFreeOf(":", meant) /\ AllFreeOf(Comma, meant)
    BY <1>2, <1>8, MeantFree
  <2>2. /\ meant[2].kind = "text" /\ 2 \in 1..Len(meant)
        /\ \A i \in 1..n : meant[2 + 3 * i].kind = "text" /\ 2 + 3 * i \in 1..Len(meant)
    <3>1. Len(meant) = 6 + 3 * n
      BY <1>6 DEF IsConfig
    <3>2. 2 \in 1..Len(meant) /\ \A i \in 1..n : 2 + 3 * i \in 1..Len(meant)
      BY <3>1
    <3> QED BY <1>6, <3>2, ConfigTexts
  <2>3. /\ FreeOf(":", meant[2].v)
        /\ \A i \in 1..n : /\ FreeOf(":", meant[2 + 3 * i].v)
                           /\ FreeOf(Comma, meant[2 + 3 * i].v)
    BY <2>1, <2>2 DEF AllFreeOf
  <2> QED BY <1>6, <2>3, StoredSame
<1> QED BY <1>7, <1>8, Zenon DEF Comma

\* While no packet is longer than its header counts, what an agent is sent of a
\* dialog that was saved, opened again and saved as it is, is what the first
\* save left in the table (server/db.cpp:292-409, main.cpp:357-361).
THEOREM SavedAgainCorrect == Spec /\ [](length < LenMod) => []SavedAgainUnchanged
<1>1. Inv1 /\ length < LenMod => SavedAgainUnchanged
  BY SavedAgainIs DEF Inv1
<1> QED BY <1>1, InvCounted, PTL

\* And all of what was typed in, if it has none of the table's delimiters.
THEOREM DelimitersCorrect == Spec /\ [](length < LenMod) => []DelimitersOnly
<1>1. Inv1 /\ length < LenMod => DelimitersOnly
  BY SavedAgainIs DEF Inv1
<1> QED BY <1>1, InvCounted, PTL

\* The agent that is started again has the configuration it was sent last, if no
\* text has a space, and never a service that it was not sent, however many
\* services its file had before (agent_lin/main.cpp:62-82, 157-175).
THEOREM RestartCorrect == Spec /\ [](length < LenMod) => []RestartKeepsConfig
<1>1. Inv1 => RestartKeepsConfig
  BY DEF Inv1, Inv
<1> QED BY <1>1, InvCounted, PTL
=============================================================================
