---------------------------- MODULE StatsProofs ----------------------------
(***************************************************************************)
(* Proofs about Stats, for dates of any width, any records and any request.*)
(***************************************************************************)
EXTENDS Stats, TLAPS

-----------------------------------------------------------------------------
(* Products and quotients.                                                 *)

LEMMA Times ==
  ASSUME NEW n \in Nat, NEW b \in Nat
  PROVE  n * b \in Nat /\ (n + 1) * b = n * b + b
OBVIOUS

LEMMA TimesOrder ==
  ASSUME NEW m \in Nat, NEW n \in Nat, NEW b \in Nat, m <= n
  PROVE  m * b <= n * b
<1>1. PICK k \in Nat : n = m + k
  <2>1. n - m \in Nat /\ n = m + (n - m)
    OBVIOUS
  <2> QED BY <2>1
<1>2. n * b = m * b + k * b /\ m * b \in Nat /\ k * b \in Nat
  BY <1>1
<1> QED BY <1>2

LEMMA Quotient ==
  ASSUME NEW a \in Nat, NEW b \in Nat \ {0}
  PROVE  /\ a \div b \in Nat
         /\ (a \div b) * b <= a /\ a < (a \div b) * b + b
OBVIOUS

LEMMA Remainder ==
  ASSUME NEW w \in Nat \ {0}, NEW a \in 0..w - 1
  PROVE  a % w = a
OBVIOUS

\* Rounded up, a quotient is more than any number the divisor fits in less
\* often.
LEMMA CeilOrder ==
  ASSUME NEW a \in Nat, NEW b \in Nat \ {0}, NEW n \in Nat, n * b < a
  PROVE  Ceil(a, b) \in Nat /\ (n + 1) * b <= Ceil(a, b) * b
<1> DEFINE q == Ceil(a, b)
<1>1. q \in Nat /\ a + b - 1 < q * b + b
  <2>1. a + b - 1 \in Nat
    OBVIOUS
  <2>2. /\ (a + b - 1) \div b \in Nat
        /\ a + b - 1 < ((a + b - 1) \div b) * b + b
    BY <2>1, Quotient
  <2> QED BY <2>2 DEF Ceil
<1> HIDE DEF q
<1>2. n < q
  <2>1. SUFFICES ASSUME q <= n PROVE FALSE
    BY <1>1
  <2>2. q * b <= n * b /\ q * b \in Nat /\ n * b \in Nat
    BY <1>1, <2>1, TimesOrder
  <2> QED BY <1>1, <2>2
<1>3. (n + 1) * b <= q * b
  BY <1>1, <1>2, TimesOrder
<1> QED BY <1>1, <1>3 DEF q

-----------------------------------------------------------------------------
(* Types.                                                                  *)

LEMMA DateSums ==
  ASSUME NEW a \in Dates, NEW b \in Int
  PROVE  Add(a, b) \in Dates /\ Sub(a, b) \in Dates
<1>1. W \in Nat /\ W > 0 /\ a \in Int
  BY StatsAssumption DEF Dates
<1>2. \A x \in Int : x % W \in 0..W - 1
  BY <1>1
<1> QED BY <1>1, <1>2 DEF Add, Sub, Dates

\* TypeOK, with points as a sequence.
TypeInv ==
  /\ TypeOK
  /\ \E S : points \in Seq(S)

LEMMA TypeNext == ASSUME TypeInv, [Next]_vars PROVE TypeInv'
<1>1. /\ table \in Tables /\ req \in Requests
      /\ pc \in {"query", "bucket", "sent", "died"} /\ rec \subseteq DOMAIN table
      /\ cur \in Dates /\ step \in Dates
      /\ \A i \in DOMAIN points : points[i] = NoData \/ points[i] \subseteq DOMAIN table
  BY DEF TypeInv, TypeOK
<1>2. /\ req.start \in Dates /\ req.end \in Dates /\ req.points \in 0..MaxPoints
  BY <1>1 DEF Requests
<1>3. W \in Nat /\ W > 1 /\ MaxPoints \in Nat
  BY StatsAssumption
<1>4. PICK S : points \in Seq(S)
  BY DEF TypeInv
<1>5. CASE SendNone
  <2>1. points' = <<>> /\ UNCHANGED <<table, req, rec, cur, step>> /\ pc' = "sent"
    BY <1>5 DEF SendNone
  <2> QED BY <1>1, <2>1 DEF TypeInv, TypeOK
<1>6. CASE Cut
  <2>1. rec' \subseteq DOMAIN table
    BY <1>6 DEF Cut, getRecords
  <2>2. step' \in Dates
    <3>1. Sub(req.end, req.start) \in Dates
      <4>1. PICK a \in Dates, b \in Dates : a = req.end /\ b = req.start
        BY <1>2
      <4>2. b \in Int
        BY <1>3 DEF Dates
      <4>3. Sub(a, b) \in Dates
        BY <4>2, DateSums
      <4> QED BY <4>1, <4>3
    <3>2. PICK r \in Dates : r = Sub(req.end, req.start)
      BY <3>1
    <3>3. req.points \in Nat \ {0} /\ r \in Nat
      BY <1>2, <1>6, <3>2, StatsAssumption DEF Cut, Dates
    <3>4. r \div req.points \in 0..r
      <4>1. r \div req.points \in Nat /\ (r \div req.points) * req.points <= r
        BY <3>3, Quotient
      <4>2. PICK q \in Nat : q = r \div req.points
        BY <4>1
      <4>3. q * 1 <= q * req.points
        <5>1. 1 * q <= req.points * q
          BY <3>3, <4>2, TimesOrder
        <5> QED BY <3>3, <4>2, <5>1
      <4> QED BY <3>3, <4>1, <4>2, <4>3
    <3> QED BY <1>3, <1>6, <3>2, <3>4 DEF Cut, Width, Dates
  <2>3. /\ UNCHANGED <<table, req, points>> /\ pc' = "bucket" /\ cur' = req.start
    BY <1>6 DEF Cut
  <2> QED BY <1>1, <1>2, <1>4, <2>1, <2>2, <2>3 DEF TypeInv, TypeOK
<1>7. CASE Bucket
  <2>1. /\ rec' = After /\ cur' = Add(cur, step)
        /\ points' = Append(points, Mean) \/ UNCHANGED points
        /\ UNCHANGED <<table, req, pc, step>>
    BY <1>7 DEF Bucket
  <2>2. After \subseteq DOMAIN table /\ Valid \subseteq DOMAIN table
    BY <1>1 DEF After, Valid, From, SkipTo
  <2>3. Mean = NoData \/ Mean \subseteq DOMAIN table
    BY <2>2 DEF Mean
  <2>4. cur' \in Dates
    BY <1>1, <2>1, DateSums DEF Dates
  <2>5. points' \in Seq(S \cup {Mean})
    <3>1. points \in Seq(S \cup {Mean}) /\ Mean \in S \cup {Mean}
      BY <1>4
    <3> QED BY <2>1, <3>1
  <2>6. \A i \in DOMAIN points' : points'[i] = NoData \/ points'[i] \subseteq DOMAIN table
    <3>1. \A i \in DOMAIN points' : \/ i \in DOMAIN points /\ points'[i] = points[i]
                                    \/ points'[i] = Mean
      BY <1>4, <2>1
    <3> QED BY <1>1, <2>3, <3>1
  <2> QED BY <1>1, <2>1, <2>2, <2>4, <2>5, <2>6 DEF TypeInv, TypeOK
<1>8. CASE OutOfMemory \/ Send \/ UNCHANGED vars
  <2>1. UNCHANGED <<table, req, rec, cur, step, points>>
        /\ pc' \in {"query", "bucket", "sent", "died"}
    BY <1>1, <1>8 DEF OutOfMemory, Send, vars
  <2> QED BY <1>1, <1>4, <2>1 DEF TypeInv, TypeOK
<1> QED BY <1>5, <1>6, <1>7, <1>8 DEF Next

LEMMA TypesHold == Spec => []TypeInv
<1>1. ASSUME Init PROVE TypeInv
  <2>1. 0 \in Dates
    BY StatsAssumption DEF Dates
  <2>2. points \in Seq({})
    BY <1>1 DEF Init
  <2> QED BY <1>1, <2>1, <2>2 DEF Init, TypeInv, TypeOK
<1>2. TypeInv /\ [Next]_vars => TypeInv'
  BY TypeNext
<1> QED BY <1>1, <1>2, PTL DEF Spec

\* Every variable keeps its type, whatever the request; the two dates stay in
\* 32 bits (client.cpp:435-485).
THEOREM TypeCorrect == Spec => []TypeOK
<1>1. TypeInv => TypeOK
  BY DEF TypeInv
<1> QED BY <1>1, TypesHold, PTL

-----------------------------------------------------------------------------
(* A request that fits.                                                    *)

\* The dates of the range, and the width of a bucket.
Span == req.end - req.start
Breadth == Span \div req.points

\* The date bucket n + 1 begins with.
Edge(n) == req.start + n * Breadth

LEMMA FitsDates ==
  ASSUME TypeOK, Fits
  PROVE  /\ req.start \in Dates /\ req.end \in Dates /\ req.start < req.end
         /\ Span \in Nat /\ Span > 0 /\ req.end = req.start + Span
         /\ req.points \in Nat \ {0} /\ Breadth \in Nat \ {0} /\ Breadth <= Span
         /\ req.points * Breadth <= Span /\ Span < req.points * Breadth + req.points
         /\ Sub(req.end, req.start) = Span /\ Sub(req.end, 1) = req.end - 1
         /\ req.start + Ceil(Span, Breadth) * Breadth < W
<1>1. /\ req.start \in Dates /\ req.end \in Dates /\ req.points \in 0..MaxPoints
      /\ req.points > 0 /\ Span >= req.points
      /\ req.start + Ceil(Span, Breadth) * Breadth < W
  BY DEF TypeOK, Requests, Fits, Span, Breadth
<1>2. req.points \in Nat \ {0} /\ Span \in Nat /\ W \in Nat /\ W > 1
  BY <1>1, StatsAssumption DEF Span, Dates
<1>3. PICK p \in Nat \ {0}, s \in Nat : p = req.points /\ s = Span
  BY <1>2
<1>4. s \div p \in Nat /\ (s \div p) * p <= s /\ s < (s \div p) * p + p
  BY <1>3, Quotient
<1>5. PICK b \in Nat : b = s \div p
  BY <1>4
<1>6. b # 0 /\ b * p = p * b /\ b <= s
  <2>1. b # 0
    <3>1. b = 0 => b * p = 0
      BY <1>3
    <3> QED BY <1>1, <1>3, <1>4, <1>5, <3>1
  <2>2. 1 * b <= p * b
    BY <1>3, <1>5, TimesOrder
  <2>3. b * p = p * b /\ 1 * b = b
    BY <1>3, <1>5
  <2> QED BY <1>4, <1>5, <2>1, <2>2, <2>3
<1>7. Sub(req.end, req.start) = Span /\ Sub(req.end, 1) = req.end - 1
  <2>1. PICK x \in Nat, y \in Nat : x = req.start /\ y = req.end /\ x < W /\ y < W
    BY <1>1, <1>2 DEF Dates
  <2>2. y - x \in 0..W - 1 /\ y - 1 \in 0..W - 1
    BY <1>1, <1>2, <2>1 DEF Span
  <2>3. (y - x) % W = y - x /\ (y - 1) % W = y - 1
    BY <1>2, <2>2, Remainder
  <2> QED BY <2>1, <2>3 DEF Sub, Span
<1>8. /\ Breadth = b /\ b \in Nat \ {0} /\ b <= s
      /\ p * b <= s /\ s < p * b + p
  BY <1>3, <1>4, <1>5, <1>6 DEF Breadth
<1>9. req.start < req.end /\ req.end = req.start + Span
  BY <1>1, <1>2 DEF Span, Dates
<1> QED BY <1>1, <1>2, <1>3, <1>7, <1>8, <1>9

\* No bucket of the range wraps around.
LEMMA EdgeFits ==
  ASSUME TypeOK, Fits, NEW n \in Nat, Edge(n) < req.end
  PROVE  /\ Edge(n) \in Nat /\ Edge(n + 1) = Edge(n) + Breadth
         /\ Edge(n) + Breadth < W /\ Add(Edge(n), Breadth) = Edge(n) + Breadth
         /\ n * Breadth < Span
<1>1. /\ req.start \in Dates /\ req.end = req.start + Span /\ Span \in Nat
      /\ Breadth \in Nat \ {0} /\ req.start + Ceil(Span, Breadth) * Breadth < W
  BY FitsDates
<1>2. PICK b \in Nat \ {0}, s \in Nat : b = Breadth /\ s = Span
  BY <1>1
<1>3. n * b \in Nat /\ (n + 1) * b = n * b + b /\ req.start \in Nat
  BY <1>1, <1>2, Times DEF Dates
<1>4. n * b < s
  BY <1>1, <1>2, <1>3 DEF Edge
<1>5. (n + 1) * b <= Ceil(s, b) * b /\ Ceil(s, b) * b \in Nat
  <2>1. Ceil(s, b) \in Nat /\ (n + 1) * b <= Ceil(s, b) * b
    BY <1>2, <1>4, CeilOrder
  <2> QED BY <1>2, <2>1, Times
<1>6. Edge(n) + Breadth < W /\ Edge(n + 1) = Edge(n) + Breadth /\ Edge(n) \in Nat
  <2>1. PICK x \in Nat, m \in Nat, c \in Nat :
          x = req.start /\ m = n * b /\ c = Ceil(s, b) * b
    BY <1>3, <1>5
  <2>2. (n + 1) * b = m + b /\ m + b <= c /\ x + c < W
    BY <1>1, <1>2, <1>3, <1>5, <2>1
  <2>3. Edge(n) = x + m /\ Edge(n + 1) = x + (m + b)
    BY <1>2, <2>1, <2>2 DEF Edge
  <2> QED BY <1>2, <2>1, <2>2, <2>3, StatsAssumption
<1>7. Add(Edge(n), Breadth) = Edge(n) + Breadth
  <2>1. Edge(n) + Breadth \in 0..W - 1 /\ W \in Nat \ {0}
    BY <1>1, <1>6, StatsAssumption
  <2> QED BY <2>1, Remainder DEF Add
<1> QED BY <1>2, <1>4, <1>6, <1>7

\* In the range the signed dates are in the order of the dates, so what is
\* read are the records of the range.
LEMMA FitsOrder ==
  ASSUME TypeOK, Fits
  PROVE  /\ getRecords(req.start, Sub(req.end, 1)) =
              {d \in DOMAIN table : req.start <= d /\ d < req.end}
         /\ \A d, e \in DOMAIN table :
              req.start <= d /\ d < req.end /\ req.start <= e /\ e < req.end
                => (Signed(e) <= Signed(d) <=> e <= d)
<1>1. /\ req.start \in Dates /\ req.end \in Dates /\ req.start < req.end
      /\ Sub(req.end, 1) = req.end - 1
  BY FitsDates
<1>2. Signed(req.start) <= Signed(req.end - 1)
  BY DEF Fits
<1>3. W \in Nat /\ DOMAIN table \subseteq Nat /\ \A d \in DOMAIN table : d < W
  BY StatsAssumption DEF TypeOK, Tables, Dates
<1>4. 2 * req.start < W <=> 2 * (req.end - 1) < W
  BY <1>1, <1>2, <1>3 DEF Signed, Dates
<1>5. ASSUME NEW d \in DOMAIN table
      PROVE  (Signed(req.start) <= Signed(d) /\ Signed(d) <= Signed(req.end - 1))
               <=> (req.start <= d /\ d < req.end)
  BY <1>1, <1>3, <1>4 DEF Signed, Dates
<1>6. ASSUME NEW d \in DOMAIN table, NEW e \in DOMAIN table,
             req.start <= d, d < req.end, req.start <= e, e < req.end
      PROVE  Signed(e) <= Signed(d) <=> e <= d
  BY <1>1, <1>3, <1>4, <1>6 DEF Signed, Dates
<1> QED BY <1>1, <1>5, <1>6 DEF getRecords

\* Point i of the histogram.
Dated(i) == {d \in DOMAIN table : Edge(i - 1) <= d /\ d < Edge(i) /\ d < req.end}
Point(i) == IF Dated(i) = {} THEN NoData
            ELSE {d \in Dated(i) : req.type = "DISK" => table[d]}

\* n buckets are done: each has at most a point, and if the type is known the
\* points are those of the histogram.
Done(n) ==
  /\ cur = Edge(n) /\ Len(points) <= n
  /\ n > 0 => Edge(n - 1) < req.end
  /\ Known => Len(points) = n /\ \A i \in DOMAIN points : points[i] = Point(i)

\* Some buckets are done, and what is left to be read are the records from the
\* next bucket's first date on.
BucketInv ==
  /\ pc = "query" => points = <<>>
  /\ (pc = "bucket" \/ points # <<>>) /\ Fits =>
       /\ step = Breadth /\ \E n \in Nat : Done(n)
       /\ rec = {d \in DOMAIN table : cur <= d /\ d < req.end}
       /\ pc = "sent" => cur >= req.end

\* Skipping in what is left of the range drops the records before the date.
LEMMA SkipDrops ==
  ASSUME TypeOK, Fits, NEW n \in Nat, Edge(n) < req.end, NEW t \in Nat, Edge(n) <= t
  PROVE  SkipTo({d \in DOMAIN table : Edge(n) <= d /\ d < req.end}, t) =
           {d \in DOMAIN table : t <= d /\ d < req.end}
<1> DEFINE R == {d \in DOMAIN table : Edge(n) <= d /\ d < req.end}
<1>1. DOMAIN table \subseteq Nat /\ req.start \in Nat /\ req.end \in Nat
  BY FitsDates, StatsAssumption DEF TypeOK, Tables, Dates
<1>2. Edge(n) \in Nat /\ req.start <= Edge(n)
  <2>1. n * Breadth \in Nat
    BY FitsDates, Times
  <2> QED BY <1>1, <2>1 DEF Edge
<1>3. \A d, e \in R : Signed(e) <= Signed(d) <=> e <= d
  <2>1. \A d \in R : d \in DOMAIN table /\ req.start <= d /\ d < req.end
    BY <1>1, <1>2
  <2> HIDE DEF R
  <2> QED BY <2>1, FitsOrder
<1>4. R \subseteq Nat
  BY <1>1
<1>5. SkipTo(R, t) = {d \in R : \E e \in R : e >= t /\ e <= d}
  <2> HIDE DEF R
  <2> QED BY <1>3 DEF SkipTo
<1>6. SkipTo(R, t) = {d \in R : t <= d}
  <2> HIDE DEF R
  <2>1. \A d \in R : (\E e \in R : e >= t /\ e <= d) <=> t <= d
    BY <1>4
  <2> QED BY <1>5, <2>1
<1>7. {d \in R : t <= d} = {d \in DOMAIN table : t <= d /\ d < req.end}
  BY <1>1, <1>2
<1> QED BY <1>6, <1>7

\* The first bucket begins where the range does.
LEMMA CutHolds ==
  ASSUME TypeOK, BucketInv, Cut, Fits
  PROVE  BucketInv'
<1>1. /\ rec' = getRecords(req.start, Sub(req.end, 1)) /\ cur' = req.start
      /\ step' = Width(Sub(req.end, req.start), req.points) /\ pc' = "bucket"
      /\ UNCHANGED <<table, req, points>> /\ points = <<>>
  BY DEF Cut, BucketInv
<1>2. step' = Breadth
  BY <1>1, FitsDates DEF Width, Breadth
<1>3. cur' = Edge(0)
  <2>1. req.start \in Nat /\ 0 * Breadth = 0
    BY FitsDates DEF Dates
  <2> QED BY <1>1, <2>1 DEF Edge
<1>4. rec' = {d \in DOMAIN table : cur' <= d /\ d < req.end}
  BY <1>1, FitsOrder
<1>5. Len(points') = 0 /\ DOMAIN points' = {}
  BY <1>1
<1>6. Breadth' = Breadth /\ Edge(0)' = Edge(0)
  BY <1>1 DEF Breadth, Span, Edge
<1>7. Done(0)'
  BY <1>3, <1>5, <1>6 DEF Done
<1> QED BY <1>1, <1>2, <1>4, <1>6, <1>7 DEF BucketInv

\* A bucket takes the records of its interval, and leaves the later ones.
LEMMA BucketHolds ==
  ASSUME TypeInv, BucketInv, Bucket, Fits
  PROVE  BucketInv'
<1>1. /\ rec' = After /\ cur' = Add(cur, step)
      /\ UNCHANGED <<table, req, pc, step>> /\ pc = "bucket" /\ cur < req.end
  BY DEF Bucket, More
<1>2. TypeOK /\ DOMAIN table \subseteq Nat
  BY StatsAssumption DEF TypeInv, TypeOK, Tables, Dates
<1>3. PICK S : points \in Seq(S)
  BY DEF TypeInv
<1>4. PICK n \in Nat : Done(n)
  BY <1>1 DEF BucketInv
<1>5. /\ step = Breadth /\ cur = Edge(n) /\ Len(points) <= n
      /\ rec = {d \in DOMAIN table : cur <= d /\ d < req.end}
      /\ Known => Len(points) = n /\ \A i \in DOMAIN points : points[i] = Point(i)
  BY <1>1, <1>4 DEF BucketInv, Done
<1>6. /\ Edge(n) \in Nat /\ Edge(n + 1) = Edge(n) + Breadth /\ Breadth \in Nat
      /\ Edge(n) < req.end /\ Add(cur, step) = Edge(n + 1)
  BY <1>1, <1>2, <1>5, EdgeFits, FitsDates
<1>7. Edge(n + 1) \in Nat /\ Edge(n) <= Edge(n + 1)
  BY <1>6
<1>8. From = rec
  <2>1. rec = {d \in DOMAIN table : Edge(n) <= d /\ d < req.end} /\ cur = Edge(n)
    BY <1>5
  <2>2. SkipTo({d \in DOMAIN table : Edge(n) <= d /\ d < req.end}, Edge(n)) =
          {d \in DOMAIN table : Edge(n) <= d /\ d < req.end}
    <3>1. Edge(n) \in Nat /\ Edge(n) <= Edge(n) /\ Edge(n) < req.end
      BY <1>6
    <3> QED BY <1>2, <3>1, SkipDrops
  <2> QED BY <2>1, <2>2 DEF From
<1>9. After = {d \in DOMAIN table : Edge(n + 1) <= d /\ d < req.end}
  <2>1. SkipTo(rec, Edge(n + 1)) =
          {d \in DOMAIN table : Edge(n + 1) <= d /\ d < req.end}
    <3>1. rec = {d \in DOMAIN table : Edge(n) <= d /\ d < req.end}
      BY <1>5
    <3> QED BY <1>2, <1>6, <1>7, <3>1, SkipDrops
  <2> QED BY <1>6, <1>8, <2>1 DEF After
<1>10. Valid = Dated(n + 1)
  <2>1. Dated(n + 1) = {d \in DOMAIN table : Edge(n) <= d /\ d < Edge(n + 1) /\ d < req.end}
    <3>1. (n + 1) - 1 = n
      OBVIOUS
    <3> QED BY <3>1 DEF Dated
  <2>2. req.end \in Nat
    BY <1>2, FitsDates, StatsAssumption DEF Dates
  <2>3. Valid = {d \in DOMAIN table : Edge(n) <= d /\ d < req.end}
                  \ {d \in DOMAIN table : Edge(n + 1) <= d /\ d < req.end}
    BY <1>5, <1>8, <1>9 DEF Valid
  <2> QED BY <1>2, <1>6, <1>7, <2>1, <2>2, <2>3
<1>11. Mean = Point(n + 1)
  BY <1>10 DEF Point, Mean
<1>12. Breadth' = Breadth /\ \A i : Point(i)' = Point(i) /\ Edge(i)' = Edge(i)
  BY <1>1 DEF Breadth, Span, Point, Dated, Edge
<1>13. cur' = Edge(n + 1) /\ (rec = {d \in DOMAIN table : cur <= d /\ d < req.end})'
  BY <1>1, <1>6, <1>9
<1>14. (n + 1 > 0 => Edge((n + 1) - 1) < req.end)'
  <2>1. (n + 1) - 1 = n
    OBVIOUS
  <2> QED BY <1>1, <1>6, <1>12, <2>1
<1>15. Done(n + 1)'
  <2>1. CASE UNCHANGED points /\ ~Known
    <3>1. ~Known' /\ Len(points') <= n + 1
      <4>1. Len(points) \in Nat
        BY <1>3
      <4> QED BY <1>1, <1>5, <2>1, <4>1 DEF Known
    <3> QED BY <1>12, <1>13, <1>14, <3>1 DEF Done
  <2>2. CASE points' = Append(points, Mean)
    <3>1. /\ Len(points') = Len(points) + 1 /\ Len(points) \in Nat
          /\ \A i \in DOMAIN points' : \/ i \in DOMAIN points /\ points'[i] = points[i]
                                       \/ i = Len(points) + 1 /\ points'[i] = Mean
      BY <1>3, <2>2
    <3>2. Len(points') <= n + 1
      BY <1>5, <3>1
    <3>3. Known' => /\ Len(points') = n + 1
                    /\ \A i \in DOMAIN points' : points'[i] = Point(i)
      BY <1>1, <1>5, <1>11, <3>1 DEF Known
    <3>4. (Known => Len(points) = n + 1 /\ \A i \in DOMAIN points : points[i] = Point(i))'
      BY <1>12, <3>3
    <3> QED BY <1>12, <1>13, <1>14, <3>2, <3>4 DEF Done
  <2>3. points' = Append(points, Mean) \/ (UNCHANGED points /\ ~Known)
    BY DEF Bucket, Pushes
  <2> QED BY <2>1, <2>2, <2>3
<1>16. (step = Breadth)' /\ n + 1 \in Nat /\ pc' # "query" /\ pc' # "sent"
  BY <1>1, <1>5, <1>12
<1> QED BY <1>13, <1>15, <1>16 DEF BucketInv

LEMMA BucketNext ==
  ASSUME TypeInv, BucketInv, [Next]_vars PROVE BucketInv'
<1>1. CASE ~Fits'
  <2>1. pc' = "query" => UNCHANGED <<pc, points>>
    BY DEF Next, SendNone, Cut, Bucket, OutOfMemory, Send, vars
  <2> QED BY <1>1, <2>1 DEF BucketInv
<1>2. CASE Fits'
  <2>1. UNCHANGED req
    BY DEF Next, SendNone, Cut, Bucket, OutOfMemory, Send, vars
  <2>2. Fits
    BY <1>2, <2>1 DEF Fits
  <2>3. CASE SendNone
    BY <2>3 DEF SendNone, BucketInv
  <2>4. CASE Cut
    BY <2>2, <2>4, CutHolds DEF TypeInv
  <2>5. CASE Bucket
    BY <2>2, <2>5, BucketHolds
  <2>6. CASE OutOfMemory \/ Send \/ UNCHANGED vars
    <3>1. /\ UNCHANGED <<table, req, rec, cur, step, points>>
          /\ \/ pc = "bucket" /\ pc' = "died"
             \/ pc = "bucket" /\ ~(cur < req.end) /\ pc' = "sent"
             \/ UNCHANGED pc
      BY <2>6 DEF OutOfMemory, Send, More, vars
    <3>2. /\ Breadth' = Breadth
          /\ \A i : Point(i)' = Point(i) /\ Edge(i)' = Edge(i)
      BY <3>1 DEF Breadth, Span, Point, Dated, Edge
    <3>3. ~(cur < req.end) => cur >= req.end
      BY FitsDates, <2>2 DEF TypeInv, TypeOK, Dates
    <3>4. ASSUME NEW n \in Nat, Done(n) PROVE Done(n)'
      BY <3>1, <3>2, <3>4 DEF Done, Known
    <3> QED BY <2>2, <3>1, <3>2, <3>3, <3>4 DEF BucketInv
  <2> QED BY <2>3, <2>4, <2>5, <2>6 DEF Next
<1> QED BY <1>1, <1>2

LEMMA BucketsHold == Spec => [](TypeInv /\ BucketInv)
<1>1. Init => BucketInv
  BY DEF Init, BucketInv
<1>2. TypeInv /\ BucketInv /\ [Next]_vars => BucketInv'
  BY BucketNext
<1> QED BY <1>1, <1>2, TypesHold, PTL DEF Spec

\* A reply sent in full is the histogram of the records in its range, for any
\* table and every request of a known type that fits (client.cpp:435-512).
THEOREM HistogramCorrect == Spec => []Histogram
<1>1. TypeInv /\ BucketInv => Histogram
  <2>1. SUFFICES ASSUME TypeInv, BucketInv, Answer, Fits, Known,
                        NEW i \in DOMAIN points
                 PROVE  LET lo == req.start + (i - 1) * step
                            dated == {d \in DOMAIN table :
                                        lo <= d /\ d < lo + step /\ d < req.end}
                        IN  points[i] = IF dated = {} THEN NoData
                                        ELSE {d \in dated :
                                                 req.type = "DISK" => table[d]}
    BY DEF Histogram
  <2>2. step = Breadth /\ points[i] = Point(i)
    BY <2>1 DEF Answer, BucketInv, Done
  <2>3. Edge(i) = Edge(i - 1) + Breadth
    <3>1. i \in Nat /\ i >= 1
      BY <2>1 DEF TypeInv
    <3>2. PICK n \in Nat, b \in Nat, x \in Nat :
            i = n + 1 /\ b = Breadth /\ x = req.start /\ i - 1 = n
      <4>1. i - 1 \in Nat /\ i = (i - 1) + 1
        BY <3>1
      <4> QED BY <2>1, <4>1, FitsDates DEF TypeInv, Dates
    <3>3. (n + 1) * b = n * b + b /\ n * b \in Nat
      BY <3>2, Times
    <3> QED BY <3>2, <3>3 DEF Edge
  <2> QED BY <2>2, <2>3 DEF Point, Dated, Edge
<1> QED BY <1>1, BucketsHold, PTL

\* The width is rounded down: at least the points asked for fit, and fewer
\* than twice as many.
LEMMA PointCount ==
  ASSUME TypeOK, Fits, NEW n \in Nat
  PROVE  /\ Edge(n) >= req.end => req.points <= n
         /\ n > 0 /\ Edge(n - 1) < req.end => n < 2 * req.points
         /\ Edge(n) < req.end => n < 2 * req.points
<1>1. PICK p \in Nat \ {0}, b \in Nat \ {0}, s \in Nat, x \in Nat :
        /\ p = req.points /\ b = Breadth /\ s = Span /\ x = req.start
        /\ req.end = x + s /\ p * b <= s /\ s < p * b + p
  BY FitsDates DEF Dates
<1>2. \A m \in Nat : m * b \in Nat /\ (Edge(m) < req.end <=> m * b < s)
  BY <1>1, Times DEF Edge
<1>3. Edge(n) >= req.end => p <= n
  <2>1. SUFFICES ASSUME Edge(n) >= req.end, n + 1 <= p PROVE FALSE
    BY <1>1
  <2>2. n * b >= s
    BY <1>1, <1>2, <2>1 DEF Edge
  <2>3. (n + 1) * b <= p * b /\ (n + 1) * b = n * b + b
    BY <1>1, <2>1, TimesOrder, Times
  <2> QED BY <1>1, <1>2, <2>2, <2>3
<1>4. ASSUME NEW m \in Nat, m * b < s PROVE m + 1 < 2 * p
  <2>1. SUFFICES ASSUME 2 * p <= m + 1 PROVE FALSE
    BY <1>1, <1>4
  <2>2. PICK q \in Nat : p = q + 1
    <3>1. p - 1 \in Nat /\ p = (p - 1) + 1
      BY <1>1
    <3> QED BY <3>1
  <2>3. (p + q) * b <= m * b
    BY <1>1, <2>1, <2>2, TimesOrder
  <2>4. (p + q) * b = p * b + q * b /\ q <= q * b
    <3>1. (p + q) * b = p * b + q * b
      BY <1>1, <2>2
    <3>2. 1 * q <= b * q
      BY <1>1, <2>2, TimesOrder
    <3> QED BY <1>1, <2>2, <3>1, <3>2
  <2> QED BY <1>1, <1>2, <1>4, <2>2, <2>3, <2>4
<1>5. n > 0 /\ Edge(n - 1) < req.end => n < 2 * p
  <2>1. n > 0 => n - 1 \in Nat /\ n = (n - 1) + 1
    OBVIOUS
  <2> QED BY <1>2, <1>4, <2>1
<1>6. Edge(n) < req.end => n < 2 * p
  BY <1>1, <1>2, <1>4
<1> QED BY <1>1, <1>3, <1>5, <1>6

\* A reply has fewer than twice the points asked for; of a known type it has at
\* least those, and its last bucket reaches the end (client.cpp:435-512).
THEOREM PointsCorrect == Spec => []PointsBetween
<1>1. TypeInv /\ BucketInv => PointsBetween
  <2>1. SUFFICES ASSUME TypeInv, BucketInv, Answer, Fits
                 PROVE  /\ Len(points) < 2 * req.points
                        /\ Known => /\ req.points <= Len(points)
                                    /\ req.start + Len(points) * step >= req.end
    BY DEF PointsBetween
  <2>2. PICK l \in Nat : l = Len(points) /\ l > 0
    BY <2>1 DEF TypeInv, Answer
  <2>3. PICK n \in Nat : Done(n)
    BY <2>1 DEF BucketInv, Answer
  <2>4. /\ step = Breadth /\ Edge(n) >= req.end
        /\ l <= n /\ (n > 0 => Edge(n - 1) < req.end) /\ (Known => l = n)
    BY <2>1, <2>2, <2>3 DEF BucketInv, Answer, Done
  <2>5. req.points <= n /\ n < 2 * req.points
    BY <2>1, <2>2, <2>4, PointCount DEF TypeInv
  <2>6. req.points \in Nat
    BY <2>1, FitsDates DEF TypeInv
  <2> QED BY <2>2, <2>4, <2>5, <2>6 DEF Edge
<1> QED BY <1>1, BucketsHold, PTL

\* A request that fits does not end the server: where twice the points one may
\* ask for can be held (131070 floats: points is 16 bits, packets.h:517), the
\* loop over its buckets ends before memory does (client.cpp:435-512).
THEOREM FitsLives ==
  ASSUME Memory >= 2 * MaxPoints
  PROVE  Spec => [](Fits => pc # "died")
<1> DEFINE Lives == Fits => pc # "died"
<1>1. Init => Lives
  BY DEF Init
<1>2. TypeInv /\ BucketInv /\ Lives /\ [Next]_vars => Lives'
  <2>1. SUFFICES ASSUME TypeInv, BucketInv, Lives, [Next]_vars, Fits', pc' = "died"
                 PROVE  FALSE
    OBVIOUS
  <2>2. Fits
    <3>1. UNCHANGED req
      BY <2>1 DEF Next, SendNone, Cut, Bucket, OutOfMemory, Send, vars
    <3> QED BY <2>1, <3>1 DEF Fits
  <2>3. pc = "bucket" /\ cur < req.end /\ Len(points) = Memory
    BY <2>1, <2>2 DEF Next, SendNone, Cut, Bucket, OutOfMemory, Send, vars, More
  <2>4. PICK n \in Nat : Len(points) <= n /\ cur = Edge(n)
    BY <2>1, <2>2, <2>3 DEF BucketInv, Done
  <2>5. n < 2 * req.points
    BY <2>1, <2>2, <2>3, <2>4, PointCount DEF TypeInv
  <2> QED BY <2>1, <2>3, <2>4, <2>5, StatsAssumption DEF TypeInv, TypeOK, Requests
<1> QED BY <1>1, <1>2, BucketsHold, PTL DEF Spec

-----------------------------------------------------------------------------
(* Any request, also one that does not fit, whose dates wrap around.       *)

\* The records that the query returned.
Queried == getRecords(req.start, Sub(req.end, 1))

\* Every point is of records that the query returned, no two are of the same
\* one, and none is of a record that is still to be counted.
OnceInv ==
  /\ rec \subseteq Queried
  /\ pc = "query" => points = <<>>
  /\ \A i \in DOMAIN points : points[i] # NoData =>
       /\ points[i] \subseteq Queried \ rec
       /\ \A j \in DOMAIN points : j # i /\ points[j] # NoData =>
            points[i] \cap points[j] = {}

\* What the reply counts of the records, whatever was asked for: none twice,
\* and none that was not read for it.
CountedOnce ==
  \A i \in DOMAIN points : points[i] # NoData =>
    /\ points[i] \subseteq Queried
    /\ \A j \in DOMAIN points : j # i /\ points[j] # NoData =>
         points[i] \cap points[j] = {}

LEMMA OnceNext == ASSUME TypeInv, OnceInv, [Next]_vars PROVE OnceInv'
<1>1. PICK S : points \in Seq(S)
  BY DEF TypeInv
<1>2. Queried' = Queried
  <2>1. UNCHANGED <<table, req>>
    BY DEF Next, SendNone, Cut, Bucket, OutOfMemory, Send, vars
  <2> QED BY <2>1 DEF Queried, getRecords
<1>3. CASE SendNone
  <2>1. points' = <<>> /\ rec' = rec /\ pc' = "sent"
    BY <1>3 DEF SendNone
  <2> QED BY <1>2, <2>1 DEF OnceInv
<1>4. CASE Cut
  <2>1. points' = <<>> /\ rec' = Queried /\ pc' = "bucket"
    BY <1>4 DEF Cut, Queried, OnceInv
  <2> QED BY <1>2, <2>1 DEF OnceInv
<1>5. CASE Bucket
  <2>1. /\ rec' = After /\ pc' = "bucket"
        /\ points' = Append(points, Mean) \/ UNCHANGED points
    BY <1>5 DEF Bucket
  <2>2. After \subseteq rec
    BY DEF After, From, SkipTo
  <2>3. Mean # NoData => Mean \subseteq rec \ After
    BY DEF Mean, Valid, After, From, SkipTo
  <2>4. /\ \A i \in DOMAIN points' : \/ i \in DOMAIN points /\ points'[i] = points[i]
                                     \/ i = Len(points) + 1 /\ points'[i] = Mean
    BY <1>1, <2>1
  <2>5. ASSUME NEW i \in DOMAIN points', points'[i] # NoData
        PROVE  points'[i] \subseteq Queried \ rec'
    BY <2>1, <2>2, <2>3, <2>4, <2>5 DEF OnceInv
  <2>6. ASSUME NEW i \in DOMAIN points', NEW j \in DOMAIN points', j # i,
               points'[i] # NoData, points'[j] # NoData
        PROVE  points'[i] \cap points'[j] = {}
    <3>1. CASE i \in DOMAIN points /\ points'[i] = points[i]
      <4>1. CASE j \in DOMAIN points /\ points'[j] = points[j]
        BY <2>6, <3>1, <4>1 DEF OnceInv
      <4>2. CASE points'[j] = Mean
        <5>1. points[i] \subseteq Queried \ rec
          BY <2>6, <3>1 DEF OnceInv
        <5>2. Mean \subseteq rec
          BY <2>3, <2>6, <4>2
        <5> QED BY <3>1, <4>2, <5>1, <5>2
      <4> QED BY <2>4, <4>1, <4>2
    <3>2. CASE i = Len(points) + 1 /\ points'[i] = Mean
      <4>1. j \in DOMAIN points /\ points'[j] = points[j]
        BY <2>4, <2>6, <3>2
      <4>2. points[j] \subseteq Queried \ rec
        BY <2>6, <4>1 DEF OnceInv
      <4>3. Mean \subseteq rec
        BY <2>3, <2>6, <3>2
      <4> QED BY <3>2, <4>1, <4>2, <4>3
    <3> QED BY <2>4, <3>1, <3>2
  <2>7. rec' \subseteq Queried
    BY <2>1, <2>2 DEF OnceInv
  <2> QED BY <1>2, <2>1, <2>5, <2>6, <2>7 DEF OnceInv
<1>6. CASE OutOfMemory \/ Send \/ UNCHANGED vars
  <2>1. UNCHANGED <<rec, points>> /\ (pc' = "query" => pc = "query")
    BY <1>6 DEF OutOfMemory, Send, vars
  <2> QED BY <1>2, <2>1 DEF OnceInv
<1> QED BY <1>3, <1>4, <1>5, <1>6 DEF Next

\* Whatever is asked for, an empty range, more points than dates or a bucket
\* that wraps around the last date too, the reply counts no record twice and
\* none from outside of the range that was queried: the two positions in the
\* records only move forward (client.cpp:437-485).
THEOREM OnceCorrect == Spec => []CountedOnce
<1>1. Init => OnceInv
  BY DEF Init, OnceInv
<1>2. TypeInv /\ OnceInv /\ [Next]_vars => OnceInv'
  BY OnceNext
<1>3. OnceInv => CountedOnce
  BY DEF OnceInv, CountedOnce
<1> QED BY <1>1, <1>2, <1>3, TypesHold, PTL DEF Spec
=============================================================================
