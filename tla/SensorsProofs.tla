--------------------------- MODULE SensorsProofs ---------------------------
(***************************************************************************)
(* Proofs about Sensors, for any agents, names, disks and services: the    *)
(* feed is sorted and complete, of the disks those and only those that     *)
(* have a name for the first time are told, and no service falsely.        *)
(***************************************************************************)
EXTENDS Sensors, FiniteSetTheorems, FunctionTheorems, SequenceTheorems,
        WellFoundedInduction, TLAPS

-----------------------------------------------------------------------------
(* Sorting.                                                                *)

LEMMA ElementsFinite ==
  ASSUME NEW R, NEW q \in Seq(R)
  PROVE  IsFiniteSet(ToSet(q)) /\ ToSet(q) \subseteq R
<1>1. q \in [1..Len(q) -> ToSet(q)] /\ ToSet(q) \subseteq R
  BY DEF ToSet
<1>2. q \in Surjection(1..Len(q), ToSet(q))
  <2>1. \A t \in ToSet(q) : \E i \in 1..Len(q) : q[i] = t
    BY DEF ToSet
  <2> QED BY <1>1, <2>1, Fun_IsSurj
<1>3. IsFiniteSet(1..Len(q))
  BY FS_Interval
<1> QED BY <1>1, <1>2, <1>3, FS_Surjection

\* What is sorted has each element once, and none is lost.
LEMMA SortedElements ==
  ASSUME NEW R, NEW q \in Seq(R), NEW s \in Sorted(q)
  PROVE  /\ s \in Seq(R) /\ ToSet(s) = ToSet(q)
         /\ \A i, j \in DOMAIN s : i < j => s[i] # s[j] /\ ~cmp(s[j], s[i])
<1> DEFINE T == ToSet(q)
           D == 1..Cardinality(T)
<1>1. IsFiniteSet(T) /\ T \subseteq R
  BY ElementsFinite
<1> HIDE DEF T
<1>2. Cardinality(T) \in Nat
  BY <1>1, FS_CardinalityType
<1>3. /\ s \in [D -> T] /\ \A i, j \in D : i # j => s[i] # s[j]
      /\ \A i, j \in DOMAIN s : i < j => ~cmp(s[j], s[i])
  BY DEF Sorted, SetToSeqs, T
<1>4. s \in Injection(D, T)
  BY <1>3, Fun_IsInj
<1>5. Cardinality(D) = Cardinality(T)
  BY <1>2, FS_Interval
<1>6. s \in Surjection(D, T)
  BY <1>1, <1>4, <1>5, FS_Injection
<1>7. \A t \in T : \E i \in D : s[i] = t
  BY <1>6 DEF Surjection
<1>8. ToSet(s) = T
  BY <1>3, <1>7 DEF ToSet
<1>9. s \in Seq(R)
  BY <1>1, <1>2, <1>3
<1>10. \A i, j \in DOMAIN s : i < j => i # j /\ i \in D /\ j \in D
  BY <1>2, <1>3
<1> QED BY <1>3, <1>8, <1>9, <1>10 DEF T

-----------------------------------------------------------------------------
(* The feed.                                                               *)

Packets == [id : Agents, name : Names]

\* No two packets of a list are of one agent.
OneEach(q) == \A x, y \in ToSet(q) : x.id = y.id => x = y

\* The agent that reads is one, and is in the feed when it was received.
FeedInv ==
  /\ agentsData \in Seq(Packets) /\ FeedSorted
  /\ agent \in Agents \cup {0} /\ (pc # "idle" => agent \in Agents)

LEMMA FeedOneEach == ASSUME FeedInv PROVE OneEach(agentsData)
<1>1. ASSUME NEW x \in ToSet(agentsData), NEW y \in ToSet(agentsData), x.id = y.id
      PROVE  x = y
  <2>1. PICK i \in DOMAIN agentsData, j \in DOMAIN agentsData :
          x = agentsData[i] /\ y = agentsData[j]
    BY <1>1 DEF ToSet
  <2>2. i \in Nat /\ j \in Nat
    BY DEF FeedInv
  <2>3. ~(i < j) /\ ~(j < i)
    BY <1>1, <2>1 DEF FeedInv, FeedSorted
  <2> QED BY <2>1, <2>2, <2>3
<1> QED BY <1>1 DEF OneEach

\* Whether its agent is known or not, a packet leaves one of each agent, and
\* is in the list itself.
LEMMA AssignOneEach ==
  ASSUME FeedInv, NEW p \in Packets,
         NEW q, q = IF Known(p) THEN Replace(p) ELSE Append(agentsData, p)
  PROVE  q \in Seq(Packets) /\ OneEach(q) /\ p \in ToSet(q)
<1>1. agentsData \in Seq(Packets) /\ OneEach(agentsData)
  BY FeedOneEach DEF FeedInv
<1>2. CASE Known(p)
  <2>1. q = [i \in DOMAIN agentsData |->
               IF agentsData[i].id = p.id THEN p ELSE agentsData[i]]
    BY <1>2 DEF Replace
  <2>2. q \in Seq(Packets)
    BY <1>1, <2>1
  <2>3. \A x \in ToSet(q) : x = p \/ (x \in ToSet(agentsData) /\ x.id # p.id)
    BY <2>1 DEF ToSet
  <2>4. p \in ToSet(q)
    <3>1. PICK i \in DOMAIN agentsData : agentsData[i].id = p.id
      BY <1>2 DEF Known
    <3>2. i \in DOMAIN q /\ q[i] = p
      BY <2>1, <3>1
    <3> QED BY <3>2 DEF ToSet
  <2> QED BY <1>1, <2>2, <2>3, <2>4 DEF OneEach
<1>3. CASE ~Known(p)
  <2>1. q = Append(agentsData, p) /\ q \in Seq(Packets)
    BY <1>1, <1>3
  <2>2. \A i \in DOMAIN q : q[i] = p \/ (i \in DOMAIN agentsData /\ q[i] = agentsData[i])
    BY <1>1, <2>1
  <2>3. \A x \in ToSet(q) : x = p \/ (x \in ToSet(agentsData) /\ x.id # p.id)
    BY <1>3, <2>2 DEF ToSet, Known
  <2>4. p \in ToSet(q)
    <3>1. Len(q) \in DOMAIN q /\ q[Len(q)] = p
      BY <1>1, <2>1
    <3> QED BY <3>1 DEF ToSet
  <2> QED BY <1>1, <2>1, <2>3, <2>4 DEF OneEach
<1> QED BY <1>2, <1>3

LEMMA FeedNext == ASSUME FeedInv, [Next]_vars PROVE FeedInv'
<1>1. ASSUME NEW a \in Agents, ReadTemp(a) PROVE FeedInv'
  BY <1>1 DEF ReadTemp, FeedInv, FeedSorted, Received
<1>2. CASE \/ ReadDisk \/ DisksRead \/ NoMounts
           \/ ServiceAnswers \/ ServiceSilent \/ NoTcpSocket \/ NoUdpSocket
           \/ ServicesAsked
  <2>1. /\ pc # "idle" /\ pc' # "idle" /\ UNCHANGED <<agent, agentsData>>
    BY <1>2 DEF ReadDisk, DisksRead, NoMounts, ServiceAnswers, ServiceSilent,
                NoTcpSocket, NoUdpSocket, ServicesAsked, Asks, Tell,
                machineVars, serverVars
  <2> QED BY <2>1 DEF FeedInv, FeedSorted, Received
<1>3. CASE Send
  <2>1. pc = "send" /\ UNCHANGED agent /\ agent \in Agents
    BY <1>3 DEF Send, FeedInv
  <2>2. PICK name \in Names : assignData([id |-> agent, name |-> name])
    BY <1>3 DEF Send
  <2>3. PICK p \in Packets : p.id = agent /\ assignData(p)
    BY <2>1, <2>2 DEF Packets
  <2> DEFINE q == IF Known(p) THEN Replace(p) ELSE Append(agentsData, p)
  <2>4. agentsData' \in Sorted(q)
    BY <2>3 DEF assignData
  <2>5. q \in Seq(Packets) /\ OneEach(q) /\ p \in ToSet(q)
    BY AssignOneEach
  <2> HIDE DEF q
  <2>6. PICK s \in Sorted(q) : s = agentsData'
    BY <2>4
  <2>7. /\ s \in Seq(Packets) /\ ToSet(s) = ToSet(q)
        /\ \A i, j \in DOMAIN s : i < j => s[i] # s[j] /\ ~cmp(s[j], s[i])
    BY <2>5, SortedElements
  <2>8. \A i, j \in DOMAIN s : i < j => s[i].id # s[j].id
    BY <2>5, <2>7 DEF OneEach, ToSet
  <2>9. \E i \in DOMAIN s : s[i].id = agent
    BY <2>3, <2>5, <2>7 DEF ToSet
  <2> QED BY <2>1, <2>6, <2>7, <2>8, <2>9 DEF FeedInv, FeedSorted, cmp
<1>4. CASE UNCHANGED vars
  BY <1>4 DEF vars, serverVars, FeedInv, FeedSorted, Received
<1> QED BY <1>1, <1>2, <1>3, <1>4 DEF Next

LEMMA FeedInit == ASSUME Init PROVE FeedInv
<1>1. agentsData = <<>> /\ agent = 0 /\ pc = "idle"
  BY DEF Init
<1> QED BY <1>1 DEF FeedInv, FeedSorted, Received

\* What viewers are sent has each agent once, in its order, and the agent that
\* reported last is in it (server/agents.cpp:7-28, 46-63).
THEOREM FeedCorrect == Spec => []FeedSorted
<1>1. Init => FeedInv
  BY FeedInit
<1>2. FeedInv /\ [Next]_vars => FeedInv'
  BY FeedNext
<1>3. FeedInv => FeedSorted
  BY DEF FeedInv
<1> QED BY <1>1, <1>2, <1>3, PTL DEF Spec

-----------------------------------------------------------------------------
(* The loop of fixPacket.                                                  *)

LEMMA LeastNat ==
  ASSUME NEW T, T \subseteq Nat, T # {}
  PROVE  \E n \in T : \A m \in T : n <= m
<1> DEFINE R == OpToRel(<, Nat)
<1>1. IsWellFoundedOn(R, Nat)
  BY NatLessThanWellFounded, Zenon
<1>2. \A x, y \in Nat : <<y, x>> \in R <=> y < x
  BY Zenon DEF OpToRel
<1> HIDE DEF R
<1>3. \E x \in T : \A y \in T : ~ (<<y, x>> \in R)
  BY <1>1, WFMin
<1>4. PICK x \in T : \A y \in T : ~(y < x)
  BY <1>2, <1>3, Zenon
<1> QED BY <1>4

LEMMA RemoveAtElements ==
  ASSUME NEW S, NEW s \in Seq(S), NEW i \in 1..Len(s)
  PROVE  /\ RemoveAt(s, i) \in Seq(S) /\ Len(RemoveAt(s, i)) = Len(s) - 1
         /\ \A j \in 1..Len(s) - 1 :
              RemoveAt(s, i)[j] = IF j < i THEN s[j] ELSE s[j + 1]
<1> DEFINE a == SubSeq(s, 1, i - 1)
           b == SubSeq(s, i + 1, Len(s))
<1>1. /\ a \in Seq(S) /\ Len(a) = i - 1 /\ \A j \in 1..i - 1 : a[j] = s[j]
  OBVIOUS
<1>2. /\ b \in Seq(S) /\ Len(b) = Len(s) - i
      /\ \A j \in 1..Len(s) - i : b[j] = s[i + j]
  OBVIOUS
<1>3. RemoveAt(s, i) = a \o b
  BY DEF RemoveAt
<1> HIDE DEF a, b
<1>4. a \o b \in Seq(S) /\ Len(a \o b) = Len(s) - 1
  <2>1. a \o b \in Seq(S) /\ Len(a \o b) = Len(a) + Len(b)
    BY <1>1, <1>2, ConcatProperties
  <2>2. Len(s) \in Nat /\ (i - 1) + (Len(s) - i) = Len(s) - 1
    OBVIOUS
  <2> QED BY <1>1, <1>2, <2>1, <2>2
<1>5. ASSUME NEW j \in 1..Len(s) - 1
      PROVE  (a \o b)[j] = IF j < i THEN s[j] ELSE s[j + 1]
  <2>1. CASE j < i
    BY <1>1, <1>2, <2>1
  <2>2. CASE ~(j < i)
    <3>1. (a \o b)[j] = b[j - (i - 1)]
      BY <1>1, <1>2, <2>2
    <3>2. j - (i - 1) \in 1..Len(s) - i /\ i + (j - (i - 1)) = j + 1
      BY <2>2
    <3> QED BY <1>2, <2>2, <3>1, <3>2
  <2> QED BY <2>1, <2>2
<1> QED BY <1>3, <1>4, <1>5

\* After k rounds: what is left is in its order, the disks that the loop has
\* yet to come to are all there, of the others those that are first of a name.
LoopInv(disks, k, left) ==
  \E at \in [1..Len(left) -> 1..Len(disks)] :
    /\ \A i \in 1..Len(left) : left[i] = disks[at[i]]
    /\ \A i, j \in 1..Len(left) : i < j => at[i] < at[j]
    /\ Len(disks) - k <= Len(left)
    /\ \A i \in 1..Len(disks) - k : at[i] = i
    /\ \A i \in 1..Len(left) :
         i > Len(disks) - k => at[i] \in FirstOfName(disks)
    /\ \A f \in FirstOfName(disks) : \E i \in 1..Len(left) : at[i] = f

LEMMA LoopRound ==
  ASSUME NEW S, NEW disks \in Seq(S), NEW left \in Seq(S),
         NEW k \in 1..Len(disks), LoopInv(disks, k - 1, left)
  PROVE  /\ RemoveDuplicate(left, Len(disks) + 1 - k) \in Seq(S)
         /\ LoopInv(disks, k, RemoveDuplicate(left, Len(disks) + 1 - k))
<1> DEFINE n == Len(disks)
           m == Len(left)
<1>1. n \in Nat /\ m \in Nat /\ k \in 1..n
  OBVIOUS
<1>2. PICK at \in [1..m -> 1..n] :
        /\ \A i \in 1..m : left[i] = disks[at[i]]
        /\ \A i, j \in 1..m : i < j => at[i] < at[j]
        /\ n - (k - 1) <= m
        /\ \A i \in 1..n - (k - 1) : at[i] = i
        /\ \A i \in 1..m : i > n - (k - 1) => at[i] \in FirstOfName(disks)
        /\ \A f \in FirstOfName(disks) : \E i \in 1..m : at[i] = f
  BY DEF LoopInv
<1>3. PICK p \in Nat : p = n + 1 - k
  <2>1. n + 1 - k \in Nat
    BY <1>1
  <2> QED BY <2>1
<1>4. /\ p \in 1..m /\ p \in 1..n /\ at[p] = p /\ n - k = p - 1
      /\ n - (k - 1) = p
      /\ \A j \in 1..(p - 1) : j \in 1..m /\ at[j] = j /\ left[j] = disks[j]
  <2>1. n - (k - 1) = p /\ n - k = p - 1 /\ p \in 1..n
    BY <1>1, <1>3
  <2>2. p <= m /\ \A i \in 1..p : at[i] = i
    BY <1>2, <2>1
  <2>3. p \in 1..p /\ \A j \in 1..p - 1 : j \in 1..p
    BY <1>3, <2>1
  <2>4. p \in 1..m /\ \A j \in 1..p - 1 : j \in 1..m
    BY <1>1, <1>3, <2>1, <2>2
  <2>5. at[p] = p /\ \A j \in 1..p - 1 : at[j] = j
    BY <2>2, <2>3
  <2>6. \A j \in 1..p - 1 : left[j] = disks[j]
    BY <1>2, <2>4, <2>5
  <2> QED BY <2>1, <2>4, <2>5, <2>6
<1>5. left[p] = disks[p] /\ DOMAIN left = 1..m /\ DOMAIN disks = 1..n
  BY <1>2, <1>4
<1>6. (\E j \in 1..(p - 1) : left[j].name = left[p].name)
        <=> p \notin FirstOfName(disks)
  BY <1>4, <1>5 DEF FirstOfName
<1>7. CASE p \in FirstOfName(disks)
  <2>1. RemoveDuplicate(left, p) = left
    BY <1>6, <1>7 DEF RemoveDuplicate
  <2>2. \A i \in 1..m : i > n - k => at[i] \in FirstOfName(disks)
    <3>1. \A i \in 1..m : i > p - 1 => i > p \/ i = p
      BY <1>1, <1>3
    <3> QED BY <1>2, <1>4, <1>7, <3>1
  <2>3. n - k <= m /\ \A i \in 1..n - k : at[i] = i
    BY <1>1, <1>4
  <2>4. LoopInv(disks, k, left)
    BY <1>2, <2>2, <2>3 DEF LoopInv
  <2> QED BY <1>3, <2>1, <2>4
<1>8. CASE p \notin FirstOfName(disks)
  <2> DEFINE rest == RemoveAt(left, p)
             new == [i \in 1..m - 1 |-> IF i < p THEN at[i] ELSE at[i + 1]]
  <2>1. RemoveDuplicate(left, p) = rest
    BY <1>4, <1>5, <1>6, <1>8 DEF RemoveDuplicate
  <2>2. /\ rest \in Seq(S) /\ Len(rest) = m - 1
        /\ \A j \in 1..m - 1 : rest[j] = IF j < p THEN left[j] ELSE left[j + 1]
    BY <1>4, RemoveAtElements
  <2>3. \A i \in 1..m - 1 : i \in 1..m /\ i + 1 \in 1..m
    BY <1>1
  <2>4. new \in [1..m - 1 -> 1..n]
    BY <1>2, <2>3
  <2>5. /\ \A i \in 1..m - 1 : i < p => new[i] = at[i]
        /\ \A i \in 1..m - 1 : ~(i < p) => new[i] = at[i + 1]
    OBVIOUS
  <2> HIDE DEF rest, new
  <2>6. \A i \in 1..m - 1 : rest[i] = disks[new[i]]
    <3>1. SUFFICES ASSUME NEW i \in 1..m - 1 PROVE rest[i] = disks[new[i]]
      OBVIOUS
    <3>2. left[i] = disks[at[i]] /\ left[i + 1] = disks[at[i + 1]]
      BY <1>2, <2>3
    <3> QED BY <2>2, <2>5, <3>2
  <2>7. \A i, j \in 1..m - 1 : i < j => new[i] < new[j]
    <3>1. SUFFICES ASSUME NEW i \in 1..m - 1, NEW j \in 1..m - 1, i < j
                   PROVE  new[i] < new[j]
      OBVIOUS
    <3>2. i \in Nat /\ j \in Nat /\ p \in Nat
      BY <1>1, <1>3
    <3>3. CASE j < p
      <4>1. i < p
        BY <3>1, <3>2, <3>3
      <4> QED BY <1>2, <2>3, <2>5, <3>1, <3>3, <4>1
    <3>4. CASE ~(j < p) /\ i < p
      <4>1. i < j + 1
        BY <3>1, <3>2
      <4> QED BY <1>2, <2>3, <2>5, <3>4, <4>1
    <3>5. CASE ~(i < p)
      <4>1. ~(j < p) /\ i + 1 < j + 1
        BY <3>1, <3>2, <3>5
      <4> QED BY <1>2, <2>3, <2>5, <3>5, <4>1
    <3> QED BY <3>3, <3>4, <3>5
  <2>8. n - k <= m - 1 /\ \A i \in 1..n - k : new[i] = i
    <3>1. p - 1 <= m - 1 /\ \A i \in 1..p - 1 : i \in 1..m - 1 /\ i < p
      BY <1>1, <1>4
    <3> QED BY <1>4, <2>5, <3>1
  <2>9. \A i \in 1..m - 1 : i > n - k => new[i] \in FirstOfName(disks)
    <3>1. \A i \in 1..m - 1 : i > p - 1 => ~(i < p) /\ i + 1 > p
      BY <1>1, <1>3
    <3> QED BY <1>2, <1>4, <2>3, <2>5, <3>1
  <2>10. \A f \in FirstOfName(disks) : \E i \in 1..m - 1 : new[i] = f
    <3>1. SUFFICES ASSUME NEW f \in FirstOfName(disks)
                   PROVE  \E i \in 1..m - 1 : new[i] = f
      OBVIOUS
    <3>2. PICK i \in 1..m : at[i] = f
      BY <1>2
    <3>3. i # p
      BY <1>4, <1>8, <3>2
    <3>4. CASE i < p
      <4>1. i \in 1..m - 1
        BY <1>1, <1>4, <3>4
      <4> QED BY <2>5, <3>2, <3>4, <4>1
    <3>5. CASE i > p
      <4>1. i - 1 \in 1..m - 1 /\ ~(i - 1 < p) /\ (i - 1) + 1 = i
        BY <1>1, <1>4, <3>5
      <4> QED BY <2>5, <3>2, <4>1
    <3> QED BY <1>1, <1>4, <3>3, <3>4, <3>5
  <2>11. LoopInv(disks, k, rest)
    <3>1. PICK l \in Nat : l = m - 1 /\ Len(rest) = l
      BY <2>2
    <3>2. /\ new \in [1..Len(rest) -> 1..n]
          /\ \A i \in 1..Len(rest) : rest[i] = disks[new[i]]
          /\ \A i, j \in 1..Len(rest) : i < j => new[i] < new[j]
          /\ n - k <= Len(rest)
          /\ \A i \in 1..n - k : new[i] = i
          /\ \A i \in 1..Len(rest) : i > n - k => new[i] \in FirstOfName(disks)
          /\ \A f \in FirstOfName(disks) : \E i \in 1..Len(rest) : new[i] = f
      BY <2>4, <2>6, <2>7, <2>8, <2>9, <2>10, <3>1
    <3> QED BY <3>2 DEF LoopInv
  <2> QED BY <1>3, <2>1, <2>2, <2>11
<1> QED BY <1>7, <1>8

\* There is a function that tells what is left after every round.
Rounds(disks, m, kept) ==
  kept = [k \in 0..m |-> IF k = 0 THEN disks
                         ELSE RemoveDuplicate(kept[k - 1], Len(disks) + 1 - k)]

LEMMA RoundsExist ==
  ASSUME NEW S, NEW disks \in Seq(S)
  PROVE  \E kept : Rounds(disks, Len(disks), kept)
<1> DEFINE T == {m \in 0..Len(disks) : ~(\E kept : Rounds(disks, m, kept))}
<1>1. Len(disks) \in Nat
  OBVIOUS
<1>2. SUFFICES ASSUME T # {} PROVE FALSE
  BY <1>1
<1>3. PICK m \in T : \A l \in T : m <= l
  <2>1. T \subseteq Nat
    BY <1>1
  <2> HIDE DEF T
  <2> QED BY <1>2, <2>1, LeastNat
<1>4. m \in 0..Len(disks) /\ ~(\E kept : Rounds(disks, m, kept))
  OBVIOUS
<1>5. CASE m = 0
  <2> DEFINE f == [k \in 0..0 |-> disks]
  <2>1. f = [k \in 0..0 |-> IF k = 0 THEN disks
                            ELSE RemoveDuplicate(f[k - 1], Len(disks) + 1 - k)]
    <3>1. \A k \in 0..0 : k = 0
      OBVIOUS
    <3> QED BY <3>1
  <2> QED BY <1>4, <1>5, <2>1 DEF Rounds
<1>6. CASE m > 0
  <2>1. m - 1 \in 0..Len(disks) /\ ~(m <= m - 1)
    BY <1>1, <1>4, <1>6
  <2>2. PICK kept : Rounds(disks, m - 1, kept)
    BY <1>3, <2>1
  <2> DEFINE Left(f, k) == RemoveDuplicate(f[k - 1], Len(disks) + 1 - k)
             f == [k \in 0..m |-> IF k = m THEN Left(kept, m) ELSE kept[k]]
  <2>3. kept = [k \in 0..m - 1 |-> IF k = 0 THEN disks ELSE Left(kept, k)]
    BY <2>2 DEF Rounds
  <2>4. ASSUME NEW k \in 0..m
        PROVE  f[k] = IF k = 0 THEN disks ELSE Left(f, k)
    <3>1. CASE k = m
      <4>1. m - 1 \in 0..m /\ m - 1 # m
        BY <1>1, <1>4, <1>6
      <4>2. f[m - 1] = kept[m - 1] /\ f[m] = Left(kept, m)
        BY <4>1
      <4> QED BY <1>6, <3>1, <4>2
    <3>2. CASE k # m
      <4>1. k \in 0..m - 1
        BY <1>1, <1>4, <3>2
      <4>2. f[k] = kept[k] /\ kept[k] = IF k = 0 THEN disks ELSE Left(kept, k)
        BY <2>3, <3>2, <4>1
      <4>3. k # 0 => k - 1 \in 0..m /\ k - 1 # m
        BY <1>1, <1>4, <4>1
      <4>4. k # 0 => f[k - 1] = kept[k - 1]
        BY <4>3
      <4> QED BY <4>2, <4>4
    <3> QED BY <3>1, <3>2
  <2>5. f = [k \in 0..m |-> IF k = 0 THEN disks ELSE Left(f, k)]
    <3>1. f = [k \in 0..m |-> f[k]]
      OBVIOUS
    <3> HIDE DEF f
    <3> QED BY <2>4, <3>1
  <2> HIDE DEF f
  <2> QED BY <1>4, <2>5 DEF Rounds
<1> QED BY <1>1, <1>4, <1>5, <1>6

\* What fixPacket leaves of any list of disks.
LEMMA FixPacketKeeps ==
  ASSUME NEW S, NEW disks \in Seq(S)
  PROVE  /\ fixPacket(disks) \in Seq(S)
         /\ FirstsTold(fixPacket(disks), disks)
<1> DEFINE n == Len(disks)
           kept == CHOOSE f : Rounds(disks, n, f)
           Good(k) == kept[k] \in Seq(S) /\ LoopInv(disks, k, kept[k])
           T == {k \in 0..n : ~Good(k)}
<1>1. n \in Nat
  OBVIOUS
<1>2. Rounds(disks, n, kept)
  BY RoundsExist
<1>3. fixPacket(disks) = kept[n]
  BY DEF fixPacket, Rounds
<1> HIDE DEF kept
<1>4. \A k \in 0..n : kept[k] = IF k = 0 THEN disks
                                 ELSE RemoveDuplicate(kept[k - 1], n + 1 - k)
  BY <1>2 DEF Rounds
<1>5. Good(n)
  <2>1. SUFFICES ASSUME T # {} PROVE FALSE
    BY <1>1
  <2>2. PICK k \in T : \A l \in T : k <= l
    <3>1. T \subseteq Nat
      BY <1>1
    <3> HIDE DEF T
    <3> QED BY <2>1, <3>1, LeastNat
  <2>3. k \in 0..n /\ ~Good(k)
    OBVIOUS
  <2>4. CASE k = 0
    <3> DEFINE at == [i \in 1..n |-> i]
    <3>1. kept[0] = disks
      BY <1>1, <1>4
    <3>2. at \in [1..n -> 1..n] /\ \A i \in 1..n : at[i] = i
      OBVIOUS
    <3> HIDE DEF at
    <3>3. n - 0 = n /\ \A i \in 1..n : ~(i > n)
      BY <1>1
    <3>4. \A f \in FirstOfName(disks) : f \in 1..n
      BY DEF FirstOfName
    <3>5. LoopInv(disks, 0, disks)
      BY <1>1, <3>2, <3>3, <3>4 DEF LoopInv
    <3> QED BY <2>3, <2>4, <3>1, <3>5
  <2>5. CASE k > 0
    <3>1. k - 1 \in 0..n /\ k \in 1..n /\ ~(k <= k - 1)
      BY <1>1, <2>3, <2>5
    <3>2. Good(k - 1)
      BY <2>2, <3>1
    <3>3. kept[k] = RemoveDuplicate(kept[k - 1], n + 1 - k)
      BY <1>4, <2>3, <2>5
    <3>4. PICK left \in Seq(S) : left = kept[k - 1] /\ LoopInv(disks, k - 1, left)
      BY <3>2
    <3>5. /\ RemoveDuplicate(left, n + 1 - k) \in Seq(S)
          /\ LoopInv(disks, k, RemoveDuplicate(left, n + 1 - k))
      BY <3>1, <3>4, LoopRound
    <3> QED BY <2>3, <3>3, <3>4, <3>5
  <2> QED BY <1>1, <2>3, <2>4, <2>5
<1>6. PICK left \in Seq(S) : left = fixPacket(disks) /\ LoopInv(disks, n, left)
  BY <1>3, <1>5
<1>7. PICK at \in [1..Len(left) -> 1..n] :
        /\ \A i \in 1..Len(left) : left[i] = disks[at[i]]
        /\ \A i, j \in 1..Len(left) : i < j => at[i] < at[j]
        /\ \A i \in 1..Len(left) : i > n - n => at[i] \in FirstOfName(disks)
        /\ \A f \in FirstOfName(disks) : \E i \in 1..Len(left) : at[i] = f
  BY <1>6 DEF LoopInv
<1>8. \A i \in 1..Len(left) : at[i] \in FirstOfName(disks)
  <2>1. \A i \in 1..Len(left) : i > n - n
    BY <1>1, <1>6
  <2> QED BY <1>7, <2>1
<1>9. DOMAIN left = 1..Len(left)
  BY <1>6
<1>10. ToSet(left) = {disks[i] : i \in FirstOfName(disks)}
  <2>1. \A i \in DOMAIN left : \E f \in FirstOfName(disks) : left[i] = disks[f]
    BY <1>7, <1>8, <1>9
  <2>2. \A f \in FirstOfName(disks) : \E i \in DOMAIN left : left[i] = disks[f]
    BY <1>7, <1>9
  <2> QED BY <2>1, <2>2 DEF ToSet
<1>11. FirstsTold(left, disks)
  BY <1>7, <1>8, <1>9, <1>10 DEF FirstsTold
<1> QED BY <1>6, <1>11

-----------------------------------------------------------------------------
(* The services.                                                           *)

Told == {data.services[k].service : k \in DOMAIN data.services}

\* What was told is true, and what was asked and not told is not TCP.
ServicesInv ==
  /\ "services" \in DOMAIN data
  /\ data.services \in Seq([service : DOMAIN Service, available : BOOLEAN])
  /\ next \in 1..(Len(Service) + 1)
  /\ \A k \in DOMAIN data.services :
       /\ data.services[k].service < next
       /\ data.services[k].available => data.services[k].service \in answered
  /\ \A i \in DOMAIN Service : i < next /\ Service[i] => i \in Told

LEMMA ServicesKnown ==
  ASSUME ServicesInv, NEW k \in DOMAIN data.services
  PROVE  data.services[k].service \in DOMAIN Service
<1> DEFINE S == [service : DOMAIN Service, available : BOOLEAN]
<1>1. PICK svs : svs = data.services /\ svs \in Seq(S) /\ k \in DOMAIN svs
  BY DEF ServicesInv
<1>2. \A x \in S : x.service \in DOMAIN Service
  OBVIOUS
<1> HIDE DEF S
<1>3. svs[k] \in S
  BY <1>1
<1> QED BY <1>1, <1>2, <1>3

\* An answer, true or not, that is told of the next service.
LEMMA TellHolds ==
  ASSUME ServicesInv, Asks(BOOLEAN), NEW available \in BOOLEAN, Tell(available),
         answered \subseteq answered', available => next \in answered'
  PROVE  ServicesInv'
<1>1. Service \in Seq(BOOLEAN) /\ next \in DOMAIN Service /\ next' = next + 1
  BY SensorsAssumption DEF Asks, Tell
<1>2. PICK n \in Nat, l \in Nat : n = next /\ l = Len(Service) /\ n \in 1..l
  BY <1>1
<1>3. PICK svs \in Seq([service : DOMAIN Service, available : BOOLEAN]) :
        svs = data.services
  BY DEF ServicesInv
<1>4. PICK new \in [service : DOMAIN Service, available : BOOLEAN] :
        new = [service |-> next, available |-> available]
  BY <1>1
<1>5. data'.services = Append(svs, new) /\ "services" \in DOMAIN data'
  BY <1>3, <1>4 DEF Tell, ServicesInv
<1>6. /\ Append(svs, new) \in Seq([service : DOMAIN Service, available : BOOLEAN])
      /\ \A k \in DOMAIN Append(svs, new) :
           \/ k \in DOMAIN svs /\ Append(svs, new)[k] = svs[k]
           \/ Append(svs, new)[k] = new
      /\ \A k \in DOMAIN svs : k \in DOMAIN Append(svs, new)
                                /\ Append(svs, new)[k] = svs[k]
      /\ \E k \in DOMAIN Append(svs, new) : Append(svs, new)[k] = new
  <2>1. /\ Len(svs) + 1 \in DOMAIN Append(svs, new)
        /\ Append(svs, new)[Len(svs) + 1] = new
    OBVIOUS
  <2> QED BY <2>1
<1>7. \A k \in DOMAIN Append(svs, new) :
        /\ Append(svs, new)[k].service < next'
        /\ Append(svs, new)[k].available => Append(svs, new)[k].service \in answered'
  <2>1. ASSUME NEW k \in DOMAIN svs
        PROVE  svs[k].service < next' /\ (svs[k].available => svs[k].service \in answered')
    <3>1. svs[k].service \in DOMAIN Service /\ svs[k].service < n
      BY <1>2, <1>3, ServicesKnown DEF ServicesInv
    <3>2. svs[k].service < n + 1
      BY <1>1, <1>2, <3>1
    <3> QED BY <1>1, <1>2, <1>3, <3>2 DEF ServicesInv
  <2>2. new.service < next' /\ (new.available => new.service \in answered')
    BY <1>1, <1>2, <1>4
  <2> QED BY <1>6, <2>1, <2>2
<1>8. Told \cup {next} \subseteq Told'
  BY <1>3, <1>4, <1>5, <1>6 DEF Told
<1>9. \A i \in DOMAIN Service : i < next' /\ Service[i] => i \in Told'
  <2>1. \A i \in DOMAIN Service : i < n + 1 => i < n \/ i = n
    BY <1>1, <1>2
  <2> QED BY <1>1, <1>2, <1>8, <2>1 DEF ServicesInv
<1> QED BY <1>1, <1>2, <1>5, <1>6, <1>7, <1>9 DEF ServicesInv

LEMMA ServicesNext == ASSUME ServicesInv, [Next]_vars PROVE ServicesInv'
<1>1. ASSUME NEW a \in Agents, ReadTemp(a) PROVE ServicesInv'
  <2>1. /\ data'.services = <<>> /\ "services" \in DOMAIN data' /\ next' = 1
    BY <1>1 DEF ReadTemp
  <2>2. Len(Service) \in Nat /\ \A i \in DOMAIN Service : ~(i < 1)
    BY SensorsAssumption
  <2> QED BY <2>1, <2>2 DEF ServicesInv
<1>2. CASE ServiceAnswers
  <2>1. /\ Asks(BOOLEAN) /\ Tell(Service[next] \/ ~Windows)
        /\ answered' = answered \cup {next}
    BY <1>2 DEF ServiceAnswers
  <2>2. (Service[next] \/ ~Windows) \in BOOLEAN
    OBVIOUS
  <2> QED BY <2>1, <2>2, TellHolds
<1>3. CASE ServiceSilent
  BY <1>3, TellHolds DEF ServiceSilent
<1>4. CASE NoUdpSocket
  <2>1. /\ next \in DOMAIN Service /\ Service[next] = FALSE /\ next' = next + 1
        /\ UNCHANGED <<data, answered>>
    BY <1>4 DEF NoUdpSocket, Asks, machineVars
  <2>2. Service \in Seq(BOOLEAN)
    BY SensorsAssumption
  <2>3. PICK n \in Nat : n = next /\ n \in 1..Len(Service)
    BY <2>1, <2>2
  <2>4. next' \in 1..(Len(Service) + 1)
    BY <2>1, <2>2, <2>3
  <2>5. \A k \in DOMAIN data.services : data.services[k].service < next'
    <3>1. \A k \in DOMAIN data.services : data.services[k].service \in DOMAIN Service
      BY ServicesKnown
    <3>2. \A m \in DOMAIN Service : m < n => m < n + 1
      BY <2>2, <2>3
    <3> QED BY <2>1, <2>3, <3>1, <3>2 DEF ServicesInv
  <2>6. \A i \in DOMAIN Service : i < next' /\ Service[i] => i \in Told
    <3>1. \A i \in DOMAIN Service : i < n + 1 => i < n \/ i = n
      BY <2>2, <2>3
    <3> QED BY <2>1, <2>3, <3>1 DEF ServicesInv
  <2> QED BY <2>1, <2>4, <2>5, <2>6 DEF ServicesInv, Told
<1>5. CASE ReadDisk
  <2>1. /\ UNCHANGED <<next, answered>>
        /\ data'.services = data.services /\ DOMAIN data' = DOMAIN data
    BY <1>5 DEF ReadDisk, serverVars
  <2> QED BY <2>1 DEF ServicesInv, Told
<1>6. CASE Send
  <2>1. /\ UNCHANGED <<next, answered>>
        /\ data'.services = data.services /\ DOMAIN data' = DOMAIN data
    BY <1>6 DEF Send, machineVars
  <2> QED BY <2>1 DEF ServicesInv, Told
<1>7. CASE DisksRead \/ NoMounts \/ NoTcpSocket \/ ServicesAsked \/ UNCHANGED vars
  <2>1. UNCHANGED <<next, answered, data>>
    BY <1>7 DEF DisksRead, NoMounts, NoTcpSocket, ServicesAsked, vars, machineVars
  <2> QED BY <2>1 DEF ServicesInv, Told
<1> QED BY <1>1, <1>2, <1>3, <1>4, <1>5, <1>6, <1>7 DEF Next

\* The part of ToldAsRead about services.
ServicesTold ==
  /\ \A k \in DOMAIN data.services :
       data.services[k].available => data.services[k].service \in answered
  /\ \A i \in DOMAIN Service \ Told : Service[i] => \A j \in Told : j < i

LEMMA ToldOfServices == ASSUME ServicesInv PROVE ServicesTold
<1>1. \A j \in Told : j \in DOMAIN Service /\ j < next
  BY ServicesKnown DEF ServicesInv, Told
<1>2. ASSUME NEW i \in DOMAIN Service \ Told, Service[i] PROVE ~(i < next)
  BY <1>2 DEF ServicesInv
<1>3. DOMAIN Service \subseteq Nat /\ next \in Nat
  BY SensorsAssumption DEF ServicesInv
<1> QED BY <1>1, <1>2, <1>3 DEF ServicesInv, ServicesTold

LEMMA ServicesInit == ASSUME Init PROVE ServicesInv
<1>1. data.services = <<>> /\ "services" \in DOMAIN data /\ next = 1
  BY DEF Init
<1>2. Len(Service) \in Nat /\ \A i \in DOMAIN Service : ~(i < 1)
  BY SensorsAssumption
<1> QED BY <1>1, <1>2 DEF ServicesInv

\* Whichever step ends the reading, and at any time, no service is told to be
\* available that did not answer, and one over TCP that is not told is behind
\* all that are (agent_lin/sensors.cpp:138-206, agent_win/src/test.cpp:165-259).
THEOREM ServicesCorrect == Spec => []ServicesTold
<1>1. Init => ServicesInv
  BY ServicesInit
<1>2. ServicesInv /\ [Next]_vars => ServicesInv'
  BY ServicesNext
<1>3. ServicesInv => ServicesTold
  BY ToldOfServices
<1> QED BY <1>1, <1>2, <1>3, PTL DEF Spec

-----------------------------------------------------------------------------
(* The disks, and all types.                                               *)

Disks == [name : Devices \cup Drives, usage : {ToString(n) : n \in Nat}]

\* The list that is told is what was read, until fixPacket leaves of it what
\* it leaves.
DisksInv ==
  IF pc # "idle" THEN data.disksUsage = mounted
  ELSE IF agent = 0 THEN data.disksUsage = <<>>
  ELSE FirstsTold(data.disksUsage, mounted)

MachineInv ==
  /\ config \in [tempPath : BOOLEAN, zeroDivider : BOOLEAN]
  /\ pc \in {"idle", "disks", "services", "send"}
  /\ DOMAIN data = {"temp", "tempValid", "disksUsage", "services"}
  /\ data.temp \in {"number", "infinite", "NaN"} /\ data.tempValid \in BOOLEAN
  /\ mounted \in Seq(Disks) /\ DisksInv
  /\ answered \subseteq DOMAIN Service
  /\ row.stored \in BOOLEAN

Readings == {"number", "infinite", "NaN"}

LEMMA TempsAreTemps ==
  ASSUME NEW a, NEW t \in Temps(a)
  PROVE  t.temp \in Readings /\ t.tempValid \in BOOLEAN
<1>1. ASSUME NEW x \in Readings, NEW b \in BOOLEAN
      PROVE  Temp(x, b).temp \in Readings /\ Temp(x, b).tempValid \in BOOLEAN
  BY DEF Temp
<1>2. \A u \in Unset \cup FromPath \cup FromCoretemp \cup {Temp("number", TRUE)} :
        \E x \in Readings, b \in BOOLEAN : u = Temp(x, b)
  <2>1. \A u \in Unset : \E x \in Readings, b \in BOOLEAN : u = Temp(x, b)
    BY DEF Unset, Readings
  <2>2. \A u \in FromPath : \E x \in Readings, b \in BOOLEAN : u = Temp(x, b)
    BY DEF FromPath, Readings
  <2>3. \A u \in FromCoretemp : \E x \in Readings, b \in BOOLEAN : u = Temp(x, b)
    BY DEF FromCoretemp, Readings
  <2>4. "number" \in Readings
    BY DEF Readings
  <2> QED BY <2>1, <2>2, <2>3, <2>4
<1>3. t \in Unset \cup FromPath \cup FromCoretemp \cup {Temp("number", TRUE)}
  BY DEF Temps
<1> QED BY <1>1, <1>2, <1>3

LEMMA MachineNext ==
  ASSUME MachineInv, FeedInv, [Next]_vars
  PROVE  MachineInv'
<1>1. ASSUME NEW a \in Agents, ReadTemp(a) PROVE MachineInv'
  <2>1. PICK t \in Temps(a) :
          data' = [temp |-> t.temp, tempValid |-> t.tempValid,
                   disksUsage |-> <<>>, services |-> <<>>]
    BY <1>1 DEF ReadTemp
  <2>2. t.temp \in {"number", "infinite", "NaN"} /\ t.tempValid \in BOOLEAN
    BY TempsAreTemps DEF Readings
  <2>3. /\ pc' = "disks" /\ mounted' = <<>> /\ answered' = {}
        /\ row' = [stored |-> FALSE] /\ UNCHANGED config
    BY <1>1 DEF ReadTemp
  <2> QED BY <2>1, <2>2, <2>3 DEF MachineInv, DisksInv
<1>2. CASE ReadDisk
  <2>1. PICK name \in Devices \cup Drives :
          LET disk == [name |-> name, usage |-> ToString(Len(mounted) + 1)]
          IN  /\ mounted' = Append(mounted, disk)
              /\ data' = [data EXCEPT !.disksUsage = Append(@, disk)]
    BY <1>2 DEF ReadDisk
  <2>2. PICK disk \in Disks :
          /\ mounted' = Append(mounted, disk)
          /\ data' = [data EXCEPT !.disksUsage = Append(@, disk)]
    <3>1. Len(mounted) + 1 \in Nat
      BY DEF MachineInv
    <3> QED BY <2>1, <3>1 DEF Disks
  <2>3. pc = "disks" /\ pc' = "disks" /\ UNCHANGED <<config, answered, row>>
    BY <1>2 DEF ReadDisk, serverVars
  <2>4. /\ DOMAIN data' = DOMAIN data /\ data'.temp = data.temp
        /\ data'.tempValid = data.tempValid
        /\ data'.disksUsage = Append(data.disksUsage, disk)
    BY <2>2 DEF MachineInv
  <2>5. mounted' \in Seq(Disks)
    BY <2>2 DEF MachineInv
  <2> QED BY <2>2, <2>3, <2>4, <2>5 DEF MachineInv, DisksInv
<1>3. CASE DisksRead \/ NoMounts \/ NoTcpSocket \/ ServicesAsked \/ NoUdpSocket
  <2>1. /\ pc # "idle" /\ pc' \in {"services", "send"}
        /\ UNCHANGED <<config, data, mounted, answered, row>>
    BY <1>3 DEF DisksRead, NoMounts, NoTcpSocket, NoUdpSocket, ServicesAsked, Asks,
                machineVars, serverVars
  <2> QED BY <2>1 DEF MachineInv, DisksInv
<1>4. CASE ServiceAnswers \/ ServiceSilent
  <2>1. PICK available : Tell(available)
    BY <1>4 DEF ServiceAnswers, ServiceSilent
  <2>2. pc = "services" /\ UNCHANGED <<config, pc, mounted, row>>
    BY <1>4, <2>1 DEF ServiceAnswers, ServiceSilent, Asks, Tell, serverVars
  <2>3. answered' \subseteq DOMAIN Service
    BY <1>4 DEF ServiceAnswers, ServiceSilent, Asks, MachineInv
  <2>4. /\ DOMAIN data' = DOMAIN data /\ data'.temp = data.temp
        /\ data'.tempValid = data.tempValid
        /\ data'.disksUsage = data.disksUsage
    BY <2>1 DEF MachineInv, Tell
  <2> QED BY <2>2, <2>3, <2>4 DEF MachineInv, DisksInv
<1>5. CASE Send
  <2>1. /\ pc = "send" /\ pc' = "idle" /\ agent \in Agents /\ agent # 0
        /\ UNCHANGED <<config, agent, mounted, answered>>
    BY <1>5, SensorsAssumption DEF Send, FeedInv, machineVars
  <2>2. data' = [data EXCEPT !.disksUsage = fixPacket(@)]
    BY <1>5 DEF Send
  <2>3. /\ DOMAIN data' = DOMAIN data /\ data'.temp = data.temp
        /\ data'.tempValid = data.tempValid
        /\ data'.disksUsage = fixPacket(data.disksUsage)
    BY <2>2 DEF MachineInv
  <2>4. data.disksUsage = mounted /\ mounted \in Seq(Disks)
    BY <2>1 DEF MachineInv, DisksInv
  <2>5. FirstsTold(data'.disksUsage, mounted)
    BY <2>3, <2>4, FixPacketKeeps
  <2>6. row'.stored \in BOOLEAN
    BY <1>5 DEF Send, insertRecord
  <2>7. DisksInv'
    BY <2>1, <2>5 DEF DisksInv
  <2> QED BY <2>1, <2>3, <2>4, <2>6, <2>7 DEF MachineInv
<1>6. CASE UNCHANGED vars
  BY <1>6 DEF vars, machineVars, serverVars, MachineInv, DisksInv
<1> QED BY <1>1, <1>2, <1>3, <1>4, <1>5, <1>6 DEF Next

LEMMA MachineHolds == Spec => [](MachineInv /\ FeedInv /\ ServicesInv)
<1>1. Init => MachineInv /\ FeedInv /\ ServicesInv
  <2>1. SUFFICES ASSUME Init PROVE MachineInv /\ FeedInv /\ ServicesInv
    OBVIOUS
  <2>2. MachineInv
    BY <2>1 DEF Init, MachineInv, DisksInv
  <2> QED BY <2>1, <2>2, FeedInit, ServicesInit
<1>2. MachineInv /\ FeedInv /\ ServicesInv /\ [Next]_vars
        => (MachineInv /\ FeedInv /\ ServicesInv)'
  BY MachineNext, FeedNext, ServicesNext
<1> QED BY <1>1, <1>2, PTL DEF Spec

\* Every variable keeps its type; of the disks none is told that was not read
\* (agent_lin/sensors.cpp:73-206).
THEOREM TypeCorrect == Spec => []TypeOK
<1>1. MachineInv /\ FeedInv /\ ServicesInv => TypeOK
  <2>1. SUFFICES ASSUME MachineInv, FeedInv, ServicesInv PROVE TypeOK
    OBVIOUS
  <2>2. \A i \in DOMAIN data.disksUsage : data.disksUsage[i] \in ToSet(mounted)
    <3>1. CASE pc # "idle"
      BY <2>1, <3>1 DEF MachineInv, DisksInv, ToSet
    <3>2. CASE pc = "idle" /\ agent = 0
      BY <2>1, <3>2 DEF MachineInv, DisksInv
    <3>3. CASE pc = "idle" /\ agent # 0
      <4>1. ToSet(data.disksUsage) = {mounted[i] : i \in FirstOfName(mounted)}
        BY <2>1, <3>3 DEF MachineInv, DisksInv, FirstsTold
      <4>2. FirstOfName(mounted) \subseteq DOMAIN mounted
        BY DEF FirstOfName
      <4> QED BY <4>1, <4>2 DEF ToSet
    <3> QED BY <3>1, <3>2, <3>3
  <2>3. \A i \in DOMAIN mounted : mounted[i].name \in Devices \cup Drives
    <3>1. \A d \in Disks : d.name \in Devices \cup Drives
      BY DEF Disks
    <3>2. mounted \in Seq(Disks)
      BY <2>1 DEF MachineInv
    <3> QED BY <3>1, <3>2
  <2> QED BY <2>1, <2>2, <2>3 DEF TypeOK, MachineInv, FeedInv, ServicesInv, Packets
<1> QED BY <1>1, MachineHolds, PTL

\* Of any list of mounts the first of each name is told, in their order, and
\* the list of services is true to what answered (server/agents.cpp:30-44,
\* agent_lin/sensors.cpp:138-206, agent_win/src/test.cpp:165-259).
THEOREM ToldCorrect == Spec => []ToldAsRead
<1>1. MachineInv /\ ServicesInv => ToldAsRead
  <2>1. SUFFICES ASSUME MachineInv, ServicesInv, Received PROVE ToldAsRead
    BY DEF ToldAsRead
  <2>2. FirstsTold(data.disksUsage, mounted)
    BY <2>1 DEF MachineInv, DisksInv, Received
  <2>3. ServicesTold
    BY <2>1, ToldOfServices
  <2> QED BY <2>2, <2>3 DEF ToldAsRead, ServicesTold, Told
<1> QED BY <1>1, MachineHolds, PTL
=============================================================================
