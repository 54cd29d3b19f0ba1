--------------------------- MODULE FramingProofs ---------------------------
(***************************************************************************)
(* Proofs about Framing, for every size of header and buffer, any sizes of *)
(* packets and any number of them: types, that there is room to read, and  *)
(* that every step is one of PacketStream or changes nothing it sees.      *)
(***************************************************************************)
EXTENDS Framing, SequenceTheorems, WellFoundedInduction, TLAPS

-----------------------------------------------------------------------------
(* What the peer sends.                                                    *)

\* The part of TypeOK about it, which no step changes.
SentOK == ends \in Seq(Nat) /\ \A p \in DOMAIN ends : SizeOf(p) \in Sizes

\* Every step leaves it alone, and with it all that is defined by it.
LEMMA EndsStay ==
  ASSUME UNCHANGED ends
  PROVE  /\ \A p : Start(p)' = Start(p) /\ SizeOf(p)' = SizeOf(p)
         /\ Total' = Total /\ Sent' = Sent /\ SentOK' = SentOK
<1>1. \A p : Start(p)' = Start(p) /\ SizeOf(p)' = SizeOf(p)
  BY DEF Start, SizeOf
<1>2. Total' = Total
  BY DEF Total, Start
<1>3. SentOK' = SentOK
  BY <1>1 DEF SentOK
<1>4. Sent' = Sent
  BY <1>1 DEF Sent, Bytes
<1> QED BY <1>1, <1>2, <1>3, <1>4

LEMMA StartsNatural ==
  ASSUME SentOK, NEW p \in 1..Len(ends) + 1
  PROVE  Start(p) \in Nat
BY DEF SentOK, Start

LEMMA TotalNatural == ASSUME SentOK PROVE Total \in Nat
<1>1. Len(ends) + 1 \in 1..Len(ends) + 1
  BY DEF SentOK
<1> QED BY <1>1, StartsNatural DEF Total

\* A packet is its header and its body, and the next follows it at once.
LEMMA NextStart ==
  ASSUME SentOK, NEW p \in 1..Len(ends)
  PROVE  /\ SizeOf(p) \in Sizes /\ SizeOf(p) \in Nat
         /\ p + 1 \in 1..Len(ends) + 1
         /\ Start(p + 1) = Start(p) + HeaderSize + SizeOf(p)
<1>1. p \in DOMAIN ends /\ Len(ends) \in Nat /\ ends[p] \in Nat
  BY DEF SentOK
<1>2. SizeOf(p) \in Sizes /\ SizeOf(p) \in Nat
  BY <1>1, FramingAssumption DEF SentOK
<1>3. p + 1 # 1 /\ (p + 1) - 1 = p /\ p + 1 \in 1..Len(ends) + 1
  BY <1>1
<1>4. Start(p + 1) = ends[p]
  BY <1>3 DEF Start
<1>5. Start(p) \in Nat
  BY <1>1, StartsNatural
<1>6. HeaderSize \in Nat
  BY FramingAssumption
<1> QED BY <1>1, <1>2, <1>3, <1>4, <1>5, <1>6 DEF SizeOf

-----------------------------------------------------------------------------
(* No two packets start at the same place.                                 *)

\* A set of natural numbers has a least element.
LEMMA LeastNat ==
  ASSUME NEW T, T \subseteq Nat, T # {}
  PROVE  \E n \in T : \A m \in T : n <= m
<1> DEFINE R == OpToRel(<, Nat)
<1>1. IsWellFoundedOn(R, Nat)
  BY NatLessThanWellFounded, Zenon
<1>2. \A x, y \in Nat : <<y, x>> \in R <=> y < x
  BY Zenon DEF OpToRel
<1> HIDE DEF R
<1>3. \E x \in T : \A y \in T : ~ (<<y, x>> \in R)
  BY <1>1, WFMin
<1>4. PICK x \in T : \A y \in T : ~(y < x)
  BY <1>2, <1>3, Zenon
<1> QED BY <1>4

\* A packet starts after those before it: by the least packet that does not.
LEMMA StartsGrow ==
  ASSUME SentOK, NEW p \in 1..Len(ends), NEW q \in 1..Len(ends), p < q
  PROVE  Start(p) < Start(q)
<1> DEFINE T == {r \in p + 1..Len(ends) : ~(Start(p) < Start(r))}
<1>0. Len(ends) \in Nat /\ HeaderSize \in Nat /\ HeaderSize > 0
  BY FramingAssumption DEF SentOK
<1>1. SUFFICES ASSUME T # {} PROVE FALSE
  BY <1>0
<1>2. T \subseteq Nat
  BY <1>0
<1>3. PICK r \in T : \A m \in T : r <= m
  BY <1>1, <1>2, LeastNat
<1>4. r \in p + 1..Len(ends) /\ ~(Start(p) < Start(r))
  OBVIOUS
<1>5. r - 1 \in p..Len(ends) /\ r - 1 \in 1..Len(ends) /\ (r - 1) + 1 = r
  BY <1>0, <1>4
<1>6. /\ Start(r) = Start(r - 1) + HeaderSize + SizeOf(r - 1)
      /\ SizeOf(r - 1) \in Nat
  BY <1>5, NextStart
<1>7. Start(p) \in Nat /\ Start(r - 1) \in Nat
  BY <1>0, <1>5, StartsNatural
<1>8. ~(Start(p) <= Start(r - 1))
  BY <1>0, <1>4, <1>6, <1>7
<1>9. r - 1 # p
  BY <1>7, <1>8
<1>10. r - 1 \in T
  BY <1>0, <1>5, <1>7, <1>8, <1>9
<1> QED BY <1>0, <1>3, <1>4, <1>10

LEMMA StartsDiffer ==
  ASSUME SentOK, NEW p \in 1..Len(ends), NEW q \in 1..Len(ends),
         Start(p) = Start(q)
  PROVE  p = q
<1>1. Start(p) \in Nat /\ Start(q) \in Nat /\ Len(ends) \in Nat
  BY StartsNatural DEF SentOK
<1> QED BY <1>1, StartsGrow

-----------------------------------------------------------------------------
(* What the buffer holds, and where readData is in the stream.             *)

\* The bytes that were handled and shifted out.
Parsed == arrived - Len(buffer)

\* The buffer is the stream from the first byte that was not handled up to
\* the last that arrived, and fits.
BufferInv ==
  /\ arrived \in 0..Total
  /\ Len(buffer) \in 0..BufferSize /\ Len(buffer) <= arrived
  /\ buffer = Bytes(Parsed, Len(buffer))

\* The packets handled are the first ones sent.
HandledInv ==
  /\ handled \in Seq([header : Nat, body : Seq(Nat)])
  /\ Len(handled) <= Len(ends)
  /\ \A p \in 1..Len(handled) : handled[p] = Sent[p]

\* The byte at the front of the buffer is the first of a header or of the
\* body the header announced, and that is what readData waits for.
HeaderInv ==
  state = "WAITING_FOR_HEADER" =>
    dataToReceive = HeaderSize /\ Parsed = Start(Len(handled) + 1)

BodyInv ==
  state = "WAITING_FOR_PACKET" =>
    /\ Len(handled) < Len(ends) /\ currentHeader = Len(handled) + 1
    /\ dataToReceive = SizeOf(currentHeader)
    /\ Parsed = Start(currentHeader) + HeaderSize

\* Outside the loop it waits for bytes that did not arrive yet.
LoopInv == ~loop => Len(buffer) < dataToReceive

PlaceInv ==
  /\ state \in {"WAITING_FOR_HEADER", "WAITING_FOR_PACKET"}
  /\ currentHeader \in 0..Len(ends) /\ loop \in BOOLEAN
  /\ HeaderInv /\ BodyInv

Inv == SentOK /\ BufferInv /\ HandledInv /\ PlaceInv /\ LoopInv

\* The constants, one by one.
LEMMA Sizings ==
  /\ HeaderSize \in Nat /\ HeaderSize > 0 /\ BufferSize \in Nat
  /\ HeaderSize <= BufferSize /\ MaxPackets \in Nat
  /\ \A n \in Sizes : n \in Nat /\ n <= BufferSize
BY FramingAssumption

LEMMA Lengths == ASSUME SentOK PROVE Len(ends) \in Nat /\ DOMAIN ends = 1..Len(ends)
BY DEF SentOK

LEMMA BytesLen ==
  ASSUME NEW from \in Nat, NEW n \in Nat
  PROVE  /\ Bytes(from, n) \in Seq(Nat) /\ Len(Bytes(from, n)) = n
         /\ \A i \in 1..n : Bytes(from, n)[i] = from + i
BY DEF Bytes

\* What readData waits for is never more than the buffer can hold.
LEMMA WaitsFor ==
  ASSUME Inv
  PROVE  dataToReceive \in Nat /\ dataToReceive <= BufferSize
<1>1. CASE state = "WAITING_FOR_HEADER"
  BY <1>1, Sizings DEF Inv, PlaceInv, HeaderInv
<1>2. CASE state = "WAITING_FOR_PACKET"
  <2>1. currentHeader \in 1..Len(ends) /\ dataToReceive = SizeOf(currentHeader)
    BY <1>2, Lengths DEF Inv, PlaceInv, BodyInv, HandledInv
  <2> QED BY <2>1, NextStart, Sizings DEF Inv
<1> QED BY <1>1, <1>2 DEF Inv, PlaceInv

LEMMA ParsedNat ==
  ASSUME BufferInv, SentOK
  PROVE  Parsed \in Nat /\ Len(buffer) \in Nat /\ arrived = Parsed + Len(buffer)
BY TotalNatural, Sizings DEF BufferInv, Parsed

\* A sequence without its first n elements.
LEMMA RestOf ==
  ASSUME NEW S, NEW s \in Seq(S), NEW n \in 0..Len(s)
  PROVE  /\ SubSeq(s, n + 1, Len(s)) \in Seq(S)
         /\ Len(SubSeq(s, n + 1, Len(s))) = Len(s) - n
         /\ \A i \in 1..Len(s) - n : SubSeq(s, n + 1, Len(s))[i] = s[n + i]
<1> DEFINE m == n + 1
           l == Len(s)
<1>1. m \in Int /\ l \in Int /\ \A i \in m..l : s[i] \in S
  OBVIOUS
<1>2. /\ SubSeq(s, m, l) \in Seq(S)
      /\ Len(SubSeq(s, m, l)) = IF m <= l THEN l - m + 1 ELSE 0
      /\ \A i \in 1..l - m + 1 : SubSeq(s, m, l)[i] = s[m + i - 1]
  <2> HIDE DEF m, l
  <2> QED BY <1>1, SubSeqProperties
<1>3. l - m + 1 = l - n /\ (~(m <= l) => l - n = 0)
  OBVIOUS
<1>4. \A i \in 1..l - n : m + i - 1 = n + i
  OBVIOUS
<1> QED BY <1>2, <1>3, <1>4

\* The first n bytes of the buffer are those of the stream, and so are the
\* others once they are shifted down.
LEMMA FrontBytes ==
  ASSUME Inv, NEW n \in 0..Len(buffer)
  PROVE  SubSeq(buffer, 1, n) = Bytes(Parsed, n)
<1>1. Parsed \in Nat /\ Len(buffer) \in Nat
  BY ParsedNat DEF Inv
<1>2. buffer = Bytes(Parsed, Len(buffer))
  BY DEF Inv, BufferInv
<1>3. \A i \in 1..n : buffer[i] = Parsed + i
  BY <1>1, <1>2 DEF Bytes
<1>4. SubSeq(buffer, 1, n) = [i \in 1..n |-> buffer[i]]
  BY <1>1, <1>2, BytesLen
<1> QED BY <1>3, <1>4 DEF Bytes

LEMMA ShiftBytes ==
  ASSUME Inv, NEW n \in 0..Len(buffer), Shift(n), UNCHANGED ends, UNCHANGED arrived
  PROVE  BufferInv' /\ Parsed' = Parsed + n
<1>1. /\ Parsed \in Nat /\ Len(buffer) \in Nat /\ arrived = Parsed + Len(buffer)
      /\ arrived \in Nat /\ arrived \in 0..Total
  BY ParsedNat, TotalNatural DEF Inv, BufferInv
<1>2. buffer = Bytes(Parsed, Len(buffer)) /\ buffer \in Seq(Nat)
  BY <1>1, BytesLen DEF Inv, BufferInv
<1>3. \A i \in 1..Len(buffer) : buffer[i] = Parsed + i
  BY <1>1, <1>2 DEF Bytes
<1>4. /\ buffer' \in Seq(Nat) /\ Len(buffer') = Len(buffer) - n
      /\ \A i \in 1..Len(buffer) - n : buffer'[i] = buffer[n + i]
  BY <1>2, RestOf DEF Shift
<1>5. Parsed' = Parsed + n
  BY <1>1, <1>4 DEF Parsed
<1>6. \A i \in 1..Len(buffer') : buffer'[i] = Parsed' + i
  BY <1>1, <1>3, <1>4, <1>5
<1>7. buffer' = Bytes(Parsed', Len(buffer'))
  BY <1>4, <1>6 DEF Bytes
<1>8. Total' = Total
  BY EndsStay
<1> QED BY <1>1, <1>4, <1>5, <1>7, <1>8, Sizings DEF BufferInv, Inv

\* With enough bytes to be a header there is a packet that was not handled,
\* and it is its header that is at the front.
LEMMA HeaderFound ==
  ASSUME Inv, Enough, state = "WAITING_FOR_HEADER"
  PROVE  Len(handled) < Len(ends) /\ Header = Len(handled) + 1
<1> DEFINE k == Len(handled) + 1
<1>1. /\ Parsed \in Nat /\ Len(buffer) \in Nat /\ arrived = Parsed + Len(buffer)
      /\ arrived <= Total /\ Total \in Nat
  BY ParsedNat, TotalNatural DEF Inv, BufferInv
<1>2. Parsed = Start(k) /\ HeaderSize \in 0..Len(buffer)
  BY <1>1, Sizings DEF Inv, PlaceInv, HeaderInv, Enough
<1>3. Len(handled) \in Nat /\ Len(handled) <= Len(ends) /\ Len(ends) \in Nat
  BY Lengths DEF Inv, HandledInv
<1>4. Len(handled) # Len(ends)
  BY <1>1, <1>2, <1>3, Sizings DEF Total
<1>5. k \in 1..Len(ends)
  BY <1>3, <1>4
<1>6. IsHeader(k)
  BY <1>2, FrontBytes DEF IsHeader
<1>7. ASSUME NEW p \in 1..Len(ends), IsHeader(p) PROVE p = k
  <2>1. Bytes(Start(p), HeaderSize) = Bytes(Start(k), HeaderSize)
    BY <1>6, <1>7 DEF IsHeader
  <2>2. Start(p) \in Nat /\ Start(k) \in Nat
    BY <1>3, <1>5, StartsNatural DEF Inv
  <2>3. Bytes(Start(p), HeaderSize)[1] = Start(p) + 1
    BY <2>2, Sizings DEF Bytes
  <2>4. Bytes(Start(k), HeaderSize)[1] = Start(k) + 1
    BY <2>2, Sizings DEF Bytes
  <2>5. Start(p) = Start(k)
    BY <2>1, <2>2, <2>3, <2>4
  <2> QED BY <1>5, <2>5, StartsDiffer DEF Inv
<1>8. DOMAIN ends = 1..Len(ends)
  BY Lengths DEF Inv
<1>9. Header = k
  BY <1>5, <1>6, <1>7, <1>8, Zenon DEF Header
<1> QED BY <1>3, <1>4, <1>9

-----------------------------------------------------------------------------
(* The invariant holds, and every step is one of PacketStream.             *)

\* What a packet is when processPacket is given it whole.
LEMMA SentPacket ==
  ASSUME SentOK, NEW p \in 1..Len(ends)
  PROVE  /\ Sent[p] = [header |-> p, body |-> Bytes(Start(p) + HeaderSize, SizeOf(p))]
         /\ Sent[p] \in [header : Nat, body : Seq(Nat)]
         /\ Len(Sent) = Len(ends)
<1>1. Len(ends) \in Nat /\ DOMAIN ends = 1..Len(ends)
  BY Lengths
<1>2. Sent[p] = [header |-> p, body |-> Bytes(Start(p) + HeaderSize, SizeOf(p))]
  BY <1>1 DEF Sent
<1>3. Start(p) + HeaderSize \in Nat /\ SizeOf(p) \in Nat
  <2>1. p \in 1..Len(ends) + 1
    BY <1>1
  <2>2. Start(p) \in Nat /\ SizeOf(p) \in Nat
    BY <2>1, StartsNatural, NextStart
  <2> QED BY <2>2, Sizings
<1>4. Bytes(Start(p) + HeaderSize, SizeOf(p)) \in Seq(Nat)
  BY <1>3, BytesLen
<1>5. Len(Sent) = Len(ends)
  BY <1>1 DEF Sent
<1> QED BY <1>1, <1>2, <1>4, <1>5

\* The packet after the handled ones is handled.
LEMMA HandleNext ==
  ASSUME Inv, Len(handled) < Len(ends), UNCHANGED ends,
         handled' = Append(handled, Sent[Len(handled) + 1])
  PROVE  HandledInv' /\ Len(handled') = Len(handled) + 1 /\ Promised!Handle
<1> DEFINE k == Len(handled) + 1
           P == [header : Nat, body : Seq(Nat)]
<1>1. Len(handled) \in Nat /\ handled \in Seq(P) /\ k \in 1..Len(ends)
  BY Lengths DEF Inv, HandledInv
<1>2. Sent[k] \in P /\ Len(Sent) = Len(ends)
  BY <1>1, SentPacket DEF Inv
<1>3. \A p \in 1..Len(handled) : handled[p] = Sent[p]
  BY DEF Inv, HandledInv
<1>4. Len(handled') = k /\ handled' \in Seq(P)
  <2> HIDE DEF P
  <2> QED BY <1>1, <1>2
<1>5. \A p \in 1..k : handled'[p] = Sent[p]
  <2> HIDE DEF P
  <2> QED BY <1>1, <1>2, <1>3
<1>6. Sent' = Sent
  BY EndsStay
<1>7. HandledInv'
  BY <1>1, <1>4, <1>5, <1>6 DEF HandledInv
<1>8. Promised!Handle
  BY <1>1, <1>2, <1>6 DEF Promised!Handle
<1> QED BY <1>4, <1>7, <1>8

LEMMA HandledStays ==
  ASSUME Inv, UNCHANGED ends, UNCHANGED handled
  PROVE  HandledInv' /\ UNCHANGED Promised!vars
<1>1. Sent' = Sent
  BY EndsStay
<1> QED BY <1>1 DEF Inv, HandledInv, Promised!vars

LEMMA InitInv == ASSUME Init PROVE Inv /\ Promised!Init
<1>1. PICK n \in 0..MaxPackets : ends \in [1..n -> 1..n * (HeaderSize + BufferSize)]
  BY DEF Init
<1>2. n \in Nat /\ ends \in Seq(Nat) /\ Len(ends) = n
  BY <1>1, Sizings
<1>3. SentOK
  BY <1>2 DEF Init, SentOK
<1>4. Total \in Nat
  BY <1>3, TotalNatural
<1>5. Len(buffer) = 0 /\ buffer = Bytes(Parsed, 0) /\ Parsed = 0
  <2>1. arrived = 0 /\ buffer = <<>> /\ Len(<<>>) = 0
    BY DEF Init
  <2>2. Len(buffer) = 0 /\ Parsed = 0 - 0
    BY <2>1, Zenon DEF Parsed
  <2>3. Bytes(0, 0) = <<>>
    <3>1. Bytes(0, 0) \in Seq(Nat) /\ Len(Bytes(0, 0)) = 0
      BY BytesLen
    <3> QED BY <3>1, EmptySeq
  <2> QED BY <2>1, <2>2, <2>3
<1>6. BufferInv
  BY <1>4, <1>5, Sizings DEF Init, BufferInv
<1>7. HandledInv
  BY <1>2 DEF Init, HandledInv
<1>8. PlaceInv
  <2>1. Len(handled) + 1 = 1
    BY DEF Init
  <2>2. Start(1) = 0
    BY DEF Start
  <2>3. state = "WAITING_FOR_HEADER" /\ dataToReceive = HeaderSize
        /\ currentHeader = 0 /\ loop = FALSE
    BY DEF Init
  <2>4. HeaderInv /\ BodyInv
    BY <1>5, <2>1, <2>2, <2>3 DEF HeaderInv, BodyInv
  <2>5. currentHeader \in 0..Len(ends)
    BY <1>2, <2>3
  <2> QED BY <2>3, <2>4, <2>5 DEF PlaceInv
<1>9. LoopInv
  BY <1>5, Sizings DEF Init, LoopInv
<1>10. Promised!Init
  BY DEF Init, Promised!Init
<1> QED BY <1>3, <1>6, <1>7, <1>8, <1>9, <1>10 DEF Inv

\* recv appends the bytes that follow; what was handled is what it was.
LEMMA RecvInv == ASSUME Inv, Recv PROVE Inv' /\ UNCHANGED Promised!vars
<1>1. PICK n \in 1..BufferSize - Len(buffer) :
        /\ arrived + n <= Total
        /\ arrived' = arrived + n
        /\ buffer' = buffer \o Bytes(arrived, n)
  BY DEF Recv
<1>2. /\ Parsed \in Nat /\ Len(buffer) \in Nat /\ arrived = Parsed + Len(buffer)
      /\ Total \in Nat /\ arrived \in Nat
  BY ParsedNat, TotalNatural DEF Inv, BufferInv
<1>3. n \in Nat /\ Len(buffer) + n <= BufferSize /\ BufferSize \in Nat
  BY <1>1, <1>2, Sizings
<1>4. buffer = Bytes(Parsed, Len(buffer)) /\ buffer \in Seq(Nat)
  BY <1>2, BytesLen DEF Inv, BufferInv
<1>5. Bytes(arrived, n) \in Seq(Nat) /\ Len(Bytes(arrived, n)) = n
  BY <1>2, <1>3, BytesLen
<1>6. Len(buffer') = Len(buffer) + n /\ buffer' \in Seq(Nat)
  BY <1>1, <1>4, <1>5, ConcatProperties
<1>7. \A i \in 1..Len(buffer) + n : buffer'[i] = Parsed + i
  <2> SUFFICES ASSUME NEW i \in 1..Len(buffer) + n PROVE buffer'[i] = Parsed + i
    OBVIOUS
  <2>1. buffer'[i] = IF i <= Len(buffer) THEN buffer[i]
                     ELSE Bytes(arrived, n)[i - Len(buffer)]
    BY <1>1, <1>4, <1>5, ConcatProperties
  <2>2. CASE i <= Len(buffer)
    BY <1>2, <1>4, <2>1, <2>2 DEF Bytes
  <2>3. CASE ~(i <= Len(buffer))
    <3>1. i - Len(buffer) \in 1..n
      BY <1>2, <1>3, <2>3
    <3>2. Bytes(arrived, n)[i - Len(buffer)] = arrived + (i - Len(buffer))
      BY <1>2, <1>3, <3>1, BytesLen
    <3> QED BY <1>2, <1>3, <2>1, <2>3, <3>2
  <2> QED BY <2>2, <2>3
<1>8. Parsed' = Parsed
  BY <1>1, <1>2, <1>3, <1>6 DEF Parsed
<1>9. buffer' = Bytes(Parsed', Len(buffer'))
  BY <1>6, <1>7, <1>8 DEF Bytes
<1>10. /\ \A p : Start(p)' = Start(p) /\ SizeOf(p)' = SizeOf(p)
       /\ Total' = Total /\ SentOK'
  BY EndsStay DEF Recv, Inv
<1>11. BufferInv'
  BY <1>1, <1>2, <1>3, <1>6, <1>9, <1>10 DEF BufferInv
<1>12. HandledInv' /\ UNCHANGED Promised!vars
  BY HandledStays DEF Recv
<1>13. PlaceInv' /\ LoopInv'
  <2>1. HeaderInv'
    BY <1>8, <1>10 DEF Recv, Inv, PlaceInv, HeaderInv
  <2>2. BodyInv'
    BY <1>8, <1>10 DEF Recv, Inv, PlaceInv, BodyInv
  <2> QED BY <2>1, <2>2 DEF Recv, Inv, PlaceInv, LoopInv
<1> QED BY <1>10, <1>11, <1>12, <1>13 DEF Inv

\* A header with a body is kept; one without is a packet.
LEMMA ReadHeaderInv ==
  ASSUME Inv, ReadHeader
  PROVE  Inv' /\ [Promised!Handle]_(Promised!vars)
<1> DEFINE k == Len(handled) + 1
<1>1. Enough /\ state = "WAITING_FOR_HEADER" /\ UNCHANGED ends /\ UNCHANGED arrived
  BY DEF ReadHeader
<1>2. Header = k /\ Len(handled) < Len(ends) /\ k \in 1..Len(ends) /\ k # 0
      /\ Len(handled) \in Nat
  BY <1>1, HeaderFound, Lengths DEF Inv, HandledInv
<1>3. HeaderSize \in 0..Len(buffer) /\ Parsed = Start(k) /\ HeaderSize \in Nat
  BY <1>1, ParsedNat, Sizings DEF Inv, PlaceInv, HeaderInv, Enough
<1>4. BufferInv' /\ Parsed' = Parsed + HeaderSize
  BY <1>1, <1>3, ShiftBytes DEF ReadHeader
<1>5. /\ \A p : Start(p)' = Start(p) /\ SizeOf(p)' = SizeOf(p)
      /\ Total' = Total /\ SentOK' /\ Len(ends)' = Len(ends)
  BY <1>1, EndsStay DEF Inv
<1>6. /\ SizeOf(k) \in Nat /\ k + 1 \in 1..Len(ends) + 1 /\ Start(k) \in Nat
      /\ Start(k + 1) = Start(k) + HeaderSize + SizeOf(k)
  BY <1>2, NextStart, StartsNatural DEF Inv
<1>7. currentHeader' = k /\ loop' = TRUE /\ LoopInv'
  BY <1>1, <1>2 DEF ReadHeader, Enough, LoopInv
<1>8. CASE SizeOf(k) > 0
  <2>1. /\ state' = "WAITING_FOR_PACKET" /\ dataToReceive' = SizeOf(k)
        /\ UNCHANGED handled
    BY <1>2, <1>8 DEF ReadHeader
  <2>2. HandledInv' /\ UNCHANGED Promised!vars
    BY <1>1, <2>1, HandledStays
  <2>3. BodyInv' /\ HeaderInv'
    BY <1>2, <1>3, <1>4, <1>5, <1>7, <2>1 DEF BodyInv, HeaderInv
  <2>4. PlaceInv'
    BY <1>2, <1>5, <1>7, <2>1, <2>3 DEF PlaceInv
  <2> QED BY <1>4, <1>5, <1>7, <2>2, <2>4 DEF Inv
<1>9. CASE ~(SizeOf(k) > 0)
  <2>1. /\ state' = "WAITING_FOR_HEADER" /\ dataToReceive' = HeaderSize
        /\ handled' = Append(handled, [header |-> k, body |-> <<>>])
    BY <1>1, <1>2, <1>9 DEF ReadHeader
  <2>2. SizeOf(k) = 0
    BY <1>6, <1>9
  <2>3. Sent[k] = [header |-> k, body |-> <<>>]
    <3>1. Bytes(Start(k) + HeaderSize, 0) = <<>>
      BY DEF Bytes
    <3> QED BY <1>2, <2>2, <3>1, SentPacket DEF Inv
  <2>4. HandledInv' /\ Len(handled') = k /\ Promised!Handle
    BY <1>1, <1>2, <2>1, <2>3, HandleNext
  <2>5. Parsed' = Start(k + 1)
    BY <1>3, <1>4, <1>6, <2>2
  <2>6. BodyInv' /\ HeaderInv'
    BY <1>5, <2>1, <2>4, <2>5 DEF BodyInv, HeaderInv
  <2>7. PlaceInv'
    BY <1>2, <1>5, <1>7, <2>1, <2>6 DEF PlaceInv
  <2> QED BY <1>4, <1>5, <1>7, <2>4, <2>7 DEF Inv
<1> QED BY <1>8, <1>9

\* The body that is at the front is that of the header before it.
LEMMA ReadBodyInv ==
  ASSUME Inv, ReadBody
  PROVE  Inv' /\ Promised!Handle
<1> DEFINE k == Len(handled) + 1
<1>1. Enough /\ state = "WAITING_FOR_PACKET" /\ UNCHANGED ends /\ UNCHANGED arrived
  BY DEF ReadBody
<1>2. /\ Len(handled) < Len(ends) /\ currentHeader = k /\ dataToReceive = SizeOf(k)
      /\ Parsed = Start(k) + HeaderSize
  BY <1>1 DEF Inv, PlaceInv, BodyInv
<1>3. Len(handled) \in Nat /\ k \in 1..Len(ends)
  BY <1>2, Lengths DEF Inv, HandledInv
<1>4. /\ SizeOf(k) \in Nat /\ k + 1 \in 1..Len(ends) + 1 /\ Start(k) \in Nat
      /\ Start(k + 1) = Start(k) + HeaderSize + SizeOf(k) /\ HeaderSize \in Nat
  BY <1>3, NextStart, StartsNatural, Sizings DEF Inv
<1>5. dataToReceive \in 0..Len(buffer)
  BY <1>1, <1>2, <1>4, ParsedNat DEF Inv, Enough
<1>6. BufferInv' /\ Parsed' = Parsed + dataToReceive
  BY <1>1, <1>5, ShiftBytes DEF ReadBody
<1>7. /\ \A p : Start(p)' = Start(p) /\ SizeOf(p)' = SizeOf(p)
      /\ Total' = Total /\ SentOK' /\ Len(ends)' = Len(ends)
  BY <1>1, EndsStay DEF Inv
<1>8. SubSeq(buffer, 1, dataToReceive) = Bytes(Start(k) + HeaderSize, SizeOf(k))
  BY <1>2, <1>5, FrontBytes
<1>9. Sent[k] = [header |-> currentHeader, body |-> SubSeq(buffer, 1, dataToReceive)]
  BY <1>2, <1>3, <1>8, SentPacket DEF Inv
<1>10. HandledInv' /\ Len(handled') = k /\ Promised!Handle
  <2>1. handled' = Append(handled, Sent[k])
    BY <1>9 DEF ReadBody
  <2> QED BY <1>1, <1>2, <2>1, HandleNext
<1>11. Parsed' = Start(k + 1)
  BY <1>2, <1>4, <1>6
<1>12. BodyInv' /\ HeaderInv'
  BY <1>7, <1>10, <1>11 DEF ReadBody, BodyInv, HeaderInv
<1>13. PlaceInv' /\ LoopInv'
  BY <1>1, <1>7, <1>12 DEF ReadBody, PlaceInv, Inv, LoopInv, Enough
<1> QED BY <1>6, <1>7, <1>10, <1>13 DEF Inv

\* A step that touches neither the bytes nor the packets.
LEMMA ReturnsInv ==
  ASSUME Inv, Returns \/ UNCHANGED vars
  PROVE  Inv' /\ UNCHANGED Promised!vars
<1>1. /\ UNCHANGED ends /\ UNCHANGED arrived /\ UNCHANGED buffer /\ UNCHANGED handled
      /\ UNCHANGED dataToReceive /\ UNCHANGED state /\ UNCHANGED currentHeader
  BY DEF Returns, vars
<1>2. /\ \A p : Start(p)' = Start(p) /\ SizeOf(p)' = SizeOf(p)
      /\ Total' = Total /\ SentOK' /\ Parsed' = Parsed
  BY <1>1, EndsStay DEF Inv, Parsed
<1>3. BufferInv'
  BY <1>1, <1>2 DEF Inv, BufferInv, Bytes
<1>4. HandledInv' /\ UNCHANGED Promised!vars
  BY <1>1, HandledStays
<1>5. HeaderInv' /\ BodyInv'
  BY <1>1, <1>2 DEF Inv, PlaceInv, HeaderInv, BodyInv
<1>6. PlaceInv'
  BY <1>1, <1>5 DEF Inv, PlaceInv, Returns, vars
<1>7. LoopInv'
  BY <1>1 DEF Inv, LoopInv, Returns, vars
<1> QED BY <1>2, <1>3, <1>4, <1>6, <1>7 DEF Inv

LEMMA StepInv ==
  ASSUME Inv, [Next]_vars
  PROVE  Inv' /\ [Promised!Handle]_(Promised!vars)
BY RecvInv, ReadHeaderInv, ReadBodyInv, ReturnsInv DEF Next

\* The inductive invariant: readData's state and what it handled are always
\* those that follow from the bytes received so far (client.cpp:67-121).
THEOREM InvCorrect == Spec => []Inv
<1>1. Init => Inv
  BY InitInv
<1>2. Inv /\ [Next]_vars => Inv'
  BY StepInv
<1> QED BY <1>1, <1>2, PTL DEF Spec

\* Every variable keeps its type: of readData's, that dataToReceive is the
\* size of a header or one that a header can hold (client.cpp:82-120).
THEOREM TypeCorrect == Spec => []TypeOK
<1>1. ASSUME Inv PROVE TypeOK
  <2>1. /\ Len(ends) \in Nat /\ Total \in Nat /\ Parsed \in Nat /\ Len(buffer) \in Nat
        /\ arrived = Parsed + Len(buffer)
    BY <1>1, Lengths, TotalNatural, ParsedNat DEF Inv
  <2>2. buffer \in Seq(1..Total)
    <3>1. \A i \in 1..Len(buffer) : Parsed + i \in 1..Total
      BY <1>1, <2>1 DEF Inv, BufferInv
    <3> QED BY <1>1, <2>1, <3>1 DEF Inv, BufferInv, Bytes
  <2>3. dataToReceive \in Sizes \cup {HeaderSize}
    <3>1. CASE state = "WAITING_FOR_HEADER"
      BY <1>1, <3>1 DEF Inv, PlaceInv, HeaderInv
    <3>2. CASE state = "WAITING_FOR_PACKET"
      <4>1. currentHeader \in 1..Len(ends) /\ dataToReceive = SizeOf(currentHeader)
        BY <1>1, <3>2, <2>1 DEF Inv, PlaceInv, BodyInv, HandledInv
      <4> QED BY <1>1, <4>1, NextStart DEF Inv
    <3> QED BY <1>1, <3>1, <3>2 DEF Inv, PlaceInv
  <2>4. currentHeader \in {0} \cup DOMAIN ends
    BY <1>1, <2>1, Lengths DEF Inv, PlaceInv
  <2> QED BY <1>1, <2>2, <2>3, <2>4, Sizings DEF TypeOK, Inv, SentOK, BufferInv, PlaceInv
<1> QED BY <1>1, InvCorrect, PTL

\* When readData returns there is room for another byte, so that recv is not
\* asked for none (client.cpp:70).
THEOREM RoomCorrect == Spec => []RoomToRead
<1>1. ASSUME Inv PROVE RoomToRead
  <2>1. dataToReceive \in Nat /\ dataToReceive <= BufferSize
    BY <1>1, WaitsFor
  <2> QED BY <1>1, <2>1, Sizings, ParsedNat DEF Inv, LoopInv, RoomToRead
<1> QED BY <1>1, InvCorrect, PTL

\* However recv cuts the stream, what processPacket is given is a packet the
\* peer sent, whole, each once and in the order they were sent: the safety
\* part of DeliversPackets (client.cpp:67-121).
THEOREM StreamCorrect == Spec => Promised!Safe
<1>1. Init => Promised!Init
  BY InitInv
<1>2. Inv /\ [Next]_vars => [Promised!Handle]_(Promised!vars)
  BY StepInv
<1> QED BY <1>1, <1>2, InvCorrect, PTL DEF Spec, Promised!Safe
=============================================================================
