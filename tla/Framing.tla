------------------------------ MODULE Framing ------------------------------
(***************************************************************************)
(* Client::readData of server/client.cpp on its bytes: what one recv       *)
(* brings is appended to the buffer, and as long as the buffer holds what  *)
(* is waited for (a header, or the body the last header announced) that is *)
(* handled and the rest shifted down.                                      *)
(*                                                                         *)
(* A byte is its place in all that the peer sends, so no two are alike.  A *)
(* handled packet is the header and the bytes processPacket is given.  The *)
(* buffer is its first bufferPointer bytes.  memcpy shifts it although the *)
(* two ranges may overlap, which the standard leaves undefined: this is a  *)
(* memcpy that copies from the lowest byte up, or is memmove, as that of   *)
(* glibc for x86-64 is.                                                    *)
(***************************************************************************)
EXTENDS Integers, Sequences

CONSTANTS
  HeaderSize,  \* sizeof (THeader)
  BufferSize,  \* sizeof (buffer)
  Sizes,       \* values of a header's size
  MaxPackets   \* bound: packets the peer sends

\* 3, 1 MB and 0..65535 in the code.
ASSUME FramingAssumption ==
  /\ {HeaderSize, BufferSize, MaxPackets} \subseteq Nat /\ Sizes \subseteq Nat
  /\ 0 < HeaderSize /\ HeaderSize <= BufferSize
  /\ \A n \in Sizes : n <= BufferSize

VARIABLES
  ends,           \* the place of the last byte of each packet the peer sends
  arrived,        \* bytes of the peer received so far
  buffer,         \* the first bufferPointer bytes of Client::buffer
  dataToReceive, state, currentHeader,
  loop,           \* is readData in its while loop?
  handled         \* what processPacket was given, in order

vars == <<ends, arrived, buffer, dataToReceive, state, currentHeader, loop,
          handled>>

\* The bytes sent before packet p, and header.size of it.
Start(p) == IF p = 1 THEN 0 ELSE ends[p - 1]

SizeOf(p) == ends[p] - Start(p) - HeaderSize

\* All that the peer sends.
Total == Start(Len(ends) + 1)

Bytes(from, n) == [i \in 1..n |-> from + i]

Init ==
  /\ \E n \in 0..MaxPackets : ends \in [1..n -> 1..n * (HeaderSize + BufferSize)]
  /\ \A p \in DOMAIN ends : SizeOf(p) \in Sizes
  /\ arrived = 0 /\ buffer = <<>>
  /\ dataToReceive = HeaderSize /\ state = "WAITING_FOR_HEADER"
  /\ currentHeader = 0 /\ loop = FALSE /\ handled = <<>>

\* recv: any number of the bytes under way that there is room for.
Recv ==
  /\ ~loop /\ loop' = TRUE
  /\ \E n \in 1..BufferSize - Len(buffer) :
       /\ arrived + n <= Total
       /\ arrived' = arrived + n
       /\ buffer' = buffer \o Bytes(arrived, n)
  /\ UNCHANGED <<ends, dataToReceive, state, currentHeader, handled>>

\* Mutant: a memcpy that copies from the highest byte down.
ShiftDownward(n) ==
  LET rest == Len(buffer) - n
      copied[i \in 1..rest] == IF i + n <= rest THEN copied[i + n]
                               ELSE buffer[i + n]
  IN  buffer' = [i \in 1..rest |-> copied[i]]

Shift(n) == buffer' = SubSeq(buffer, n + 1, Len(buffer))

Enough == loop /\ Len(buffer) >= dataToReceive

\* The packet whose header is at the front of the buffer; 0 if it is none.
IsHeader(p) == SubSeq(buffer, 1, HeaderSize) = Bytes(Start(p), HeaderSize)

Header == IF \E p \in DOMAIN ends : IsHeader(p)
          THEN CHOOSE p \in DOMAIN ends : IsHeader(p) ELSE 0

\* Mutant: size is taken to count the header as well.
ReadHeaderCounted ==
  /\ Enough /\ state = "WAITING_FOR_HEADER" /\ Header # 0
  /\ currentHeader' = Header /\ state' = "WAITING_FOR_PACKET"
  /\ dataToReceive' = HeaderSize + SizeOf(Header)
  /\ Shift(HeaderSize)
  /\ UNCHANGED <<ends, arrived, loop, handled>>

ReadHeader ==
  /\ Enough /\ state = "WAITING_FOR_HEADER"
  /\ currentHeader' = Header
  /\ IF Header # 0 /\ SizeOf(Header) > 0
     THEN /\ state' = "WAITING_FOR_PACKET" /\ dataToReceive' = SizeOf(Header)
          /\ UNCHANGED handled
     ELSE /\ dataToReceive' = HeaderSize
          /\ handled' = Append(handled, [header |-> Header, body |-> <<>>])
          /\ UNCHANGED state
  /\ Shift(HeaderSize)
  /\ UNCHANGED <<ends, arrived, loop>>

ReadBody ==
  /\ Enough /\ state = "WAITING_FOR_PACKET"
  /\ state' = "WAITING_FOR_HEADER"
  /\ handled' = Append(handled, [header |-> currentHeader,
                                 body |-> SubSeq(buffer, 1, dataToReceive)])
  /\ Shift(dataToReceive) /\ dataToReceive' = HeaderSize
  /\ UNCHANGED <<ends, arrived, currentHeader, loop>>

Returns ==
  /\ loop /\ Len(buffer) < dataToReceive
  /\ loop' = FALSE
  /\ UNCHANGED <<ends, arrived, buffer, dataToReceive, state, currentHeader,
                 handled>>

Next == Recv \/ ReadHeader \/ ReadBody \/ Returns

Spec == Init /\ [][Next]_vars

\* select keeps finding the bytes that arrive, and the thread runs.
FairSpec == Spec /\ WF_vars(Next)

-----------------------------------------------------------------------------
(* Properties.                                                             *)

\* Every variable has its type.
TypeOK ==
  /\ ends \in Seq(Nat) /\ \A p \in DOMAIN ends : SizeOf(p) \in Sizes
  /\ arrived \in 0..Total
  /\ buffer \in Seq(1..Total) /\ Len(buffer) <= BufferSize
  /\ dataToReceive \in Sizes \cup {HeaderSize}
  /\ state \in {"WAITING_FOR_HEADER", "WAITING_FOR_PACKET"}
  /\ currentHeader \in {0} \cup DOMAIN ends /\ loop \in BOOLEAN

\* readData returns with room in the buffer, for every size a header can
\* hold: otherwise recv would be asked for 0 bytes, return 0, and the peer be
\* taken for gone (client.cpp:70-76).  FramingProofs proves it.
RoomToRead == ~loop => Len(buffer) < BufferSize

Sent == [p \in DOMAIN ends |->
           [header |-> p, body |-> Bytes(Start(p) + HeaderSize, SizeOf(p))]]

\* However the stream is cut into recvs, the packets handled are those sent.
Promised == INSTANCE PacketStream WITH sent <- Sent, handled <- handled

DeliversPackets == Promised!Spec
=============================================================================
