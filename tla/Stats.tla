------------------------------- MODULE Stats -------------------------------
(***************************************************************************)
(* How the server answers a PACKET_STATS_REQUEST: getRecords (db.cpp) and  *)
(* generateAndSendStats (client.cpp), in the arithmetic of their types.    *)
(*                                                                         *)
(* A date is a uint32_t of which only the width, W values, is kept; the    *)
(* table binds it as a signed int.  A record is its date and whether it    *)
(* has the disk the request names.  The type of a request is a byte nobody *)
(* checks: CPU, RAM or TEMP, of which all machines tell, DISK, or another. *)
(* A point of the reply is the set of records it is the mean of, or NoData *)
(* for the -1 of an empty bucket.                                          *)
(*                                                                         *)
(* The call runs inside the one thread of the server: a request that never *)
(* ends stops every client.                                                *)
(***************************************************************************)
EXTENDS Integers, Sequences, FiniteSets

CONSTANTS
  W,          \* number of dates: 2^32 in the code
  MaxRecords, \* bound: records of the agent in the table
  MaxPoints,  \* bound: points a request may ask for
  Memory,     \* points a reply can hold before memory ends
  NoData      \* the point of an empty bucket

ASSUME StatsAssumption ==
  /\ {W, MaxRecords, MaxPoints, Memory} \subseteq Nat
  /\ W > 1

Dates == 0..W - 1

VARIABLES
  table,     \* the agent's records: which have the disk, by date
  req,       \* the request
  pc,        \* query, bucket, sent, died
  rec,       \* the dates of the records read, from idx on
  cur, step, \* the bucket's first date and its width
  points     \* the points of the reply so far

vars == <<table, req, pc, rec, cur, step, points>>

Requests == [start : Dates, end : Dates, points : 0..MaxPoints,
             type : {"MACHINE", "DISK", "OTHER"}]

Tables == UNION {[S -> BOOLEAN] : S \in {T \in SUBSET Dates :
                                           Cardinality(T) <= MaxRecords}}

Init ==
  /\ table \in Tables
  /\ req \in Requests /\ pc = "query"
  /\ rec = {} /\ cur = 0 /\ step = 0 /\ points = <<>>

\* Mutant: the sum is not brought back to 32 bits.
AddWide(a, b) == a + b

Add(a, b) == (a + b) % W
Sub(a, b) == (a - b) % W

\* sqlite3_bind_int takes, and compares, a signed int.
Signed(d) == IF 2 * d < W THEN d ELSE d - W

\* Mutant: the last date is taken for the one after it.
getRecordsUpTo(first, last) ==
  {d \in DOMAIN table : Signed(first) <= Signed(d) /\ Signed(d) <= Signed(Add(last, 1))}

\* They are read in the order of their signed dates.
getRecords(first, last) ==
  {d \in DOMAIN table : Signed(first) <= Signed(d) /\ Signed(d) <= Signed(last)}

\* Mutant: off by one in the number of buckets.
WidthOneMore(range, n) == range \div (n + 1)

Width(range, n) == range \div n

\* An empty reply: the query failed, or no points were asked for.
SendNone ==
  /\ pc = "query"
  /\ pc' = "sent" /\ points' = <<>>
  /\ UNCHANGED <<table, req, rec, cur, step>>

\* The records before end are read, and the range is cut.
Cut ==
  /\ pc = "query" /\ req.points > 0
  /\ rec' = getRecords(req.start, Sub(req.end, 1))
  /\ cur' = req.start
  /\ step' = Width(Sub(req.end, req.start), req.points)
  /\ pc' = "bucket"
  /\ UNCHANGED <<table, req, points>>

\* What is left of some records, in that order, from the first on that is not
\* before date t.
SkipTo(left, t) == {d \in left : \E e \in left : e >= t /\ Signed(e) <= Signed(d)}

\* Mutant: a range that ends where a bucket does gets one bucket more.
MoreOneMore == cur <= req.end

More == cur < req.end

\* The records from the bucket's first date on, and those after the bucket.
From  == SkipTo(rec, cur)
After == SkipTo(From, Add(cur, step))
Valid == From \ After

\* The switch has a case for it.
Known == req.type # "OTHER"

\* Records of another type than those known push nothing.
Pushes == Valid = {} \/ Known

Mean ==
  IF Valid = {} THEN NoData
  ELSE {d \in Valid : req.type = "DISK" => table[d]}

Bucket ==
  /\ pc = "bucket" /\ More
  /\ \/ Pushes /\ Len(points) < Memory /\ points' = Append(points, Mean)
     \/ ~Pushes /\ UNCHANGED points
  /\ rec' = After /\ cur' = Add(cur, step)
  /\ UNCHANGED <<table, req, pc, step>>

\* The points are pushed until std::bad_alloc, which nobody catches.
OutOfMemory ==
  /\ pc = "bucket" /\ More /\ Pushes /\ Len(points) = Memory
  /\ pc' = "died"
  /\ UNCHANGED <<table, req, rec, cur, step, points>>

Send ==
  /\ pc = "bucket" /\ ~More
  /\ pc' = "sent"
  /\ UNCHANGED <<table, req, rec, cur, step, points>>

Next == SendNone \/ Cut \/ Bucket \/ OutOfMemory \/ Send

Spec == Init /\ [][Next]_vars

\* The thread runs.
FairSpec == Spec /\ WF_vars(Next)

-----------------------------------------------------------------------------
(* Properties.                                                             *)

\* Every variable keeps its type, the two dates their 32 bits.
TypeOK ==
  /\ table \in Tables /\ req \in Requests
  /\ pc \in {"query", "bucket", "sent", "died"}
  /\ rec \subseteq DOMAIN table
  /\ cur \in Dates /\ step \in Dates
  /\ \A i \in DOMAIN points :
       points[i] = NoData \/ points[i] \subseteq DOMAIN table

Ceil(a, b) == (a + b - 1) \div b

\* A range that is not empty, of at least a date per point; no bucket ends
\* after the last date there is, and the signed dates are in the same order.
Fits ==
  LET range == req.end - req.start
      width == range \div req.points
  IN  /\ req.points > 0 /\ range >= req.points
      /\ req.start + Ceil(range, width) * width < W
      /\ Signed(req.start) <= Signed(req.end - 1)

\* What a reply that was sent in full says.
Answer == pc = "sent" /\ points # <<>>

\* The reply to a request of a known type is the histogram: point i is the
\* mean of exactly the records dated in the i-th interval of the range, -1 if
\* there are none, and (for a disk) 0 if none of them has it; no record is
\* counted twice, left out at a boundary, or from outside of the range
\* (client.cpp:435-512).  Of another type only the empty intervals have a
\* point, which does not tell which they are (client.cpp:492-506).
Histogram ==
  Answer /\ Fits /\ Known =>
    \A i \in DOMAIN points :
      LET lo == req.start + (i - 1) * step
          dated == {d \in DOMAIN table : lo <= d /\ d < lo + step
                                           /\ d < req.end}
      IN  points[i] = IF dated = {} THEN NoData
                      ELSE {d \in dated : req.type = "DISK" => table[d]}

\* The width is rounded down, so a reply has less than twice as many points as
\* were asked for; of a known type it has no fewer than that, and its last
\* bucket reaches the end.
PointsBetween ==
  Answer /\ Fits =>
    /\ Len(points) < 2 * req.points
    /\ Known => /\ req.points <= Len(points)
                /\ req.start + Len(points) * step >= req.end

\* A request that fits, or whose range is empty, is answered; any other may
\* hold the server for ever: with more points than dates step is 0, and near
\* the last date cur wraps around (client.cpp:436, 485).
Answered ==
  (pc = "query" /\ (Fits \/ req.start >= req.end)) ~> pc = "sent"

=============================================================================
